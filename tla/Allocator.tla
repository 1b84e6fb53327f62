------------------------------ MODULE Allocator ------------------------------
(***************************************************************************)
(* What malloc() and free() promise their callers, without headers, tags   *)
(* or lists: blocks of the size asked for, inside the arena, that never    *)
(* overlap, and a refusal only when no gap between the blocks is as large  *)
(* as the request with its overhead.                                       *)
(***************************************************************************)
EXTENDS Integers

CONSTANTS
    Sizes,      \* the sizes callers ask for
    Overhead    \* bytes of a gap that bookkeeping and rounding may use up

VARIABLES
    arena,      \* <<low, high>>: blocks lie in low .. high - 1; empty if low = high
    blocks,     \* pointer |-> size of each block handed out
    ret         \* the last call and what it returned

vars == <<arena, blocks, ret>>

End(p) == p + blocks[p]

NoBlocks == [p \in {} |-> 0]

Init ==
    /\ arena = <<0, 0>>
    /\ blocks = NoBlocks
    /\ ret = [op |-> "none", size |-> 0, p |-> 0]

\* The arena is fixed once, before the first call.
Setup ==
    /\ arena = <<0, 0>> /\ blocks = NoBlocks /\ ret.op = "none"
    /\ arena' \in Nat \X Nat
    /\ UNCHANGED <<blocks, ret>>

Alloc(size) ==
    LET p == ret'.p IN
    /\ ret' = [op |-> "malloc", size |-> size, p |-> p]
    /\ arena[1] <= p /\ p + size <= arena[2]
    /\ \A q \in DOMAIN blocks : p + size <= q \/ End(q) <= p
    /\ blocks' = [q \in DOMAIN blocks \cup {p} |-> IF q = p THEN size ELSE blocks[q]]
    /\ UNCHANGED arena

\* The bytes from g up to the next block, or to the end of the arena, are free.
Gap(g, size) ==
    /\ arena[1] <= g /\ g + size <= arena[2]
    /\ \A q \in DOMAIN blocks : g + size <= q \/ End(q) <= g

\* Every gap starts at the arena's start or at the end of a block.
Refuse(size) ==
    /\ \A g \in {arena[1]} \cup {End(q) : q \in DOMAIN blocks} : ~Gap(g, size + Overhead)
    /\ ret' = [op |-> "malloc", size |-> size, p |-> 0]
    /\ UNCHANGED <<arena, blocks>>

Release(p) ==
    /\ blocks' = [q \in DOMAIN blocks \ {p} |-> blocks[q]]
    /\ ret' = [op |-> "free", size |-> 0, p |-> p]
    /\ UNCHANGED arena

Next ==
    \/ Setup
    \/ \E size \in Sizes : Alloc(size) \/ Refuse(size)
    \/ \E p \in DOMAIN blocks : Release(p)

Spec == Init /\ [][Next]_vars
=============================================================================
