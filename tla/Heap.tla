-------------------------------- MODULE Heap --------------------------------
(***************************************************************************)
(* The heap of the boot loader, mm/heap/malloc.c: regions laid out end to  *)
(* end, each with a two-word header (the size of the region before it, its *)
(* own size), a list of the free ones, first-fit allocation with splitting *)
(* and release with merging on both sides.                                 *)
(*                                                                         *)
(* malloc() and free() run between lock_irq_psr() and unlock_irq_psr(),    *)
(* and the loader has one thread of control besides its interrupt          *)
(* handlers, so each call is one step; the calls may come in any order,    *)
(* since both the main line and interrupt handlers make them.              *)
(*                                                                         *)
(* Addresses and sizes are the real byte values.  A header word is kept as *)
(* the code keeps it: the low two bits are a tag, 0 for a free region, 1   *)
(* for a used one.                                                         *)
(***************************************************************************)
EXTENDS Integers, Sequences, SequencesExt, FiniteSets

CONSTANTS
    HeapBounds,   \* the pairs <<start, end>> heap_init() may be configured with
    Sizes,        \* the sizes callers ask malloc() for
    SizeMod,      \* 2^32 in the code: the wrap-around of size_t
    MaxHeld       \* bound: blocks a caller holds at a time

WORD_SIZE       == 4
DWORD_SIZE      == 8
LIST_NODE_SIZE  == 8       \* two pointers
\* Mutant: room for the header only, not for the list node of the remainder.
MutantHeaderOnly == 8

MEM_REGION_SIZE == 16      \* sizeof(struct mem_region)
MIN_HEAP_LEN    == 1024
NULL            == 0

(***************************************************************************)
(* malloc(0), and a size within LIST_NODE_SIZE of 2^32, round to a region  *)
(* of no bytes, whose list node would lie over the next header: callers    *)
(* must not ask for them.                                                  *)
(***************************************************************************)
ASSUME SizesAssumption ==
    /\ SizeMod \in Nat
    /\ Sizes \subseteq 1 .. (SizeMod - LIST_NODE_SIZE)

ASSUME BoundsAssumption ==
    /\ MaxHeld \in Nat
    /\ \A b \in HeapBounds : b \in (Nat \ {0}) \X Nat /\ b[2] < SizeMod

VARIABLES
    booted,               \* "no", "ok" or "EINVAL": what heap_init() returned
    first, tail,          \* the first header and the sentinel, set by __heap_init
    curr_size, pre_size,  \* the header words, by the address of the header
    g_free_region_list,   \* the headers on the free list, from its head
    held,                 \* the caller's blocks: pointer |-> size asked for
    ret                   \* the last call and what it returned

region == <<first, tail, curr_size, pre_size>>
vars   == <<booted, region, g_free_region_list, held, ret>>

-----------------------------------------------------------------------------
(* Header words.                                                           *)

WORD_ALIGN_DOWN(n) == n - (n % WORD_SIZE)
WORD_ALIGN_UP(n)   == WORD_ALIGN_DOWN(n + WORD_SIZE - 1)

\* Mutant: LIST_NODE_ALIGN rounds down.
MutantRoundDown(size) == size - (size % LIST_NODE_SIZE)

LIST_NODE_ALIGN(size) ==
    LET n == (size + LIST_NODE_SIZE - 1) % SizeMod
    IN  n - (n % LIST_NODE_SIZE)

IS_FREE(word)  == word % WORD_SIZE = 0
GET_SIZE(word) == WORD_ALIGN_DOWN(word)

\* size | 1
SetUsed(size) == IF size % 2 = 0 THEN size + 1 ELSE size

\* *a = v, in a memory that holds only header words
Store(words, a, v) ==
    [x \in DOMAIN words \cup {a} |-> IF x = a THEN v ELSE words[x]]

NoWords == [x \in {} |-> 0]

Drop(words, S) == [x \in DOMAIN words \ S |-> words[x]]

get_successor(cs, a)    == a + DWORD_SIZE + GET_SIZE(cs[a])
get_predeccessor(ps, a) == a - WORD_ALIGN_DOWN(ps[a]) - DWORD_SIZE

\* region_set_size(): both copies of the size, the region's own and the one
\* in the header after it.  [cs, ps] is the memory after the call.
region_set_size(mem, a, size) ==
    LET cs == Store(mem.cs, a, size)
    IN  [cs |-> cs, ps |-> Store(mem.ps, get_successor(cs, a), size)]

list_del(s, i)      == RemoveAt(s, i)
list_add_tail(s, a) == Append(s, a)

-----------------------------------------------------------------------------
Init ==
    /\ booted = "no"
    /\ first = NULL /\ tail = NULL
    /\ curr_size = NoWords /\ pre_size = NoWords
    /\ g_free_region_list = <<>>
    /\ held = NoWords
    /\ ret = [op |-> "none", size |-> 0, p |-> NULL]

\* __heap_init(start, end)
HeapInit(start, end) ==
    LET a == WORD_ALIGN_UP(start)
        e == WORD_ALIGN_DOWN(end)
    IN
    /\ booted = "no"
    /\ UNCHANGED <<held, ret>>
    /\ \/ /\ a + MIN_HEAP_LEN >= e
          /\ booted' = "EINVAL"
          /\ UNCHANGED <<region, g_free_region_list>>
       \/ /\ a + MIN_HEAP_LEN < e
          /\ booted' = "ok"
          /\ first' = a
          /\ tail' = e - DWORD_SIZE
          /\ LET size == e - DWORD_SIZE - a - DWORD_SIZE IN
             /\ curr_size' = [x \in {first', tail'} |-> IF x = tail' THEN 1 ELSE size]
             /\ pre_size'  = [x \in {first', tail'} |-> IF x = tail' THEN size ELSE 1]
          /\ g_free_region_list' = list_add_tail(g_free_region_list, first')

Fits(i, alloc_size) == curr_size[g_free_region_list[i]] >= alloc_size

\* Entry i of the free list is where list_for_each() stops.
FirstFit(i, alloc_size) ==
    /\ Fits(i, alloc_size)
    /\ \A j \in 1 .. (i - 1) : ~Fits(j, alloc_size)

\* Mutant: the tag of a block that takes a whole region is not set.
MutantNoTag(i) ==
    /\ g_free_region_list' = list_del(g_free_region_list, i)
    /\ UNCHANGED <<curr_size, pre_size>>

\* The remainder is too small to be a region: the block takes all of it.
TakeWhole(i) ==
    LET c == g_free_region_list[i]
        m == region_set_size([cs |-> curr_size, ps |-> pre_size], c,
                             SetUsed(curr_size[c]))
    IN
    /\ curr_size' = m.cs
    /\ pre_size' = m.ps
    /\ g_free_region_list' = list_del(g_free_region_list, i)

Split(i, alloc_size) ==
    LET c     == g_free_region_list[i]
        reset == curr_size[c] - alloc_size
        m1    == region_set_size([cs |-> curr_size, ps |-> pre_size], c,
                                 SetUsed(alloc_size))
        s     == get_successor(m1.cs, c)
        m2    == region_set_size(m1, s, reset - DWORD_SIZE)
    IN
    /\ curr_size' = m2.cs
    /\ pre_size' = m2.ps
    /\ g_free_region_list' = list_add_tail(list_del(g_free_region_list, i), s)

\* malloc(size), which zalloc() and dma_alloc_coherent() return unchanged
Malloc(size) ==
    LET alloc_size == LIST_NODE_ALIGN(size) IN
    /\ booted # "no"
    /\ Cardinality(DOMAIN held) < MaxHeld
    /\ \E i \in 1 .. Len(g_free_region_list) :
         LET c == g_free_region_list[i] IN
         /\ FirstFit(i, alloc_size)
         /\ \/ /\ curr_size[c] - alloc_size < MEM_REGION_SIZE
               /\ TakeWhole(i)
            \/ /\ curr_size[c] - alloc_size >= MEM_REGION_SIZE
               /\ Split(i, alloc_size)
         /\ held' = Store(held, c + DWORD_SIZE, size)
         /\ ret' = [op |-> "malloc", size |-> size, p |-> c + DWORD_SIZE]
    /\ UNCHANGED <<booted, first, tail>>

\* malloc(size) when no free region is large enough
MallocFail(size) ==
    LET alloc_size == LIST_NODE_ALIGN(size) IN
    /\ booted # "no"
    /\ \A i \in 1 .. Len(g_free_region_list) : ~Fits(i, alloc_size)
    /\ ret' = [op |-> "malloc", size |-> size, p |-> NULL]
    /\ UNCHANGED <<booted, region, g_free_region_list, held>>

\* Mutant: the successor is taken in but stays on the free list.
MutantKeepLinked(c) ==
    LET s == get_successor(curr_size, c) IN
    IF IS_FREE(curr_size[s])
    THEN LET m == region_set_size([cs |-> curr_size, ps |-> pre_size], c,
                      GET_SIZE(curr_size[c]) + curr_size[s] + DWORD_SIZE)
         IN  [cs |-> Drop(m.cs, {s}), ps |-> Drop(m.ps, {s}), list |-> g_free_region_list]
    ELSE LET m == region_set_size([cs |-> curr_size, ps |-> pre_size], c,
                                  GET_SIZE(curr_size[c]))
         IN  [cs |-> m.cs, ps |-> m.ps, list |-> g_free_region_list]

\* Mutant: the tag is cleared in the region's own header only.
MutantOneTag(c) ==
    [cs |-> Store(curr_size, c, GET_SIZE(curr_size[c])), ps |-> pre_size,
     list |-> g_free_region_list]

\* Mutant: free() never looks at the successor.
MutantNoSuccessor(c) ==
    LET m == region_set_size([cs |-> curr_size, ps |-> pre_size], c, GET_SIZE(curr_size[c]))
    IN  [cs |-> m.cs, ps |-> m.ps, list |-> g_free_region_list]

\* First half of free(): the region takes in its successor if that is free.
\* The header words it takes in are payload from now on, so they are dropped.
MergeSuccessor(c) ==
    LET s == get_successor(curr_size, c) IN
    IF IS_FREE(curr_size[s])
    THEN LET m == region_set_size([cs |-> curr_size, ps |-> pre_size], c,
                      GET_SIZE(curr_size[c]) + curr_size[s] + DWORD_SIZE)
             i == CHOOSE k \in 1 .. Len(g_free_region_list) : g_free_region_list[k] = s
         IN  [cs |-> Drop(m.cs, {s}), ps |-> Drop(m.ps, {s}),
              list |-> list_del(g_free_region_list, i)]
    ELSE LET m == region_set_size([cs |-> curr_size, ps |-> pre_size], c,
                                  GET_SIZE(curr_size[c]))
         IN  [cs |-> m.cs, ps |-> m.ps, list |-> g_free_region_list]

\* Mutant: free() never looks at the predecessor.
MutantNoPredecessor(p) ==
    LET c == p - DWORD_SIZE
        m == MergeSuccessor(c)
    IN
    /\ curr_size' = m.cs
    /\ pre_size' = m.ps
    /\ g_free_region_list' = list_add_tail(m.list, c)
    /\ held' = Drop(held, {p})
    /\ ret' = [op |-> "free", size |-> 0, p |-> p]
    /\ UNCHANGED <<booted, first, tail>>

\* free(p)
Free(p) ==
    LET c == p - DWORD_SIZE
        m == MergeSuccessor(c)
    IN
    /\ \/ /\ IS_FREE(m.ps[c])
          /\ LET q == get_predeccessor(m.ps, c)
                 n == region_set_size([cs |-> m.cs, ps |-> m.ps], q,
                                      m.cs[q] + m.cs[c] + DWORD_SIZE)
             IN  /\ curr_size' = Drop(n.cs, {c})
                 /\ pre_size' = Drop(n.ps, {c})
          /\ g_free_region_list' = m.list
       \/ /\ ~IS_FREE(m.ps[c])
          /\ curr_size' = m.cs
          /\ pre_size' = m.ps
          /\ g_free_region_list' = list_add_tail(m.list, c)
    /\ held' = Drop(held, {p})
    /\ ret' = [op |-> "free", size |-> 0, p |-> p]
    /\ UNCHANGED <<booted, first, tail>>

Next ==
    \/ \E b \in HeapBounds : HeapInit(b[1], b[2])
    \/ \E size \in Sizes : Malloc(size)
    \/ \E size \in Sizes : MallocFail(size)
    \/ \E p \in DOMAIN held : Free(p)

Spec == Init /\ [][Next]_vars
-----------------------------------------------------------------------------
(* Correctness.                                                            *)

Headers     == DOMAIN curr_size
FreeHeaders == {a \in Headers : IS_FREE(curr_size[a])}
Succ(a)     == get_successor(curr_size, a)

\* The variables have their types: headers are word-aligned addresses with
\* both words set, the free list holds headers, the caller's blocks are sizes.
TypeOK ==
    /\ booted \in {"no", "ok", "EINVAL"}
    /\ first \in Nat /\ tail \in Nat
    /\ curr_size \in [Headers -> Nat] /\ pre_size \in [Headers -> Nat]
    /\ Headers \subseteq Nat
    /\ g_free_region_list \in Seq(Headers)
    /\ held \in [DOMAIN held -> Sizes] /\ DOMAIN held \subseteq Nat
    /\ ret.op \in {"none", "malloc", "free"} /\ ret.size \in Nat /\ ret.p \in Nat

\* The boundary tags agree: whatever was split and merged, every region but
\* the sentinel ends where the next header starts, the next header repeats its
\* size and tag, and the two ends of the heap read as used, so that free()
\* never merges past them.
BoundaryTags ==
    booted = "ok" =>
      /\ {first, tail} \subseteq Headers
      /\ pre_size[first] = 1 /\ curr_size[tail] = 1
      /\ \A a \in Headers : a \in first .. tail
      /\ \A a \in Headers \ {tail} :
           /\ Succ(a) \in Headers
           /\ pre_size[Succ(a)] = curr_size[a]
           /\ \A b \in Headers : a < b => Succ(a) <= b

\* g_free_region_list has every free region, once, and nothing else: no region
\* is lost to malloc(), handed out twice, or unlinked twice by free().
FreeListExact ==
    /\ {g_free_region_list[i] : i \in 1 .. Len(g_free_region_list)} = FreeHeaders
    /\ \A i, j \in 1 .. Len(g_free_region_list) :
         i # j => g_free_region_list[i] # g_free_region_list[j]

\* A free region has room for the list node that malloc.c keeps in its payload,
\* so linking it never writes over the next header.
ListNodeFits ==
    \A a \in FreeHeaders : curr_size[a] >= LIST_NODE_SIZE

\* free() merges completely: two free regions are never neighbours, in
\* whatever order the blocks came back.
FullyMerged ==
    booted = "ok" =>
      \A a \in FreeHeaders : ~IS_FREE(curr_size[Succ(a)])

\* The used regions are exactly the caller's blocks, and each block has the
\* room asked for before the next header: nothing leaks when a remainder is
\* given away with a block, and no block runs into its neighbour.
BlocksFit ==
    /\ {a + DWORD_SIZE : a \in (Headers \ FreeHeaders) \ {tail}} = DOMAIN held
    /\ \A p \in DOMAIN held : p + held[p] <= Succ(p - DWORD_SIZE)

\* Once every block is back the heap is again the single region that
\* heap_init() made: no sequence of calls fragments it for good.
NothingHeldNothingLost ==
    (booted = "ok" /\ DOMAIN held = {}) =>
      /\ Headers = {first, tail}
      /\ curr_size[first] = tail - first - DWORD_SIZE
      /\ g_free_region_list = <<first>>

=============================================================================
