-------------------------------- MODULE Ymodem --------------------------------
(***************************************************************************)
(* ymodem_load() of lib/uart/ymodem.c: a file is received over the serial  *)
(* line in numbered blocks, the first of which only names it.  A block is  *)
(* answered with ACK, or with NAK if its number is not the expected one;   *)
(* its CRC is read and never looked at.                                    *)
(*                                                                         *)
(* The line may lose a block or an answer, bytes inside a block, or the    *)
(* byte a block begins with.  The sender is not in the repository: it      *)
(* starts on a 'C', sends the first data block on the 'C' that follows the *)
(* answer to the header, and repeats a block on NAK or when its timer runs *)
(* out.                                                                    *)
(***************************************************************************)
EXTENDS Integers, Sequences

CONSTANTS
    BlkMod,        \* 256: the block number is one byte
    MaxBlocks,     \* bound: data blocks of the file
    MaxLost,       \* bound: blocks and answers lost
    MaxCut,        \* bound: blocks that lose a part
    MaxEarly       \* bound: times the sender's timer runs out too early

VARIABLES
    n,          \* data blocks of the file
    dst,        \* opt->dst # NULL: the data is written to a file as well
    pc,         \* "start", "hello", "data", "returned"
    blk,        \* the number that is expected
    load,       \* the blocks that load_size counts, by their position
    ret,        \* "none", "size", "error"
    down, up,   \* blocks under way to the receiver, answers under way from it
    sender,     \* [pos: what waits for an answer, acked: the header was answered]
    used        \* how much of the bounds is used up; acks: lost ACKs and 'C's

rxVars == <<pc, blk, load, ret>>
vars == <<n, dst, pc, blk, load, ret, down, up, sender, used>>

\* Position 0 is the header, 1 .. n are the data, n + 1 is the EOT.
Block(pos) == [pos |-> pos, num |-> pos % BlkMod, eot |-> pos = n + 1, part |-> "whole"]

Init ==
    /\ n \in 0 .. MaxBlocks /\ dst \in BOOLEAN
    /\ pc = "start" /\ blk = 0 /\ load = <<>> /\ ret = "none"
    /\ down = <<>> /\ up = <<>>
    /\ sender = [pos |-> -1, acked |-> FALSE]
    /\ used = [lost |-> 0, acks |-> 0, cut |-> 0, early |-> 0]

-----------------------------------------------------------------------------
(* The receiver.                                                           *)

Return(r) == pc' = "returned" /\ ret' = r

\* The file may not open.
Start ==
    /\ pc = "start"
    /\ \/ pc' = "hello" /\ UNCHANGED ret
       \/ dst /\ Return("error")
    /\ UNCHANGED <<n, dst, blk, load, down, up, sender, used>>

\* The 'C' every two seconds until something comes.
SendC ==
    /\ pc = "hello" /\ down = <<>> /\ up = <<>>
    /\ up' = <<"C">>
    /\ UNCHANGED <<n, dst, rxVars, down, sender, used>>

\* uart_clear_buff() drops what comes until the line is silent: the blocks that
\* are close behind, and not those that come later.
uart_clear_buff(rest) == \E k \in 0 .. Len(rest) : down' = SubSeq(rest, k + 1, Len(rest))

\* The first block is the header, whatever its number is.  Its bytes are looked
\* at one by one, so that it may begin anywhere.
Header(b) ==
    /\ pc = "hello" /\ ~b.eot
    /\ uart_clear_buff(Tail(down))
    /\ up' = Append(Append(up, "ACK"), "C")
    /\ pc' = "data" /\ blk' = 1
    /\ UNCHANGED <<load, ret>>

\* Bytes that are none of SOH, STX and EOT are passed over; before the header
\* each of them, and an EOT, is answered with another 'C'.
Ignore(b) ==
    /\ b.part = "headless" \/ (pc = "hello" /\ b.eot)
    /\ down' = Tail(down)
    /\ up' = IF pc = "hello" THEN Append(up, "C") ELSE up
    /\ UNCHANGED rxVars

\* Mutant: the number is expected without "& 0xFF".
MutantExpected(b) == b.num = blk

Expected(b) == b.num = blk % BlkMod

\* Another number, or one that its complement does not confirm: the data of a
\* block without a beginning can look like this as well.
Refuse(b) ==
    /\ pc = "data"
    /\ \/ b.part = "headless"
       \/ ~b.eot /\ (b.part = "number" \/ ~Expected(b))
    /\ uart_clear_buff(Tail(down))
    /\ up' = Append(up, "NAK")
    /\ UNCHANGED rxVars

\* The bytes that are missing are waited for: they may be taken from the block
\* that is close behind, or time out.
ReadOn(b) ==
    \/ down' = Tail(down)
    \/ /\ b.part = "short" /\ Len(down) > 1
       /\ down' = IF down[2].eot THEN Tail(Tail(down)) ELSE [Tail(down) EXCEPT ![1].part = "headless"]

\* Mutant: a block is stored again when it is repeated.
MutantTakeAgain(b) ==
    /\ pc = "data" /\ ~b.eot /\ b.part \in {"whole", "short"}
    /\ Expected(b) \/ b.pos = blk - 1
    /\ ReadOn(b)
    /\ load' = Append(load, b.pos)
    /\ up' = Append(up, "ACK")
    /\ blk' = blk + 1
    /\ UNCHANGED <<pc, ret>>

\* The data is stored, however much of it has come.
Accept(b) ==
    /\ pc = "data" /\ ~b.eot /\ b.part \in {"whole", "short"} /\ Expected(b)
    /\ ReadOn(b)
    /\ load' = Append(load, b.pos)
    /\ up' = Append(up, "ACK")
    /\ blk' = blk + 1
    /\ UNCHANGED <<pc, ret>>

\* The device does not take the mode or the data.
GiveUp(b) ==
    /\ pc = "data" /\ ~b.eot /\ b.part \in {"whole", "short"} /\ Expected(b) /\ dst
    /\ ReadOn(b)
    /\ Return("error")
    /\ UNCHANGED <<blk, load, up>>

\* EOT, or a byte 4 in the data of a block without a beginning.
End(b) ==
    /\ pc = "data" /\ (b.eot \/ b.part = "headless")
    /\ down' = Tail(down)
    /\ up' = Append(Append(up, "ACK"), "CAN")
    /\ Return("size")
    /\ UNCHANGED <<blk, load>>

Receive ==
    /\ pc \in {"hello", "data"} /\ down # <<>>
    /\ LET b == Head(down) IN
       Header(b) \/ Ignore(b) \/ Refuse(b) \/ Accept(b) \/ GiveUp(b) \/ End(b)
    /\ UNCHANGED <<n, dst, sender, used>>

-----------------------------------------------------------------------------
(* The sender and the line.                                                *)

Sending == sender.pos \in 0 .. n + 1

SendNext ==
    /\ sender' = [pos |-> sender.pos + 1, acked |-> FALSE]
    /\ down' = IF sender.pos <= n THEN Append(down, Block(sender.pos + 1)) ELSE down

SendAgain == down' = Append(down, Block(sender.pos)) /\ UNCHANGED sender

\* An ACK of the header is noted; the 'C' after it asks for the data, and one
\* before it for the header once more.
SenderAnswer ==
    /\ up # <<>>
    /\ up' = Tail(up)
    /\ LET a == Head(up) IN
       \/ a = "C" /\ (sender.pos = -1 \/ (sender.pos = 0 /\ sender.acked)) /\ SendNext
       \/ a = "ACK" /\ sender.pos = 0
            /\ sender' = [sender EXCEPT !.acked = TRUE] /\ UNCHANGED down
       \/ a = "ACK" /\ sender.pos \in 1 .. n + 1 /\ SendNext
       \/ a = "NAK" /\ Sending /\ ~sender.acked /\ SendAgain
       \/ a = "C" /\ sender.pos = 0 /\ ~sender.acked /\ SendAgain
       \/ /\ \/ a = "C" /\ sender.pos > 0
             \/ a = "NAK" /\ (~Sending \/ sender.acked)
             \/ a = "ACK" /\ ~Sending
             \/ a = "CAN"
          /\ UNCHANGED <<sender, down>>
    /\ UNCHANGED <<n, dst, rxVars, used>>

SenderTimeout ==
    /\ Sending /\ ~sender.acked /\ up = <<>> /\ down = <<>>
    /\ SendAgain
    /\ UNCHANGED <<n, dst, rxVars, up, used>>

SenderEarly ==
    /\ Sending /\ ~sender.acked /\ (up # <<>> \/ down # <<>>) /\ used.early < MaxEarly
    /\ SendAgain
    /\ used' = [used EXCEPT !.early = @ + 1]
    /\ UNCHANGED <<n, dst, rxVars, up>>

Lose ==
    /\ used.lost < MaxLost
    /\ \/ /\ down # <<>> /\ down' = Tail(down)
          /\ used' = [used EXCEPT !.lost = @ + 1]
          /\ UNCHANGED up
       \/ /\ up # <<>> /\ up' = Tail(up)
          /\ used' = [used EXCEPT !.lost = @ + 1,
                                  !.acks = IF Head(up) = "NAK" \/ pc = "hello" THEN @ ELSE @ + 1]
          /\ UNCHANGED down
    /\ UNCHANGED <<n, dst, rxVars, sender>>

\* A block loses data, one of the bytes of its number is changed, or its first
\* byte is lost.
Cut ==
    /\ used.cut < MaxCut /\ down # <<>> /\ ~Head(down).eot
    /\ \E part \in {"short", "number", "headless"} :
         down' = [down EXCEPT ![1].part = part]
    /\ used' = [used EXCEPT !.cut = @ + 1]
    /\ UNCHANGED <<n, dst, rxVars, up, sender>>

-----------------------------------------------------------------------------
Next ==
    \/ Start \/ SendC \/ Receive
    \/ SenderAnswer \/ SenderTimeout \/ SenderEarly
    \/ Lose \/ Cut

-----------------------------------------------------------------------------
(* Correctness.                                                            *)

\* Whatever the line does, what is stored is the beginning of the file, each
\* block once and in its place; and if no block was cut, the size is returned
\* only for the whole file.
StoredIsFile ==
    /\ \A i \in DOMAIN load : load[i] = i
    /\ (ret = "size" /\ used.cut = 0) => Len(load) = n

\* A transfer that has begun comes to its end, unless an ACK or the 'C' after
\* it is lost: the repeated block would then be refused for ever.
TransferEnds == (sender.pos >= 0) ~> (pc = "returned" \/ used.acks > 0)
=============================================================================
