-------------------------------- MODULE Kermit --------------------------------
(***************************************************************************)
(* kermit_load() of lib/uart/kermit.c: a file is received over the serial  *)
(* line, packet by packet, into the memory or into an opened file.  A      *)
(* packet carries a sequence number modulo 64 (KermSeqs), a type and, if it  *)
(* is a data packet, some of the file; the receiver answers each one with  *)
(* an acknowledgement or with a NACK.                                      *)
(*                                                                         *)
(* The line may lose a packet or an answer, and damage a packet: its       *)
(* sequence number, which is looked at before the checksum is, or another  *)
(* part.  The sender is not in the repository: it is a stop-and-wait       *)
(* Kermit sender, which reads a NACK for the packet after its own as an    *)
(* acknowledgement of its own.                                             *)
(***************************************************************************)
EXTENDS Integers, Sequences, SequencesExt

CONSTANTS
    KermSeqs,      \* 64: the sequence number is kept by "& 63"
    MaxData,       \* bound: data packets of the file
    MaxLost,       \* bound: packets and answers lost
    MaxDamaged,    \* bound: packets damaged
    MaxEarly       \* bound: times the sender's timer runs out too early

ASSUME ConstantsAssumption ==
    /\ KermSeqs \in Nat \ {0, 1}
    /\ MaxData \in Nat /\ MaxLost \in Nat /\ MaxDamaged \in Nat /\ MaxEarly \in Nat

VARIABLES
    file,       \* the types of the packets that make up the transfer
    dst,        \* opt->dst # NULL: the data is written to a file as well
    pc,         \* "start", "receive", "returned"
    real_seq,   \* the sequence number that is expected
    type,       \* the local variable that the end of the loop tests
    load,       \* the data packets that load_size counts, by their position
    ret,        \* "none", "size", "error"
    down, up,   \* packets under way to the receiver, answers under way from it
    sender,     \* the position of the packet that waits for its answer, 0 before
    used        \* how much of the bounds is used up

rxVars == <<pc, real_seq, type, load, ret>>
vars == <<file, dst, pc, real_seq, type, load, ret, down, up, sender, used>>

\* Send-init, file header, the data, end of file, end of the transmission.
Transfer(n) ==
    [i \in 1 .. n + 4 |-> CASE i = 1 -> "S" [] i = 2 -> "F" [] i = n + 3 -> "Z"
                             [] i = n + 4 -> "B" [] OTHER -> "D"]

Types == {"S", "F", "D", "Z", "B"}

\* The data packets of the transfer, in their order.
DataPackets == {i \in DOMAIN file : file[i] = "D"}

\* .good: the checksum is right; .term: the terminator comes right after it.
Packet(i) == [seq |-> (i - 1) % KermSeqs, type |-> file[i], pos |-> i,
              good |-> TRUE, term |-> TRUE]

Init ==
    /\ file \in {Transfer(n) : n \in 0 .. MaxData}
    /\ dst \in BOOLEAN
    /\ pc = "start" /\ real_seq = 0 /\ type = "B" /\ load = <<>> /\ ret = "none"
    /\ down = <<>> /\ up = <<>>
    /\ sender = 0
    /\ used = [lost |-> 0, damaged |-> 0, early |-> 0]

-----------------------------------------------------------------------------
(* The receiver.                                                           *)

Return(r) == pc' = "returned" /\ ret' = r

\* "while (type != KERM_TYPE_BREAK)", which "continue" comes to as well.
LoopEnd(t) == IF t = "B" THEN Return("size") ELSE UNCHANGED <<pc, ret>>

send_ack_packet(seq, answer) == up' = Append(up, [seq |-> seq, answer |-> answer])

\* Mutant: "& 63" is missing.
MutantNoWrap(seq) == seq + 1

next_seq(seq) == (seq + 1) % KermSeqs

\* Everything before the loop; the file may not open.
Start ==
    /\ pc = "start"
    /\ \/ pc' = "receive" /\ UNCHANGED ret
       \/ dst /\ Return("error")
    /\ UNCHANGED <<file, dst, real_seq, type, load, down, up, sender, used>>

\* Mutant: the number of the packet is not looked at: a repeated one is taken.
MutantAnySeq(pkt) ==
    /\ pkt.seq # real_seq
    /\ load' = IF pkt.type = "D" /\ pkt.good THEN Append(load, pkt.pos) ELSE load
    /\ send_ack_packet(pkt.seq, "Y")
    /\ LoopEnd(type)
    /\ UNCHANGED <<real_seq, type>>

\* Mutant: a packet with another number is not answered.
MutantSilent(pkt) ==
    /\ pkt.seq # real_seq
    /\ LoopEnd(type)
    /\ UNCHANGED <<real_seq, type, load, up>>

\* Mutant: the answer to it is an acknowledgement.
MutantAckExpected(pkt) ==
    /\ pkt.seq # real_seq
    /\ send_ack_packet(real_seq, "Y")
    /\ LoopEnd(type)
    /\ UNCHANGED <<real_seq, type, load>>

\* Mutant: it ends the loop, "break" for "continue".
MutantBreak(pkt) ==
    /\ pkt.seq # real_seq
    /\ send_ack_packet(real_seq, "N")
    /\ Return("size")
    /\ UNCHANGED <<real_seq, type, load>>

\* A packet with another number is refused with the number that is expected.
WrongSeq(pkt) ==
    /\ pkt.seq # real_seq
    /\ send_ack_packet(real_seq, "N")
    /\ LoopEnd(type)
    /\ UNCHANGED <<real_seq, type, load>>

\* The checksum is wrong; the number has been moved on already.
BadChecksum(pkt) ==
    /\ pkt.seq = real_seq /\ ~pkt.good
    /\ real_seq' = next_seq(real_seq)
    /\ type' = pkt.type
    /\ send_ack_packet(next_seq(real_seq), "N")
    /\ LoopEnd(pkt.type)
    /\ UNCHANGED load

\* A good packet is stored and acknowledged, ...
Accept(pkt) ==
    /\ pkt.seq = real_seq /\ pkt.good /\ pkt.term
    /\ real_seq' = next_seq(real_seq)
    /\ type' = pkt.type
    /\ load' = IF pkt.type = "D" THEN Append(load, pkt.pos) ELSE load
    /\ send_ack_packet(pkt.seq, "Y")
    /\ LoopEnd(pkt.type)

\* ... unless something stands before its terminator or the file cannot take it.
GiveUp(pkt) ==
    /\ pkt.seq = real_seq /\ pkt.good
    /\ ~pkt.term \/ dst
    /\ real_seq' = next_seq(real_seq)
    /\ type' = pkt.type
    /\ Return("error")
    /\ UNCHANGED <<load, up>>

Receive ==
    /\ pc = "receive" /\ down # <<>>
    /\ down' = Tail(down)
    /\ LET pkt == Head(down) IN
       WrongSeq(pkt) \/ BadChecksum(pkt) \/ Accept(pkt) \/ GiveUp(pkt)
    /\ UNCHANGED <<file, dst, sender, used>>

-----------------------------------------------------------------------------
(* The sender and the line.                                                *)

Sending == sender \in DOMAIN file

SendNext ==
    /\ sender' = sender + 1
    /\ down' = IF sender' \in DOMAIN file THEN Append(down, Packet(sender')) ELSE down

SendAgain ==
    /\ down' = Append(down, Packet(sender))
    /\ UNCHANGED sender

SenderStart ==
    /\ sender = 0
    /\ SendNext
    /\ UNCHANGED <<file, dst, rxVars, up, used>>

Acknowledges(a) ==
    \/ a.answer = "Y" /\ a.seq = Packet(sender).seq
    \/ a.answer = "N" /\ a.seq = next_seq(Packet(sender).seq)

SenderAnswer ==
    /\ up # <<>> /\ sender > 0
    /\ up' = Tail(up)
    /\ LET a == Head(up) IN
       \/ Sending /\ Acknowledges(a) /\ SendNext
       \/ Sending /\ a.answer = "N" /\ a.seq = Packet(sender).seq /\ SendAgain
       \/ /\ Sending => /\ ~Acknowledges(a)
                        /\ ~(a.answer = "N" /\ a.seq = Packet(sender).seq)
          /\ UNCHANGED <<sender, down>>
    /\ UNCHANGED <<file, dst, rxVars, used>>

\* The sender's timer, when nothing is under way any more.
SenderTimeout ==
    /\ Sending /\ up = <<>> /\ down = <<>>
    /\ SendAgain
    /\ UNCHANGED <<file, dst, rxVars, up, used>>

\* The same while the packet or its answer is still under way.
SenderEarly ==
    /\ Sending /\ (up # <<>> \/ down # <<>>) /\ used.early < MaxEarly
    /\ SendAgain
    /\ used' = [used EXCEPT !.early = @ + 1]
    /\ UNCHANGED <<file, dst, rxVars, up>>

Lose ==
    /\ used.lost < MaxLost
    /\ \/ down # <<>> /\ down' = Tail(down) /\ UNCHANGED up
       \/ up # <<>> /\ up' = Tail(up) /\ UNCHANGED down
    /\ used' = [used EXCEPT !.lost = @ + 1]
    /\ UNCHANGED <<file, dst, rxVars, sender>>

\* A part of the packet changes, which the checksum shows, or something is added
\* before the terminator.
Damage ==
    /\ used.damaged < MaxDamaged /\ down # <<>>
    /\ LET pkt == Head(down) IN
       \/ \E seq \in 0 .. KermSeqs - 1, t \in Types :
            /\ seq = pkt.seq \/ t = pkt.type
            /\ down' = [down EXCEPT ![1] = [pkt EXCEPT !.seq = seq, !.type = t, !.good = FALSE]]
       \/ down' = [down EXCEPT ![1] = [pkt EXCEPT !.term = FALSE]]
    /\ used' = [used EXCEPT !.damaged = @ + 1]
    /\ UNCHANGED <<file, dst, rxVars, up, sender>>

-----------------------------------------------------------------------------
Next ==
    \/ Start \/ Receive
    \/ SenderStart \/ SenderAnswer \/ SenderTimeout \/ SenderEarly
    \/ Lose \/ Damage

Spec == Init /\ [][Next]_vars

\* The receiver reads what arrives, and the sender goes on.
FairSpec ==
    /\ Spec
    /\ WF_vars(Start) /\ WF_vars(Receive)
    /\ WF_vars(SenderStart) /\ WF_vars(SenderAnswer) /\ WF_vars(SenderTimeout)

-----------------------------------------------------------------------------
(* Correctness.                                                            *)

\* The variables have their types.
TypeOK ==
    /\ pc \in {"start", "receive", "returned"}
    /\ real_seq \in 0 .. KermSeqs - 1
    /\ type \in Types
    /\ \A i \in DOMAIN load : load[i] \in DataPackets
    /\ ret \in {"none", "size", "error"}
    /\ sender \in 0 .. Len(file) + 1

\* Whatever the line does, what is stored is data of the file, each piece at
\* most once and in the order of the file.  (Each damaged packet can move the
\* expected number on by one: KermSeqs - 1 of them, all copies of one packet,
\* would let that packet be stored a second time.)
OrderKept ==
    used.damaged + 1 < KermSeqs => \A i, j \in DOMAIN load : i < j => load[i] < load[j]

\* As long as no packet is damaged, the sender never believes a packet delivered
\* that the receiver has not taken, although a NACK can count as an
\* acknowledgement.
SenderNotAhead ==
    (sender > 0 /\ used.damaged = 0) => \A i \in DataPackets : i < sender => Contains(load, i)

\* The size is returned only for the whole file, unless a packet was damaged.
SizeMeansWhole ==
    (ret = "size" /\ used.damaged = 0) => \A i \in DataPackets : Contains(load, i)

\* A transfer that has begun comes to its end, unless a packet was damaged.
TransferEnds == (sender > 0) ~> (pc = "returned" \/ used.damaged > 0)
=============================================================================
