---------------------------- MODULE KermitProofs ----------------------------
(***************************************************************************)
(* Proofs about Kermit, for every length of the file, every modulus of the *)
(* sequence numbers and any number of losses, damages and timeouts.        *)
(***************************************************************************)
EXTENDS Kermit, TLAPS

(***************************************************************************)
(* Residues: what "& 63" does to the sequence numbers.                     *)
(***************************************************************************)

\* A number is its quotient and its residue.
LEMMA ModSplit ==
    ASSUME NEW K \in Nat \ {0}, NEW a \in Nat
    PROVE  /\ a % K \in 0 .. K - 1
           /\ a \div K \in Int
           /\ a = (K * (a \div K)) + (a % K)
BY SMT

\* Quotient and residue are unique.
LEMMA ModUnique ==
    ASSUME NEW K \in Nat \ {0}, NEW q \in Int, NEW r \in 0 .. K - 1,
           NEW s \in Int, NEW t \in 0 .. K - 1, K * q + r = K * s + t
    PROVE  r = t
<1>1. CASE q < s
  <2>1. K * s >= K * q + K
    BY <1>1, SMT
  <2> QED BY <2>1, SMT
<1>2. CASE q > s
  <2>1. K * q >= K * s + K
    BY <1>2, SMT
  <2> QED BY <2>1, SMT
<1>3. CASE q = s
  BY <1>3, SMT
<1> QED BY <1>1, <1>2, <1>3

\* Counting on from a residue is counting on from the number.
LEMMA ModSucc ==
    ASSUME NEW K \in Nat \ {0}, NEW a \in Nat
    PROVE  ((a % K) + 1) % K = (a + 1) % K
<1> DEFINE r == a % K
           q == a \div K
           b == r + 1
<1>1. r \in 0 .. K - 1 /\ a = (K * q) + r /\ q \in Int
  BY ModSplit
<1>2. b % K \in 0 .. K - 1 /\ b = (K * (b \div K)) + (b % K) /\ (b \div K) \in Int
  BY <1>1, ModSplit
<1>3. /\ (a + 1) % K \in 0 .. K - 1 /\ ((a + 1) \div K) \in Int
      /\ a + 1 = (K * ((a + 1) \div K)) + ((a + 1) % K)
  BY ModSplit
<1> HIDE DEF r, q, b
<1>4. K * (q + (b \div K)) = K * q + K * (b \div K)
  BY <1>1, <1>2, SMT
<1>5. a + 1 = K * (q + (b \div K)) + (b % K)
  BY <1>1, <1>2, <1>4 DEF b
<1>6. /\ q + (b \div K) \in Int
      /\ K * (q + (b \div K)) + (b % K) = K * ((a + 1) \div K) + ((a + 1) % K)
  BY <1>1, <1>2, <1>3, <1>5
<1>7. b % K = (a + 1) % K
  BY <1>2, <1>3, <1>6, ModUnique, Zenon
<1> QED BY <1>7 DEF b, r

\* Two numbers less than K apart have different residues.
LEMMA ModApart ==
    ASSUME NEW K \in Nat \ {0}, NEW a \in Nat, NEW d \in 1 .. K - 1
    PROVE  a % K # (a + d) % K
<1> SUFFICES ASSUME a % K = (a + d) % K PROVE FALSE
  OBVIOUS
<1> DEFINE q == a \div K
           s == (a + d) \div K
           r == a % K
<1>1. r \in 0 .. K - 1 /\ a = (K * q) + r /\ q \in Int
  BY ModSplit
<1>2. a + d = K * s + r /\ s \in Int
  BY ModSplit
<1> HIDE DEF q, s, r
<1>3. d = K * s - K * q
  BY <1>1, <1>2
<1>4. CASE s <= q
  <2>1. K * s <= K * q
    BY <1>1, <1>2, <1>4, SMT
  <2> QED BY <2>1, <1>1, <1>2, <1>3
<1>5. CASE s >= q + 1
  <2>1. K * s >= K * q + K
    BY <1>1, <1>2, <1>5, SMT
  <2> QED BY <2>1, <1>1, <1>2, <1>3
<1> QED BY <1>1, <1>2, <1>4, <1>5

(***************************************************************************)
(* The shape of the transfer and of what is on the line.                   *)
(***************************************************************************)

\* The sequence number of the packet at position i.
Sq(i) == (i - 1) % KermSeqs

Pkts == [seq : 0 .. KermSeqs - 1, type : Types, pos : Nat, good : BOOLEAN, term : BOOLEAN]
Counters == [lost : Nat, damaged : Nat, early : Nat]
Answers == [seq : 0 .. KermSeqs - 1, answer : {"Y", "N"}]

\* The data stands between the two packets of the beginning and the two of the
\* end, and only the last packet is a break.
FileOK ==
    /\ file \in Seq(Types) /\ Len(file) >= 4
    /\ \A i \in 1 .. Len(file) : /\ file[i] = "D" <=> i \in 3 .. Len(file) - 2
                                 /\ file[i] = "B" <=> i = Len(file)

Types2 ==
    /\ dst \in BOOLEAN
    /\ pc \in {"start", "receive", "returned"}
    /\ ret \in {"none", "size", "error"}
    /\ pc = "returned" <=> ret # "none"
    /\ real_seq \in 0 .. KermSeqs - 1
    /\ type \in Types
    /\ load \in Seq(Nat)
    /\ \A i \in 1 .. Len(load) : load[i] \in 1 .. Len(file) /\ file[load[i]] = "D"
    /\ down \in Seq(Pkts) /\ up \in Seq(Answers)
    /\ sender \in 0 .. Len(file) + 1
    /\ used \in Counters

\* Packets arrive in the order of the file, none from behind the sender; a
\* packet whose checksum is right is what was sent, and only the first one on
\* the line can be damaged.
Line ==
    /\ \A i \in 1 .. Len(down) :
         /\ down[i].pos \in 1 .. sender /\ down[i].pos <= Len(file)
         /\ down[i].good => down[i].seq = Sq(down[i].pos) /\ down[i].type = file[down[i].pos]
         /\ (i > 1 \/ used.damaged = 0) => down[i].good
    /\ \A i, j \in 1 .. Len(down) : i < j => down[i].pos <= down[j].pos

Shape == FileOK /\ Types2 /\ Line

\* Sequence numbers: their range, their successor, and when they differ.
LEMMA SqFacts ==
    ASSUME NEW i \in Nat \ {0}
    PROVE  /\ Sq(i) \in 0 .. KermSeqs - 1
           /\ next_seq(Sq(i)) = Sq(i + 1)
           /\ Sq(i) # Sq(i + 1)
           /\ \A d \in 1 .. KermSeqs - 1 : Sq(i) # Sq(i + d)
<1> KermSeqs \in Nat \ {0} /\ 1 \in 1 .. KermSeqs - 1
  BY ConstantsAssumption
<1>1. i - 1 \in Nat
  OBVIOUS
<1>2. Sq(i) \in 0 .. KermSeqs - 1
  BY <1>1, ModSplit DEF Sq
<1>3. (((i - 1) % KermSeqs) + 1) % KermSeqs = ((i - 1) + 1) % KermSeqs
  BY <1>1, ModSucc
<1>4. next_seq(Sq(i)) = Sq(i + 1)
  BY <1>3 DEF next_seq, Sq
<1>5. ASSUME NEW d \in 1 .. KermSeqs - 1
      PROVE  Sq(i) # Sq(i + d)
  <2>1. (i - 1) % KermSeqs # ((i - 1) + d) % KermSeqs
    BY <1>1, ModApart
  <2>2. (i - 1) + d = (i + d) - 1
    OBVIOUS
  <2> QED BY <2>1, <2>2 DEF Sq
<1> QED BY <1>2, <1>4, <1>5

\* What Transfer(n) looks like.
LEMMA TransferShape ==
    ASSUME NEW n \in Nat, file = Transfer(n)
    PROVE  FileOK
<1>1. /\ DOMAIN file = 1 .. n + 4 /\ file \in [1 .. n + 4 -> Types]
      /\ \A i \in 1 .. n + 4 : /\ file[i] = "D" <=> i \in 3 .. n + 2
                               /\ file[i] = "B" <=> i = n + 4
  BY DEF Transfer, Types
<1>2. file \in Seq(Types) /\ Len(file) = n + 4
  BY <1>1
<1> QED BY <1>1, <1>2 DEF FileOK

-----------------------------------------------------------------------------
(* Taking the first element off a sequence, and adding one at its end.     *)

LEMMA TailFacts ==
    ASSUME NEW S, NEW s \in Seq(S), s # <<>>
    PROVE  /\ Tail(s) \in Seq(S) /\ Len(Tail(s)) = Len(s) - 1 /\ Len(s) \in Nat \ {0}
           /\ Head(s) = s[1] /\ s[1] \in S
           /\ \A i \in 1 .. Len(Tail(s)) : Tail(s)[i] = s[i + 1]
OBVIOUS

LEMMA AppendFacts ==
    ASSUME NEW S, NEW s \in Seq(S), NEW x \in S
    PROVE  /\ Append(s, x) \in Seq(S) /\ Len(Append(s, x)) = Len(s) + 1 /\ Len(s) \in Nat
           /\ \A i \in 1 .. Len(s) : Append(s, x)[i] = s[i]
           /\ Append(s, x)[Len(s) + 1] = x
OBVIOUS

LEMMA CounterFacts ==
    ASSUME NEW u \in Counters
    PROVE  /\ [u EXCEPT !.lost = @ + 1] \in Counters
           /\ [u EXCEPT !.early = @ + 1] \in Counters
           /\ [u EXCEPT !.damaged = @ + 1] \in Counters
           /\ [u EXCEPT !.lost = @ + 1].damaged = u.damaged
           /\ [u EXCEPT !.early = @ + 1].damaged = u.damaged
           /\ [u EXCEPT !.damaged = @ + 1].damaged = u.damaged + 1
           /\ u.damaged \in Nat
BY DEF Counters

-----------------------------------------------------------------------------
(* The shape is kept.                                                      *)

\* A packet leaves the line.
LEMMA DropKeepsLine ==
    ASSUME Shape, down # <<>>, down' = Tail(down), UNCHANGED <<file, sender>>,
           used'.damaged = used.damaged
    PROVE  down' \in Seq(Pkts) /\ Line'
<1>1. down \in Seq(Pkts) /\ used.damaged \in Nat
  BY DEF Shape, Types2, Counters
<1>2. /\ Tail(down) \in Seq(Pkts) /\ Len(Tail(down)) = Len(down) - 1 /\ Len(down) \in Nat \ {0}
      /\ \A i \in 1 .. Len(Tail(down)) : Tail(down)[i] = down[i + 1]
  BY <1>1, TailFacts
<1>3. \A i \in 1 .. Len(Tail(down)) : i + 1 \in 1 .. Len(down) /\ i + 1 > 1
  BY <1>2
<1>4. Line'
  BY <1>2, <1>3 DEF Shape, Line, Sq
<1> QED BY <1>2, <1>4

\* The sender puts a packet on the line, the next one or the last one again.
LEMMA SendKeepsLine ==
    ASSUME Shape, NEW s \in 1 .. Len(file), s = sender \/ s = sender + 1,
           down' = Append(down, Packet(s)), sender' = s, UNCHANGED file,
           used'.damaged = used.damaged
    PROVE  down' \in Seq(Pkts) /\ Line'
<1>1. down \in Seq(Pkts) /\ used.damaged \in Nat /\ sender \in Nat /\ file \in Seq(Types)
  BY DEF Shape, Types2, FileOK, Counters
<1>2. /\ Packet(s) \in Pkts /\ Packet(s).pos = s /\ Packet(s).seq = Sq(s)
      /\ Packet(s).type = file[s] /\ Packet(s).good
  BY <1>1, SqFacts DEF Packet, Pkts, Sq
<1>3. /\ down' \in Seq(Pkts) /\ Len(down') = Len(down) + 1 /\ Len(down) \in Nat
      /\ \A i \in 1 .. Len(down) : down'[i] = down[i]
      /\ down'[Len(down) + 1] = Packet(s)
  BY <1>1, <1>2, AppendFacts
<1>4. \A i \in 1 .. Len(down') : i \in 1 .. Len(down) \/ i = Len(down) + 1
  BY <1>3
<1>5. ASSUME NEW i \in 1 .. Len(down')
      PROVE  /\ down'[i].pos \in 1 .. sender' /\ down'[i].pos <= Len(file)
             /\ down'[i].good => /\ down'[i].seq = Sq(down'[i].pos)
                                 /\ down'[i].type = file[down'[i].pos]
             /\ (i > 1 \/ used.damaged = 0) => down'[i].good
  <2>1. CASE i \in 1 .. Len(down)
    BY <1>1, <1>3, <2>1 DEF Shape, Line
  <2>2. CASE i = Len(down) + 1
    BY <1>1, <1>2, <1>3, <2>2
  <2> QED BY <1>4, <2>1, <2>2
<1>6. ASSUME NEW i \in 1 .. Len(down'), NEW j \in 1 .. Len(down'), i < j
      PROVE  down'[i].pos <= down'[j].pos
  <2>1. i \in 1 .. Len(down)
    BY <1>3, <1>6
  <2>2. CASE j \in 1 .. Len(down)
    BY <1>3, <1>6, <2>1, <2>2 DEF Shape, Line
  <2>3. CASE j = Len(down) + 1
    BY <1>1, <1>2, <1>3, <2>1, <2>3 DEF Shape, Line
  <2> QED BY <1>4, <2>2, <2>3
<1>7. Line'
  BY <1>5, <1>6 DEF Line, Sq
<1> QED BY <1>3, <1>7

LEMMA ShapeInit == Init => Shape
<1> SUFFICES ASSUME Init PROVE Shape
  OBVIOUS
<1>1. FileOK
  <2>1. PICK n \in 0 .. MaxData : file = Transfer(n)
    BY DEF Init
  <2>2. n \in Nat
    BY ConstantsAssumption
  <2> QED BY <2>1, <2>2, TransferShape
<1>2. Types2
  BY <1>1, ConstantsAssumption DEF Init, Types2, FileOK, Types, Counters
<1>3. Line
  BY DEF Init, Line
<1> QED BY <1>1, <1>2, <1>3 DEF Shape

LEMMA ShapeStep == Shape /\ [Next]_vars => Shape'
<1> SUFFICES ASSUME Shape, [Next]_vars PROVE Shape'
  OBVIOUS
<1> USE DEF Shape
<1>0. /\ KermSeqs \in Nat /\ 0 \in 0 .. KermSeqs - 1
      /\ \A q \in 0 .. KermSeqs - 1 : next_seq(q) \in 0 .. KermSeqs - 1
  <2>1. ASSUME NEW q \in 0 .. KermSeqs - 1
        PROVE  (q + 1) % KermSeqs \in 0 .. KermSeqs - 1
    BY ConstantsAssumption, ModSplit
  <2> QED BY ConstantsAssumption, <2>1 DEF next_seq
<1>1. CASE Start
  BY <1>1 DEF Start, Return, FileOK, Types2, Line, Sq
<1>2. CASE Receive
  <2>1. down # <<>> /\ down' = Tail(down) /\ UNCHANGED <<file, dst, sender, used>> /\ pc = "receive"
    BY <1>2 DEF Receive
  <2>2. down' \in Seq(Pkts) /\ Line'
    BY <2>1, DropKeepsLine
  <2>3. FileOK'
    BY <2>1 DEF FileOK
  <2> DEFINE pkt == Head(down)
  <2>4. /\ pkt \in Pkts /\ pkt.pos \in 1 .. Len(file)
        /\ pkt.good => pkt.type = file[pkt.pos]
    <3>1. Head(down) = down[1] /\ down[1] \in Pkts /\ 1 \in 1 .. Len(down)
      BY <2>1, TailFacts DEF Types2
    <3> QED BY <3>1 DEF Line, Pkts
  <2>5. ASSUME NEW q \in 0 .. KermSeqs - 1, NEW a \in {"Y", "N"}, send_ack_packet(q, a)
        PROVE  up' \in Seq(Answers)
    <3>1. [seq |-> q, answer |-> a] \in Answers
      BY DEF Answers
    <3> QED BY <2>5, <3>1, AppendFacts DEF send_ack_packet, Types2
  <2>6. \E p \in {pkt} : WrongSeq(p) \/ BadChecksum(p) \/ Accept(p) \/ GiveUp(p)
    BY <1>2 DEF Receive
  <2> HIDE DEF pkt
  <2>7. CASE WrongSeq(pkt)
    <3>1. up' \in Seq(Answers)
      BY <2>5, <2>7 DEF WrongSeq, Types2
    <3> QED BY <2>1, <2>2, <2>3, <2>7, <3>1 DEF WrongSeq, LoopEnd, Return, Types2
  <2>8. CASE BadChecksum(pkt)
    <3>1. up' \in Seq(Answers)
      BY <1>0, <2>5, <2>8 DEF BadChecksum, Types2
    <3> QED BY <1>0, <2>1, <2>2, <2>3, <2>4, <2>8, <3>1
            DEF BadChecksum, LoopEnd, Return, Types2, Pkts
  <2>9. CASE Accept(pkt)
    <3>1. up' \in Seq(Answers)
      BY <2>4, <2>5, <2>9 DEF Accept, Pkts
    <3>2. /\ load' \in Seq(Nat)
          /\ \A i \in 1 .. Len(load') : load'[i] \in 1 .. Len(file) /\ file[load'[i]] = "D"
      <4>1. CASE pkt.type = "D"
        <5>1. load' = Append(load, pkt.pos) /\ pkt.pos \in Nat /\ pkt.good
          BY <2>4, <2>9, <4>1 DEF Accept, Pkts
        <5>2. /\ load' \in Seq(Nat) /\ Len(load') = Len(load) + 1 /\ Len(load) \in Nat
              /\ \A i \in 1 .. Len(load) : load'[i] = load[i]
              /\ load'[Len(load) + 1] = pkt.pos
          BY <5>1, AppendFacts DEF Types2
        <5>3. ASSUME NEW i \in 1 .. Len(load')
              PROVE  load'[i] \in 1 .. Len(file) /\ file[load'[i]] = "D"
          <6>1. CASE i \in 1 .. Len(load)
            BY <5>2, <6>1 DEF Types2
          <6>2. CASE i = Len(load) + 1
            BY <2>4, <4>1, <5>1, <5>2, <6>2
          <6> QED BY <5>2, <6>1, <6>2
        <5> QED BY <5>2, <5>3
      <4>2. CASE pkt.type # "D"
        BY <2>9, <4>2 DEF Accept, Types2
      <4> QED BY <4>1, <4>2
    <3> QED BY <1>0, <2>1, <2>2, <2>3, <2>4, <2>9, <3>1, <3>2
            DEF Accept, LoopEnd, Return, Types2, Pkts
  <2>10. CASE GiveUp(pkt)
    BY <1>0, <2>1, <2>2, <2>3, <2>4, <2>10 DEF GiveUp, Return, Types2, Pkts
  <2> QED BY <2>6, <2>7, <2>8, <2>9, <2>10
<1>3. CASE SenderStart
  <2>1. /\ sender = 0 /\ sender' = 1 /\ UNCHANGED <<file, dst, rxVars, up, used>>
        /\ 1 \in 1 .. Len(file) /\ DOMAIN file = 1 .. Len(file)
    BY <1>3 DEF SenderStart, SendNext, FileOK
  <2>2. down' = Append(down, Packet(1))
    BY <1>3, <2>1 DEF SenderStart, SendNext
  <2>3. down' \in Seq(Pkts) /\ Line'
    BY <2>1, <2>2, SendKeepsLine
  <2>4. sender' \in 0 .. Len(file') + 1
    <3>1. Len(file) \in Nat
      BY DEF FileOK
    <3>2. file' = file
      BY <2>1
    <3> QED BY <2>1, <3>1, <3>2
  <2> QED BY <2>1, <2>3, <2>4 DEF FileOK, Types2, rxVars
<1>4. CASE SenderAnswer
  <2>1. /\ up # <<>> /\ sender > 0 /\ up' = Tail(up) /\ UNCHANGED <<file, dst, rxVars, used>>
        /\ DOMAIN file = 1 .. Len(file) /\ Len(file) \in Nat /\ sender \in 0 .. Len(file) + 1
    BY <1>4 DEF SenderAnswer, FileOK, Types2
  <2>2. up' \in Seq(Answers)
    BY <2>1, TailFacts DEF Types2
  <2>3. \/ Sending /\ SendNext
        \/ Sending /\ SendAgain
        \/ UNCHANGED <<sender, down>>
    BY <1>4 DEF SenderAnswer
  <2>4. CASE Sending /\ SendNext
    <3>1. sender' = sender + 1 /\ sender \in 1 .. Len(file)
      BY <2>1, <2>4 DEF Sending, SendNext
    <3>2. CASE sender' \in 1 .. Len(file)
      <4>1. down' = Append(down, Packet(sender'))
        BY <2>1, <2>4, <3>2 DEF SendNext
      <4>2. down' \in Seq(Pkts) /\ Line'
        BY <2>1, <3>1, <3>2, <4>1, SendKeepsLine
      <4>3. sender' \in 0 .. Len(file') + 1
        BY <2>1, <3>1
      <4> QED BY <2>1, <2>2, <4>2, <4>3 DEF FileOK, Types2, rxVars
    <3>3. CASE sender' \notin 1 .. Len(file)
      <4>1. down' = down
        BY <2>1, <2>4, <3>3 DEF SendNext
      <4>2. sender' \in 0 .. Len(file') + 1 /\ sender' >= sender
        BY <2>1, <3>1
      <4>3. \A i \in 1 .. Len(down) : down[i].pos \in 1 .. sender'
        BY <2>1, <4>2 DEF Line
      <4>4. Line'
        BY <2>1, <4>1, <4>3 DEF Line, Sq
      <4> QED BY <2>1, <2>2, <4>1, <4>2, <4>4 DEF FileOK, Types2, rxVars
    <3> QED BY <3>2, <3>3
  <2>5. CASE Sending /\ SendAgain
    <3>1. sender' = sender /\ sender \in 1 .. Len(file) /\ down' = Append(down, Packet(sender))
      BY <2>1, <2>5 DEF Sending, SendAgain
    <3>2. down' \in Seq(Pkts) /\ Line'
      BY <2>1, <3>1, SendKeepsLine
    <3> QED BY <2>1, <2>2, <3>1, <3>2 DEF FileOK, Types2, rxVars
  <2>6. CASE UNCHANGED <<sender, down>>
    BY <2>1, <2>2, <2>6 DEF FileOK, Types2, rxVars, Line, Sq
  <2> QED BY <2>3, <2>4, <2>5, <2>6
<1>5. CASE SenderTimeout \/ SenderEarly
  <2>1. /\ sender' = sender /\ sender \in 1 .. Len(file) /\ down' = Append(down, Packet(sender))
        /\ UNCHANGED <<file, dst, rxVars, up>> /\ used'.damaged = used.damaged
        /\ used' \in Counters
    <3>1. DOMAIN file = 1 .. Len(file)
      BY DEF FileOK
    <3>2. CASE SenderTimeout
      BY <3>1, <3>2 DEF SenderTimeout, Sending, SendAgain, Types2
    <3>3. CASE SenderEarly
      BY <3>1, <3>3, CounterFacts DEF SenderEarly, Sending, SendAgain, Types2
    <3> QED BY <1>5, <3>2, <3>3
  <2>2. down' \in Seq(Pkts) /\ Line'
    BY <2>1, SendKeepsLine
  <2> QED BY <2>1, <2>2 DEF FileOK, Types2, rxVars
<1>6. CASE Lose
  <2>1. /\ UNCHANGED <<file, dst, rxVars, sender>> /\ used'.damaged = used.damaged
        /\ used' \in Counters
    BY <1>6, CounterFacts DEF Lose, Types2
  <2>2. CASE down # <<>> /\ down' = Tail(down) /\ UNCHANGED up
    <3>1. down' \in Seq(Pkts) /\ Line'
      BY <2>1, <2>2, DropKeepsLine
    <3> QED BY <2>1, <2>2, <3>1 DEF FileOK, Types2, rxVars
  <2>3. CASE up # <<>> /\ up' = Tail(up) /\ UNCHANGED down
    <3>1. up' \in Seq(Answers)
      BY <2>3, TailFacts DEF Types2
    <3> QED BY <2>1, <2>3, <3>1 DEF FileOK, Types2, rxVars, Line, Sq
  <2> QED BY <1>6, <2>2, <2>3 DEF Lose
<1>7. CASE Damage
  <2>1. /\ UNCHANGED <<file, dst, rxVars, up, sender>> /\ down # <<>>
        /\ used' \in Counters /\ used'.damaged = used.damaged + 1
        /\ used.damaged \in Nat
    BY <1>7, CounterFacts DEF Damage, Types2
  <2>2. /\ down \in Seq(Pkts) /\ Head(down) = down[1] /\ down[1] \in Pkts
        /\ Len(down) \in Nat \ {0} /\ 1 \in 1 .. Len(down)
    BY <2>1, TailFacts DEF Types2
  <2>3. PICK x \in Pkts : /\ down' = [down EXCEPT ![1] = x]
                          /\ x.pos = down[1].pos
                          /\ x.good => down[1].good /\ x.seq = down[1].seq /\ x.type = down[1].type
    <3>1. CASE \E seq \in 0 .. KermSeqs - 1, t \in Types :
                 down' = [down EXCEPT ![1] = [Head(down) EXCEPT !.seq = seq, !.type = t, !.good = FALSE]]
      <4>1. PICK seq \in 0 .. KermSeqs - 1, t \in Types :
                 down' = [down EXCEPT ![1] = [Head(down) EXCEPT !.seq = seq, !.type = t, !.good = FALSE]]
        BY <3>1
      <4> DEFINE x == [Head(down) EXCEPT !.seq = seq, !.type = t, !.good = FALSE]
      <4>2. x \in Pkts /\ x.pos = down[1].pos /\ ~x.good
        BY <2>2 DEF Pkts
      <4> QED BY <4>1, <4>2
    <3>2. CASE down' = [down EXCEPT ![1] = [Head(down) EXCEPT !.term = FALSE]]
      <4> DEFINE x == [Head(down) EXCEPT !.term = FALSE]
      <4>2. x \in Pkts /\ x.pos = down[1].pos /\ x.good = down[1].good
              /\ x.seq = down[1].seq /\ x.type = down[1].type
        BY <2>2 DEF Pkts
      <4> QED BY <3>2, <4>2
    <3> QED BY <1>7, <3>1, <3>2 DEF Damage
  <2>4. /\ down' \in Seq(Pkts) /\ Len(down') = Len(down)
        /\ \A i \in 1 .. Len(down) : down'[i] = IF i = 1 THEN x ELSE down[i]
    BY <2>2, <2>3
  <2>5. Line'
    BY <2>1, <2>2, <2>3, <2>4 DEF Line, Sq
  <2> QED BY <2>1, <2>4, <2>5 DEF FileOK, Types2, rxVars
<1>8. CASE UNCHANGED vars
  BY <1>8 DEF vars, FileOK, Types2, Line, Sq
<1> QED BY <1>1, <1>2, <1>3, <1>4, <1>5, <1>6, <1>7, <1>8 DEF Next

\* The type invariant, which also says that only data packets are stored,
\* whatever the damaged ones look like.
THEOREM KermitTypes == Spec => []TypeOK
<1>1. Shape => TypeOK
  <2> SUFFICES ASSUME Shape PROVE TypeOK
    OBVIOUS
  <2>1. DOMAIN file = 1 .. Len(file) /\ DOMAIN load = 1 .. Len(load)
    BY DEF Shape, FileOK, Types2
  <2> QED BY <2>1 DEF Shape, Types2, TypeOK, DataPackets
<1> QED BY ShapeInit, ShapeStep, <1>1, PTL DEF Spec

-----------------------------------------------------------------------------
(* The order of what is stored.  p is the position of the last good packet *)
(* that the receiver has taken, c the number of damaged ones since then:   *)
(* the expected number has moved on by one for each of them.               *)

Frontier(p, c) ==
    /\ real_seq = Sq(p + c + 1)
    /\ c <= used.damaged
    /\ (Len(down) >= 1 /\ ~down[1].good) => c + 1 <= used.damaged
    /\ p <= sender
    /\ \A i \in 1 .. Len(down) : p <= down[i].pos
    /\ \A i \in 1 .. Len(load) : load[i] <= p
    /\ \A i, j \in 1 .. Len(load) : i < j => load[i] < load[j]

Ordered == used.damaged + 1 < KermSeqs => \E p, c \in Nat : Frontier(p, c)

\* The receiver takes a packet off the line: no other is damaged.
LEMMA RestIsGood ==
    ASSUME Shape, down # <<>>, down' = Tail(down), NEW p \in Nat,
           \A i \in 1 .. Len(down) : p <= down[i].pos
    PROVE  /\ Len(down') >= 1 => down'[1].good
           /\ \A i \in 1 .. Len(down') : p <= down'[i].pos
           /\ \A i \in 1 .. Len(down') : down[1].pos <= down'[i].pos
<1>1. /\ Len(Tail(down)) = Len(down) - 1 /\ Len(down) \in Nat \ {0}
      /\ \A i \in 1 .. Len(Tail(down)) : Tail(down)[i] = down[i + 1]
  BY TailFacts DEF Shape, Types2
<1>2. \A i \in 1 .. Len(down') : i + 1 \in 1 .. Len(down) /\ i + 1 > 1 /\ 1 \in 1 .. Len(down)
  BY <1>1
<1>3. \A i \in 1 .. Len(down') : p <= down'[i].pos /\ down[1].pos <= down'[i].pos /\ down'[i].good
  BY <1>1, <1>2 DEF Shape, Line
<1>4. Len(down') >= 1 => 1 \in 1 .. Len(down')
  BY <1>1
<1> QED BY <1>3, <1>4

LEMMA OrderReceive ==
    ASSUME Shape, used.damaged + 1 < KermSeqs, Receive,
           NEW p \in Nat, NEW c \in Nat, Frontier(p, c)
    PROVE  \E p2, c2 \in Nat : Frontier(p2, c2)'
<1> DEFINE pkt == Head(down)
<1>1. /\ down # <<>> /\ down' = Tail(down) /\ UNCHANGED <<file, sender, used>>
      /\ used.damaged \in Nat /\ sender \in Nat /\ real_seq \in Nat
      /\ \A i \in 1 .. Len(load) : load[i] \in Nat
      /\ load \in Seq(Nat) /\ Len(load) \in Nat /\ KermSeqs \in Nat
  <2>1. down # <<>> /\ down' = Tail(down) /\ UNCHANGED <<file, sender, used>>
    BY DEF Receive
  <2>2. used.damaged \in Nat
    BY DEF Shape, Types2, Counters
  <2>3. load \in Seq(Nat) /\ Len(load) \in Nat /\ \A i \in 1 .. Len(load) : load[i] \in Nat
    BY DEF Shape, Types2
  <2>4. KermSeqs \in Nat /\ real_seq \in Nat
    BY ConstantsAssumption DEF Shape, Types2
  <2>5. sender \in Nat
    BY DEF Shape, Types2, FileOK
  <2> QED BY <2>1, <2>2, <2>3, <2>4, <2>5
<1>2. /\ pkt = down[1] /\ Len(down) >= 1 /\ pkt.pos \in 1 .. sender /\ p <= pkt.pos
      /\ pkt.good => pkt.seq = Sq(pkt.pos)
  <2>1. Head(down) = down[1] /\ 1 \in 1 .. Len(down) /\ Len(down) >= 1
    BY <1>1, TailFacts DEF Shape, Types2
  <2> QED BY <2>1 DEF Shape, Line, Frontier
<1>3. /\ Len(down') >= 1 => down'[1].good
      /\ \A i \in 1 .. Len(down') : p <= down'[i].pos
      /\ \A i \in 1 .. Len(down') : pkt.pos <= down'[i].pos
  BY <1>1, <1>2, RestIsGood DEF Frontier
<1>4. \E q \in {pkt} : WrongSeq(q) \/ BadChecksum(q) \/ Accept(q) \/ GiveUp(q)
  BY DEF Receive
<1>5. p + c + 1 \in Nat \ {0} /\ real_seq = Sq(p + c + 1) /\ next_seq(real_seq) = Sq(p + (c + 1) + 1)
  <2>1. p + c + 1 \in Nat \ {0} /\ real_seq = Sq(p + c + 1)
    BY DEF Frontier
  <2>2. next_seq(real_seq) = Sq((p + c + 1) + 1)
    BY <2>1, SqFacts
  <2>3. (p + c + 1) + 1 = p + (c + 1) + 1
    OBVIOUS
  <2> QED BY <2>1, <2>2, <2>3
<1> HIDE DEF pkt
<1>6. CASE WrongSeq(pkt)
  <2>1. real_seq' = real_seq /\ load' = load
    BY <1>6 DEF WrongSeq
  <2>2. Frontier(p, c)'
    BY <1>1, <1>3, <2>1 DEF Frontier, Sq
  <2> QED BY <2>2
<1>7. CASE BadChecksum(pkt)
  <2>1. real_seq' = next_seq(real_seq) /\ load' = load /\ c + 1 <= used.damaged /\ c + 1 \in Nat
    BY <1>2, <1>7 DEF BadChecksum, Frontier
  <2>2. Frontier(p, c + 1)'
    BY <1>1, <1>3, <1>5, <2>1 DEF Frontier, Sq
  <2> QED BY <2>1, <2>2
<1>8. CASE Accept(pkt) \/ GiveUp(pkt)
  <2>1. /\ pkt.good /\ pkt.seq = real_seq /\ real_seq' = next_seq(real_seq)
        /\ load' = Append(load, pkt.pos) \/ load' = load
    BY <1>8 DEF Accept, GiveUp
  <2>2. Sq(pkt.pos) = Sq(p + c + 1) /\ pkt.pos \in Nat \ {0} /\ pkt.pos <= sender
    BY <1>1, <1>2, <1>5, <2>1
  \* A second copy of the last packet would need KermSeqs - 1 damaged ones.
  <2>3. pkt.pos # p
    <3> SUFFICES ASSUME pkt.pos = p PROVE FALSE
      OBVIOUS
    <3>1. c + 1 \in 1 .. KermSeqs - 1
      BY <1>1 DEF Frontier
    <3>2. Sq(p) # Sq(p + (c + 1))
      BY <2>2, <3>1, SqFacts
    <3>3. p + (c + 1) = p + c + 1
      OBVIOUS
    <3> QED BY <2>2, <3>2, <3>3
  <2>4. p < pkt.pos
    BY <1>2, <2>2, <2>3
  <2>5. real_seq' = Sq(pkt.pos + 0 + 1)
    <3>1. next_seq(Sq(pkt.pos)) = Sq(pkt.pos + 1)
      BY <2>2, SqFacts
    <3>2. pkt.pos + 1 = pkt.pos + 0 + 1
      BY <2>2
    <3> QED BY <1>2, <2>1, <3>1, <3>2
  <2>6. /\ \A i \in 1 .. Len(load') : load'[i] <= pkt.pos
        /\ \A i, j \in 1 .. Len(load') : i < j => load'[i] < load'[j]
    <3>1. \A i \in 1 .. Len(load) : load[i] < pkt.pos
      BY <1>1, <2>2, <2>4, SMTT(40) DEF Frontier
    <3>2. CASE load' = load
      BY <1>1, <2>2, <3>1, <3>2, SMTT(40) DEF Frontier
    <3>3. CASE load' = Append(load, pkt.pos)
      <4>1. /\ Len(load') = Len(load) + 1
            /\ \A i \in 1 .. Len(load) : load'[i] = load[i]
            /\ load'[Len(load) + 1] = pkt.pos
        BY <1>1, <2>2, <3>3, AppendFacts
      <4>2. \A i \in 1 .. Len(load') : i \in 1 .. Len(load) \/ i = Len(load) + 1
        BY <1>1, <4>1
      <4>3. ASSUME NEW i \in 1 .. Len(load')
            PROVE  load'[i] <= pkt.pos
        <5>1. CASE i \in 1 .. Len(load)
          <6>1. load'[i] = load[i] /\ load[i] < pkt.pos
            BY <3>1, <4>1, <5>1
          <6>2. load[i] \in Nat /\ pkt.pos \in Nat
            BY <1>1, <2>2, <5>1
          <6> QED BY <6>1, <6>2
        <5>2. CASE i = Len(load) + 1
          BY <2>2, <4>1, <5>2
        <5> QED BY <4>2, <5>1, <5>2
      <4>4. ASSUME NEW i \in 1 .. Len(load'), NEW j \in 1 .. Len(load'), i < j
            PROVE  load'[i] < load'[j]
        <5>1. i \in 1 .. Len(load)
          BY <1>1, <4>1, <4>4
        <5>2. CASE j \in 1 .. Len(load)
          BY <4>1, <4>4, <5>1, <5>2 DEF Frontier
        <5>3. CASE j = Len(load) + 1
          BY <3>1, <4>1, <5>1, <5>3
        <5> QED BY <4>2, <5>2, <5>3
      <4> QED BY <4>3, <4>4
    <3> QED BY <2>1, <3>2, <3>3
  <2>7. ASSUME NEW q \in Nat, q = pkt.pos
        PROVE  Frontier(q, 0)'
    BY <1>1, <1>3, <2>2, <2>5, <2>6, <2>7 DEF Frontier, Sq
  <2> QED BY <2>2, <2>7
<1> QED BY <1>4, <1>6, <1>7, <1>8

\* The sender and the line leave the frontier where it is.
LEMMA OrderLine ==
    ASSUME Shape, NEW p \in Nat, NEW c \in Nat, Frontier(p, c),
           SenderStart \/ SenderAnswer \/ SenderTimeout \/ SenderEarly \/ Lose \/ Damage
    PROVE  Frontier(p, c)'
<1>1. /\ sender \in Nat /\ used.damaged \in Nat /\ down \in Seq(Pkts) /\ Len(down) \in Nat
      /\ used \in Counters
  BY DEF Shape, Types2, FileOK, Counters
<1>2. ASSUME UNCHANGED <<real_seq, load>>, used'.damaged = used.damaged, sender' \in Nat,
             sender' >= sender, down' = down \/ down' = Append(down, Packet(sender'))
      PROVE  Frontier(p, c)'
  <2>1. CASE down' = down
    BY <1>1, <1>2, <2>1 DEF Frontier, Sq
  <2>2. CASE down' = Append(down, Packet(sender'))
    <3>1. /\ Len(down') = Len(down) + 1
          /\ \A i \in 1 .. Len(down) : down'[i] = down[i]
          /\ down'[Len(down) + 1] = Packet(sender')
      BY <1>1, <2>2
    <3>2. Packet(sender').pos = sender' /\ Packet(sender').good
      BY DEF Packet
    <3>3. p <= sender'
      BY <1>1, <1>2 DEF Frontier
    <3>4. ASSUME NEW i \in 1 .. Len(down')
          PROVE  p <= down'[i].pos
      <4>1. CASE i \in 1 .. Len(down)
        BY <3>1, <4>1 DEF Frontier
      <4>2. CASE i = Len(down) + 1
        BY <3>1, <3>2, <3>3, <4>2
      <4> QED BY <1>1, <3>1, <4>1, <4>2
    <3>5. (Len(down') >= 1 /\ ~down'[1].good) => c + 1 <= used.damaged
      <4>1. CASE Len(down) = 0
        BY <3>1, <3>2, <4>1
      <4>2. CASE Len(down) >= 1
        BY <1>1, <3>1, <4>2 DEF Frontier
      <4> QED BY <1>1, <4>1, <4>2
    <3> QED BY <1>2, <3>3, <3>4, <3>5 DEF Frontier, Sq
  <2> QED BY <1>2, <2>1, <2>2
<1>3. ASSUME UNCHANGED <<real_seq, load, sender>>, used'.damaged = used.damaged,
             down' = down \/ (down # <<>> /\ down' = Tail(down))
      PROVE  Frontier(p, c)'
  <2>1. CASE down' = down
    BY <1>3, <2>1 DEF Frontier, Sq
  <2>2. CASE down # <<>> /\ down' = Tail(down)
    <3>1. /\ Len(down') >= 1 => down'[1].good
          /\ \A i \in 1 .. Len(down') : p <= down'[i].pos
      BY <2>2, RestIsGood DEF Frontier
    <3> QED BY <1>3, <3>1 DEF Frontier, Sq
  <2> QED BY <1>3, <2>1, <2>2
<1>4. CASE SenderStart \/ SenderAnswer
  <2>1. UNCHANGED <<real_seq, load, used>>
    BY <1>4 DEF SenderStart, SenderAnswer, rxVars
  <2>2. SendNext \/ SendAgain \/ UNCHANGED <<sender, down>>
    BY <1>4 DEF SenderStart, SenderAnswer
  <2>3. sender' \in Nat /\ sender' >= sender /\ (down' = down \/ down' = Append(down, Packet(sender')))
    <3>1. CASE SendNext
      BY <1>1, <3>1 DEF SendNext
    <3>2. CASE SendAgain
      <4>1. sender' = sender /\ down' = Append(down, Packet(sender)) /\ Packet(sender') = Packet(sender)
        <5>1. file' = file
          BY <1>4 DEF SenderStart, SenderAnswer
        <5> QED BY <3>2, <5>1 DEF SendAgain, Packet
      <4> QED BY <1>1, <4>1
    <3>3. CASE UNCHANGED <<sender, down>>
      BY <1>1, <3>3
    <3> QED BY <2>2, <3>1, <3>2, <3>3
  <2> QED BY <1>2, <2>1, <2>3
<1>5. CASE SenderTimeout
  BY <1>1, <1>2, <1>5 DEF SenderTimeout, SendAgain, rxVars, Packet
<1>6. CASE SenderEarly
  BY <1>1, <1>2, <1>6, CounterFacts DEF SenderEarly, SendAgain, rxVars, Packet
<1>7. CASE Lose
  BY <1>1, <1>3, <1>7, CounterFacts DEF Lose, rxVars
<1>8. CASE Damage
  <2>1. /\ UNCHANGED <<real_seq, load, sender>> /\ used'.damaged = used.damaged + 1
        /\ down # <<>>
    BY <1>1, <1>8, CounterFacts DEF Damage, rxVars
  <2>2. Head(down) = down[1] /\ down[1] \in Pkts /\ Len(down) \in Nat \ {0}
    BY <1>1, <2>1, TailFacts
  <2>3. PICK x : down' = [down EXCEPT ![1] = x] /\ x.pos = down[1].pos
    <3>1. CASE \E seq \in 0 .. KermSeqs - 1, t \in Types :
                 down' = [down EXCEPT ![1] = [Head(down) EXCEPT !.seq = seq, !.type = t, !.good = FALSE]]
      <4>1. PICK seq \in 0 .. KermSeqs - 1, t \in Types :
                 down' = [down EXCEPT ![1] = [Head(down) EXCEPT !.seq = seq, !.type = t, !.good = FALSE]]
        BY <3>1
      <4>2. [Head(down) EXCEPT !.seq = seq, !.type = t, !.good = FALSE].pos = down[1].pos
        BY <2>2 DEF Pkts
      <4> QED BY <4>1, <4>2
    <3>2. CASE down' = [down EXCEPT ![1] = [Head(down) EXCEPT !.term = FALSE]]
      <4>1. [Head(down) EXCEPT !.term = FALSE].pos = down[1].pos
        BY <2>2 DEF Pkts
      <4> QED BY <3>2, <4>1
    <3> QED BY <1>8, <3>1, <3>2 DEF Damage
  <2>4. Len(down') = Len(down) /\ \A i \in 1 .. Len(down) : down'[i] = IF i = 1 THEN x ELSE down[i]
    BY <1>1, <2>2, <2>3
  <2>5. \A i \in 1 .. Len(down') : p <= down'[i].pos
    BY <2>2, <2>3, <2>4 DEF Frontier
  <2>6. c <= used'.damaged /\ c + 1 <= used'.damaged
    BY <1>1, <2>1 DEF Frontier
  <2> QED BY <2>1, <2>5, <2>6 DEF Frontier, Sq
<1> QED BY <1>4, <1>5, <1>6, <1>7, <1>8

\* The number of damaged packets never goes down.
LEMMA DamagedGrows ==
    ASSUME Shape, [Next]_vars
    PROVE  used.damaged \in Nat /\ used'.damaged \in Nat /\ used'.damaged >= used.damaged
<1>1. used \in Counters
  BY DEF Shape, Types2
<1>2. used' = used \/ used'.damaged = used.damaged \/ used'.damaged = used.damaged + 1
  <2>1. CASE Start \/ Receive \/ SenderStart \/ SenderAnswer \/ SenderTimeout \/ UNCHANGED vars
    BY <2>1 DEF vars, Start, Receive, SenderStart, SenderAnswer, SenderTimeout
  <2>2. CASE SenderEarly \/ Lose
    BY <1>1, <2>2, CounterFacts DEF SenderEarly, Lose
  <2>3. CASE Damage
    <3>1. used' = [used EXCEPT !.damaged = @ + 1]
      BY <2>3 DEF Damage
    <3> QED BY <1>1, <3>1, CounterFacts
  <2> QED BY <2>1, <2>2, <2>3 DEF Next
<1>3. used.damaged \in Nat
  BY <1>1, CounterFacts
<1> QED BY <1>2, <1>3

LEMMA OrderStep == Shape /\ Ordered /\ [Next]_vars => Ordered'
<1> SUFFICES ASSUME Shape, Ordered, [Next]_vars, (used.damaged + 1 < KermSeqs)'
             PROVE  \E p, c \in Nat : Frontier(p, c)'
  BY DEF Ordered
<1>1. used.damaged + 1 < KermSeqs
  BY DamagedGrows, ConstantsAssumption
<1>2. PICK p \in Nat, c \in Nat : Frontier(p, c)
  BY <1>1 DEF Ordered
<1>3. CASE Receive
  BY <1>1, <1>2, <1>3, OrderReceive
<1>4. CASE SenderStart \/ SenderAnswer \/ SenderTimeout \/ SenderEarly \/ Lose \/ Damage
  <2>1. Frontier(p, c)'
    BY <1>2, <1>4, OrderLine
  <2> QED BY <2>1
<1>5. CASE Start \/ UNCHANGED vars
  <2>1. Frontier(p, c)'
    BY <1>2, <1>5 DEF Start, vars, Frontier, Sq
  <2> QED BY <2>1
<1> QED BY <1>3, <1>4, <1>5 DEF Next

\* What is stored is in the order of the file, each piece once, as long as fewer
\* than KermSeqs - 1 packets were damaged: for every length of the file and any
\* number of lost and repeated packets.
THEOREM KermitOrder == Spec => []OrderKept
<1>1. Init => Ordered
  <2> SUFFICES ASSUME Init PROVE Frontier(0, 0)
    BY DEF Ordered
  <2>1. 0 % KermSeqs = 0
    BY ConstantsAssumption
  <2> QED BY <2>1 DEF Init, Frontier, Sq
<1>2. Shape /\ Ordered => OrderKept
  <2> SUFFICES ASSUME Shape, Ordered, used.damaged + 1 < KermSeqs
               PROVE  \A i, j \in DOMAIN load : i < j => load[i] < load[j]
    BY DEF OrderKept
  <2>1. DOMAIN load = 1 .. Len(load)
    BY DEF Shape, Types2
  <2> QED BY <2>1 DEF Ordered, Frontier
<1> QED BY ShapeInit, ShapeStep, OrderStep, <1>1, <1>2, PTL DEF Spec
-----------------------------------------------------------------------------
(***************************************************************************)
(* Without damage the two ends stay within one packet of each other.  The  *)
(* receiver expects the packet at position e; the sender is at e or still  *)
(* at e - 1, and every answer under way is one that takes it from e - 1 to *)
(* e, never further.                                                       *)
(***************************************************************************)

Refused(e) == [seq |-> Sq(e), answer |-> "N"]
Taken(e) == [seq |-> Sq(e), answer |-> "Y"]

\* The answers that the sender may still read, in the order in which it will.
AnswersAt(e) ==
    /\ sender = 0 => up = <<>>
    /\ sender = e => \A i \in 1 .. Len(up) : up[i] = Refused(e)
    /\ (sender = e - 1 /\ sender > 0) =>
         /\ \A i \in 1 .. Len(up) : up[i] \in {Refused(e - 1), Taken(e - 1), Refused(e)}
         /\ \A i, j \in 1 .. Len(up) :
              (i < j /\ up[i] \in {Taken(e - 1), Refused(e)}) => up[j] = Refused(e)

\* What the receiver has when it expects the packet at e.
ReceiverAt(e) ==
    /\ ret # "error" => real_seq = Sq(e)
    /\ \A i \in DataPackets : i < e => Contains(load, i)
    /\ (ret = "none" /\ type = "B") => e = 1
    /\ ret = "size" => e = Len(file) + 1

LineAt(e) ==
    /\ sender \in {e - 1, e}
    /\ \A i \in 1 .. Len(down) : down[i].pos \in {e - 1, e}

Sync == used.damaged = 0 => \E e \in 1 .. Len(file) + 1 : ReceiverAt(e) /\ LineAt(e) /\ AnswersAt(e)

\* The packet at e is asked for once more.
LEMMA AnswerAdded ==
    ASSUME Shape, NEW e \in Nat \ {0}, AnswersAt(e), sender' = sender, sender # 0,
           up' = Append(up, Refused(e))
    PROVE  AnswersAt(e)'
<1>1. up \in Seq(Answers) /\ Refused(e) \in Answers
  BY SqFacts DEF Shape, Types2, Answers, Refused
<1>2. /\ Len(up') = Len(up) + 1 /\ Len(up) \in Nat
      /\ \A i \in 1 .. Len(up) : up'[i] = up[i]
      /\ up'[Len(up) + 1] = Refused(e)
  BY <1>1, AppendFacts
<1>3. \A i \in 1 .. Len(up') : i \in 1 .. Len(up) \/ i = Len(up) + 1
  BY <1>2
<1>4. ASSUME sender = e, NEW i \in 1 .. Len(up')
      PROVE  up'[i] = Refused(e)
  BY <1>2, <1>3, <1>4 DEF AnswersAt
<1>5. ASSUME sender = e - 1, sender > 0, NEW i \in 1 .. Len(up')
      PROVE  up'[i] \in {Refused(e - 1), Taken(e - 1), Refused(e)}
  BY <1>2, <1>3, <1>5 DEF AnswersAt
<1>6. ASSUME sender = e - 1, sender > 0, NEW i \in 1 .. Len(up'), NEW j \in 1 .. Len(up'),
             i < j, up'[i] \in {Taken(e - 1), Refused(e)}
      PROVE  up'[j] = Refused(e)
  <2>1. i \in 1 .. Len(up)
    BY <1>2, <1>6
  <2>2. CASE j \in 1 .. Len(up)
    BY <1>2, <1>6, <2>1, <2>2 DEF AnswersAt
  <2>3. CASE j = Len(up) + 1
    BY <1>2, <2>3
  <2> QED BY <1>3, <2>2, <2>3
<1> QED BY <1>4, <1>5, <1>6 DEF AnswersAt, Refused, Taken, Sq

\* The answer to the expected packet: the receiver is one ahead from now on.
LEMMA AnswerMovesOn ==
    ASSUME Shape, NEW e \in Nat \ {0}, AnswersAt(e), sender' = sender, sender = e,
           up' = Append(up, Taken(e))
    PROVE  AnswersAt(e + 1)'
<1>1. up \in Seq(Answers) /\ Taken(e) \in Answers
  BY SqFacts DEF Shape, Types2, Answers, Taken
<1>2. /\ Len(up') = Len(up) + 1 /\ Len(up) \in Nat
      /\ \A i \in 1 .. Len(up) : up'[i] = up[i]
      /\ up'[Len(up) + 1] = Taken(e)
  BY <1>1, AppendFacts
<1>3. \A i \in 1 .. Len(up') : i \in 1 .. Len(up) \/ i = Len(up) + 1
  BY <1>2
<1>4. \A i \in 1 .. Len(up) : up'[i] = Refused(e)
  BY <1>2 DEF AnswersAt
<1>5. Refused(e) # Taken(e) /\ Refused(e) # Refused(e + 1)
  <2>1. Sq(e) # Sq(e + 1)
    BY SqFacts
  <2> QED BY <2>1 DEF Refused, Taken
<1>6. (e + 1) - 1 = e /\ sender' = e /\ e # e + 1 /\ e # 0
  OBVIOUS
<1>7. \A i \in 1 .. Len(up') : up'[i] \in {Refused(e), Taken(e), Refused(e + 1)}
  BY <1>2, <1>3, <1>4
<1>8. ASSUME NEW i \in 1 .. Len(up'), NEW j \in 1 .. Len(up'),
             i < j, up'[i] \in {Taken(e), Refused(e + 1)}
      PROVE  FALSE
  <2>1. i \in 1 .. Len(up)
    BY <1>2, <1>8
  <2> QED BY <1>4, <1>5, <1>8, <2>1
<1> QED BY <1>6, <1>7, <1>8 DEF AnswersAt, Refused, Taken, Sq

\* An answer is read or lost.
LEMMA AnswerGone ==
    ASSUME Shape, NEW e \in Nat \ {0}, AnswersAt(e), sender' = sender,
           up # <<>>, up' = Tail(up)
    PROVE  AnswersAt(e)'
<1>1. /\ Len(up') = Len(up) - 1 /\ Len(up) \in Nat \ {0}
      /\ \A i \in 1 .. Len(up') : up'[i] = up[i + 1]
  BY TailFacts DEF Shape, Types2
<1>2. \A i \in 1 .. Len(up') : i + 1 \in 1 .. Len(up)
  BY <1>1
<1> QED BY <1>1, <1>2 DEF AnswersAt, Refused, Taken, Sq

\* The answer that acknowledges: all the ones behind it refuse the next packet.
LEMMA AnswerMovesSender ==
    ASSUME Shape, NEW e \in Nat \ {0}, AnswersAt(e), sender > 0, sender = e - 1, sender' = e,
           up # <<>>, up' = Tail(up), Head(up) \in {Taken(e - 1), Refused(e)}
    PROVE  AnswersAt(e)'
<1>1. /\ Len(up') = Len(up) - 1 /\ Len(up) \in Nat \ {0} /\ Head(up) = up[1]
      /\ \A i \in 1 .. Len(up') : up'[i] = up[i + 1]
  BY TailFacts DEF Shape, Types2
<1>2. \A i \in 1 .. Len(up') : i + 1 \in 1 .. Len(up) /\ 1 < i + 1 /\ 1 \in 1 .. Len(up)
  BY <1>1
<1>3. \A i \in 1 .. Len(up') : up'[i] = Refused(e)
  BY <1>1, <1>2 DEF AnswersAt
<1> QED BY <1>3 DEF AnswersAt, Refused, Sq

\* The receiver takes a packet off the line.
LEMMA SyncReceive ==
    ASSUME Shape, Receive, used.damaged = 0, NEW e \in 1 .. Len(file) + 1,
           ReceiverAt(e), LineAt(e), AnswersAt(e)
    PROVE  \E d \in 1 .. Len(file) + 1 : (ReceiverAt(d) /\ LineAt(d) /\ AnswersAt(d))'
<1> DEFINE pkt == Head(down)
<1>1. /\ down # <<>> /\ down' = Tail(down) /\ pc = "receive"
      /\ UNCHANGED <<file, dst, sender, used>>
  BY DEF Receive
<1>2. /\ Len(file) \in Nat /\ e \in Nat \ {0} /\ sender \in Nat /\ ret = "none"
      /\ down \in Seq(Pkts) /\ load \in Seq(Nat)
  BY <1>1 DEF Shape, FileOK, Types2
<1>3. /\ pkt = down[1] /\ Len(down) \in Nat \ {0}
      /\ Len(down') = Len(down) - 1 /\ \A i \in 1 .. Len(down') : down'[i] = down[i + 1]
  BY <1>1, <1>2, TailFacts
<1>4. 1 \in 1 .. Len(down) /\ \A i \in 1 .. Len(down') : i + 1 \in 1 .. Len(down) /\ 1 < i + 1
  BY <1>3
<1>5. /\ pkt.pos \in 1 .. Len(file) /\ pkt.pos <= sender /\ pkt.pos \in {e - 1, e}
      /\ pkt.good /\ pkt.seq = Sq(pkt.pos) /\ pkt.type = file[pkt.pos]
      /\ \A i \in 1 .. Len(down') : down'[i].pos \in {e - 1, e} /\ pkt.pos <= down'[i].pos
  <2>1. pkt.pos \in 1 .. sender /\ pkt.pos <= Len(file) /\ pkt.good
    BY <1>3, <1>4 DEF Shape, Line
  <2>2. pkt.seq = Sq(pkt.pos) /\ pkt.type = file[pkt.pos]
    BY <1>3, <1>4, <2>1 DEF Shape, Line
  <2>3. pkt.pos \in {e - 1, e}
    BY <1>3, <1>4 DEF LineAt
  <2>4. ASSUME NEW i \in 1 .. Len(down')
        PROVE  down'[i].pos \in {e - 1, e} /\ pkt.pos <= down'[i].pos
    <3>1. down'[i] = down[i + 1] /\ i + 1 \in 1 .. Len(down) /\ 1 < i + 1
      BY <1>3, <1>4
    <3>2. down[1].pos <= down[i + 1].pos
      BY <1>4, <3>1 DEF Shape, Line
    <3>3. down[i + 1].pos \in {e - 1, e}
      BY <3>1 DEF LineAt
    <3> QED BY <1>3, <3>1, <3>2, <3>3
  <2> QED BY <1>2, <2>1, <2>2, <2>3, <2>4
<1>6. real_seq = Sq(e)
  BY <1>2 DEF ReceiverAt
<1>7. \E p \in {pkt} : WrongSeq(p) \/ BadChecksum(p) \/ Accept(p) \/ GiveUp(p)
  BY DEF Receive
<1> HIDE DEF pkt
<1>8. CASE WrongSeq(pkt)
  <2>1. pkt.pos = e - 1 /\ e > 1 /\ sender # 0
    BY <1>2, <1>5, <1>6, <1>8 DEF WrongSeq
  <2>2. type # "B"
    BY <1>2, <2>1 DEF ReceiverAt
  <2>3. UNCHANGED <<pc, ret, real_seq, type, load>> /\ up' = Append(up, Refused(e))
    BY <1>6, <1>8, <2>2 DEF WrongSeq, LoopEnd, send_ack_packet, Refused
  <2>4. AnswersAt(e)'
    BY <1>1, <1>2, <2>1, <2>3, AnswerAdded
  <2>5. ReceiverAt(e)'
    BY <1>1, <2>3 DEF ReceiverAt, DataPackets, Sq
  <2>6. LineAt(e)'
    BY <1>1, <1>5 DEF LineAt
  <2>7. e \in 1 .. Len(file) + 1
    OBVIOUS
  <2> QED BY <2>4, <2>5, <2>6
<1>9. CASE BadChecksum(pkt)
  BY <1>5, <1>9 DEF BadChecksum
<1>10. CASE Accept(pkt)
  <2>1. pkt.pos = e
    <3>1. CASE pkt.pos = e - 1
      <4>1. e - 1 \in Nat \ {0} /\ (e - 1) + 1 = e
        BY <1>2, <1>5, <3>1
      <4>2. Sq(e - 1) # Sq(e)
        BY <4>1, SqFacts
      <4> QED BY <1>5, <1>6, <1>10, <3>1, <4>2 DEF Accept
    <3> QED BY <1>5, <3>1
  <2>2. sender = e /\ e <= Len(file) /\ e + 1 \in 1 .. Len(file) + 1 /\ (e + 1) - 1 = e
    BY <1>2, <1>5, <2>1 DEF LineAt
  <2>3. LineAt(e + 1)'
    BY <1>1, <1>2, <1>5, <2>1, <2>2 DEF LineAt
  <2>4. up' = Append(up, Taken(e))
    BY <1>5, <1>10, <2>1 DEF Accept, send_ack_packet, Taken
  <2>5. AnswersAt(e + 1)'
    BY <1>1, <1>2, <2>2, <2>4, AnswerMovesOn
  <2>6. real_seq' = Sq(e + 1)
    BY <1>2, <1>6, <1>10, SqFacts DEF Accept
  <2>7. type' = file[e] /\ (ret' = "none" => type' # "B") /\ (ret' = "size" => type' = "B")
    BY <1>2, <1>5, <1>10, <2>1 DEF Accept, LoopEnd, Return
  <2>8. ret' = "size" => e + 1 = Len(file) + 1
    BY <1>2, <2>2, <2>7, SMTT(40) DEF Shape, FileOK
  <2>9. ASSUME NEW i \in DataPackets, i < e + 1
        PROVE  Contains(load', i)
    <3>0. i \in 1 .. Len(file) /\ file[i] = "D"
      BY <1>2 DEF DataPackets, Shape, FileOK
    <3>1. CASE file[e] = "D"
      <4>1. load' = Append(load, e)
        BY <1>5, <1>10, <2>1, <3>1 DEF Accept
      <4>2. /\ Len(load') = Len(load) + 1 /\ Len(load) \in Nat
            /\ \A k \in 1 .. Len(load) : load'[k] = load[k]
            /\ load'[Len(load) + 1] = e
        BY <1>2, <4>1, AppendFacts
      <4>3. CASE i = e
        <5>1. Len(load) + 1 \in 1 .. Len(load')
          BY <4>2
        <5> QED BY <4>2, <4>3, <5>1 DEF Contains
      <4>4. CASE i < e
        <5>1. PICK k \in 1 .. Len(load) : load[k] = i
          BY <4>4 DEF ReceiverAt, Contains
        <5>2. k \in 1 .. Len(load') /\ load'[k] = i
          BY <4>2, <5>1
        <5> QED BY <5>2 DEF Contains
      <4> QED BY <1>2, <2>9, <3>0, <4>3, <4>4
    <3>2. CASE file[e] # "D"
      <4>1. load' = load /\ i < e
        BY <1>2, <1>5, <1>10, <2>1, <2>9, <3>0, <3>2 DEF Accept
      <4> QED BY <4>1 DEF ReceiverAt
    <3> QED BY <3>1, <3>2
  <2>10. ReceiverAt(e + 1)'
    BY <1>1, <2>6, <2>7, <2>8, <2>9 DEF ReceiverAt, DataPackets, Sq
  <2> QED BY <1>1, <2>2, <2>3, <2>5, <2>10
<1>11. CASE GiveUp(pkt)
  <2>1. ret' = "error" /\ UNCHANGED <<load, up>>
    BY <1>11 DEF GiveUp, Return
  <2>2. ReceiverAt(e)'
    BY <1>1, <2>1 DEF ReceiverAt, DataPackets
  <2>3. LineAt(e)' /\ AnswersAt(e)'
    BY <1>1, <1>5, <2>1 DEF LineAt, AnswersAt, Refused, Taken, Sq
  <2> QED BY <2>2, <2>3
<1> QED BY <1>7, <1>8, <1>9, <1>10, <1>11

\* A packet is sent: it is the one the receiver expects or the one before it.
LEMMA SyncSent ==
    ASSUME Shape, NEW e \in 1 .. Len(file) + 1, LineAt(e), sender' \in {e - 1, e},
           down' = down \/ down' = Append(down, Packet(sender')), UNCHANGED file, sender' >= 1
    PROVE  LineAt(e)'
<1>1. CASE down' = down
  BY <1>1 DEF LineAt
<1>2. CASE down' = Append(down, Packet(sender'))
  <2>1. /\ Len(down') = Len(down) + 1 /\ Len(down) \in Nat
        /\ \A i \in 1 .. Len(down) : down'[i] = down[i]
        /\ down'[Len(down) + 1] = Packet(sender')
    BY <1>2 DEF Shape, Types2
  <2>2. Packet(sender').pos = sender'
    BY DEF Packet
  <2> QED BY <2>1, <2>2 DEF LineAt
<1> QED BY <1>1, <1>2

\* The sender and the line keep the two ends together.
LEMMA SyncSend ==
    ASSUME Shape, used.damaged = 0, NEW e \in 1 .. Len(file) + 1,
           ReceiverAt(e), LineAt(e), AnswersAt(e),
           Start \/ SenderStart \/ SenderAnswer \/ SenderTimeout \/ SenderEarly \/ Lose
    PROVE  (ReceiverAt(e) /\ LineAt(e) /\ AnswersAt(e))'
<1>1. /\ Len(file) \in Nat /\ e \in Nat \ {0} /\ sender \in Nat /\ DOMAIN file = 1 .. Len(file)
      /\ down \in Seq(Pkts) /\ up \in Seq(Answers)
  BY DEF Shape, FileOK, Types2
<1>2. sender \in {e - 1, e}
  BY DEF LineAt
<1>3. CASE Start
  <2>1. UNCHANGED <<file, real_seq, type, load, down, up, sender>> /\ ret' \in {ret, "error"}
    BY <1>3 DEF Start, Return
  <2> QED BY <2>1 DEF ReceiverAt, LineAt, AnswersAt, DataPackets, Refused, Taken, Sq
<1>5. CASE SenderStart
  <2>1. sender = 0 /\ e = 1 /\ sender' = 1 /\ up' = up /\ up = <<>>
    BY <1>1, <1>2, <1>5 DEF SenderStart, SendNext, AnswersAt
  <2>2. down' = down \/ down' = Append(down, Packet(sender'))
    BY <1>5 DEF SenderStart, SendNext
  <2>3. UNCHANGED file
    BY <1>5 DEF SenderStart
  <2>4. LineAt(e)'
    BY <2>1, <2>2, <2>3, SyncSent
  <2>5. AnswersAt(e)'
    BY <2>1 DEF AnswersAt
  <2>6. ReceiverAt(e)'
    BY <1>5 DEF SenderStart, ReceiverAt, rxVars, DataPackets, Sq
  <2> QED BY <2>4, <2>5, <2>6
<1>6. CASE SenderAnswer
  <2> DEFINE a == Head(up)
  <2>1. up # <<>> /\ sender > 0 /\ up' = Tail(up) /\ UNCHANGED <<file, rxVars>>
    BY <1>6 DEF SenderAnswer
  <2>2. a = up[1] /\ 1 \in 1 .. Len(up)
    BY <1>1, <2>1, TailFacts
  <2>3. Sq(e) # Sq(e + 1) /\ next_seq(Sq(e)) = Sq(e + 1) /\ Packet(sender).seq = Sq(sender)
    BY <1>1, SqFacts DEF Packet, Sq
  <2>4. \E b \in {a} :
          \/ Sending /\ Acknowledges(b) /\ SendNext
          \/ Sending /\ b.answer = "N" /\ b.seq = Packet(sender).seq /\ SendAgain
          \/ /\ Sending => /\ ~Acknowledges(b)
                           /\ ~(b.answer = "N" /\ b.seq = Packet(sender).seq)
             /\ UNCHANGED <<sender, down>>
    BY <1>6 DEF SenderAnswer
  <2>5. ReceiverAt(e)'
    BY <2>1 DEF ReceiverAt, rxVars, DataPackets, Sq
  <2> HIDE DEF a
  <2>6. ASSUME sender' = sender
        PROVE  AnswersAt(e)'
    BY <1>1, <2>1, <2>6, AnswerGone
  <2>7. CASE SendAgain \/ UNCHANGED <<sender, down>>
    <3>1. sender' = sender /\ (down' = down \/ down' = Append(down, Packet(sender')))
      BY <2>1, <2>7 DEF SendAgain, Packet
    <3>2. sender' \in {e - 1, e} /\ sender' >= 1
      BY <1>1, <1>2, <2>1, <3>1
    <3>3. LineAt(e)'
      BY <2>1, <3>1, <3>2, SyncSent
    <3> QED BY <2>5, <2>6, <3>1, <3>3
  <2>8. CASE Sending /\ Acknowledges(a) /\ SendNext
    <3>1. sender = e - 1 /\ a \in {Taken(e - 1), Refused(e)}
      <4>1. CASE sender = e
        <5>1. a.seq = Sq(e) /\ a.answer = "N"
          BY <2>2, <4>1 DEF AnswersAt, Refused
        <5> QED BY <2>3, <2>8, <4>1, <5>1 DEF Acknowledges
      <4>2. CASE sender = e - 1
        <5>1. a \in {Refused(e - 1), Taken(e - 1), Refused(e)}
          BY <2>1, <2>2, <4>2 DEF AnswersAt
        <5>2. CASE a = Refused(e - 1)
          <6>1. a.seq = Sq(e - 1) /\ a.answer = "N"
            BY <5>2 DEF Refused
          <6>2. e - 1 \in Nat \ {0} /\ (e - 1) + 1 = e
            BY <1>1, <2>1, <4>2
          <6>3. next_seq(Sq(e - 1)) # Sq(e - 1)
            BY <6>2, SqFacts
          <6> QED BY <2>3, <2>8, <4>2, <6>1, <6>3 DEF Acknowledges
        <5> QED BY <4>2, <5>1, <5>2
      <4> QED BY <1>2, <4>1, <4>2
    <3>2. sender' = e /\ (down' = down \/ down' = Append(down, Packet(sender')))
      BY <1>1, <2>8, <3>1 DEF SendNext
    <3>3. LineAt(e)'
      BY <1>1, <2>1, <3>2, SyncSent
    <3>4. AnswersAt(e)'
      BY <1>1, <2>1, <3>1, <3>2, AnswerMovesSender DEF a
    <3> QED BY <2>5, <3>3, <3>4
  <2> QED BY <2>4, <2>7, <2>8
<1>7. CASE SenderTimeout \/ SenderEarly
  <2>1. /\ UNCHANGED <<file, rxVars, up, sender>> /\ down' = Append(down, Packet(sender))
        /\ sender \in 1 .. Len(file)
    BY <1>1, <1>7 DEF SenderTimeout, SenderEarly, SendAgain, Sending
  <2>2. Packet(sender') = Packet(sender)
    BY <2>1 DEF Packet
  <2>3. LineAt(e)'
    BY <1>1, <1>2, <2>1, <2>2, SyncSent
  <2>4. AnswersAt(e)' /\ ReceiverAt(e)'
    BY <2>1 DEF AnswersAt, ReceiverAt, rxVars, DataPackets, Refused, Taken, Sq
  <2> QED BY <2>3, <2>4
<1>8. CASE Lose
  <2>1. UNCHANGED <<file, rxVars, sender>>
    BY <1>8 DEF Lose
  <2>2. ReceiverAt(e)'
    BY <2>1 DEF ReceiverAt, rxVars, DataPackets, Sq
  <2>3. CASE down # <<>> /\ down' = Tail(down) /\ UNCHANGED up
    <3>1. LineAt(e)'
      <4>1. /\ Len(down') = Len(down) - 1 /\ Len(down) \in Nat
            /\ \A i \in 1 .. Len(down') : down'[i] = down[i + 1]
        BY <1>1, <2>3, TailFacts
      <4>2. \A i \in 1 .. Len(down') : i + 1 \in 1 .. Len(down)
        BY <4>1
      <4> QED BY <2>1, <4>1, <4>2 DEF LineAt
    <3>2. AnswersAt(e)'
      BY <2>1, <2>3 DEF AnswersAt, Refused, Taken, Sq
    <3> QED BY <2>2, <3>1, <3>2
  <2>4. CASE up # <<>> /\ up' = Tail(up) /\ UNCHANGED down
    <3>1. AnswersAt(e)'
      BY <1>1, <2>1, <2>4, AnswerGone
    <3> QED BY <2>1, <2>2, <2>4, <3>1 DEF LineAt
  <2> QED BY <1>8, <2>3, <2>4 DEF Lose
<1> QED BY <1>3, <1>5, <1>6, <1>7, <1>8

LEMMA SyncStep == Shape /\ Sync /\ [Next]_vars => Sync'
<1> SUFFICES ASSUME Shape, Sync, [Next]_vars, used'.damaged = 0
             PROVE  \E e \in 1 .. Len(file') + 1 : (ReceiverAt(e) /\ LineAt(e) /\ AnswersAt(e))'
  BY DEF Sync
<1>1. used.damaged = 0
  BY DamagedGrows
<1>2. PICK e \in 1 .. Len(file) + 1 : ReceiverAt(e) /\ LineAt(e) /\ AnswersAt(e)
  BY <1>1 DEF Sync
<1>3. file' = file
  BY DEF Next, vars, Start, Receive, SenderStart, SenderAnswer, SenderTimeout, SenderEarly,
         Lose, Damage
<1>4. CASE Receive
  BY <1>1, <1>2, <1>3, <1>4, SyncReceive
<1>5. CASE Start \/ SenderStart \/ SenderAnswer \/ SenderTimeout \/ SenderEarly \/ Lose
  BY <1>1, <1>2, <1>3, <1>5, SyncSend
<1>6. CASE Damage
  <2>1. used' = [used EXCEPT !.damaged = @ + 1] /\ used \in Counters
    BY <1>6 DEF Damage, Shape, Types2
  <2> QED BY <1>1, <2>1, CounterFacts
<1>7. CASE UNCHANGED vars
  <2>1. (ReceiverAt(e) /\ LineAt(e) /\ AnswersAt(e))'
    BY <1>2, <1>7 DEF vars, ReceiverAt, LineAt, AnswersAt, DataPackets, Refused, Taken, Sq
  <2> QED BY <1>3, <2>1
<1> QED BY <1>4, <1>5, <1>6, <1>7 DEF Next

LEMMA SyncInit == Init => Sync
<1> SUFFICES ASSUME Init PROVE ReceiverAt(1) /\ LineAt(1) /\ AnswersAt(1) /\ 1 \in 1 .. Len(file) + 1
  BY DEF Sync
<1>1. FileOK
  BY ShapeInit DEF Shape
<1>2. Sq(1) = 0
  BY ConstantsAssumption DEF Sq
<1>3. DataPackets \subseteq Nat \ {0}
  BY <1>1 DEF DataPackets, FileOK
<1> QED BY <1>1, <1>2, <1>3 DEF Init, ReceiverAt, LineAt, AnswersAt, FileOK

\* Without damage the sender never believes a packet delivered that the receiver
\* has not taken, although it reads some NACKs as acknowledgements: for every
\* modulus of the numbers, 2 included, and any number of losses and timeouts.
THEOREM KermitSenderNotAhead == Spec => []SenderNotAhead
<1>1. Shape /\ Sync => SenderNotAhead
  <2> SUFFICES ASSUME Shape, Sync, used.damaged = 0, NEW i \in DataPackets, i < sender
               PROVE  Contains(load, i)
    BY DEF SenderNotAhead
  <2>1. PICK e \in 1 .. Len(file) + 1 : ReceiverAt(e) /\ LineAt(e)
    BY DEF Sync
  <2>2. i \in Nat /\ e \in Nat
    BY DEF DataPackets, Shape, FileOK
  <2>3. i < e
    BY <2>1, <2>2 DEF LineAt
  <2> QED BY <2>1, <2>3 DEF ReceiverAt
<1> QED BY ShapeInit, ShapeStep, SyncInit, SyncStep, <1>1, PTL DEF Spec

\* Without damage the size is returned for the whole file only.
THEOREM KermitSizeMeansWhole == Spec => []SizeMeansWhole
<1>1. Shape /\ Sync => SizeMeansWhole
  <2> SUFFICES ASSUME Shape, Sync, used.damaged = 0, ret = "size", NEW i \in DataPackets
               PROVE  Contains(load, i)
    BY DEF SizeMeansWhole
  <2>1. PICK e \in 1 .. Len(file) + 1 : ReceiverAt(e)
    BY DEF Sync
  <2>2. i \in 1 .. Len(file) /\ Len(file) \in Nat /\ e = Len(file) + 1
    BY <2>1 DEF DataPackets, Shape, FileOK, ReceiverAt
  <2>3. i < e
    BY <2>2
  <2> QED BY <2>1, <2>3 DEF ReceiverAt
<1> QED BY ShapeInit, ShapeStep, SyncInit, SyncStep, <1>1, PTL DEF Spec
=============================================================================
