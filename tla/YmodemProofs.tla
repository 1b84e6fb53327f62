---------------------------- MODULE YmodemProofs ----------------------------
(***************************************************************************)
(* What ymodem_load() stores, for every number of blocks, every modulus of *)
(* the block numbers and any number of losses, cuts and timeouts: although *)
(* the CRC is never looked at, the blocks are the ones of the file, each   *)
(* once and in its place.                                                  *)
(***************************************************************************)
EXTENDS MCLoaders, KermitProofs

YParts == {"whole", "short", "number", "headless"}
YBlocks == [pos : Nat, num : Nat, eot : BOOLEAN, part : YParts]
YAnswers == {"C", "ACK", "NAK", "CAN"}
YSenders == [pos : Int, acked : BOOLEAN]
YCounters == [lost : Nat, acks : Nat, cut : Nat, early : Nat]

YTypes ==
    /\ yn \in Nat /\ ydst \in BOOLEAN
    /\ ypc \in {"start", "hello", "data", "returned"}
    /\ yret \in {"none", "size", "error"}
    /\ ypc = "returned" <=> yret # "none"
    /\ yblk \in Nat /\ yload \in Seq(Nat)
    /\ ydown \in Seq(YBlocks) /\ yup \in Seq(YAnswers)
    /\ ysender \in YSenders /\ ysender.pos >= -1
    /\ yused \in YCounters

\* No acknowledgement is under way.
NoAck == \A i \in 1 .. Len(yup) : yup[i] # "ACK"

\* Blocks arrive in the order of the file, none from behind the sender, and
\* keep their numbers.
YLine ==
    /\ \A i \in 1 .. Len(ydown) :
         /\ ydown[i].pos <= ysender.pos
         /\ ydown[i].num = ydown[i].pos % BlkMod
         /\ ydown[i].eot <=> ydown[i].pos = yn + 1
         /\ ydown[i].part # "whole" => yused.cut > 0
    /\ \A i, j \in 1 .. Len(ydown) : i < j => ydown[i].pos <= ydown[j].pos

\* Until the header has come nothing but the header is sent.
BeforeHeader ==
    /\ yload = <<>>
    /\ ysender.pos \in {-1, 0} /\ ~ysender.acked
    /\ NoAck

\* From then on the sender is at the expected block or at the one before it, and
\* at most one acknowledgement, the one between the two, is under way.
InData ==
    /\ yblk = Len(yload) + 1 /\ yblk <= yn + 1
    /\ ysender.pos \in {yblk - 1, yblk}
    /\ \A i \in 1 .. Len(ydown) : ydown[i].pos \in {yblk - 1, yblk}
    /\ ysender.acked => ysender.pos = 0
    /\ (ysender.pos = yblk \/ ysender.acked) => NoAck
    /\ \A i, j \in 1 .. Len(yup) : i < j => ~(yup[i] = "ACK" /\ yup[j] = "ACK")

YStored ==
    /\ \A i \in 1 .. Len(yload) : yload[i] = i
    /\ (yret = "size" /\ yused.cut = 0) => Len(yload) = yn

YInv ==
    /\ YTypes /\ YLine /\ YStored
    /\ ypc \in {"start", "hello"} => BeforeHeader
    /\ ypc = "data" => InData

-----------------------------------------------------------------------------
(* What the receiver and the line do to the blocks under way: some at the  *)
(* front are gone, and parts of others.                                    *)

Shifted(k) ==
    /\ k \in 0 .. Len(ydown)
    /\ ydown' \in Seq(YBlocks) /\ Len(ydown') = Len(ydown) - k
    /\ \A i \in 1 .. Len(ydown') :
         /\ ydown'[i].pos = ydown[i + k].pos
         /\ ydown'[i].num = ydown[i + k].num
         /\ ydown'[i].eot = ydown[i + k].eot
         /\ ydown'[i].part # "whole" => ydown[i + k].part # "whole" \/ yused'.cut > 0

LEMMA SubSeqFacts ==
    ASSUME NEW S, NEW s \in Seq(S), NEW k \in 0 .. Len(s)
    PROVE  /\ SubSeq(s, k + 1, Len(s)) \in Seq(S)
           /\ Len(SubSeq(s, k + 1, Len(s))) = Len(s) - k
           /\ \A i \in 1 .. Len(s) - k : SubSeq(s, k + 1, Len(s))[i] = s[i + k]
OBVIOUS

LEMMA ExceptFacts ==
    ASSUME NEW S, NEW s \in Seq(S), NEW i \in 1 .. Len(s), NEW x \in S
    PROVE  [s EXCEPT ![i] = x] \in Seq(S) /\ Len([s EXCEPT ![i] = x]) = Len(s)
OBVIOUS

LEMMA TailShifts ==
    ASSUME YTypes, ydown # <<>>, ydown' = Tail(ydown)
    PROVE  Shifted(1)
<1>1. /\ ydown' \in Seq(YBlocks) /\ Len(ydown') = Len(ydown) - 1 /\ Len(ydown) \in Nat \ {0}
      /\ \A i \in 1 .. Len(ydown') : ydown'[i] = ydown[i + 1]
  BY TailFacts DEF YTypes
<1> QED BY <1>1 DEF Shifted

LEMMA ClearShifts ==
    ASSUME YTypes, ydown # <<>>, Y!uart_clear_buff(Tail(ydown))
    PROVE  \E k \in 1 .. Len(ydown) : Shifted(k)
<1> DEFINE t == Tail(ydown)
<1>1. /\ t \in Seq(YBlocks) /\ Len(t) = Len(ydown) - 1 /\ Len(ydown) \in Nat \ {0}
      /\ \A i \in 1 .. Len(t) : t[i] = ydown[i + 1]
  BY TailFacts DEF YTypes
<1>2. PICK k \in 0 .. Len(t) : ydown' = SubSeq(t, k + 1, Len(t))
  BY DEF Y!uart_clear_buff
<1> HIDE DEF t
<1>3. /\ ydown' \in Seq(YBlocks) /\ Len(ydown') = Len(t) - k
      /\ \A i \in 1 .. Len(t) - k : ydown'[i] = t[i + k]
  BY <1>1, <1>2, SubSeqFacts
<1>4. ASSUME NEW i \in 1 .. Len(ydown')
      PROVE  ydown'[i] = ydown[i + (k + 1)]
  <2>1. i + k \in 1 .. Len(t) /\ (i + k) + 1 = i + (k + 1)
    BY <1>1, <1>3
  <2> QED BY <1>1, <1>3, <2>1
<1>5. k + 1 \in 1 .. Len(ydown) /\ Len(ydown') = Len(ydown) - (k + 1)
  BY <1>1, <1>3
<1>6. k + 1 \in 0 .. Len(ydown)
  BY <1>1, <1>5
<1>7. Shifted(k + 1)
  BY <1>3, <1>4, <1>5, <1>6 DEF Shifted
<1> QED BY <1>5, <1>7

LEMMA CutShifts ==
    ASSUME YTypes, ydown # <<>>, NEW p \in YParts, ydown' = [ydown EXCEPT ![1].part = p],
           yused'.cut > 0
    PROVE  Shifted(0)
<1>1. ydown \in Seq(YBlocks) /\ Len(ydown) \in Nat \ {0} /\ ydown[1] \in YBlocks
  BY TailFacts DEF YTypes
<1>2. [ydown[1] EXCEPT !.part = p] \in YBlocks
  BY <1>1 DEF YBlocks
<1>3. ydown' = [ydown EXCEPT ![1] = [ydown[1] EXCEPT !.part = p]]
  OBVIOUS
<1>4. ydown' \in Seq(YBlocks) /\ Len(ydown') = Len(ydown)
  BY <1>1, <1>2, <1>3
<1>5. ASSUME NEW i \in 1 .. Len(ydown)
      PROVE  ydown'[i].pos = ydown[i].pos /\ ydown'[i].num = ydown[i].num /\ ydown'[i].eot = ydown[i].eot
  <2>1. CASE i = 1
    BY <1>1, <1>3, <2>1 DEF YBlocks
  <2>2. CASE i # 1
    BY <1>1, <1>3, <2>2
  <2> QED BY <2>1, <2>2
<1> QED BY <1>1, <1>4, <1>5 DEF Shifted

\* The bytes a short block lacks are taken from the one behind it, or not.
LEMMA ReadOnShifts ==
    ASSUME YTypes, YLine, ydown # <<>>, NEW b, b = Head(ydown), Y!ReadOn(b), yused' = yused
    PROVE  \E k \in 1 .. Len(ydown) : Shifted(k)
<1> DEFINE t == Tail(ydown)
<1>1. /\ t \in Seq(YBlocks) /\ Len(t) = Len(ydown) - 1 /\ Len(ydown) \in Nat \ {0}
      /\ \A i \in 1 .. Len(t) : t[i] = ydown[i + 1]
      /\ b = ydown[1] /\ 1 \in 1 .. Len(ydown)
  BY TailFacts DEF YTypes
<1>2. \/ ydown' = t
      \/ b.part = "short" /\ Len(ydown) > 1 /\ ydown' = Tail(t)
      \/ b.part = "short" /\ Len(ydown) > 1 /\ ydown' = [t EXCEPT ![1].part = "headless"]
  BY DEF Y!ReadOn
<1> HIDE DEF t
<1>3. CASE ydown' = t
  BY <1>1, <1>3, TailShifts DEF t
<1>4. CASE Len(ydown) > 1 /\ ydown' = Tail(t)
  <2>1. t # <<>> /\ Len(t) \in Nat
    BY <1>1, <1>4
  <2>2. /\ ydown' \in Seq(YBlocks) /\ Len(ydown') = Len(t) - 1
        /\ \A i \in 1 .. Len(ydown') : ydown'[i] = t[i + 1]
    BY <1>1, <1>4, <2>1, TailFacts
  <2>3. ASSUME NEW i \in 1 .. Len(ydown')
        PROVE  ydown'[i] = ydown[i + 2]
    <3>1. i + 1 \in 1 .. Len(t) /\ (i + 1) + 1 = i + 2
      BY <1>1, <2>2
    <3> QED BY <1>1, <2>2, <3>1
  <2>4. 2 \in 1 .. Len(ydown) /\ 2 \in 0 .. Len(ydown) /\ Len(ydown') = Len(ydown) - 2
    BY <1>1, <1>4, <2>2
  <2>5. Shifted(2)
    BY <2>2, <2>3, <2>4 DEF Shifted
  <2> QED BY <2>4, <2>5
<1>5. CASE b.part = "short" /\ Len(ydown) > 1 /\ ydown' = [t EXCEPT ![1].part = "headless"]
  <2>1. yused'.cut > 0
    BY <1>1, <1>5 DEF YLine
  <2>2. t[1] \in YBlocks /\ 1 \in 1 .. Len(t)
    BY <1>1, <1>5
  <2>3. [t[1] EXCEPT !.part = "headless"] \in YBlocks
    BY <2>2 DEF YBlocks, YParts
  <2>4. ydown' = [t EXCEPT ![1] = [t[1] EXCEPT !.part = "headless"]]
    BY <1>5
  <2>5. ydown' \in Seq(YBlocks) /\ Len(ydown') = Len(t)
    BY <1>1, <2>2, <2>3, <2>4, ExceptFacts
  <2>6. ASSUME NEW i \in 1 .. Len(ydown')
        PROVE  /\ ydown'[i].pos = ydown[i + 1].pos /\ ydown'[i].num = ydown[i + 1].num
               /\ ydown'[i].eot = ydown[i + 1].eot
    <3>0. t[i] = ydown[i + 1] /\ i \in 1 .. Len(t)
      BY <1>1, <2>5
    <3>1. CASE i = 1
      BY <1>1, <2>2, <2>4, <3>0, <3>1 DEF YBlocks
    <3>2. CASE i # 1
      BY <1>1, <2>4, <3>0, <3>2
    <3> QED BY <3>1, <3>2
  <2>7. 1 \in 0 .. Len(ydown) /\ 1 \in 1 .. Len(ydown) /\ Len(ydown') = Len(ydown) - 1
    BY <1>1, <2>5
  <2>8. Shifted(1)
    BY <2>1, <2>5, <2>6, <2>7 DEF Shifted
  <2> QED BY <2>7, <2>8
<1> QED BY <1>2, <1>3, <1>4, <1>5

\* The blocks that are left are still in order; if the first one is gone, they
\* are of its place or a later one.
LEMMA ShiftKeepsLine ==
    ASSUME YTypes, YLine, NEW k, Shifted(k), UNCHANGED <<yn, ysender>>, yused'.cut \in Nat,
           yused'.cut >= yused.cut
    PROVE  /\ YLine' /\ ydown' \in Seq(YBlocks)
           /\ \A i \in 1 .. Len(ydown') : \E j \in 1 .. Len(ydown) : ydown'[i].pos = ydown[j].pos
           /\ k # 0 => \A i \in 1 .. Len(ydown') : ydown[1].pos <= ydown'[i].pos
<1>1. k \in Nat /\ k <= Len(ydown) /\ Len(ydown) \in Nat /\ yused.cut \in Nat
  BY DEF YTypes, Shifted, YCounters
<1>2. \A i \in 1 .. Len(ydown') : i + k \in 1 .. Len(ydown)
  BY <1>1 DEF Shifted
<1>3. ASSUME NEW i \in 1 .. Len(ydown')
      PROVE  /\ ydown'[i].pos <= ysender'.pos
             /\ ydown'[i].num = ydown'[i].pos % BlkMod
             /\ ydown'[i].eot <=> ydown'[i].pos = yn' + 1
             /\ ydown'[i].part # "whole" => yused'.cut > 0
  <2>1. /\ ydown[i + k].pos <= ysender.pos
        /\ ydown[i + k].num = ydown[i + k].pos % BlkMod
        /\ ydown[i + k].eot <=> ydown[i + k].pos = yn + 1
        /\ ydown[i + k].part # "whole" => yused.cut > 0
    BY <1>2 DEF YLine
  <2>2. /\ ydown'[i].pos = ydown[i + k].pos
        /\ ydown'[i].num = ydown[i + k].num
        /\ ydown'[i].eot = ydown[i + k].eot
        /\ ydown'[i].part # "whole" => ydown[i + k].part # "whole" \/ yused'.cut > 0
    BY DEF Shifted
  <2> QED BY <1>1, <2>1, <2>2
<1>4. ASSUME NEW i \in 1 .. Len(ydown'), NEW j \in 1 .. Len(ydown'), i < j
      PROVE  ydown'[i].pos <= ydown'[j].pos
  <2>1. i + k < j + k /\ i + k \in 1 .. Len(ydown) /\ j + k \in 1 .. Len(ydown)
    BY <1>1, <1>2, <1>4
  <2>2. ydown[i + k].pos <= ydown[j + k].pos
    BY <2>1 DEF YLine
  <2> QED BY <2>2 DEF Shifted
<1>5. YLine'
  BY <1>3, <1>4 DEF YLine
<1>6. \A i \in 1 .. Len(ydown') : \E j \in 1 .. Len(ydown) : ydown'[i].pos = ydown[j].pos
  BY <1>2 DEF Shifted
<1>7. ASSUME k # 0, NEW i \in 1 .. Len(ydown')
      PROVE  ydown[1].pos <= ydown'[i].pos
  <2>1. 1 < i + k /\ 1 \in 1 .. Len(ydown) /\ i + k \in 1 .. Len(ydown)
    BY <1>1, <1>2, <1>7
  <2>2. ydown[1].pos <= ydown[i + k].pos
    BY <2>1 DEF YLine
  <2> QED BY <2>2 DEF Shifted
<1> QED BY <1>5, <1>6, <1>7 DEF Shifted

\* The sender puts a block on the line.
LEMMA SendKeepsOrder ==
    ASSUME YTypes, YLine, NEW s \in 0 .. yn + 1, s = ysender.pos \/ s = ysender.pos + 1,
           ydown' = Append(ydown, Y!Block(s)), ysender'.pos = s, yn' = yn, yused'.cut = yused.cut
    PROVE  /\ YLine' /\ ydown' \in Seq(YBlocks)
           /\ \A i \in 1 .. Len(ydown') : ydown'[i].pos = s
                                          \/ \E j \in 1 .. Len(ydown) : ydown'[i].pos = ydown[j].pos
<1>0. s \in Nat /\ yn \in Nat /\ ysender.pos \in Int
  BY DEF YTypes, YSenders
<1>1. s % BlkMod \in Nat
  BY <1>0, YmodemAssumption, ModSplit
<1>2. /\ Y!Block(s) \in YBlocks /\ Y!Block(s).pos = s /\ Y!Block(s).num = s % BlkMod
      /\ Y!Block(s).eot = (s = yn + 1) /\ Y!Block(s).part = "whole"
  BY <1>0, <1>1 DEF Y!Block, YBlocks, YParts
<1>3. /\ ydown' \in Seq(YBlocks) /\ Len(ydown') = Len(ydown) + 1 /\ Len(ydown) \in Nat
      /\ \A i \in 1 .. Len(ydown) : ydown'[i] = ydown[i]
      /\ ydown'[Len(ydown) + 1] = Y!Block(s)
  BY <1>2, AppendFacts DEF YTypes
<1>4. \A i \in 1 .. Len(ydown') : i \in 1 .. Len(ydown) \/ i = Len(ydown) + 1
  BY <1>3
<1>5. \A i \in 1 .. Len(ydown) : ydown[i].pos <= s /\ ydown[i].pos \in Nat
  <2>1. \A i \in 1 .. Len(ydown) : ydown[i] \in YBlocks /\ ydown[i].pos <= ysender.pos
    BY DEF YTypes, YLine
  <2> QED BY <1>0, <2>1 DEF YBlocks
<1>6. ASSUME NEW i \in 1 .. Len(ydown')
      PROVE  /\ ydown'[i].pos <= ysender'.pos
             /\ ydown'[i].num = ydown'[i].pos % BlkMod
             /\ ydown'[i].eot <=> ydown'[i].pos = yn' + 1
             /\ ydown'[i].part # "whole" => yused'.cut > 0
  <2>1. CASE i \in 1 .. Len(ydown)
    <3>1. ydown'[i] = ydown[i] /\ ydown[i].pos <= s
      BY <1>3, <1>5, <2>1
    <3>2. /\ ydown[i].num = ydown[i].pos % BlkMod
          /\ ydown[i].eot <=> ydown[i].pos = yn + 1
          /\ ydown[i].part # "whole" => yused.cut > 0
      BY <2>1 DEF YLine
    <3> QED BY <3>1, <3>2
  <2>2. CASE i = Len(ydown) + 1
    <3>1. ydown'[i] = Y!Block(s)
      BY <1>3, <2>2
    <3>2. ydown'[i].pos <= ysender'.pos
      BY <1>0, <1>2, <3>1
    <3> QED BY <1>2, <3>1, <3>2, Zenon
  <2> QED BY <1>4, <2>1, <2>2
<1>7. ASSUME NEW i \in 1 .. Len(ydown'), NEW j \in 1 .. Len(ydown'), i < j
      PROVE  ydown'[i].pos <= ydown'[j].pos
  <2>1. i \in 1 .. Len(ydown)
    BY <1>3, <1>7
  <2>2. CASE j \in 1 .. Len(ydown)
    BY <1>3, <1>7, <2>1, <2>2 DEF YLine
  <2>3. CASE j = Len(ydown) + 1
    BY <1>2, <1>3, <1>5, <2>1, <2>3
  <2> QED BY <1>4, <2>2, <2>3
<1>8. YLine'
  BY <1>6, <1>7 DEF YLine
<1>9. ASSUME NEW i \in 1 .. Len(ydown')
      PROVE  ydown'[i].pos = s \/ \E j \in 1 .. Len(ydown) : ydown'[i].pos = ydown[j].pos
  BY <1>2, <1>3, <1>4
<1> QED BY <1>3, <1>8, <1>9
-----------------------------------------------------------------------------
(* The answers.                                                            *)

LEMMA AnswerFacts ==
    ASSUME YTypes, NEW a \in YAnswers, yup' = Append(yup, a)
    PROVE  /\ yup' \in Seq(YAnswers) /\ Len(yup') = Len(yup) + 1 /\ Len(yup) \in Nat
           /\ \A i \in 1 .. Len(yup) : yup'[i] = yup[i]
           /\ yup'[Len(yup) + 1] = a
           /\ \A i \in 1 .. Len(yup') : i \in 1 .. Len(yup) \/ i = Len(yup) + 1
<1>1. /\ yup' \in Seq(YAnswers) /\ Len(yup') = Len(yup) + 1 /\ Len(yup) \in Nat
      /\ \A i \in 1 .. Len(yup) : yup'[i] = yup[i]
      /\ yup'[Len(yup) + 1] = a
  BY AppendFacts DEF YTypes
<1> QED BY <1>1

\* An answer that is no acknowledgement adds none.
LEMMA OtherAnswer ==
    ASSUME YTypes, NEW a \in YAnswers \ {"ACK"}, yup' = Append(yup, a)
    PROVE  /\ yup' \in Seq(YAnswers)
           /\ NoAck => NoAck'
           /\ (\A i, j \in 1 .. Len(yup) : i < j => ~(yup[i] = "ACK" /\ yup[j] = "ACK"))
              => \A i, j \in 1 .. Len(yup') : i < j => ~(yup'[i] = "ACK" /\ yup'[j] = "ACK")
<1>1. /\ yup' \in Seq(YAnswers) /\ Len(yup') = Len(yup) + 1 /\ Len(yup) \in Nat
      /\ \A i \in 1 .. Len(yup) : yup'[i] = yup[i]
      /\ yup'[Len(yup) + 1] = a
      /\ \A i \in 1 .. Len(yup') : i \in 1 .. Len(yup) \/ i = Len(yup) + 1
  BY AnswerFacts
<1>2. NoAck => NoAck'
  BY <1>1 DEF NoAck
<1>3. ASSUME \A i, j \in 1 .. Len(yup) : i < j => ~(yup[i] = "ACK" /\ yup[j] = "ACK"),
             NEW i \in 1 .. Len(yup'), NEW j \in 1 .. Len(yup'), i < j
      PROVE  ~(yup'[i] = "ACK" /\ yup'[j] = "ACK")
  BY <1>1, <1>3
<1> QED BY <1>1, <1>2, <1>3

\* The acknowledgement is the only one under way.
LEMMA OneAck ==
    ASSUME YTypes, NoAck, yup' = Append(yup, "ACK")
    PROVE  /\ yup' \in Seq(YAnswers)
           /\ \A i, j \in 1 .. Len(yup') : i < j => ~(yup'[i] = "ACK" /\ yup'[j] = "ACK")
<1>0. "ACK" \in YAnswers
  BY DEF YAnswers
<1>1. /\ yup' \in Seq(YAnswers) /\ Len(yup') = Len(yup) + 1 /\ Len(yup) \in Nat
      /\ \A i \in 1 .. Len(yup) : yup'[i] = yup[i]
      /\ \A i \in 1 .. Len(yup') : i \in 1 .. Len(yup) \/ i = Len(yup) + 1
  BY <1>0, AnswerFacts
<1>2. ASSUME NEW i \in 1 .. Len(yup'), NEW j \in 1 .. Len(yup'), i < j
      PROVE  yup'[i] # "ACK"
  <2>1. i \in 1 .. Len(yup)
    BY <1>1, <1>2
  <2> QED BY <1>1, <2>1 DEF NoAck
<1> QED BY <1>1, <1>2

LEMMA TwoAnswers ==
    ASSUME NEW a \in YAnswers, NEW c \in YAnswers, yup \in Seq(YAnswers),
           yup' = Append(Append(yup, a), c)
    PROVE  /\ yup' \in Seq(YAnswers) /\ Len(yup') = Len(yup) + 2 /\ Len(yup) \in Nat
           /\ \A i \in 1 .. Len(yup) : yup'[i] = yup[i]
           /\ yup'[Len(yup) + 2] = c
           /\ \A i \in 1 .. Len(yup') : i \in 1 .. Len(yup) \/ i = Len(yup) + 1 \/ i = Len(yup) + 2
<1> DEFINE u == Append(yup, a)
<1>1. /\ u \in Seq(YAnswers) /\ Len(u) = Len(yup) + 1 /\ Len(yup) \in Nat
      /\ \A i \in 1 .. Len(yup) : u[i] = yup[i]
  BY AppendFacts
<1>2. yup' = Append(u, c)
  OBVIOUS
<1> HIDE DEF u
<1>3. /\ yup' \in Seq(YAnswers) /\ Len(yup') = Len(u) + 1
      /\ \A i \in 1 .. Len(u) : yup'[i] = u[i]
      /\ yup'[Len(u) + 1] = c
  BY <1>1, <1>2, AppendFacts
<1>4. Len(u) + 1 = Len(yup) + 2 /\ \A i \in 1 .. Len(yup) : i \in 1 .. Len(u)
  BY <1>1
<1> QED BY <1>1, <1>3, <1>4

\* An answer is read or lost.
LEMMA AnswerRead ==
    ASSUME YTypes, yup # <<>>, yup' = Tail(yup)
    PROVE  /\ yup' \in Seq(YAnswers) /\ Head(yup) = yup[1]
           /\ NoAck => NoAck' /\ Head(yup) # "ACK"
           /\ (\A i, j \in 1 .. Len(yup) : i < j => ~(yup[i] = "ACK" /\ yup[j] = "ACK"))
              => /\ \A i, j \in 1 .. Len(yup') : i < j => ~(yup'[i] = "ACK" /\ yup'[j] = "ACK")
                 /\ Head(yup) = "ACK" => NoAck'
<1>1. /\ yup' \in Seq(YAnswers) /\ Head(yup) = yup[1] /\ Len(yup) \in Nat \ {0}
      /\ Len(yup') = Len(yup) - 1 /\ \A i \in 1 .. Len(yup') : yup'[i] = yup[i + 1]
  BY TailFacts DEF YTypes
<1>2. 1 \in 1 .. Len(yup) /\ \A i \in 1 .. Len(yup') : i + 1 \in 1 .. Len(yup) /\ 1 < i + 1
  BY <1>1
<1>3. NoAck => NoAck' /\ Head(yup) # "ACK"
  BY <1>1, <1>2 DEF NoAck
<1>4. ASSUME \A i, j \in 1 .. Len(yup) : i < j => ~(yup[i] = "ACK" /\ yup[j] = "ACK"),
             NEW i \in 1 .. Len(yup'), NEW j \in 1 .. Len(yup'), i < j
      PROVE  ~(yup'[i] = "ACK" /\ yup'[j] = "ACK")
  <2>1. i + 1 < j + 1
    BY <1>4
  <2> QED BY <1>1, <1>2, <1>4, <2>1
<1>5. ASSUME \A i, j \in 1 .. Len(yup) : i < j => ~(yup[i] = "ACK" /\ yup[j] = "ACK"),
             Head(yup) = "ACK"
      PROVE  NoAck'
  BY <1>1, <1>2, <1>5 DEF NoAck
<1> QED BY <1>1, <1>3, <1>4, <1>5
-----------------------------------------------------------------------------
(* The steps.                                                              *)

LEMMA YReceiveStep == YInv /\ Y!Receive => YInv'
<1> SUFFICES ASSUME YInv, Y!Receive PROVE YInv'
  OBVIOUS
<1> USE DEF YInv
<1> DEFINE b == Head(ydown)
<1>1. /\ ypc \in {"hello", "data"} /\ ydown # <<>>
      /\ UNCHANGED <<yn, ydst, ysender, yused>>
  BY DEF Y!Receive
<1>2. b = ydown[1] /\ ydown[1] \in YBlocks /\ 1 \in 1 .. Len(ydown) /\ Len(ydown) \in Nat \ {0}
  BY <1>1, TailFacts DEF YTypes
<1>3. \E c \in {b} : \/ Y!Header(c) \/ Y!Ignore(c) \/ Y!Refuse(c) \/ Y!Accept(c)
                     \/ Y!GiveUp(c) \/ Y!End(c)
  BY DEF Y!Receive
<1>4. ASSUME \E k \in 1 .. Len(ydown) : Shifted(k)
      PROVE  /\ YLine' /\ ydown' \in Seq(YBlocks)
             /\ \A i \in 1 .. Len(ydown') : \E j \in 1 .. Len(ydown) : ydown'[i].pos = ydown[j].pos
             /\ \A i \in 1 .. Len(ydown') : ydown[1].pos <= ydown'[i].pos
  <2>1. PICK k \in 1 .. Len(ydown) : Shifted(k)
    BY <1>4
  <2>2. k # 0
    OBVIOUS
  <2>3. yused.cut \in Nat
    BY DEF YTypes, YCounters
  <2> QED BY <1>1, <2>1, <2>2, <2>3, ShiftKeepsLine
<1>5. ydown' = Tail(ydown) => \E k \in 1 .. Len(ydown) : Shifted(k)
  BY <1>1, <1>2, TailShifts
<1>6. yret = "none" /\ yload \in Seq(Nat) /\ Len(yload) \in Nat /\ yn \in Nat /\ yblk \in Nat
  BY <1>1 DEF YTypes
<1> HIDE DEF b
<1>7. CASE Y!Header(b)
  <2>1. /\ ypc = "hello" /\ ypc' = "data" /\ yblk' = 1 /\ UNCHANGED <<yload, yret>>
        /\ yup' = Append(Append(yup, "ACK"), "C")
    BY <1>7 DEF Y!Header
  <2>2. \E k \in 1 .. Len(ydown) : Shifted(k)
    BY <1>1, <1>7, ClearShifts DEF Y!Header
  <2>3. BeforeHeader
    BY <2>1
  <2>4. /\ yup' \in Seq(YAnswers) /\ Len(yup') = Len(yup) + 2 /\ Len(yup) \in Nat
        /\ \A i \in 1 .. Len(yup) : yup'[i] = yup[i]
        /\ yup'[Len(yup) + 2] = "C"
        /\ \A i \in 1 .. Len(yup') : i \in 1 .. Len(yup) \/ i = Len(yup) + 1 \/ i = Len(yup) + 2
    BY <2>1, TwoAnswers DEF YTypes, YAnswers
  <2>5. ASSUME NEW i \in 1 .. Len(yup'), NEW j \in 1 .. Len(yup'), i < j
        PROVE  ~(yup'[i] = "ACK" /\ yup'[j] = "ACK")
    <3>1. CASE i \in 1 .. Len(yup)
      BY <2>3, <2>4, <3>1 DEF BeforeHeader, NoAck
    <3>2. CASE i = Len(yup) + 1
      <4>1. j = Len(yup) + 2
        BY <2>4, <2>5, <3>2
      <4> QED BY <2>4, <4>1
    <3>3. CASE i = Len(yup) + 2
      BY <2>4, <2>5, <3>3
    <3> QED BY <2>4, <3>1, <3>2, <3>3
  <2>6. ysender.pos = 0 /\ ydown[1].pos = 0
    <3>1. ydown[1].pos \in Nat /\ ydown[1].pos <= ysender.pos
      BY <1>2 DEF YLine, YBlocks
    <3> QED BY <2>3, <3>1 DEF BeforeHeader
  <2>7. \A i \in 1 .. Len(ydown') : ydown'[i].pos \in {0, 1}
    <3>1. \A j \in 1 .. Len(ydown) : ydown[j] \in YBlocks /\ ydown[j].pos <= 0
      BY <2>6 DEF YTypes, YLine
    <3>2. \A j \in 1 .. Len(ydown) : ydown[j].pos = 0
      BY <3>1 DEF YBlocks
    <3> QED BY <1>4, <2>2, <3>2
  <2>8. Len(yload') = 0 /\ yload' = <<>>
    BY <2>1, <2>3 DEF BeforeHeader
  <2>9. InData'
    <3>1. yblk' = Len(yload') + 1 /\ yblk' <= yn' + 1
      BY <1>1, <1>6, <2>1, <2>8
    <3>2. ysender'.pos = 0 /\ ~ysender'.acked
      BY <1>1, <2>3, <2>6 DEF BeforeHeader
    <3> QED BY <2>1, <2>5, <2>7, <3>1, <3>2 DEF InData
  <2>10. YTypes'
    BY <1>1, <1>4, <2>1, <2>2, <2>4 DEF YTypes
  <2>11. YStored'
    BY <1>1, <1>6, <2>1 DEF YStored
  <2> QED BY <1>4, <2>1, <2>2, <2>9, <2>10, <2>11
<1>8. CASE Y!Ignore(b)
  <2>1. UNCHANGED <<ypc, yblk, yload, yret>> /\ ydown' = Tail(ydown)
    BY <1>8 DEF Y!Ignore, Y!rxVars
  <2>2. yup' = yup \/ yup' = Append(yup, "C")
    BY <1>8 DEF Y!Ignore
  <2>3. /\ yup' \in Seq(YAnswers)
        /\ NoAck => NoAck'
        /\ (\A i, j \in 1 .. Len(yup) : i < j => ~(yup[i] = "ACK" /\ yup[j] = "ACK"))
           => \A i, j \in 1 .. Len(yup') : i < j => ~(yup'[i] = "ACK" /\ yup'[j] = "ACK")
    <3>1. CASE yup' = yup
      BY <3>1 DEF YTypes, NoAck
    <3>2. CASE yup' = Append(yup, "C")
      <4>1. "C" \in YAnswers \ {"ACK"}
        BY DEF YAnswers
      <4> QED BY <3>2, <4>1, OtherAnswer
    <3> QED BY <2>2, <3>1, <3>2
  <2>4. YTypes' /\ YLine' /\ YStored'
    BY <1>1, <1>4, <1>5, <2>1, <2>3 DEF YTypes, YStored
  <2>5. ASSUME InData PROVE InData'
    <3>1. \A i \in 1 .. Len(ydown') : ydown'[i].pos \in {yblk - 1, yblk}
      BY <1>4, <1>5, <2>1, <2>5 DEF InData
    <3> QED BY <1>1, <2>1, <2>3, <2>5, <3>1 DEF InData
  <2>6. BeforeHeader => BeforeHeader'
    BY <1>1, <2>1, <2>3 DEF BeforeHeader
  <2> QED BY <2>1, <2>4, <2>5, <2>6
<1>9. CASE Y!Refuse(b)
  <2>1. UNCHANGED <<ypc, yblk, yload, yret>> /\ ypc = "data" /\ yup' = Append(yup, "NAK")
    BY <1>9 DEF Y!Refuse, Y!rxVars
  <2>2. \E k \in 1 .. Len(ydown) : Shifted(k)
    BY <1>1, <1>9, ClearShifts DEF Y!Refuse
  <2>3. /\ yup' \in Seq(YAnswers)
        /\ NoAck => NoAck'
        /\ (\A i, j \in 1 .. Len(yup) : i < j => ~(yup[i] = "ACK" /\ yup[j] = "ACK"))
           => \A i, j \in 1 .. Len(yup') : i < j => ~(yup'[i] = "ACK" /\ yup'[j] = "ACK")
    <3>1. "NAK" \in YAnswers \ {"ACK"}
      BY DEF YAnswers
    <3> QED BY <2>1, <3>1, OtherAnswer
  <2>4. YTypes' /\ YLine' /\ YStored'
    BY <1>1, <1>4, <2>1, <2>2, <2>3 DEF YTypes, YStored
  <2>5. \A i \in 1 .. Len(ydown') : ydown'[i].pos \in {yblk - 1, yblk}
    BY <1>4, <2>1, <2>2 DEF InData
  <2>6. InData'
    BY <1>1, <2>1, <2>3, <2>5 DEF InData
  <2> QED BY <2>1, <2>4, <2>6
<1>10. CASE Y!Accept(b)
  <2>1. /\ UNCHANGED <<ypc, yret>> /\ ypc = "data" /\ yup' = Append(yup, "ACK")
        /\ yload' = Append(yload, b.pos) /\ yblk' = yblk + 1 /\ ~b.eot /\ b.num = yblk % BlkMod
    BY <1>10 DEF Y!Accept, Y!Expected
  <2>2. \E k \in 1 .. Len(ydown) : Shifted(k)
    BY <1>1, <1>10, ReadOnShifts DEF Y!Accept, b
  <2>3. /\ InData
        /\ b.pos \in {yblk - 1, yblk} /\ b.pos \in Nat /\ b.num = b.pos % BlkMod
        /\ b.pos <= ysender.pos /\ b.pos # yn + 1
    BY <1>2, <2>1 DEF InData, YLine, YBlocks
  <2>4. b.pos = yblk
    <3>1. CASE b.pos = yblk - 1
      <4>1. yblk - 1 \in Nat /\ (yblk - 1) + 1 = yblk /\ 1 \in 1 .. BlkMod - 1 /\ BlkMod \in Nat \ {0}
        BY <1>6, <2>3, <3>1, YmodemAssumption
      <4>2. (yblk - 1) % BlkMod # ((yblk - 1) + 1) % BlkMod
        BY <4>1, ModApart
      <4> QED BY <2>1, <2>3, <3>1, <4>1, <4>2
    <3> QED BY <2>3, <3>1
  <2>5. ysender.pos = yblk /\ NoAck /\ yblk = Len(yload) + 1 /\ yblk <= yn
    BY <1>6, <2>3, <2>4 DEF InData
  <2>6. /\ yup' \in Seq(YAnswers)
        /\ \A i, j \in 1 .. Len(yup') : i < j => ~(yup'[i] = "ACK" /\ yup'[j] = "ACK")
    BY <2>1, <2>5, OneAck
  <2>7. /\ yload' \in Seq(Nat) /\ Len(yload') = Len(yload) + 1
        /\ \A i \in 1 .. Len(yload) : yload'[i] = yload[i]
        /\ yload'[Len(yload) + 1] = yblk
    BY <1>6, <2>1, <2>4, AppendFacts
  <2>8. \A i \in 1 .. Len(yload') : yload'[i] = i
    <3>1. \A i \in 1 .. Len(yload') : i \in 1 .. Len(yload) \/ i = Len(yload) + 1
      BY <1>6, <2>7
    <3> QED BY <2>5, <2>7, <3>1 DEF YStored
  <2>9. \A i \in 1 .. Len(ydown') : ydown'[i].pos = yblk
    <3>1. ASSUME NEW i \in 1 .. Len(ydown')
          PROVE  ydown'[i].pos = yblk
      <4>1. PICK j \in 1 .. Len(ydown) : ydown'[i].pos = ydown[j].pos
        BY <1>4, <2>2
      <4>2. ydown[j].pos \in {yblk - 1, yblk}
        BY <2>3 DEF InData
      <4>3. ydown[1].pos <= ydown'[i].pos
        BY <1>4, <2>2
      <4> QED BY <1>2, <1>6, <2>4, <4>1, <4>2, <4>3
    <3> QED BY <3>1
  <2>10. InData'
    <3>1. yblk' = Len(yload') + 1 /\ yblk' <= yn' + 1 /\ yblk' - 1 = yblk /\ yblk # yblk'
      BY <1>1, <1>6, <2>1, <2>5, <2>7
    <3>2. ysender'.pos = yblk /\ ~ysender'.acked
      BY <1>1, <1>6, <2>3, <2>5 DEF InData, YTypes, YSenders
    <3> QED BY <2>6, <2>9, <3>1, <3>2 DEF InData
  <2>11. YTypes'
    BY <1>1, <1>4, <1>6, <2>1, <2>2, <2>6, <2>7 DEF YTypes
  <2>12. YStored'
    BY <1>6, <2>1, <2>8 DEF YStored
  <2> QED BY <1>4, <2>1, <2>2, <2>10, <2>11, <2>12
<1>11. CASE Y!GiveUp(b)
  <2>1. ypc' = "returned" /\ yret' = "error" /\ UNCHANGED <<yblk, yload, yup>>
    BY <1>11 DEF Y!GiveUp, Y!Return
  <2>2. \E k \in 1 .. Len(ydown) : Shifted(k)
    BY <1>1, <1>11, ReadOnShifts DEF Y!GiveUp, b
  <2>3. YTypes' /\ YLine' /\ YStored'
    BY <1>1, <1>4, <2>1, <2>2 DEF YTypes, YStored
  <2> QED BY <2>1, <2>3
<1>12. CASE Y!End(b)
  <2>1. /\ ypc = "data" /\ ypc' = "returned" /\ yret' = "size" /\ UNCHANGED <<yblk, yload>>
        /\ ydown' = Tail(ydown) /\ yup' = Append(Append(yup, "ACK"), "CAN")
        /\ b.eot \/ b.part = "headless"
    BY <1>12 DEF Y!End, Y!Return
  <2>2. yup' \in Seq(YAnswers)
    BY <2>1, TwoAnswers DEF YTypes, YAnswers
  <2>3. yused'.cut = 0 => Len(yload') = yn'
    <3> SUFFICES ASSUME yused.cut = 0 PROVE Len(yload) = yn
      BY <1>1, <2>1
    <3>1. b.part = "whole" /\ (b.eot <=> b.pos = yn + 1)
      BY <1>2 DEF YLine
    <3>2. b.pos = yn + 1
      BY <2>1, <3>1
    <3>3. b.pos \in {yblk - 1, yblk} /\ yblk = Len(yload) + 1 /\ yblk <= yn + 1
      BY <1>2, <2>1 DEF InData
    <3> QED BY <1>6, <3>2, <3>3
  <2>4. YTypes' /\ YLine'
    BY <1>1, <1>4, <1>5, <2>1, <2>2 DEF YTypes
  <2>5. YStored'
    BY <2>1, <2>3 DEF YStored
  <2> QED BY <2>1, <2>4, <2>5
<1> QED BY <1>3, <1>7, <1>8, <1>9, <1>10, <1>11, <1>12

\* What the sender does on an answer, or when its timer runs out.
LEMMA YSent ==
    ASSUME YInv, UNCHANGED <<yn, ydst, ypc, yblk, yload, yret>>, yup' \in Seq(YAnswers),
           yused' \in YCounters, yused'.cut = yused.cut,
           NEW s \in Int, s = ysender.pos \/ s = ysender.pos + 1, s >= -1,
           ysender' \in YSenders, ysender'.pos = s,
           \/ ydown' = ydown
           \/ s \in 0 .. yn + 1 /\ ydown' = Append(ydown, Y!Block(s))
    PROVE  /\ YTypes' /\ YLine' /\ YStored'
           /\ (InData /\ s \in {yblk - 1, yblk})
              => \A i \in 1 .. Len(ydown') : ydown'[i].pos \in {yblk - 1, yblk}
<1> USE DEF YInv
<1>1. ysender.pos \in Int /\ ysender.pos >= -1
  BY DEF YTypes, YSenders
<1>2. CASE ydown' = ydown
  <2>1. \A i \in 1 .. Len(ydown) : ydown[i].pos <= s
    <3>1. \A i \in 1 .. Len(ydown) : ydown[i] \in YBlocks /\ ydown[i].pos <= ysender.pos
      BY DEF YTypes, YLine
    <3> QED BY <1>1, <3>1 DEF YBlocks
  <2>2. YLine'
    BY <1>2, <2>1 DEF YLine
  <2> QED BY <1>2, <2>2 DEF YTypes, YStored, InData
<1>3. CASE s \in 0 .. yn + 1 /\ ydown' = Append(ydown, Y!Block(s))
  <2>1. /\ YLine' /\ ydown' \in Seq(YBlocks)
        /\ \A i \in 1 .. Len(ydown') : ydown'[i].pos = s
                                       \/ \E j \in 1 .. Len(ydown) : ydown'[i].pos = ydown[j].pos
    BY <1>3, SendKeepsOrder
  <2>2. YTypes' /\ YStored'
    BY <1>3, <2>1 DEF YTypes, YStored
  <2> QED BY <2>1, <2>2 DEF InData
<1> QED BY <1>2, <1>3

\* The block that waits for its answer is sent once more.
LEMMA YSentAgain ==
    ASSUME YInv, UNCHANGED <<yn, ydst, ypc, yblk, yload, yret>>, yup' \in Seq(YAnswers),
           yused' \in YCounters, yused'.cut = yused.cut, Y!SendAgain, Y!Sending,
           NoAck => NoAck',
           (\A i, j \in 1 .. Len(yup) : i < j => ~(yup[i] = "ACK" /\ yup[j] = "ACK"))
           => \A i, j \in 1 .. Len(yup') : i < j => ~(yup'[i] = "ACK" /\ yup'[j] = "ACK")
    PROVE  YInv'
<1> USE DEF YInv
<1>1. /\ ysender' = ysender /\ ysender.pos \in 0 .. yn + 1 /\ ydown' = Append(ydown, Y!Block(ysender.pos))
      /\ ysender \in YSenders /\ yn \in Nat
  BY DEF Y!SendAgain, Y!Sending, YTypes
<1>2. ysender.pos \in Int /\ ysender.pos >= -1
  BY <1>1 DEF YSenders
<1>3. /\ YTypes' /\ YLine' /\ YStored'
      /\ (InData /\ ysender.pos \in {yblk - 1, yblk})
         => \A i \in 1 .. Len(ydown') : ydown'[i].pos \in {yblk - 1, yblk}
  BY <1>1, <1>2, YSent
<1>4. InData => InData'
  BY <1>1, <1>3 DEF InData
<1>5. BeforeHeader => BeforeHeader'
  BY <1>1 DEF BeforeHeader
<1> QED BY <1>3, <1>4, <1>5

LEMMA YAnswerStep == YInv /\ Y!SenderAnswer => YInv'
<1> SUFFICES ASSUME YInv, Y!SenderAnswer PROVE YInv'
  OBVIOUS
<1> USE DEF YInv
<1> DEFINE a == Head(yup)
<1>1. /\ yup # <<>> /\ yup' = Tail(yup)
      /\ UNCHANGED <<yn, ydst, ypc, yblk, yload, yret, yused>>
  BY DEF Y!SenderAnswer, Y!rxVars
<1>2. /\ yup' \in Seq(YAnswers)
      /\ NoAck => NoAck' /\ a # "ACK"
      /\ (\A i, j \in 1 .. Len(yup) : i < j => ~(yup[i] = "ACK" /\ yup[j] = "ACK"))
         => /\ \A i, j \in 1 .. Len(yup') : i < j => ~(yup'[i] = "ACK" /\ yup'[j] = "ACK")
            /\ a = "ACK" => NoAck'
  BY <1>1, AnswerRead
<1>3. \E c \in {a} :
        \/ c = "C" /\ (ysender.pos = -1 \/ (ysender.pos = 0 /\ ysender.acked)) /\ Y!SendNext
        \/ c = "ACK" /\ ysender.pos = 0
             /\ ysender' = [ysender EXCEPT !.acked = TRUE] /\ UNCHANGED ydown
        \/ c = "ACK" /\ ysender.pos \in 1 .. yn + 1 /\ Y!SendNext
        \/ Y!Sending /\ Y!SendAgain
        \/ c = "C" /\ ysender.pos = 0 /\ Y!SendAgain
        \/ UNCHANGED <<ysender, ydown>>
  BY DEF Y!SenderAnswer
<1>4. /\ ysender \in YSenders /\ ysender.pos \in Int /\ ysender.pos >= -1 /\ yn \in Nat /\ yblk \in Nat
      /\ yused' \in YCounters /\ yused'.cut = yused.cut
  BY <1>1 DEF YTypes, YSenders
<1> HIDE DEF a
<1>5. CASE UNCHANGED <<ysender, ydown>>
  <2>1. /\ YTypes' /\ YLine' /\ YStored'
    BY <1>1, <1>2, <1>5 DEF YTypes, YLine, YStored
  <2>2. InData => InData'
    BY <1>1, <1>2, <1>5 DEF InData
  <2>3. BeforeHeader => BeforeHeader'
    BY <1>1, <1>2, <1>5 DEF BeforeHeader
  <2> QED BY <1>1, <2>1, <2>2, <2>3
<1>6. CASE Y!SendAgain /\ (Y!Sending \/ ysender.pos = 0)
  <2>1. Y!Sending
    BY <1>4, <1>6 DEF Y!Sending
  <2> QED BY <1>1, <1>2, <1>4, <1>6, <2>1, YSentAgain
<1>7. CASE a = "ACK" /\ ysender.pos = 0 /\ ysender' = [ysender EXCEPT !.acked = TRUE] /\ UNCHANGED ydown
  <2>1. ysender' \in YSenders /\ ysender'.pos = ysender.pos
    BY <1>4, <1>7 DEF YSenders
  <2>2. YTypes' /\ YLine' /\ YStored'
    BY <1>1, <1>2, <1>4, <1>7, <2>1 DEF YTypes, YLine, YStored
  <2>3. InData => InData'
    BY <1>1, <1>2, <1>7, <2>1 DEF InData
  <2>4. ~BeforeHeader
    BY <1>2, <1>7 DEF BeforeHeader
  <2> QED BY <1>1, <2>2, <2>3, <2>4
<1>8. CASE Y!SendNext /\ \/ a = "C" /\ (ysender.pos = -1 \/ (ysender.pos = 0 /\ ysender.acked))
                         \/ a = "ACK" /\ ysender.pos \in 1 .. yn + 1
  <2> DEFINE s == ysender.pos + 1
  <2>1. /\ ysender' = [pos |-> s, acked |-> FALSE]
        /\ ydown' = IF ysender.pos <= yn THEN Append(ydown, Y!Block(s)) ELSE ydown
    BY <1>8 DEF Y!SendNext
  <2>2. s \in Int /\ s >= 0 /\ (ysender.pos <= yn => s \in 0 .. yn + 1)
    BY <1>4
  <2> HIDE DEF s
  <2>3. ysender' \in YSenders /\ ysender'.pos = s /\ ~ysender'.acked
    BY <2>1, <2>2 DEF YSenders
  <2>4. /\ YTypes' /\ YLine' /\ YStored'
        /\ (InData /\ s \in {yblk - 1, yblk})
           => \A i \in 1 .. Len(ydown') : ydown'[i].pos \in {yblk - 1, yblk}
    <3>1. ydown' = ydown \/ (s \in 0 .. yn + 1 /\ ydown' = Append(ydown, Y!Block(s)))
      BY <2>1, <2>2
    <3>2. s = ysender.pos + 1 /\ s >= -1
      BY <2>2 DEF s
    <3> QED BY <1>1, <1>2, <1>4, <2>2, <2>3, <3>1, <3>2, YSent
  <2>5. BeforeHeader => BeforeHeader'
    <3> SUFFICES ASSUME BeforeHeader PROVE BeforeHeader'
      OBVIOUS
    <3>1. ysender.pos = -1
      BY <1>2, <1>8 DEF BeforeHeader
    <3>2. s = 0
      BY <3>1 DEF s
    <3> QED BY <1>1, <1>2, <2>3, <3>2 DEF BeforeHeader
  <2>6. ASSUME InData PROVE InData'
    <3>1. ysender.pos = yblk - 1 /\ NoAck'
      <4>1. CASE a = "ACK"
        BY <1>2, <2>6, <4>1 DEF InData
      <4>2. CASE a = "C" /\ ysender.pos = -1
        BY <1>4, <2>6, <4>2 DEF InData, YTypes
      <4>3. CASE a = "C" /\ ysender.pos = 0 /\ ysender.acked
        <5>1. yblk >= 1
          BY <2>6 DEF InData, YTypes
        <5> QED BY <1>2, <1>4, <2>6, <4>3, <5>1 DEF InData
      <4> QED BY <1>8, <4>1, <4>2, <4>3
    <3>2. s = yblk
      BY <1>4, <3>1 DEF s
    <3> QED BY <1>1, <1>2, <2>3, <2>4, <2>6, <3>1, <3>2 DEF InData
  <2> QED BY <1>1, <2>4, <2>5, <2>6
<1> QED BY <1>3, <1>5, <1>6, <1>7, <1>8

LEMMA YCounterFacts ==
    ASSUME NEW u \in YCounters
    PROVE  /\ u.cut \in Nat /\ u.acks \in Nat
           /\ [u EXCEPT !.early = @ + 1] \in YCounters /\ [u EXCEPT !.early = @ + 1].cut = u.cut
           /\ [u EXCEPT !.lost = @ + 1] \in YCounters /\ [u EXCEPT !.lost = @ + 1].cut = u.cut
           /\ [u EXCEPT !.cut = @ + 1] \in YCounters /\ [u EXCEPT !.cut = @ + 1].cut = u.cut + 1
           /\ \A m \in Nat : /\ [u EXCEPT !.lost = @ + 1, !.acks = m] \in YCounters
                             /\ [u EXCEPT !.lost = @ + 1, !.acks = m].cut = u.cut
<1>1. u.cut \in Nat /\ u.acks \in Nat
  BY DEF YCounters
<1>2. [u EXCEPT !.early = @ + 1] \in YCounters /\ [u EXCEPT !.early = @ + 1].cut = u.cut
  BY DEF YCounters
<1>3. [u EXCEPT !.lost = @ + 1] \in YCounters /\ [u EXCEPT !.lost = @ + 1].cut = u.cut
  BY DEF YCounters
<1>4. [u EXCEPT !.cut = @ + 1] \in YCounters /\ [u EXCEPT !.cut = @ + 1].cut = u.cut + 1
  BY DEF YCounters
<1>5. ASSUME NEW m \in Nat
      PROVE  /\ [u EXCEPT !.lost = @ + 1, !.acks = m] \in YCounters
             /\ [u EXCEPT !.lost = @ + 1, !.acks = m].cut = u.cut
  <2> DEFINE v == [u EXCEPT !.lost = @ + 1]
  <2>1. [u EXCEPT !.lost = @ + 1, !.acks = m] = [v EXCEPT !.acks = m]
    OBVIOUS
  <2>2. v \in YCounters /\ v.cut = u.cut
    BY <1>3
  <2> HIDE DEF v
  <2>3. [v EXCEPT !.acks = m] \in YCounters /\ [v EXCEPT !.acks = m].cut = v.cut
    BY <2>2 DEF YCounters
  <2> QED BY <2>1, <2>2, <2>3, Zenon
<1> QED BY <1>1, <1>2, <1>3, <1>4, <1>5

\* Blocks are lost or cut.
LEMMA YLineStep ==
    ASSUME YInv, NEW k, Shifted(k), UNCHANGED <<yn, ydst, ypc, yblk, yload, yret, yup, ysender>>,
           yused' \in YCounters, yused'.cut >= yused.cut
    PROVE  YInv'
<1> USE DEF YInv
<1>1. yused'.cut \in Nat /\ yused.cut \in Nat
  BY DEF YTypes, YCounters
<1>2. /\ YLine' /\ ydown' \in Seq(YBlocks)
      /\ \A i \in 1 .. Len(ydown') : \E j \in 1 .. Len(ydown) : ydown'[i].pos = ydown[j].pos
  BY <1>1, ShiftKeepsLine
<1>3. YTypes' /\ YStored'
  BY <1>1, <1>2 DEF YTypes, YStored
<1>4. InData => InData'
  <2> SUFFICES ASSUME InData PROVE InData'
    OBVIOUS
  <2>1. \A i \in 1 .. Len(ydown') : ydown'[i].pos \in {yblk - 1, yblk}
    BY <1>2 DEF InData
  <2> QED BY <2>1 DEF InData, NoAck
<1>5. BeforeHeader => BeforeHeader'
  BY DEF BeforeHeader, NoAck
<1> QED BY <1>2, <1>3, <1>4, <1>5

LEMMA YStep == YInv /\ [Y!Next]_yvars => YInv'
<1> SUFFICES ASSUME YInv, [Y!Next]_yvars PROVE YInv'
  OBVIOUS
<1>0. yused \in YCounters /\ YTypes
  BY DEF YInv, YTypes
<1>1. CASE Y!Start
  BY <1>1 DEF YInv, Y!Start, Y!Return, YTypes, YLine, YStored, BeforeHeader, NoAck
<1>2. CASE Y!SendC
  <2>1. /\ ypc = "hello" /\ yup' = <<"C">>
        /\ UNCHANGED <<yn, ydst, ypc, yblk, yload, yret, ydown, ysender, yused>>
    BY <1>2 DEF Y!SendC, Y!rxVars
  <2>2. yup' \in Seq(YAnswers) /\ NoAck'
    BY <2>1 DEF YAnswers, NoAck
  <2> QED BY <2>1, <2>2 DEF YInv, YTypes, YLine, YStored, BeforeHeader
<1>3. CASE Y!Receive
  BY <1>3, YReceiveStep
<1>4. CASE Y!SenderAnswer
  BY <1>4, YAnswerStep
<1>5. CASE Y!SenderTimeout \/ Y!SenderEarly
  <2>1. /\ UNCHANGED <<yn, ydst, ypc, yblk, yload, yret, yup>> /\ Y!SendAgain /\ Y!Sending
        /\ yused' = yused \/ yused' = [yused EXCEPT !.early = @ + 1]
    BY <1>5 DEF Y!SenderTimeout, Y!SenderEarly, Y!rxVars
  <2>2. yused' \in YCounters /\ yused'.cut = yused.cut
    BY <1>0, <2>1, YCounterFacts
  <2>3. yup' \in Seq(YAnswers) /\ (NoAck => NoAck')
    BY <1>0, <2>1 DEF YTypes, NoAck
  <2> QED BY <2>1, <2>2, <2>3, YSentAgain
<1>6. CASE Y!Lose
  <2>1. UNCHANGED <<yn, ydst, ypc, yblk, yload, yret, ysender>>
    BY <1>6 DEF Y!Lose, Y!rxVars
  <2>2. CASE ydown # <<>> /\ ydown' = Tail(ydown) /\ yused' = [yused EXCEPT !.lost = @ + 1]
             /\ UNCHANGED yup
    <3>1. Shifted(1)
      BY <1>0, <2>2, TailShifts
    <3>2. yused' \in YCounters /\ yused'.cut = yused.cut /\ yused.cut \in Nat
      BY <1>0, <2>2, YCounterFacts, Zenon
    <3>3. yused'.cut >= yused.cut
      BY <3>2
    <3> QED BY <2>1, <2>2, <3>1, <3>2, <3>3, YLineStep
  <2>3. CASE yup # <<>> /\ yup' = Tail(yup) /\ UNCHANGED ydown
    <3>1. yused' \in YCounters /\ yused'.cut = yused.cut
      <4>0. yused.acks \in Nat
        BY <1>0, YCounterFacts, Zenon
      <4>1. yused.acks \in Nat /\ yused.acks + 1 \in Nat
        BY <4>0
      <4>2. \/ yused' = [yused EXCEPT !.lost = @ + 1]
            \/ yused' = [yused EXCEPT !.lost = @ + 1, !.acks = yused.acks]
            \/ yused' = [yused EXCEPT !.lost = @ + 1, !.acks = yused.acks + 1]
        BY <1>6 DEF Y!Lose
      <4> QED BY <1>0, <4>1, <4>2, YCounterFacts, ZenonT(40)
    <3>2. /\ yup' \in Seq(YAnswers)
          /\ NoAck => NoAck'
          /\ (\A i, j \in 1 .. Len(yup) : i < j => ~(yup[i] = "ACK" /\ yup[j] = "ACK"))
             => \A i, j \in 1 .. Len(yup') : i < j => ~(yup'[i] = "ACK" /\ yup'[j] = "ACK")
      BY <1>0, <2>3, AnswerRead
    <3>3. YTypes' /\ YLine' /\ YStored'
      BY <1>0, <2>1, <2>3, <3>1, <3>2 DEF YInv, YTypes, YLine, YStored
    <3>4. InData => InData'
      BY <2>1, <2>3, <3>2 DEF InData
    <3>5. BeforeHeader => BeforeHeader'
      BY <2>1, <2>3, <3>2 DEF BeforeHeader
    <3> QED BY <2>1, <3>3, <3>4, <3>5 DEF YInv
  <2> QED BY <1>6, <2>2, <2>3 DEF Y!Lose
<1>7. CASE Y!Cut
  <2>1. /\ UNCHANGED <<yn, ydst, ypc, yblk, yload, yret, yup, ysender>> /\ ydown # <<>>
        /\ yused' = [yused EXCEPT !.cut = @ + 1]
    BY <1>7 DEF Y!Cut, Y!rxVars
  <2>2. PICK part \in {"short", "number", "headless"} : ydown' = [ydown EXCEPT ![1].part = part]
    BY <1>7 DEF Y!Cut
  <2>3. yused' \in YCounters /\ yused'.cut = yused.cut + 1 /\ yused.cut \in Nat
    BY <1>0, <2>1, YCounterFacts
  <2>4. yused'.cut >= yused.cut /\ yused'.cut > 0 /\ part \in YParts
    BY <2>3 DEF YParts
  <2>5. Shifted(0)
    BY <1>0, <2>1, <2>2, <2>4, CutShifts
  <2> QED BY <2>1, <2>3, <2>4, <2>5, YLineStep
<1>8. CASE UNCHANGED yvars
  BY <1>8 DEF yvars, YInv, YTypes, YLine, YStored, BeforeHeader, InData, NoAck
<1> QED BY <1>1, <1>2, <1>3, <1>4, <1>5, <1>6, <1>7, <1>8 DEF Y!Next

\* Ymodem stores the beginning of the file, each block once and in its place,
\* and returns the size of the whole file unless a block was cut: for every
\* number of blocks and every modulus, 2 included.
THEOREM YmodemStoresFile == LoadersSpec => []YmodemStored
<1>1. LoadersInit => YInv
  <2> SUFFICES ASSUME LoadersInit PROVE YInv
    OBVIOUS
  <2>1. Y!Init
    BY DEF LoadersInit
  <2> QED BY <2>1, ConstantsAssumption
          DEF Y!Init, YInv, YTypes, YLine, YStored, BeforeHeader, NoAck, YSenders, YCounters
<1>2. YInv /\ [LoadersNext]_allvars => YInv'
  <2>1. [LoadersNext]_allvars => [Y!Next]_yvars
    BY DEF LoadersNext, KermitStep, YmodemStep, allvars, yvars
  <2> QED BY <2>1, YStep
<1>3. YInv => YmodemStored
  BY DEF YInv, YTypes, YStored, YmodemStored, Y!StoredIsFile
<1> QED BY <1>1, <1>2, <1>3, PTL DEF LoadersSpec
=============================================================================
