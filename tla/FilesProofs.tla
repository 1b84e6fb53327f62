---------------------------- MODULE FilesProofs ----------------------------
(***************************************************************************)
(* Proofs about the SD card (Mmc), the command line of the shell (Shell)   *)
(* and the files of an ext volume (Ext), as parts of MCFiles: a card in    *)
(* order is found, whatever it is and however long it is busy, and the     *)
(* sector that is read is the one asked for; the terminal shows the line   *)
(* that Enter would execute, and the ring keeps the lines that were        *)
(* executed; the loops of boot and cat load the whole file.                *)
(***************************************************************************)
EXTENDS MCFiles, SequenceTheorems, WellFoundedInduction, TLAPS

-----------------------------------------------------------------------------
(* Numbers that wrap *)

LEMMA Split ==
    ASSUME NEW K \in Nat \ {0}, NEW a \in Int
    PROVE  a % K \in 0 .. K - 1 /\ a \div K \in Int /\ a = (K * (a \div K)) + (a % K)
BY SMT

LEMMA Unique ==
    ASSUME NEW K \in Nat \ {0}, NEW q \in Int, NEW r \in 0 .. K - 1,
           NEW s \in Int, NEW t \in 0 .. K - 1, K * q + r = K * s + t
    PROVE  q = s /\ r = t
<1>1. CASE q < s
  <2>1. K * s >= K * q + K
    BY <1>1, SMT
  <2> QED BY <2>1, SMT
<1>2. CASE q > s
  <2>1. K * q >= K * s + K
    BY <1>2, SMT
  <2> QED BY <2>1, SMT
<1>3. CASE q = s
  BY <1>3, SMT
<1> QED BY <1>1, <1>2, <1>3

LEMMA ModSmall ==
    ASSUME NEW K \in Nat \ {0}, NEW a \in 0 .. K - 1
    PROVE  a % K = a
<1>1. a % K \in 0 .. K - 1 /\ a \div K \in Int /\ a = (K * (a \div K)) + (a % K)
  BY Split
<1>2. K * 0 + a = (K * (a \div K)) + (a % K)
  BY <1>1
<1> QED BY <1>1, <1>2, Unique

\* A number and its residue differ by a multiple.
LEMMA ModShift ==
    ASSUME NEW K \in Nat \ {0}, NEW a \in Int, NEW n \in Int
    PROVE  (a + K * n) % K = a % K
<1>0. K * n \in Int /\ a + K * n \in Int
  BY SMT
<1>1. PICK q \in Int, r \in 0 .. K - 1 : r = a % K /\ a = K * q + r
  BY Split
<1>2. PICK s \in Int, t \in 0 .. K - 1 : t = (a + K * n) % K /\ a + K * n = K * s + t
  BY <1>0, Split
<1>3. K * (q + n) = K * q + K * n /\ K * q \in Int /\ K * s \in Int
  BY SMT
<1>4. K * (q + n) + r = K * s + t /\ q + n \in Int
  BY <1>0, <1>1, <1>2, <1>3
<1>5. r = t
  BY <1>4, Unique
<1> QED BY <1>1, <1>2, <1>5

\* Dividing what was multiplied.
LEMMA DivBack ==
    ASSUME NEW K \in Nat \ {0}, NEW n \in Nat
    PROVE  (n * K) \div K = n /\ n * K \in Nat
<1>1. n * K \in Nat /\ K * n = n * K
  BY SMT
<1>2. PICK q \in Int, r \in 0 .. K - 1 : q = (n * K) \div K /\ n * K = K * q + r
  BY <1>1, Split
<1>3. K * n + 0 = K * q + r /\ 0 \in 0 .. K - 1
  BY <1>1, <1>2
<1>4. n = q
  BY <1>3, Unique
<1> QED BY <1>1, <1>2, <1>4

\* A size_t taken as an int is the same but for a multiple of the word.
LEMMA AsIntFacts ==
    ASSUME NEW n \in Int
    PROVE  /\ M!AsInt(n) \in Int /\ M!AsInt(n) % WORD = n % WORD
           /\ \E q \in Int : M!AsInt(n) = n + WORD * q
           /\ (n \in 0 .. WORD - 1 /\ n < WORD \div 2) => M!AsInt(n) = n
<1>0. WORD \in Nat \ {0} /\ WORD \div 2 \in Int
  BY CardAssumption
<1>1. n % WORD \in 0 .. WORD - 1 /\ n \div WORD \in Int /\ n = (WORD * (n \div WORD)) + (n % WORD)
  BY <1>0, Split
<1>2. M!AsInt(n) = n % WORD \/ M!AsInt(n) = (n % WORD) - WORD
  BY DEF M!AsInt
<1>3. \E q \in Int : M!AsInt(n) = n + WORD * q
  <2>1. CASE M!AsInt(n) = n % WORD
    <3>1. WORD * (-(n \div WORD)) = -(WORD * (n \div WORD)) /\ -(n \div WORD) \in Int
      BY <1>0, <1>1, SMT
    <3>2. n % WORD = n + WORD * (-(n \div WORD))
      BY <1>0, <1>1, <3>1, SMT
    <3> QED BY <2>1, <3>1, <3>2
  <2>2. CASE M!AsInt(n) = (n % WORD) - WORD
    <3>1. /\ WORD * (-(n \div WORD) - 1) = -(WORD * (n \div WORD)) - WORD
          /\ -(n \div WORD) - 1 \in Int
      BY <1>0, <1>1, SMT
    <3>2. (n % WORD) - WORD = n + WORD * (-(n \div WORD) - 1)
      BY <1>0, <1>1, <3>1, SMT
    <3> QED BY <2>2, <3>1, <3>2
  <2> QED BY <1>2, <2>1, <2>2
<1>4. M!AsInt(n) \in Int
  BY <1>0, <1>1, <1>2
<1>5. M!AsInt(n) % WORD = n % WORD
  <2>1. PICK q \in Int : M!AsInt(n) = n + WORD * q
    BY <1>3
  <2> QED BY <1>0, <2>1, ModShift
<1>6. ASSUME n \in 0 .. WORD - 1, n < WORD \div 2 PROVE M!AsInt(n) = n
  <2>1. n % WORD = n
    BY <1>0, <1>6, ModSmall
  <2> QED BY <1>6, <2>1 DEF M!AsInt
<1> QED BY <1>3, <1>4, <1>5, <1>6

-----------------------------------------------------------------------------
(* The card and its answers *)

States == {"idle", "ready", "ident", "stby", "tran"}

CardStates == [kind : M!Kinds, state : States, app : BOOLEAN, named : BOOLEAN,
               busy : Nat, slow : BOOLEAN, table : M!Tables]

\* What no command changes.
SameCard(c) == c.kind = sd.kind /\ c.named = sd.named /\ c.slow = sd.slow /\ c.table = sd.table

CsdOf == IF sd.kind = "hc" THEN "csd2" ELSE "csd1"

LEMMA ReactsFacts ==
    ASSUME sd \in CardStates, NEW cmd
    PROVE  \A a \in M!Reacts(cmd) :
             a.sd \in CardStates /\ SameCard(a.sd) /\ (cmd = "csd" => a.resp = CsdOf)
<1> DEFINE c == [sd EXCEPT !.app = FALSE]
<1>1. /\ c \in CardStates /\ SameCard(c)
      /\ [c EXCEPT !.app = TRUE] \in CardStates /\ SameCard([c EXCEPT !.app = TRUE])
      /\ \A s \in States : [c EXCEPT !.state = s] \in CardStates /\ SameCard([c EXCEPT !.state = s])
  BY DEF CardStates, SameCard
<1>2. \A n \in Nat : [c EXCEPT !.busy = n] \in CardStates /\ SameCard([c EXCEPT !.busy = n])
  BY DEF CardStates, SameCard
<1> HIDE DEF c
<1>b. (IF c.busy > 0 THEN c.busy - 1 ELSE 0) \in Nat
  BY <1>1 DEF CardStates
<1>3. SUFFICES ASSUME NEW a \in M!Reacts(cmd)
               PROVE  a.sd \in CardStates /\ SameCard(a.sd) /\ (cmd = "csd" => a.resp = CsdOf)
  OBVIOUS
<1>4. cmd = "csd" => a.resp = CsdOf
  BY <1>3 DEF M!Reacts, M!Answer, M!Silent, CsdOf, c
<1>5. a.sd \in CardStates /\ SameCard(a.sd)
  <2> DEFINE Next4 == {c, [c EXCEPT !.app = TRUE], [c EXCEPT !.busy = IF @ > 0 THEN @ - 1 ELSE 0]}
                     \cup {[c EXCEPT !.state = s] : s \in States}
  <2>1. \A d \in Next4 : d \in CardStates /\ SameCard(d)
    BY <1>1, <1>2, <1>b
  <2>2. \E d \in Next4 : \E x : a = [sd |-> d, resp |-> x]
    BY <1>3, Zenon DEF M!Reacts, M!Answer, M!Silent, States, c
  <2> HIDE DEF Next4
  <2> QED BY <2>1, <2>2
<1> QED BY <1>4, <1>5

\* What a host gets back for a command.
LEMMA SendFacts ==
    ASSUME sd \in CardStates, lost \in Nat, NEW cmd, NEW r \in M!send_cmd(cmd)
    PROVE  /\ r.sd \in CardStates /\ SameCard(r.sd) /\ r.lost \in Nat /\ r.lost >= lost
           /\ r.ret \in {0, -1}
           /\ r.ret = 0 => \E a \in M!Reacts(cmd) : r.sd = a.sd /\ r.resp = a.resp
           /\ (r.ret # 0 /\ r.lost = 0) => M!Reacts(cmd) = {} /\ r.sd = [sd EXCEPT !.app = FALSE]
           /\ cmd = "csd" /\ r.ret = 0 => r.resp = CsdOf
<1>1. \A a \in M!Reacts(cmd) :
        a.sd \in CardStates /\ SameCard(a.sd) /\ (cmd = "csd" => a.resp = CsdOf)
  BY ReactsFacts
<1>2. CASE \E a \in M!Reacts(cmd) : r = [ret |-> 0, sd |-> a.sd, resp |-> a.resp, lost |-> lost]
  <2>1. PICK a \in M!Reacts(cmd) : r = [ret |-> 0, sd |-> a.sd, resp |-> a.resp, lost |-> lost]
    BY <1>2
  <2>2. r.ret = 0 /\ r.sd = a.sd /\ r.resp = a.resp /\ r.lost = lost
    BY <2>1
  <2>3. a.sd \in CardStates /\ SameCard(a.sd) /\ (cmd = "csd" => a.resp = CsdOf)
    BY <1>1, Zenon
  <2>4. r.sd \in CardStates /\ SameCard(r.sd) /\ (cmd = "csd" => r.resp = CsdOf)
    BY <2>2, <2>3, Zenon
  <2> QED BY <2>2, <2>4
<1>3. CASE M!Reacts(cmd) = {} /\ r = [ret |-> -1, sd |-> [sd EXCEPT !.app = FALSE], resp |-> resp, lost |-> lost]
  <2>1. [sd EXCEPT !.app = FALSE] \in CardStates /\ SameCard([sd EXCEPT !.app = FALSE])
    BY DEF CardStates, SameCard
  <2>2. r.ret = -1 /\ r.sd = [sd EXCEPT !.app = FALSE] /\ r.lost = lost
    BY <1>3
  <2> QED BY <1>3, <2>1, <2>2
<1>4. CASE \E s \in {sd} \cup {a.sd : a \in M!Reacts(cmd)} :
              r = [ret |-> -1, sd |-> s, resp |-> resp, lost |-> lost + 1]
  <2>1. SameCard(sd)
    BY DEF SameCard
  <2>2. PICK s \in {sd} \cup {a.sd : a \in M!Reacts(cmd)} :
              r = [ret |-> -1, sd |-> s, resp |-> resp, lost |-> lost + 1]
    BY <1>4
  <2>3. r.ret = -1 /\ r.sd = s /\ r.lost = lost + 1
    BY <2>2
  <2>4. s \in CardStates /\ SameCard(s)
    BY <1>1, <2>1, Zenon
  <2> QED BY <2>3, <2>4
<1> QED BY <1>2, <1>3, <1>4, Zenon DEF M!send_cmd, M!Silent

\* With nothing lost the host gets the card's answer.
LEMMA Answered ==
    ASSUME sd \in CardStates, lost \in Nat, NEW cmd, NEW r \in M!send_cmd(cmd), r.lost = 0,
           NEW to, NEW answer, M!Reacts(cmd) = {[sd |-> to, resp |-> answer]}
    PROVE  r.ret = 0 /\ r.sd = to /\ r.resp = answer
<1>1. /\ r.ret = 0 => \E a \in M!Reacts(cmd) : r.sd = a.sd /\ r.resp = a.resp
      /\ (r.ret # 0 /\ r.lost = 0) => M!Reacts(cmd) = {}
  BY SendFacts
<1>2. PICK a \in M!Reacts(cmd) : r.sd = a.sd /\ r.resp = a.resp
  BY <1>1
<1>3. a = [sd |-> to, resp |-> answer]
  BY <1>2
<1>4. a.sd = to /\ a.resp = answer
  BY <1>3
<1> QED BY <1>1, <1>2, <1>4

\* What the card answers to each command of the detection, when it is an SD card.
LEMMA SdReacts ==
    ASSUME sd \in CardStates, sd.kind \in {"v1", "v2", "hc"}, NEW c, c = [sd EXCEPT !.app = FALSE]
    PROVE  /\ (sd.kind # "v1" /\ sd.state = "idle")
                => M!Reacts("if_cond") = {[sd |-> c, resp |-> "ifcond"]}
           /\ sd.kind = "v1" => M!Reacts("if_cond") = {}
           /\ sd.state = "idle" \/ (mmc_card.rca = "rca" /\ sd.state = "tran")
                => M!Reacts("app_cmd") = {[sd |-> [c EXCEPT !.app = TRUE], resp |-> "status"]}
           /\ (sd.app /\ sd.state = "idle" /\ (sd.busy > 0 \/ (sd.kind = "hc" /\ ~hcs)))
                => M!Reacts("op_cond")
                     = {[sd |-> [c EXCEPT !.busy = IF @ > 0 THEN @ - 1 ELSE 0], resp |-> "ocr"]}
           /\ (sd.app /\ sd.state = "idle" /\ ~(sd.busy > 0 \/ (sd.kind = "hc" /\ ~hcs)))
                => M!Reacts("op_cond") = {[sd |-> [c EXCEPT !.state = "ready"], resp |-> "ocr_ready"]}
           /\ sd.state = "ready"
                => M!Reacts("cid") = {[sd |-> [c EXCEPT !.state = "ident"], resp |-> "cid"]}
           /\ sd.state = "ident"
                => M!Reacts("rca") = {[sd |-> [c EXCEPT !.state = "stby"], resp |-> "rca"]}
           /\ (sd.state = "stby" /\ mmc_card.rca = "rca") => M!Reacts("csd") = {[sd |-> c, resp |-> CsdOf]}
           /\ (sd.state = "stby" /\ mmc_card.rca = "rca")
                => M!Reacts("select") = {[sd |-> [c EXCEPT !.state = "tran"], resp |-> "status"]}
           /\ (sd.state = "tran" /\ sd.app) => M!Reacts("width") = {[sd |-> c, resp |-> "status"]}
BY DEF M!Reacts, M!Answer, M!Silent, CsdOf, CardStates, States

-----------------------------------------------------------------------------
(* The invariant *)

Opening == {"go_idle", "if_cond", "app_cmd", "op_cond"}
Closing == {"select", "width_app", "width", "register", "registered"}
Steps == Opening \cup {"cid", "rca", "csd", "failed"} \cup Closing

CardTypes ==
    /\ sd \in CardStates /\ step \in Steps /\ tries \in Nat /\ lost \in Nat
    /\ hcs \in BOOLEAN /\ scanned \in BOOLEAN
    /\ mmc_card = [rca |-> mmc_card.rca, csd |-> mmc_card.csd]

InOrder == sd.kind \in {"v1", "v2", "hc"} /\ sd.named /\ ~sd.slow

\* A card in order, with nothing lost, is where the next command wants it to be.
Expected ==
    (InOrder /\ lost = 0) =>
      /\ step # "failed"
      /\ step \in Opening => tries + sd.busy < MMC_CMD_RETRIES
      /\ step \in Opening \ {"go_idle"} => sd.state = "idle"
      /\ (step \in {"app_cmd", "op_cond"} /\ sd.kind = "hc") => hcs
      /\ step = "op_cond" => sd.app
      /\ step = "cid" => sd.state = "ready"
      /\ step = "rca" => sd.state = "ident"
      /\ step \in {"csd", "select"} => sd.state = "stby"
      /\ step \in {"width_app", "width"} => sd.state = "tran"
      /\ step \in {"csd", "select", "width_app"} => mmc_card.rca = "rca"
      /\ step = "width" => sd.app

\* From the selection on the CSD is the card's, whatever was lost.
CsdKnown == step \in Closing => mmc_card.csd = CsdOf

\* The partitions of a boot record that was read are those of the card.
Bases ==
    /\ scanned => step = "registered"
    /\ scanned => \A d \in 1 .. Len(bdevs) :
                     /\ d \in 1 .. 2 /\ sd.table[d] \in Nat
                     /\ bdevs[d] = (sd.table[d] * SECT) % WORD

BioTrue ==
    /\ bio.want # M!None => step = "registered"
    /\ bio.want # M!None /\ bio.flags = 0 /\ bio.whole /\ scanned /\ M!InReach(bio.want)
         => bio.got = bio.want

CardInv == CardTypes /\ Expected /\ CsdKnown /\ Bases /\ BioTrue

LEMMA CardInit == M!Init => CardInv
<1> SUFFICES ASSUME M!Init PROVE CardInv
  OBVIOUS
<1>1. sd \in CardStates /\ (sd.slow = (sd.busy >= MMC_CMD_RETRIES))
  <2>1. sd \in [kind : M!Kinds, state : {"idle", "tran"}, app : {FALSE}, named : BOOLEAN,
                 busy : 0 .. MMC_CMD_RETRIES, slow : BOOLEAN, table : M!Tables]
        /\ sd.slow = (sd.busy >= MMC_CMD_RETRIES)
    BY DEF M!Init, M!Cards
  <2>2. 0 .. MMC_CMD_RETRIES \subseteq Nat /\ {"idle", "tran"} \subseteq States /\ {FALSE} \subseteq BOOLEAN
    BY CardAssumption DEF States
  <2>3. sd \in CardStates
    BY <2>1, <2>2, Zenon DEF CardStates
  <2> QED BY <2>1, <2>3
<1>2. CardTypes
  BY <1>1 DEF M!Init, CardTypes, Steps, Opening
<1>3. Expected
  BY <1>1, CardAssumption DEF M!Init, Expected, Opening, InOrder, CardStates
<1>4. CsdKnown /\ Bases /\ BioTrue
  BY DEF M!Init, CsdKnown, Closing, Bases, BioTrue, M!None
<1> QED BY <1>2, <1>3, <1>4 DEF CardInv

\* A step of the detection leaves the partitions and the last sector alone.
LEMMA Detecting ==
    ASSUME CardInv, step \notin {"registered", "register"}, step' \notin {"registered"},
           UNCHANGED <<bdevs, bio, scanned>>
    PROVE  Bases' /\ BioTrue'
<1>1. scanned = FALSE /\ bio.want = M!None
  BY DEF CardInv, CardTypes, Bases, BioTrue
<1> QED BY <1>1 DEF Bases, BioTrue, M!None

LEMMA GoIdle == ASSUME CardInv, M!mmc_go_idle PROVE CardInv'
<1>1. sd' \in CardStates /\ SameCard(sd') /\ sd'.busy = sd.busy /\ lost' \in Nat
      /\ (lost' = 0 => sd'.state = "idle" /\ lost = 0)
  BY CardAssumption DEF M!mmc_go_idle, CardInv, CardTypes, CardStates, States, SameCard
<1>2. step = "go_idle" /\ step' = "if_cond" /\ UNCHANGED <<resp, mmc_card, tries, hcs, bdevs, bio, scanned>>
  BY DEF M!mmc_go_idle, M!Goto
<1>3. CardTypes'
  BY <1>1, <1>2 DEF CardInv, CardTypes, Steps, Opening
<1>4. Expected'
  BY <1>1, <1>2 DEF CardInv, Expected, InOrder, SameCard, Opening
<1>5. CsdKnown'
  BY <1>2 DEF CsdKnown, Closing
<1>6. Bases' /\ BioTrue'
  BY <1>2, Detecting
<1> QED BY <1>3, <1>4, <1>5, <1>6 DEF CardInv

LEMMA IfCond == ASSUME CardInv, M!mmc_send_if_cond PROVE CardInv'
<1>0. sd \in CardStates /\ lost \in Nat
  BY DEF CardInv, CardTypes
<1>1. PICK r \in M!send_cmd("if_cond") : M!Sent(r) /\ hcs' = (r.ret = 0)
  BY DEF M!mmc_send_if_cond, M!Goto
<1>2. step = "if_cond" /\ step' = "app_cmd" /\ UNCHANGED <<mmc_card, tries, bdevs, bio, scanned>>
  BY DEF M!mmc_send_if_cond, M!Goto
<1>3. sd' = r.sd /\ resp' = r.resp /\ lost' = r.lost
  BY <1>1 DEF M!Sent
<1>4. /\ r.sd \in CardStates /\ SameCard(r.sd) /\ r.lost \in Nat /\ r.lost >= lost /\ r.ret \in {0, -1}
      /\ (r.ret # 0 /\ r.lost = 0) => M!Reacts("if_cond") = {} /\ r.sd = [sd EXCEPT !.app = FALSE]
  BY <1>0, SendFacts
<1>5. CardTypes'
  BY <1>1, <1>2, <1>3, <1>4 DEF CardInv, CardTypes, Steps, Opening, Closing
<1>6. Expected'
  <2> SUFFICES ASSUME InOrder', lost' = 0 PROVE Expected'
    BY DEF Expected
  <2>1. /\ InOrder /\ lost = 0 /\ r.lost = 0
        /\ sd.state = "idle" /\ tries + sd.busy < MMC_CMD_RETRIES
    BY <1>0, <1>2, <1>3, <1>4 DEF InOrder, SameCard, CardInv, Expected, Opening
  <2> DEFINE c == [sd EXCEPT !.app = FALSE]
  <2>2. CASE sd.kind = "v1"
    <3>1. M!Reacts("if_cond") = {}
      BY <1>0, <2>2, SdReacts
    <3>2. r.ret # 0
      BY <1>0, <3>1, SendFacts
    <3> QED BY <1>0, <1>1, <1>2, <1>3, <1>4, <2>1, <2>2, <3>2 DEF Expected, Opening, InOrder, CardStates
  <2>3. CASE sd.kind # "v1"
    <3>1. M!Reacts("if_cond") = {[sd |-> c, resp |-> "ifcond"]}
      BY <1>0, <2>1, <2>3, SdReacts DEF InOrder
    <3> HIDE DEF c
    <3>2. r.ret = 0 /\ r.sd = c
      BY <1>0, <2>1, <3>1, Answered
    <3> USE DEF c
    <3> QED BY <1>0, <1>1, <1>2, <1>3, <2>1, <3>2 DEF Expected, Opening, InOrder, CardStates
  <2> QED BY <2>2, <2>3
<1>7. CsdKnown'
  BY <1>1, <1>2 DEF CsdKnown, Closing
<1>8. Bases' /\ BioTrue'
  BY <1>1, <1>2, Detecting
<1> QED BY <1>5, <1>6, <1>7, <1>8 DEF CardInv

LEMMA AppCmd == ASSUME CardInv, M!mmc_app_cmd PROVE CardInv'
<1>0. sd \in CardStates /\ lost \in Nat
  BY DEF CardInv, CardTypes
<1>1. PICK r \in M!send_cmd("app_cmd") : M!Sent(r)
  BY DEF M!mmc_app_cmd, M!Goto
<1>2. step = "app_cmd" /\ step' = "op_cond" /\ UNCHANGED <<mmc_card, tries, hcs, bdevs, bio, scanned>>
  BY DEF M!mmc_app_cmd, M!Goto
<1>3. sd' = r.sd /\ resp' = r.resp /\ lost' = r.lost
  BY <1>1 DEF M!Sent
<1>4. /\ r.sd \in CardStates /\ SameCard(r.sd) /\ r.lost \in Nat /\ r.lost >= lost /\ r.ret \in {0, -1}
      /\ (r.ret # 0 /\ r.lost = 0) => M!Reacts("app_cmd") = {} /\ r.sd = [sd EXCEPT !.app = FALSE]
  BY <1>0, SendFacts
<1>5. CardTypes'
  BY <1>1, <1>2, <1>3, <1>4 DEF CardInv, CardTypes, Steps, Opening, Closing
<1>6. Expected'
  <2> SUFFICES ASSUME InOrder', lost' = 0 PROVE Expected'
    BY DEF Expected
  <2>1. /\ InOrder /\ lost = 0 /\ r.lost = 0
        /\ sd.state = "idle" /\ tries + sd.busy < MMC_CMD_RETRIES /\ (sd.kind = "hc" => hcs)
    BY <1>0, <1>2, <1>3, <1>4 DEF InOrder, SameCard, CardInv, Expected, Opening
  <2> DEFINE c == [sd EXCEPT !.app = FALSE]
  <2> DEFINE to == [c EXCEPT !.app = TRUE]
  <2>2. M!Reacts("app_cmd") = {[sd |-> to, resp |-> "status"]}
    BY <1>0, <2>1, SdReacts DEF InOrder
  <2> HIDE DEF to
  <2>3. r.ret = 0 /\ r.sd = to /\ r.resp = "status"
    BY <1>0, <2>1, <2>2, Answered
  <2> USE DEF to
  <2> QED BY <1>0, <1>1, <1>2, <1>3, <2>1, <2>3 DEF Expected, Opening, InOrder, CardStates
<1>7. CsdKnown'
  BY <1>1, <1>2 DEF CsdKnown, Closing
<1>8. Bases' /\ BioTrue'
  BY <1>1, <1>2, Detecting
<1> QED BY <1>5, <1>6, <1>7, <1>8 DEF CardInv

LEMMA OpCond == ASSUME CardInv, M!mmc_send_app_op_cond PROVE CardInv'
<1>0. sd \in CardStates /\ lost \in Nat
  BY DEF CardInv, CardTypes
<1>1. PICK r \in M!send_cmd("op_cond") : 
         /\ M!Sent(r)
         /\ IF r.resp = "ocr_ready"
            THEN step' = (IF r.ret = 0 THEN "cid" ELSE "failed") /\ UNCHANGED tries
            ELSE /\ tries' = tries + 1
                 /\ step' = (IF tries + 1 < MMC_CMD_RETRIES THEN "app_cmd" ELSE "failed")
  BY DEF M!mmc_send_app_op_cond, M!Goto
<1>2. step = "op_cond" /\ UNCHANGED <<mmc_card, hcs, bdevs, bio, scanned>>
  BY DEF M!mmc_send_app_op_cond, M!Goto
<1>3. sd' = r.sd /\ resp' = r.resp /\ lost' = r.lost
  BY <1>1 DEF M!Sent
<1>4. /\ r.sd \in CardStates /\ SameCard(r.sd) /\ r.lost \in Nat /\ r.lost >= lost /\ r.ret \in {0, -1}
      /\ (r.ret # 0 /\ r.lost = 0) => M!Reacts("op_cond") = {} /\ r.sd = [sd EXCEPT !.app = FALSE]
  BY <1>0, SendFacts
<1>5. CardTypes'
  BY <1>1, <1>2, <1>3, <1>4 DEF CardInv, CardTypes, Steps, Opening, Closing
<1>6. Expected'
  <2> SUFFICES ASSUME InOrder', lost' = 0 PROVE Expected'
    BY DEF Expected
  <2>1. /\ InOrder /\ lost = 0 /\ r.lost = 0
        /\ sd.state = "idle" /\ sd.app /\ tries \in Nat /\ tries + sd.busy < MMC_CMD_RETRIES /\ (sd.kind = "hc" => hcs)
    BY <1>0, <1>2, <1>3, <1>4 DEF InOrder, SameCard, CardInv, CardTypes, Expected, Opening
  <2> DEFINE c == [sd EXCEPT !.app = FALSE]
  <2>2. CASE sd.busy > 0
    <3> DEFINE to == [c EXCEPT !.busy = IF @ > 0 THEN @ - 1 ELSE 0]
    <3>1. M!Reacts("op_cond") = {[sd |-> to, resp |-> "ocr"]}
      BY <1>0, <2>1, <2>2, SdReacts DEF InOrder
    <3> HIDE DEF to
    <3>2. r.ret = 0 /\ r.sd = to /\ r.resp = "ocr"
      BY <1>0, <2>1, <3>1, Answered
    <3> USE DEF to
    <3>3. sd'.busy = sd.busy - 1 /\ sd'.state = sd.state /\ sd'.kind = sd.kind
      BY <1>0, <1>3, <2>2, <3>2 DEF CardStates
    <3>4. tries + 1 < MMC_CMD_RETRIES /\ tries' = tries + 1 /\ step' = "app_cmd"
      BY <1>0, <1>1, <2>1, <2>2, <3>2, CardAssumption DEF CardStates
    <3>5. tries' + sd'.busy < MMC_CMD_RETRIES
      BY <1>0, <2>1, <3>3, <3>4, CardAssumption DEF CardStates
    <3> QED BY <1>2, <2>1, <3>3, <3>4, <3>5 DEF Expected, Opening, InOrder
  <2>3. CASE ~(sd.busy > 0)
    <3> DEFINE to == [c EXCEPT !.state = "ready"]
    <3>1. M!Reacts("op_cond") = {[sd |-> to, resp |-> "ocr_ready"]}
      BY <1>0, <2>1, <2>3, SdReacts DEF InOrder
    <3> HIDE DEF to
    <3>2. r.ret = 0 /\ r.sd = to /\ r.resp = "ocr_ready"
      BY <1>0, <2>1, <3>1, Answered
    <3> USE DEF to
    <3> QED BY <1>0, <1>1, <1>2, <1>3, <2>1, <3>2 DEF Expected, Opening, InOrder, CardStates
  <2> QED BY <2>2, <2>3
<1>7. CsdKnown'
  BY <1>1, <1>2 DEF CsdKnown, Closing
<1>8. Bases' /\ BioTrue'
  BY <1>1, <1>2, Detecting
<1> QED BY <1>5, <1>6, <1>7, <1>8 DEF CardInv

LEMMA AllSendCid == ASSUME CardInv, M!mmc_all_send_cid PROVE CardInv'
<1>0. sd \in CardStates /\ lost \in Nat
  BY DEF CardInv, CardTypes
<1>1. PICK r \in M!send_cmd("cid") : M!Sent(r) /\ step' = (IF r.ret = 0 /\ sd.named THEN "rca" ELSE "failed")
  BY DEF M!mmc_all_send_cid, M!Goto
<1>2. step = "cid" /\ UNCHANGED <<mmc_card, tries, hcs, bdevs, bio, scanned>>
  BY DEF M!mmc_all_send_cid, M!Goto
<1>3. sd' = r.sd /\ resp' = r.resp /\ lost' = r.lost
  BY <1>1 DEF M!Sent
<1>4. /\ r.sd \in CardStates /\ SameCard(r.sd) /\ r.lost \in Nat /\ r.lost >= lost /\ r.ret \in {0, -1}
      /\ (r.ret # 0 /\ r.lost = 0) => M!Reacts("cid") = {} /\ r.sd = [sd EXCEPT !.app = FALSE]
  BY <1>0, SendFacts
<1>5. CardTypes'
  BY <1>1, <1>2, <1>3, <1>4 DEF CardInv, CardTypes, Steps, Opening, Closing
<1>6. Expected'
  <2> SUFFICES ASSUME InOrder', lost' = 0 PROVE Expected'
    BY DEF Expected
  <2>1. /\ InOrder /\ lost = 0 /\ r.lost = 0
        /\ sd.state = "ready"
    BY <1>0, <1>2, <1>3, <1>4 DEF InOrder, SameCard, CardInv, Expected, Opening
  <2> DEFINE c == [sd EXCEPT !.app = FALSE]
  <2> DEFINE to == [c EXCEPT !.state = "ident"]
  <2>2. M!Reacts("cid") = {[sd |-> to, resp |-> "cid"]}
    BY <1>0, <2>1, SdReacts DEF InOrder
  <2> HIDE DEF to
  <2>3. r.ret = 0 /\ r.sd = to /\ r.resp = "cid"
    BY <1>0, <2>1, <2>2, Answered
  <2> USE DEF to
  <2> QED BY <1>0, <1>1, <1>2, <1>3, <2>1, <2>3 DEF Expected, Opening, InOrder, CardStates
<1>7. CsdKnown'
  BY <1>1, <1>2 DEF CsdKnown, Closing
<1>8. Bases' /\ BioTrue'
  BY <1>1, <1>2, Detecting
<1> QED BY <1>5, <1>6, <1>7, <1>8 DEF CardInv

LEMMA RelativeAddr == ASSUME CardInv, M!mmc_set_relative_addr PROVE CardInv'
<1>0. sd \in CardStates /\ lost \in Nat
  BY DEF CardInv, CardTypes
<1>1. PICK r \in M!send_cmd("rca") : 
         /\ M!Sent(r) /\ mmc_card' = [mmc_card EXCEPT !.rca = r.resp]
         /\ step' = (IF r.ret = 0 THEN "csd" ELSE "failed")
  BY DEF M!mmc_set_relative_addr, M!Goto
<1>2. step = "rca" /\ UNCHANGED <<tries, hcs, bdevs, bio, scanned>>
  BY DEF M!mmc_set_relative_addr, M!Goto
<1>3. sd' = r.sd /\ resp' = r.resp /\ lost' = r.lost
  BY <1>1 DEF M!Sent
<1>4. /\ r.sd \in CardStates /\ SameCard(r.sd) /\ r.lost \in Nat /\ r.lost >= lost /\ r.ret \in {0, -1}
      /\ (r.ret # 0 /\ r.lost = 0) => M!Reacts("rca") = {} /\ r.sd = [sd EXCEPT !.app = FALSE]
  BY <1>0, SendFacts
<1>5. CardTypes'
  BY <1>1, <1>2, <1>3, <1>4 DEF CardInv, CardTypes, Steps, Opening, Closing
<1>6. Expected'
  <2> SUFFICES ASSUME InOrder', lost' = 0 PROVE Expected'
    BY DEF Expected
  <2>1. /\ InOrder /\ lost = 0 /\ r.lost = 0
        /\ sd.state = "ident"
    BY <1>0, <1>2, <1>3, <1>4 DEF InOrder, SameCard, CardInv, Expected, Opening
  <2> DEFINE c == [sd EXCEPT !.app = FALSE]
  <2> DEFINE to == [c EXCEPT !.state = "stby"]
  <2>2. M!Reacts("rca") = {[sd |-> to, resp |-> "rca"]}
    BY <1>0, <2>1, SdReacts DEF InOrder
  <2> HIDE DEF to
  <2>3. r.ret = 0 /\ r.sd = to /\ r.resp = "rca"
    BY <1>0, <2>1, <2>2, Answered
  <2> USE DEF to
  <2> QED BY <1>0, <1>1, <1>2, <1>3, <2>1, <2>3 DEF Expected, Opening, InOrder, CardStates, CardInv, CardTypes
<1>7. CsdKnown'
  BY <1>1, <1>2 DEF CsdKnown, Closing
<1>8. Bases' /\ BioTrue'
  BY <1>1, <1>2, Detecting
<1> QED BY <1>5, <1>6, <1>7, <1>8 DEF CardInv

LEMMA SendCsd == ASSUME CardInv, M!mmc_send_csd PROVE CardInv'
<1>0. sd \in CardStates /\ lost \in Nat
  BY DEF CardInv, CardTypes
<1>1. PICK r \in M!send_cmd("csd") : 
         /\ M!Sent(r) /\ mmc_card' = [mmc_card EXCEPT !.csd = r.resp]
         /\ step' = (IF r.ret = 0 THEN "select" ELSE "failed")
  BY DEF M!mmc_send_csd, M!Goto
<1>2. step = "csd" /\ UNCHANGED <<tries, hcs, bdevs, bio, scanned>>
  BY DEF M!mmc_send_csd, M!Goto
<1>3. sd' = r.sd /\ resp' = r.resp /\ lost' = r.lost
  BY <1>1 DEF M!Sent
<1>4. /\ r.sd \in CardStates /\ SameCard(r.sd) /\ r.lost \in Nat /\ r.lost >= lost /\ r.ret \in {0, -1}
      /\ (r.ret # 0 /\ r.lost = 0) => M!Reacts("csd") = {} /\ r.sd = [sd EXCEPT !.app = FALSE]
      /\ r.ret = 0 => r.resp = CsdOf
  BY <1>0, SendFacts
<1>5. CardTypes'
  BY <1>1, <1>2, <1>3, <1>4 DEF CardInv, CardTypes, Steps, Opening, Closing
<1>6. Expected'
  <2> SUFFICES ASSUME InOrder', lost' = 0 PROVE Expected'
    BY DEF Expected
  <2>1. /\ InOrder /\ lost = 0 /\ r.lost = 0
        /\ sd.state = "stby" /\ mmc_card.rca = "rca"
    BY <1>0, <1>2, <1>3, <1>4 DEF InOrder, SameCard, CardInv, Expected, Opening
  <2> DEFINE c == [sd EXCEPT !.app = FALSE]
  <2>2. M!Reacts("csd") = {[sd |-> c, resp |-> CsdOf]}
    BY <1>0, <2>1, SdReacts DEF InOrder
  <2> HIDE DEF c
  <2>3. r.ret = 0 /\ r.sd = c /\ r.resp = CsdOf
    BY <1>0, <2>1, <2>2, Answered
  <2> USE DEF c
  <2> QED BY <1>0, <1>1, <1>2, <1>3, <2>1, <2>3 DEF Expected, Opening, InOrder, CardStates, CardInv, CardTypes
<1>7. CsdKnown'
  BY <1>1, <1>2, <1>3, <1>4 DEF CsdKnown, Closing, CardInv, CardTypes, CsdOf, SameCard
<1>8. Bases' /\ BioTrue'
  BY <1>1, <1>2, Detecting
<1> QED BY <1>5, <1>6, <1>7, <1>8 DEF CardInv

LEMMA SelectCard == ASSUME CardInv, M!mmc_select_card PROVE CardInv'
<1>0. sd \in CardStates /\ lost \in Nat
  BY DEF CardInv, CardTypes
<1>1. PICK r \in M!send_cmd("select") : M!Sent(r) /\ step' = (IF r.ret = 0 THEN "width_app" ELSE "failed")
  BY DEF M!mmc_select_card, M!Goto
<1>2. step = "select" /\ UNCHANGED <<mmc_card, tries, hcs, bdevs, bio, scanned>>
  BY DEF M!mmc_select_card, M!Goto
<1>3. sd' = r.sd /\ resp' = r.resp /\ lost' = r.lost
  BY <1>1 DEF M!Sent
<1>4. /\ r.sd \in CardStates /\ SameCard(r.sd) /\ r.lost \in Nat /\ r.lost >= lost /\ r.ret \in {0, -1}
      /\ (r.ret # 0 /\ r.lost = 0) => M!Reacts("select") = {} /\ r.sd = [sd EXCEPT !.app = FALSE]
  BY <1>0, SendFacts
<1>5. CardTypes'
  BY <1>1, <1>2, <1>3, <1>4 DEF CardInv, CardTypes, Steps, Opening, Closing
<1>6. Expected'
  <2> SUFFICES ASSUME InOrder', lost' = 0 PROVE Expected'
    BY DEF Expected
  <2>1. /\ InOrder /\ lost = 0 /\ r.lost = 0
        /\ sd.state = "stby" /\ mmc_card.rca = "rca"
    BY <1>0, <1>2, <1>3, <1>4 DEF InOrder, SameCard, CardInv, Expected, Opening
  <2> DEFINE c == [sd EXCEPT !.app = FALSE]
  <2> DEFINE to == [c EXCEPT !.state = "tran"]
  <2>2. M!Reacts("select") = {[sd |-> to, resp |-> "status"]}
    BY <1>0, <2>1, SdReacts DEF InOrder
  <2> HIDE DEF to
  <2>3. r.ret = 0 /\ r.sd = to /\ r.resp = "status"
    BY <1>0, <2>1, <2>2, Answered
  <2> USE DEF to
  <2> QED BY <1>0, <1>1, <1>2, <1>3, <2>1, <2>3 DEF Expected, Opening, InOrder, CardStates
<1>7. CsdKnown'
  BY <1>1, <1>2, <1>3, <1>4 DEF CsdKnown, Closing, CardInv, CsdOf, SameCard
<1>8. Bases' /\ BioTrue'
  BY <1>1, <1>2, Detecting
<1> QED BY <1>5, <1>6, <1>7, <1>8 DEF CardInv

LEMMA WidthApp == ASSUME CardInv, step = "width_app", M!mmc_switch_width PROVE CardInv'
<1>0. sd \in CardStates /\ lost \in Nat
  BY DEF CardInv, CardTypes
<1>1. PICK r \in M!send_cmd("app_cmd") : M!Sent(r) /\ step' = (IF r.ret = 0 THEN "width" ELSE "failed")
  BY DEF M!mmc_switch_width, M!Goto
<1>2. step = "width_app" /\ UNCHANGED <<mmc_card, tries, hcs, bdevs, bio, scanned>>
  BY DEF M!mmc_switch_width, M!Goto
<1>3. sd' = r.sd /\ resp' = r.resp /\ lost' = r.lost
  BY <1>1 DEF M!Sent
<1>4. /\ r.sd \in CardStates /\ SameCard(r.sd) /\ r.lost \in Nat /\ r.lost >= lost /\ r.ret \in {0, -1}
      /\ (r.ret # 0 /\ r.lost = 0) => M!Reacts("app_cmd") = {} /\ r.sd = [sd EXCEPT !.app = FALSE]
  BY <1>0, SendFacts
<1>5. CardTypes'
  BY <1>1, <1>2, <1>3, <1>4 DEF CardInv, CardTypes, Steps, Opening, Closing
<1>6. Expected'
  <2> SUFFICES ASSUME InOrder', lost' = 0 PROVE Expected'
    BY DEF Expected
  <2>1. /\ InOrder /\ lost = 0 /\ r.lost = 0
        /\ sd.state = "tran" /\ mmc_card.rca = "rca"
    BY <1>0, <1>2, <1>3, <1>4 DEF InOrder, SameCard, CardInv, Expected, Opening
  <2> DEFINE c == [sd EXCEPT !.app = FALSE]
  <2> DEFINE to == [c EXCEPT !.app = TRUE]
  <2>2. M!Reacts("app_cmd") = {[sd |-> to, resp |-> "status"]}
    BY <1>0, <2>1, SdReacts DEF InOrder
  <2> HIDE DEF to
  <2>3. r.ret = 0 /\ r.sd = to /\ r.resp = "status"
    BY <1>0, <2>1, <2>2, Answered
  <2> USE DEF to
  <2> QED BY <1>0, <1>1, <1>2, <1>3, <2>1, <2>3 DEF Expected, Opening, InOrder, CardStates
<1>7. CsdKnown'
  BY <1>1, <1>2, <1>3, <1>4 DEF CsdKnown, Closing, CardInv, CsdOf, SameCard
<1>8. Bases' /\ BioTrue'
  BY <1>1, <1>2, Detecting
<1> QED BY <1>5, <1>6, <1>7, <1>8 DEF CardInv

LEMMA Width == ASSUME CardInv, step = "width", M!mmc_switch_width PROVE CardInv'
<1>0. sd \in CardStates /\ lost \in Nat
  BY DEF CardInv, CardTypes
<1>1. PICK r \in M!send_cmd("width") : M!Sent(r) /\ step' = (IF r.ret = 0 THEN "register" ELSE "failed")
  BY DEF M!mmc_switch_width, M!Goto
<1>2. step = "width" /\ UNCHANGED <<mmc_card, tries, hcs, bdevs, bio, scanned>>
  BY DEF M!mmc_switch_width, M!Goto
<1>3. sd' = r.sd /\ resp' = r.resp /\ lost' = r.lost
  BY <1>1 DEF M!Sent
<1>4. /\ r.sd \in CardStates /\ SameCard(r.sd) /\ r.lost \in Nat /\ r.lost >= lost /\ r.ret \in {0, -1}
      /\ (r.ret # 0 /\ r.lost = 0) => M!Reacts("width") = {} /\ r.sd = [sd EXCEPT !.app = FALSE]
  BY <1>0, SendFacts
<1>5. CardTypes'
  BY <1>1, <1>2, <1>3, <1>4 DEF CardInv, CardTypes, Steps, Opening, Closing
<1>6. Expected'
  <2> SUFFICES ASSUME InOrder', lost' = 0 PROVE Expected'
    BY DEF Expected
  <2>1. /\ InOrder /\ lost = 0 /\ r.lost = 0
        /\ sd.state = "tran" /\ sd.app
    BY <1>0, <1>2, <1>3, <1>4 DEF InOrder, SameCard, CardInv, Expected, Opening
  <2> DEFINE c == [sd EXCEPT !.app = FALSE]
  <2>2. M!Reacts("width") = {[sd |-> c, resp |-> "status"]}
    BY <1>0, <2>1, SdReacts DEF InOrder
  <2> HIDE DEF c
  <2>3. r.ret = 0 /\ r.sd = c /\ r.resp = "status"
    BY <1>0, <2>1, <2>2, Answered
  <2> USE DEF c
  <2> QED BY <1>0, <1>1, <1>2, <1>3, <2>1, <2>3 DEF Expected, Opening, InOrder, CardStates
<1>7. CsdKnown'
  BY <1>1, <1>2, <1>3, <1>4 DEF CsdKnown, Closing, CardInv, CsdOf, SameCard
<1>8. Bases' /\ BioTrue'
  BY <1>1, <1>2, Detecting
<1> QED BY <1>5, <1>6, <1>7, <1>8 DEF CardInv

-----------------------------------------------------------------------------
(* Partitions and sectors *)

\* The partitions are the entries in front of the first empty one.
LEMMA ScanFacts ==
    ASSUME NEW table \in M!Tables
    PROVE  /\ M!msdos_part_scan(table) \in Seq(Int)
           /\ \A d \in 1 .. Len(M!msdos_part_scan(table)) :
                /\ d \in 1 .. 2 /\ table[d] \in Nat
                /\ M!msdos_part_scan(table)[d] = (table[d] * SECT) % WORD
<1> DEFINE P == {i \in DOMAIN table : \A j \in 1 .. i : table[j] # M!Empty}
<1>0. SECT \in Nat \ {0} /\ WORD \in Nat \ {0}
  BY CardAssumption
<1>1. table \in [1 .. 2 -> Starts \cup {-1}] /\ M!Empty = -1 /\ Starts \subseteq Nat
  BY CardAssumption DEF M!Tables, M!Empty
<1>2. \A i \in 1 .. 2 : table[i] # M!Empty => table[i] \in Nat
  <2> SUFFICES ASSUME NEW i \in 1 .. 2, table[i] # M!Empty PROVE table[i] \in Nat
    OBVIOUS
  <2>1. table[i] \in Starts \cup {-1}
    BY <1>1
  <2> QED BY <1>1, <2>1
<1>3. \E n \in 0 .. 2 : P = 1 .. n
  <2>1. CASE table[1] = M!Empty
    <3>1. P = 1 .. 0
      BY <1>1, <2>1
    <3> QED BY <3>1
  <2>2. CASE table[1] # M!Empty /\ table[2] = M!Empty
    <3>1. P = 1 .. 1
      BY <1>1, <2>2
    <3> QED BY <3>1
  <2>3. CASE table[1] # M!Empty /\ table[2] # M!Empty
    <3>1. P = 1 .. 2
      BY <1>1, <2>3
    <3> QED BY <3>1
  <2> QED BY <2>1, <2>2, <2>3
<1>4. PICK n \in 0 .. 2 : P = 1 .. n
  BY <1>3
<1>5. \A i \in 1 .. n : i \in 1 .. 2 /\ table[i] \in Nat
  BY <1>1, <1>2, <1>4
<1>6. M!msdos_part_scan(table) = [i \in 1 .. n |-> (table[i] * SECT) % WORD]
  BY <1>4 DEF M!msdos_part_scan
<1> HIDE DEF P
<1>7. \A i \in 1 .. n : (table[i] * SECT) % WORD \in Int
  <2> SUFFICES ASSUME NEW i \in 1 .. n PROVE (table[i] * SECT) % WORD \in Int
    OBVIOUS
  <2>1. table[i] * SECT \in Nat
    BY <1>0, <1>5, DivBack
  <2> QED BY <1>0, <2>1, Split
<1>8. M!msdos_part_scan(table) \in Seq(Int) /\ Len(M!msdos_part_scan(table)) = n
  BY <1>6, <1>7
<1> QED BY <1>5, <1>6, <1>8

\* The argument of the read command is the sector, or where it begins, although
\* the offset goes through an int.
LEMMA SectorRead ==
    ASSUME sd \in CardStates, mmc_card.csd = CsdOf, NEW dev, NEW sect \in Nat, NEW base \in Nat,
           dev = 0 => base = 0,
           dev # 0 => bdevs[dev] = (base * SECT) % WORD,
           M!InReach(sect + base)
    PROVE  M!CardSector(M!get_block(dev, sect * SECT)) = sect + base
<1> DEFINE want == sect + base
           at == want * SECT
<1>0. SECT \in Nat \ {0} /\ WORD \in Nat \ {0} /\ Capacity \in Nat
  BY CardAssumption
<1>1. /\ want \in Nat /\ at \in Nat /\ at \div SECT = want
      /\ sect * SECT \in Nat /\ base * SECT \in Nat /\ at = sect * SECT + base * SECT
  <2>1. want \in Nat /\ at \in Nat /\ at \div SECT = want /\ sect * SECT \in Nat /\ base * SECT \in Nat
    BY <1>0, DivBack
  <2>2. (sect + base) * SECT = sect * SECT + base * SECT
    BY <1>0, SMT
  <2> QED BY <2>1, <2>2
<1>2. want < Capacity /\ at < WORD /\ (sd.kind = "hc" => at < WORD \div 2)
  BY <1>0, <1>1 DEF M!InReach
<1>a. want <= at
  <2>1. want * SECT >= want
    BY <1>0, <1>1, SMT
  <2> QED BY <2>1
<1>b. PICK x \in Nat, y \in Nat : x = sect * SECT /\ y = base * SECT /\ (dev = 0 => y = 0)
  <2>1. dev = 0 => base * SECT = 0
    BY <1>0, SMT
  <2> QED BY <1>1, <2>1
<1> DEFINE start == IF dev = 0 THEN M!AsInt(x) ELSE M!AsInt(bdevs[dev] + M!AsInt(x))
<1> HIDE DEF at, want
<1>c. at = x + y /\ at \in Nat /\ x \in 0 .. WORD - 1 /\ y \in 0 .. WORD - 1 /\ at \in 0 .. WORD - 1
  BY <1>0, <1>1, <1>2, <1>b
<1>d. dev # 0 => bdevs[dev] = y
  <2>1. y % WORD = y
    BY <1>0, <1>c, ModSmall
  <2> QED BY <1>b, <2>1
<1>3. start \in Int /\ start % WORD = at
  <2>1. /\ M!AsInt(x) \in Int /\ M!AsInt(x) % WORD = x % WORD
        /\ \E q \in Int : M!AsInt(x) = x + WORD * q
    BY <1>b, AsIntFacts
  <2>2. at % WORD = at
    BY <1>0, <1>c, ModSmall
  <2>3. CASE dev = 0
    BY <1>b, <1>c, <2>1, <2>2, <2>3
  <2>4. CASE dev # 0
    <3>2. PICK q \in Int : M!AsInt(x) = x + WORD * q
      BY <2>1
    <3>3. WORD * q \in Int
      BY <1>0, SMT
    <3>4. bdevs[dev] + M!AsInt(x) = at + WORD * q
      <4>1. y + (x + WORD * q) = (x + y) + WORD * q
        BY <3>3
      <4> QED BY <1>c, <1>d, <2>4, <3>2, <4>1
    <3>a. at \in Int /\ at + WORD * q \in Int
      BY <1>c, <3>3
    <3>5. at + WORD * q \in Int /\ (at + WORD * q) % WORD = at
      BY <1>0, <1>c, <2>2, <3>a, ModShift, Zenon
    <3>6. start = M!AsInt(at + WORD * q)
      BY <2>4, <3>4
    <3>7. M!AsInt(at + WORD * q) \in Int /\ M!AsInt(at + WORD * q) % WORD = (at + WORD * q) % WORD
      BY <3>5, AsIntFacts
    <3> QED BY <3>5, <3>6, <3>7
  <2> QED BY <2>3, <2>4
<1>4. sd.kind = "hc" => start = at
  <2> SUFFICES ASSUME sd.kind = "hc" PROVE start = at
    OBVIOUS
  <2>0. WORD \div 2 \in Int /\ at < WORD \div 2 /\ x < WORD \div 2
    BY <1>0, <1>2, <1>b, <1>c
  <2>2. M!AsInt(x) = x /\ M!AsInt(at) = at
    BY <1>b, <1>c, <2>0, AsIntFacts
  <2>5. dev # 0 => bdevs[dev] + M!AsInt(x) = at
    BY <1>b, <1>c, <1>d, <2>2
  <2> QED BY <1>b, <1>c, <2>2, <2>5
<1>5. M!get_block(dev, sect * SECT) = M!mmc_read_blk(start)
  BY <1>b DEF M!get_block
<1> HIDE DEF start
<1>6. CASE sd.kind = "hc"
  <2>1. M!mmc_read_blk(start) = want % WORD
    BY <1>1, <1>4, <1>6 DEF M!mmc_read_blk, CsdOf
  <2>2. want % WORD = want
    BY <1>0, <1>1, <1>2, <1>a, ModSmall
  <2>3. M!CardSector(want) = want
    BY <1>2, <1>6 DEF M!CardSector
  <2>4. M!CardSector(M!get_block(dev, sect * SECT)) = want
    BY <1>5, <2>1, <2>2, <2>3
  <2> QED BY <2>4 DEF want
<1>7. CASE sd.kind # "hc"
  <2>1. M!mmc_read_blk(start) = at
    BY <1>3, <1>7 DEF M!mmc_read_blk, CsdOf
  <2>2. M!CardSector(at) = want
    BY <1>1, <1>2, <1>7 DEF M!CardSector
  <2>3. M!CardSector(M!get_block(dev, sect * SECT)) = want
    BY <1>5, <2>1, <2>2
  <2> QED BY <2>3 DEF want
<1> QED BY <1>6, <1>7

LEMMA Register == ASSUME CardInv, M!disk_drive_register PROVE CardInv'
<1>0. sd \in CardStates /\ lost \in Nat /\ sd.table \in M!Tables
  BY DEF CardInv, CardTypes, CardStates
<1>1. PICK r \in M!send_cmd("read"), whole \in BOOLEAN :
        /\ M!Sent(r) /\ scanned' = (r.ret = 0 /\ whole)
        /\ \E table \in IF r.ret = 0 /\ whole THEN {sd.table} ELSE M!Tables :
             \E n \in 0 .. Len(M!msdos_part_scan(table)) :
               bdevs' = SubSeq(M!msdos_part_scan(table), 1, n)
  BY DEF M!disk_drive_register, M!read_data
<1>2. step = "register" /\ step' = "registered" /\ UNCHANGED <<mmc_card, tries, hcs, bio>>
  BY DEF M!disk_drive_register, M!Goto
<1>3. sd' = r.sd /\ resp' = r.resp /\ lost' = r.lost
  BY <1>1 DEF M!Sent
<1>4. r.sd \in CardStates /\ SameCard(r.sd) /\ r.lost \in Nat /\ r.lost >= lost /\ r.ret \in {0, -1}
  BY <1>0, SendFacts
<1>5. CardTypes'
  BY <1>1, <1>2, <1>3, <1>4 DEF CardInv, CardTypes, Steps, Closing
<1>6. Expected'
  BY <1>2 DEF Expected, Opening
<1>7. CsdKnown'
  BY <1>2, <1>3, <1>4 DEF CardInv, CsdKnown, Closing, CsdOf, SameCard
<1>8. Bases'
  <2> SUFFICES ASSUME scanned', NEW d \in 1 .. Len(bdevs')
               PROVE  /\ d \in 1 .. 2 /\ sd'.table[d] \in Nat
                      /\ bdevs'[d] = (sd'.table[d] * SECT) % WORD
    BY <1>2 DEF Bases
  <2>1. r.ret = 0 /\ whole /\ sd'.table = sd.table
    BY <1>1, <1>3, <1>4 DEF SameCard
  <2> DEFINE scan == M!msdos_part_scan(sd.table)
  <2>2. scan \in Seq(Int) /\ \A i \in 1 .. Len(scan) : /\ i \in 1 .. 2 /\ sd.table[i] \in Nat
                                                       /\ scan[i] = (sd.table[i] * SECT) % WORD
    BY <1>0, ScanFacts
  <2>3. PICK n \in 0 .. Len(scan) : bdevs' = SubSeq(scan, 1, n)
    BY <1>1, <2>1
  <2> HIDE DEF scan
  <2>4. d \in 1 .. n /\ bdevs'[d] = scan[d] /\ d \in 1 .. Len(scan)
    BY <2>2, <2>3
  <2> QED BY <2>1, <2>2, <2>4
<1>9. BioTrue'
  BY <1>2 DEF CardInv, BioTrue, M!None
<1> QED BY <1>5, <1>6, <1>7, <1>8, <1>9 DEF CardInv

LEMMA SubmitBio ==
    ASSUME CardInv, NEW dev \in 0 .. Len(bdevs), NEW sect \in Sects, M!submit_bio(dev, sect)
    PROVE  CardInv'
<1> DEFINE place == M!CardSector(M!get_block(dev, sect * SECT))
<1>0. sd \in CardStates /\ lost \in Nat /\ sect \in Nat
  BY CardAssumption DEF CardInv, CardTypes
<1>1. PICK r \in M!send_cmd("read"), whole \in BOOLEAN, f \in {0, 1} :
        /\ M!Sent(r)
        /\ f = 0 => r.ret = 0
        /\ bio' = [want |-> sect + (IF dev = 0 THEN 0 ELSE sd.table[dev]),
                   got |-> IF r.ret = 0 THEN place ELSE M!None, whole |-> whole, flags |-> f]
  BY DEF M!submit_bio, M!read_data
<1>2. step = "registered" /\ UNCHANGED <<mmc_card, step, tries, hcs, bdevs, scanned>>
  BY DEF M!submit_bio
<1>3. sd' = r.sd /\ resp' = r.resp /\ lost' = r.lost
  BY <1>1 DEF M!Sent
<1>4. r.sd \in CardStates /\ SameCard(r.sd) /\ r.lost \in Nat /\ r.lost >= lost /\ r.ret \in {0, -1}
  BY <1>0, SendFacts
<1>5. CardTypes'
  BY <1>2, <1>3, <1>4 DEF CardInv, CardTypes
<1>6. Expected'
  BY <1>2 DEF Expected, Opening
<1>7. CsdKnown'
  BY <1>2, <1>3, <1>4 DEF CardInv, CsdKnown, Closing, CsdOf, SameCard
<1>8. Bases'
  BY <1>2, <1>3, <1>4 DEF CardInv, Bases, SameCard
<1>9. BioTrue'
  <2> DEFINE base == IF dev = 0 THEN 0 ELSE sd.table[dev]
  <2> HIDE DEF place
  <2> SUFFICES ASSUME bio'.flags = 0, scanned', M!InReach(bio.want)' PROVE bio'.got = bio'.want
    BY <1>2 DEF BioTrue
  <2>1. bio'.want = sect + base /\ bio'.got = place
    BY <1>1
  <2>2. base \in Nat /\ (dev # 0 => bdevs[dev] = (base * SECT) % WORD)
    <3>1. CASE dev = 0
      BY <3>1
    <3>2. CASE dev # 0
      <4>1. dev \in 1 .. Len(bdevs)
        BY <3>2
      <4> QED BY <1>2, <3>2, <4>1 DEF CardInv, Bases
    <3> QED BY <3>1, <3>2
  <2>3. mmc_card.csd = CsdOf
    BY <1>2 DEF CardInv, CsdKnown, Closing
  <2>4. M!InReach(sect + base)
    BY <1>3, <1>4, <2>1 DEF M!InReach, SameCard
  <2>5. dev = 0 => base = 0
    OBVIOUS
  <2> HIDE DEF base
  <2>6. place = sect + base
    BY <1>0, <2>2, <2>3, <2>4, <2>5, SectorRead DEF place
  <2> QED BY <2>1, <2>6
<1> QED BY <1>5, <1>6, <1>7, <1>8, <1>9 DEF CardInv

LEMMA CardStep == CardInv /\ [M!Next]_mvars => CardInv'
<1> SUFFICES ASSUME CardInv, [M!Next]_mvars PROVE CardInv'
  OBVIOUS
<1>1. CASE UNCHANGED mvars
  BY <1>1 DEF mvars, CardInv, CardTypes, Expected, InOrder, CsdKnown, CsdOf, Bases, BioTrue, M!InReach
<1>2. CASE M!mmc_switch_width
  <2>1. step \in {"width_app", "width"}
    BY <1>2 DEF M!mmc_switch_width
  <2> QED BY <1>2, <2>1, WidthApp, Width
<1>3. CASE \E dev \in 0 .. Len(bdevs), sect \in Sects : M!submit_bio(dev, sect)
  BY <1>3, SubmitBio
<1> QED BY <1>1, <1>2, <1>3, GoIdle, IfCond, AppCmd, OpCond, AllSendCid, RelativeAddr, SendCsd,
           SelectCard, Register DEF M!Next

\* An SD card that has a name and is not busy too long is given up only after a
\* command or an answer was lost, and once it is registered a sector read without an
\* error and as a whole, of the card or of a partition, is the one that was asked for, for every
\* size of sectors, of cards and of size_t and any number of retries.
THEOREM CardIsUsable == FilesSpec => []CardUsable
<1>1. FilesInit => CardInv
  BY CardInit DEF FilesInit
<1>2. CardInv /\ [FilesNext]_allvars => CardInv'
  <2> SUFFICES ASSUME CardInv, [FilesNext]_allvars PROVE CardInv'
    OBVIOUS
  <2>1. [M!Next]_mvars
    BY DEF FilesNext, allvars
  <2> QED BY <2>1, CardStep
<1>3. CardInv => CardUsable
  BY DEF CardInv, CardTypes, CardStates, Expected, InOrder, BioTrue, CardUsable, M!CardUsable, M!Kinds
<1> QED BY <1>1, <1>2, <1>3, PTL DEF FilesSpec

-----------------------------------------------------------------------------
(* Least elements, the ring, and sequences *)

LEMMA LeastNat ==
    ASSUME NEW T, T \subseteq Nat, T # {}
    PROVE  \E x \in T : \A y \in T : x <= y
<1>1. IsWellFoundedOn(OpToRel(<, Nat), Nat)
  BY NatLessThanWellFounded
<1>2. PICK x \in T : \A y \in T : ~(<<y, x>> \in OpToRel(<, Nat))
  BY <1>1, WFMin
<1>3. \A y \in T : ~(y < x)
  BY <1>2 DEF OpToRel
<1> QED BY <1>3

\* The places of the ring in front of a slot and behind it.
LEMMA RingFacts ==
    ASSUME NEW i \in S!Slots
    PROVE  /\ S!APP_ADJUST_INDEX(i + 1) = IF i + 1 = APP_HIST_DEPTH THEN 0 ELSE i + 1
           /\ \A k \in 0 .. APP_HIST_DEPTH :
                S!APP_ADJUST_INDEX(i - k) = IF k <= i THEN i - k ELSE i - k + APP_HIST_DEPTH
<1> DEFINE K == APP_HIST_DEPTH
<1>0. K \in Nat \ {0} /\ i \in 0 .. K - 1
  BY ShellAssumption DEF S!Slots
<1> HIDE DEF K
<1>1. (i + 1) % K = IF i + 1 = K THEN 0 ELSE i + 1
  <2>1. CASE i + 1 = K
    <3>1. (0 + K * 1) % K = 0 % K
      BY <1>0, ModShift
    <3>2. 0 % K = 0
      BY <1>0, ModSmall
    <3> QED BY <1>0, <2>1, <3>1, <3>2
  <2>2. CASE i + 1 # K
    BY <1>0, <2>2, ModSmall
  <2> QED BY <2>1, <2>2
<1>2. ASSUME NEW k \in 0 .. K PROVE (i - k) % K = IF k <= i THEN i - k ELSE i - k + K
  <2>1. CASE k <= i
    BY <1>0, <2>1, ModSmall
  <2>2. CASE ~(k <= i)
    <3>0. K * 1 = K
      BY <1>0
    <3>1. PICK a \in Int : a = i - k /\ a + K \in 0 .. K - 1 /\ 1 \in Int
      BY <1>0, <2>2
    <3>2. (a + K * 1) % K = a % K
      BY <1>0, <3>1, ModShift, Zenon
    <3>3. (a + K) % K = a + K
      BY <1>0, <3>1, ModSmall, Zenon
    <3> QED BY <2>2, <3>0, <3>1, <3>2, <3>3
  <2> QED BY <2>1, <2>2
<1> QED BY <1>1, <1>2 DEF S!APP_ADJUST_INDEX, K

Chars == Nat \ {0}
Buffers == [S!Cells -> Nat]

\* The characters of a line, as a sequence.
LEMMA CharsFacts ==
    ASSUME NEW b \in Buffers, NEW n \in 0 .. MAX_ARG_LEN
    PROVE  /\ S!Chars(b, n) \in Seq(Nat) /\ Len(S!Chars(b, n)) = n
           /\ \A i \in 1 .. n : S!Chars(b, n)[i] = b[i - 1] /\ i - 1 \in S!Cells
<1>1. \A i \in 1 .. n : i - 1 \in S!Cells /\ b[i - 1] \in Nat
  BY ShellAssumption DEF Buffers, S!Cells
<1> QED BY <1>1, ShellAssumption DEF S!Chars

\* A part of a line.
LEMMA PartFacts ==
    ASSUME NEW b \in Buffers, NEW n \in 0 .. MAX_ARG_LEN, NEW p \in 1 .. n + 1, NEW q \in 0 .. n
    PROVE  /\ SubSeq(S!Chars(b, n), p, q) \in Seq(Nat)
           /\ Len(SubSeq(S!Chars(b, n), p, q)) = IF p <= q THEN q - p + 1 ELSE 0
           /\ \A i \in 1 .. q - p + 1 : SubSeq(S!Chars(b, n), p, q)[i] = b[p + i - 2]
<1> DEFINE T == S!Chars(b, n)
<1>0. n \in Nat /\ p \in Int /\ q \in Int
  BY ShellAssumption
<1>1. T \in Seq(Nat) /\ Len(T) = n /\ \A i \in 1 .. n : T[i] = b[i - 1] /\ T[i] \in Nat
  BY CharsFacts DEF Buffers
<1> HIDE DEF T
<1>2. \A i \in p .. q : T[i] \in Nat
  BY <1>0, <1>1
<1>3. /\ SubSeq(T, p, q) \in Seq(Nat)
      /\ Len(SubSeq(T, p, q)) = IF p <= q THEN q - p + 1 ELSE 0
      /\ \A i \in 1 .. q - p + 1 : SubSeq(T, p, q)[i] = T[p + i - 1]
  BY <1>0, <1>2, SubSeqProperties
<1>4. \A i \in 1 .. q - p + 1 : p + i - 1 \in 1 .. n /\ (p + i - 1) - 1 = p + i - 2
  BY <1>0
<1> QED BY <1>1, <1>3, <1>4 DEF T

\* A sequence is found in another one, behind its first k members.
Copies(R, k, A) == \A i \in 1 .. Len(A) : R[k + i] = A[i]

LEMMA Glue ==
    ASSUME NEW A \in Seq(Nat), NEW C \in Seq(Nat), NEW R \in Seq(Nat),
           Len(R) = Len(A) + Len(C), Copies(R, 0, A), Copies(R, Len(A), C)
    PROVE  A \o C = R
<1>0. PICK p \in Nat, q \in Nat : p = Len(A) /\ q = Len(C)
  BY LenProperties
<1>1. A \o C \in Seq(Nat) /\ Len(A \o C) = p + q
  BY <1>0, ConcatProperties
<1>2. ASSUME NEW i \in 1 .. p + q PROVE (A \o C)[i] = R[i]
  <2>1. (A \o C)[i] = IF i <= p THEN A[i] ELSE C[i - p]
    BY <1>0, ConcatProperties
  <2>2. CASE i <= p
    <3>1. i \in 1 .. p /\ 0 + i = i
      BY <2>2
    <3>2. R[0 + i] = A[i]
      BY <1>0, <3>1, Zenon DEF Copies
    <3> QED BY <2>1, <2>2, <3>1, <3>2
  <2>3. CASE ~(i <= p)
    <3>1. i - p \in 1 .. q /\ p + (i - p) = i
      BY <2>3
    <3>2. R[p + (i - p)] = C[i - p]
      BY <1>0, <3>1, Zenon DEF Copies
    <3> QED BY <2>1, <2>3, <3>1, <3>2
  <2> QED BY <2>2, <2>3, Zenon
<1>3. Len(A \o C) = Len(R)
  BY <1>0, <1>1, Zenon
<1>4. \A i \in 1 .. Len(A \o C) : (A \o C)[i] = R[i]
  BY <1>1, <1>2, Zenon
<1> QED BY <1>1, <1>3, <1>4, SeqEqual, Zenon

LEMMA Glue3 ==
    ASSUME NEW A \in Seq(Nat), NEW s \in Seq(Nat), NEW C \in Seq(Nat), NEW R \in Seq(Nat),
           Len(R) = Len(A) + Len(s) + Len(C),
           Copies(R, 0, A), Copies(R, Len(A), s), Copies(R, Len(A) + Len(s), C)
    PROVE  A \o s \o C = R
<1> DEFINE D == A \o s
<1>0. PICK p \in Nat, l \in Nat, q \in Nat : p = Len(A) /\ l = Len(s) /\ q = Len(C)
  BY LenProperties
<1>1. D \in Seq(Nat) /\ Len(D) = p + l /\ Len(D) = Len(A) + Len(s)
  BY <1>0, ConcatProperties
<1>2. ASSUME NEW i \in 1 .. p + l PROVE R[0 + i] = D[i]
  <2>0. 0 + i = i
    OBVIOUS
  <2>1. D[i] = IF i <= p THEN A[i] ELSE s[i - p]
    BY <1>0, ConcatProperties
  <2>2. CASE i <= p
    <3>1. i \in 1 .. p
      BY <2>2
    <3>2. R[0 + i] = A[i]
      BY <1>0, <3>1, Zenon DEF Copies
    <3> QED BY <2>1, <2>2, <3>2
  <2>3. CASE ~(i <= p)
    <3>1. i - p \in 1 .. l /\ p + (i - p) = i
      BY <2>3
    <3>2. R[p + (i - p)] = s[i - p]
      BY <1>0, <3>1, Zenon DEF Copies
    <3> QED BY <2>0, <2>1, <2>3, <3>1, <3>2
  <2> QED BY <2>2, <2>3, Zenon
<1> HIDE DEF D
<1>3. Copies(R, 0, D)
  BY <1>1, <1>2, Zenon DEF Copies
<1>4. Len(R) = Len(D) + Len(C) /\ Copies(R, Len(D), C)
  BY <1>1
<1>5. D \o C = R
  BY <1>1, <1>3, <1>4, Glue
<1> QED BY <1>5 DEF D

-----------------------------------------------------------------------------
(* What the terminal shows when a line is edited *)

Line(b, n, p) == [text |-> S!Chars(b, n), at |-> p]

\* The line up to the cursor, and what is right of a place in it.
LEMMA HeadFacts ==
    ASSUME NEW b \in Buffers, NEW n \in 0 .. MAX_ARG_LEN, NEW p \in 0 .. n
    PROVE  LET A == SubSeq(S!Chars(b, n), 1, p)
           IN  A \in Seq(Nat) /\ Len(A) = p /\ \A i \in 1 .. p : A[i] = b[i - 1]
<1> DEFINE A == SubSeq(S!Chars(b, n), 1, p)
<1>0. n \in Nat /\ p \in Nat /\ p <= n
  BY ShellAssumption
<1>1. 1 \in 1 .. n + 1
  BY <1>0
<1>2. /\ A \in Seq(Nat) /\ Len(A) = IF 1 <= p THEN p - 1 + 1 ELSE 0
      /\ \A i \in 1 .. p - 1 + 1 : A[i] = b[1 + i - 2]
  BY <1>1, PartFacts
<1> HIDE DEF A
<1>3. (IF 1 <= p THEN p - 1 + 1 ELSE 0) = p /\ \A i \in 1 .. p : i \in 1 .. p - 1 + 1 /\ 1 + i - 2 = i - 1
  BY <1>0
<1>4. Len(A) = p
  BY <1>2, <1>3
<1>5. \A i \in 1 .. p : A[i] = b[i - 1]
  BY <1>2, <1>3, Zenon
<1> QED BY <1>2, <1>4, <1>5 DEF A

LEMMA TailFacts ==
    ASSUME NEW b \in Buffers, NEW n \in 0 .. MAX_ARG_LEN, NEW p \in 0 .. n
    PROVE  LET C == SubSeq(S!Chars(b, n), p + 1, n)
           IN  C \in Seq(Nat) /\ Len(C) = n - p /\ \A i \in 1 .. n - p : C[i] = b[p + i - 1]
<1> DEFINE C == SubSeq(S!Chars(b, n), p + 1, n)
<1>0. n \in Nat /\ p \in Nat /\ p <= n
  BY ShellAssumption
<1>1. p + 1 \in 1 .. n + 1 /\ n \in 0 .. n
  BY <1>0
<1>2. /\ C \in Seq(Nat) /\ Len(C) = IF p + 1 <= n THEN n - (p + 1) + 1 ELSE 0
      /\ \A i \in 1 .. n - (p + 1) + 1 : C[i] = b[p + 1 + i - 2]
  BY <1>1, PartFacts
<1> HIDE DEF C
<1>3. /\ (IF p + 1 <= n THEN n - (p + 1) + 1 ELSE 0) = n - p
      /\ \A i \in 1 .. n - p : i \in 1 .. n - (p + 1) + 1 /\ p + 1 + i - 2 = p + i - 1
  BY <1>0
<1>4. Len(C) = n - p
  BY <1>2, <1>3
<1>5. \A i \in 1 .. n - p : C[i] = b[p + i - 1]
  BY <1>2, <1>3, Zenon
<1> QED BY <1>2, <1>4, <1>5 DEF C

LEMMA InsertedFacts ==
    ASSUME NEW b \in Buffers, NEW n \in 0 .. MAX_ARG_LEN, NEW p \in 0 .. n, NEW s \in Seq(Nat),
           n + Len(s) <= MAX_ARG_LEN
    PROVE  S!Inserted(b, p, n, s) \in Buffers
<1>0. MAX_ARG_LEN \in Nat /\ n \in Nat /\ p \in Nat /\ Len(s) \in Nat
  BY ShellAssumption, LenProperties
<1> SUFFICES ASSUME NEW i \in S!Cells
             PROVE  (IF i < p \/ i >= n + Len(s) THEN b[i]
                     ELSE IF i < p + Len(s) THEN s[i - p + 1] ELSE b[i - Len(s)]) \in Nat
  BY DEF S!Inserted, Buffers
<1>1. i \in 0 .. MAX_ARG_LEN - 1 /\ b[i] \in Nat
  BY DEF S!Cells, Buffers
<1>2. CASE i >= p /\ i < p + Len(s)
  <2>1. i - p + 1 \in 1 .. Len(s)
    BY <1>0, <1>1, <1>2
  <2>2. s[i - p + 1] \in Nat
    BY <2>1, ElementOfSeq
  <2> QED BY <1>0, <1>1, <1>2, <2>2
<1>3. CASE i >= p + Len(s) /\ i < n + Len(s)
  <2>1. i - Len(s) \in S!Cells
    BY <1>0, <1>1, <1>3 DEF S!Cells
  <2>2. b[i - Len(s)] \in Nat
    BY <2>1 DEF Buffers
  <2> QED BY <1>0, <1>1, <1>3, <2>2
<1> QED BY <1>0, <1>1, <1>2, <1>3

\* Printing letters in insert mode.
LEMMA PutLine ==
    ASSUME NEW b \in Buffers, NEW n \in 0 .. MAX_ARG_LEN, NEW p \in 0 .. n, NEW s \in Seq(Nat),
           n + Len(s) <= MAX_ARG_LEN
    PROVE  S!Put(Line(b, n, p), s) = Line(S!Inserted(b, p, n, s), n + Len(s), p + Len(s))
<1> DEFINE A == SubSeq(S!Chars(b, n), 1, p)
           C == SubSeq(S!Chars(b, n), p + 1, n)
           B == S!Inserted(b, p, n, s)
           R == S!Chars(B, n + Len(s))
<1>a. PICK l \in Nat : l = Len(s)
  BY LenProperties
<1>0. MAX_ARG_LEN \in Nat /\ n \in Nat /\ p \in Nat /\ p <= n /\ n + l \in 0 .. MAX_ARG_LEN
  BY <1>a, ShellAssumption
<1>1. A \in Seq(Nat) /\ Len(A) = p /\ \A i \in 1 .. p : A[i] = b[i - 1]
  BY HeadFacts
<1>2. C \in Seq(Nat) /\ Len(C) = n - p /\ \A i \in 1 .. n - p : C[i] = b[p + i - 1]
  BY TailFacts
<1>3. R \in Seq(Nat) /\ Len(R) = n + l /\ \A i \in 1 .. n + l : R[i] = B[i - 1] /\ i - 1 \in S!Cells
  <2>1. B \in Buffers
    BY InsertedFacts
  <2> HIDE DEF B
  <2> QED BY <1>0, <1>a, <2>1, CharsFacts
<1>4. S!Put(Line(b, n, p), s) = [text |-> A \o s \o C, at |-> p + Len(s)]
  <2>1. Len(S!Chars(b, n)) = n
    BY CharsFacts
  <2> QED BY <2>1 DEF S!Put, Line
<1>b. \A i \in S!Cells : B[i] = IF i < p \/ i >= n + l THEN b[i]
                                ELSE IF i < p + l THEN s[i - p + 1] ELSE b[i - l]
  BY <1>a DEF S!Inserted
<1> HIDE DEF A, C, R, B
<1>5. Copies(R, 0, A)
  <2> SUFFICES ASSUME NEW i \in 1 .. p PROVE R[0 + i] = A[i]
    BY <1>1 DEF Copies
  <2>1. i \in 1 .. n + l /\ i - 1 < p /\ 0 + i = i
    BY <1>0
  <2>2. R[i] = A[i]
    BY <1>1, <1>3, <1>b, <2>1, Zenon
  <2> QED BY <2>1, <2>2
<1>6. Copies(R, Len(A), s)
  <2> SUFFICES ASSUME NEW i \in 1 .. l PROVE R[p + i] = s[i]
    BY <1>1, <1>a DEF Copies
  <2>1. /\ p + i \in 1 .. n + l /\ ~((p + i) - 1 < p) /\ ~((p + i) - 1 >= n + l) /\ (p + i) - 1 < p + l
        /\ ((p + i) - 1) - p + 1 = i
    BY <1>0
  <2>2. R[p + i] = B[(p + i) - 1] /\ (p + i) - 1 \in S!Cells
    BY <1>3, <2>1, Zenon
  <2>3. B[(p + i) - 1] = s[((p + i) - 1) - p + 1]
    BY <1>b, <2>1, <2>2, Zenon
  <2> QED BY <2>1, <2>2, <2>3, Zenon
<1>7. Copies(R, Len(A) + Len(s), C)
  <2> SUFFICES ASSUME NEW i \in 1 .. n - p PROVE R[p + l + i] = C[i]
    BY <1>1, <1>2, <1>a DEF Copies
  <2>1. /\ p + l + i \in 1 .. n + l /\ ~((p + l + i) - 1 < p) /\ ~((p + l + i) - 1 >= n + l)
        /\ ~((p + l + i) - 1 < p + l) /\ ((p + l + i) - 1) - l = p + i - 1
    BY <1>0
  <2>2. R[p + l + i] = B[(p + l + i) - 1] /\ (p + l + i) - 1 \in S!Cells
    BY <1>3, <2>1, Zenon
  <2>3. B[(p + l + i) - 1] = b[((p + l + i) - 1) - l]
    BY <1>b, <2>1, <2>2, Zenon
  <2> QED BY <1>2, <2>1, <2>2, <2>3, Zenon
<1>8. Len(R) = Len(A) + Len(s) + Len(C)
  BY <1>0, <1>1, <1>2, <1>3, <1>a
<1>9. A \o s \o C = R
  BY <1>1, <1>2, <1>3, <1>5, <1>6, <1>7, <1>8, Glue3
<1> QED BY <1>4, <1>9 DEF Line, R, B

\* A letter is taken out of a line.
LEMMA CutLine ==
    ASSUME NEW b \in Buffers, NEW n \in 0 .. MAX_ARG_LEN, NEW p \in 1 .. n, NEW d \in Buffers,
           \A i \in 0 .. n - 2 : d[i] = IF i < p - 1 THEN b[i] ELSE b[i + 1]
    PROVE  SubSeq(S!Chars(b, n), 1, p - 1) \o SubSeq(S!Chars(b, n), p + 1, n) = S!Chars(d, n - 1)
<1> DEFINE A == SubSeq(S!Chars(b, n), 1, p - 1)
           C == SubSeq(S!Chars(b, n), p + 1, n)
           R == S!Chars(d, n - 1)
<1>0. MAX_ARG_LEN \in Nat /\ n \in Nat /\ p \in Nat /\ p <= n /\ p >= 1 /\ n - 1 \in 0 .. MAX_ARG_LEN /\ p - 1 \in 0 .. n
      /\ p \in 0 .. n
  BY ShellAssumption
<1>1. A \in Seq(Nat) /\ Len(A) = p - 1 /\ \A i \in 1 .. p - 1 : A[i] = b[i - 1]
  BY <1>0, HeadFacts
<1>2. C \in Seq(Nat) /\ Len(C) = n - p /\ \A i \in 1 .. n - p : C[i] = b[p + i - 1]
  BY <1>0, TailFacts
<1>3. R \in Seq(Nat) /\ Len(R) = n - 1 /\ \A i \in 1 .. n - 1 : R[i] = d[i - 1]
  BY <1>0, CharsFacts
<1> HIDE DEF A, C, R
<1>4. Copies(R, 0, A)
  <2> SUFFICES ASSUME NEW i \in 1 .. p - 1 PROVE R[0 + i] = A[i]
    BY <1>1 DEF Copies
  <2>1. i \in 1 .. n - 1 /\ i - 1 < p - 1 /\ 0 + i = i /\ i - 1 \in 0 .. n - 2
    BY <1>0
  <2>2. R[i] = A[i]
    BY <1>1, <1>3, <2>1, Zenon
  <2> QED BY <2>1, <2>2
<1>5. Copies(R, Len(A), C)
  <2> SUFFICES ASSUME NEW i \in 1 .. n - p PROVE R[(p - 1) + i] = C[i]
    BY <1>1, <1>2 DEF Copies
  <2>1. /\ (p - 1) + i \in 1 .. n - 1 /\ ~(((p - 1) + i) - 1 < p - 1) /\ ((p - 1) + i) - 1 \in 0 .. n - 2
        /\ (((p - 1) + i) - 1) + 1 = p + i - 1
    BY <1>0
  <2>2. R[(p - 1) + i] = d[((p - 1) + i) - 1]
    BY <1>3, <2>1, Zenon
  <2>3. d[((p - 1) + i) - 1] = b[(((p - 1) + i) - 1) + 1]
    BY <2>1, Zenon
  <2> QED BY <1>2, <2>1, <2>2, <2>3, Zenon
<1>6. Len(R) = Len(A) + Len(C)
  BY <1>0, <1>1, <1>2, <1>3
<1>7. A \o C = R
  BY <1>1, <1>2, <1>3, <1>4, <1>5, <1>6, Glue
<1> QED BY <1>7 DEF A, C, R

\* What backspace_one_key() and delete_one_key() make of the buffer.
Backed(b, n, p) ==
    [i \in S!Cells |-> IF i < p - 1 \/ i >= n THEN b[i] ELSE IF i = n - 1 THEN S!NUL ELSE b[i + 1]]
Deleted(b, n, p) ==
    [i \in S!Cells |-> IF i = n THEN S!NUL ELSE IF i >= p /\ i < n - 1 THEN b[i + 1] ELSE b[i]]

LEMMA BackedFacts ==
    ASSUME NEW b \in Buffers, NEW n \in 0 .. MAX_ARG_LEN, NEW p \in 1 .. n
    PROVE  Backed(b, n, p) \in Buffers
<1> SUFFICES ASSUME NEW i \in S!Cells
             PROVE  (IF i < p - 1 \/ i >= n THEN b[i] ELSE IF i = n - 1 THEN S!NUL ELSE b[i + 1]) \in Nat
  BY DEF Backed, Buffers
<1>1. MAX_ARG_LEN \in Nat /\ i \in 0 .. MAX_ARG_LEN - 1 /\ b[i] \in Nat
  BY ShellAssumption DEF S!Cells, Buffers
<1>2. ASSUME i < n - 1 PROVE b[i + 1] \in Nat
  <2>1. i + 1 \in S!Cells
    BY <1>1, <1>2 DEF S!Cells
  <2> QED BY <2>1 DEF Buffers
<1> QED BY <1>1, <1>2 DEF S!NUL

LEMMA DeletedFacts ==
    ASSUME NEW b \in Buffers, NEW n \in 0 .. MAX_ARG_LEN, NEW p \in 0 .. n
    PROVE  Deleted(b, n, p) \in Buffers
<1> SUFFICES ASSUME NEW i \in S!Cells
             PROVE  (IF i = n THEN S!NUL ELSE IF i >= p /\ i < n - 1 THEN b[i + 1] ELSE b[i]) \in Nat
  BY DEF Deleted, Buffers
<1>1. MAX_ARG_LEN \in Nat /\ i \in 0 .. MAX_ARG_LEN - 1 /\ b[i] \in Nat
  BY ShellAssumption DEF S!Cells, Buffers
<1>2. ASSUME i < n - 1 PROVE b[i + 1] \in Nat
  <2>1. i + 1 \in S!Cells
    BY <1>1, <1>2 DEF S!Cells
  <2> QED BY <2>1 DEF Buffers
<1> QED BY <1>1, <1>2 DEF S!NUL

LEMMA BackLine ==
    ASSUME NEW b \in Buffers, NEW n \in 0 .. MAX_ARG_LEN, NEW p \in 1 .. n
    PROVE  S!cmd_backspace(Line(b, n, p), 1) = Line(Backed(b, n, p), n - 1, p - 1)
<1> DEFINE d == Backed(b, n, p)
<1>0. MAX_ARG_LEN \in Nat /\ n \in Nat /\ p \in Nat /\ p <= n /\ p >= 1 /\ n <= MAX_ARG_LEN
  BY ShellAssumption
<1>1. d \in Buffers
  BY BackedFacts
<1>2. \A i \in 0 .. n - 2 : d[i] = IF i < p - 1 THEN b[i] ELSE b[i + 1]
  <2> TAKE i \in 0 .. n - 2
  <2>1. i \in S!Cells /\ ~(i >= n) /\ i # n - 1
    BY <1>0 DEF S!Cells
  <2> QED BY <2>1 DEF Backed
<1> HIDE DEF d
<1>3. SubSeq(S!Chars(b, n), 1, p - 1) \o SubSeq(S!Chars(b, n), p + 1, n) = S!Chars(d, n - 1)
  BY <1>1, <1>2, CutLine
<1>4. Len(S!Chars(b, n)) = n
  BY CharsFacts
<1> QED BY <1>3, <1>4 DEF S!cmd_backspace, Line, d

LEMMA EatLine ==
    ASSUME NEW b \in Buffers, NEW n \in 0 .. MAX_ARG_LEN, NEW p \in 0 .. n - 1
    PROVE  S!Eat(Line(b, n, p)) = Line(Deleted(b, n, p), n - 1, p)
<1> DEFINE d == Deleted(b, n, p)
<1>0. /\ MAX_ARG_LEN \in Nat /\ n \in Nat /\ p \in Nat /\ p + 1 <= n /\ n <= MAX_ARG_LEN
      /\ p + 1 \in 1 .. n /\ p \in 0 .. n /\ (p + 1) - 1 = p /\ (p + 1) + 1 = p + 2
  BY ShellAssumption
<1>1. d \in Buffers
  BY <1>0, DeletedFacts
<1>2. \A i \in 0 .. n - 2 : d[i] = IF i < (p + 1) - 1 THEN b[i] ELSE b[i + 1]
  <2> TAKE i \in 0 .. n - 2
  <2>1. i \in S!Cells /\ i # n /\ i < n - 1
    BY <1>0 DEF S!Cells
  <2> QED BY <1>0, <2>1 DEF Deleted
<1> HIDE DEF d
<1>3. SubSeq(S!Chars(b, n), 1, (p + 1) - 1) \o SubSeq(S!Chars(b, n), (p + 1) + 1, n) = S!Chars(d, n - 1)
  BY <1>0, <1>1, <1>2, CutLine
<1>4. Len(S!Chars(b, n)) = n
  BY CharsFacts
<1>5. SubSeq(S!Chars(b, n), 1, p) \o SubSeq(S!Chars(b, n), p + 2, n) = S!Chars(d, n - 1)
  BY <1>0, <1>3
<1>6. PICK T : T = S!Chars(b, n)
  OBVIOUS
<1>7. S!Eat([text |-> T, at |-> p]) = [text |-> SubSeq(T, 1, p) \o SubSeq(T, p + 2, Len(T)), at |-> p]
  <2>1. PICK v : v = SubSeq(T, 1, p) \o SubSeq(T, p + 2, Len(T))
    OBVIOUS
  <2>2. [[text |-> T, at |-> p] EXCEPT !.text = v] = [text |-> v, at |-> p]
    OBVIOUS
  <2>3. S!Eat([text |-> T, at |-> p]) = [[text |-> T, at |-> p] EXCEPT !.text = v]
    BY <2>1 DEF S!Eat
  <2> QED BY <2>1, <2>2, <2>3
<1> QED BY <1>4, <1>5, <1>6, <1>7 DEF Line, d

\* The string of a buffer: what stands before its first NUL.
Texts == {s \in Seq(Nat \ {0}) : Len(s) <= MAX_ARG_LEN - 1}

LEMMA StrLenFacts ==
    ASSUME NEW b \in Buffers, NEW c \in S!Cells, b[c] = 0
    PROVE  /\ S!StrLen(b) \in 0 .. c /\ b[S!StrLen(b)] = 0
           /\ \A i \in 0 .. S!StrLen(b) - 1 : b[i] # 0
<1> DEFINE ends == {i \in S!Cells : b[i] = S!NUL}
           z == CHOOSE i \in ends : \A j \in ends : i <= j
<1>0. ends \subseteq Nat /\ c \in ends /\ S!Cells = 0 .. MAX_ARG_LEN - 1 /\ MAX_ARG_LEN \in Nat
  BY ShellAssumption DEF S!Cells, S!NUL
<1>1. \E i \in ends : \A j \in ends : i <= j
  <2> HIDE DEF ends
  <2> QED BY <1>0, LeastNat
<1>2. z \in ends /\ \A j \in ends : z <= j
  <2> HIDE DEF ends
  <2> QED BY <1>1
<1>3. S!StrLen(b) = z
  BY <1>0 DEF S!StrLen
<1>4. z \in 0 .. c /\ b[z] = 0
  <2>1. z <= c /\ z \in Nat /\ c \in Nat
    <3> HIDE DEF z, ends
    <3> QED BY <1>0, <1>2
  <2>2. b[z] = 0
    <3> HIDE DEF z
    <3> QED BY <1>2 DEF S!NUL
  <2> HIDE DEF z
  <2> QED BY <2>1, <2>2
<1>5. ASSUME NEW i \in 0 .. z - 1 PROVE b[i] # 0
  <2> HIDE DEF z
  <2>1. i \in S!Cells /\ ~(z <= i)
    BY <1>0, <1>4
  <2> QED BY <1>2, <2>1 DEF S!NUL
<1> HIDE DEF z
<1> QED BY <1>3, <1>4, <1>5

LEMMA StrFacts ==
    ASSUME NEW b \in Buffers, NEW c \in S!Cells, b[c] = 0
    PROVE  S!Str(b) \in Texts /\ S!Str(b) # S!NULL
<1>0. PICK z : z = S!StrLen(b)
  OBVIOUS
<1>1. z \in 0 .. c /\ \A i \in 0 .. z - 1 : b[i] # 0
  BY <1>0, StrLenFacts
<1>2. MAX_ARG_LEN \in Nat /\ c \in 0 .. MAX_ARG_LEN - 1 /\ z \in 0 .. MAX_ARG_LEN
  BY <1>1, ShellAssumption DEF S!Cells
<1>3. S!Chars(b, z) = [i \in 1 .. z |-> b[i - 1]]
  BY DEF S!Chars
<1>4. ASSUME NEW i \in 1 .. z PROVE b[i - 1] \in Nat \ {0}
  <2>1. i - 1 \in 0 .. z - 1 /\ i - 1 \in S!Cells
    BY <1>1, <1>2 DEF S!Cells
  <2> QED BY <1>1, <2>1 DEF Buffers
<1>5. S!Chars(b, z) \in Seq(Nat \ {0})
  <2>1. z \in Nat
    BY <1>2
  <2>2. [i \in 1 .. z |-> b[i - 1]] \in [1 .. z -> Nat \ {0}]
    BY <1>4
  <2> QED BY <1>3, <2>1, <2>2
<1>6. Len(S!Chars(b, z)) = z
  BY <1>2, CharsFacts
<1>7. S!Chars(b, z) \in Texts
  BY <1>1, <1>2, <1>5, <1>6 DEF Texts
<1>8. ASSUME NEW s \in Texts PROVE s # S!NULL
  <2> SUFFICES ASSUME s = S!NULL PROVE FALSE
    OBVIOUS
  <2>1. s \in Seq(Nat \ {0}) /\ Len(s) = 1 /\ s[1] = 0
    BY DEF Texts, S!NULL, S!NUL
  <2>2. s[1] \in Nat \ {0}
    BY <2>1, ElementOfSeq
  <2> QED BY <2>1, <2>2
<1> QED BY <1>0, <1>7, <1>8 DEF S!Str

\* The string is the line when no NUL is in the line and one is behind it.
LEMMA StrIsLine ==
    ASSUME NEW b \in Buffers, NEW n \in S!Cells, b[n] = 0, \A i \in 0 .. n - 1 : b[i] # 0
    PROVE  S!Str(b) = S!Chars(b, n)
<1>1. S!StrLen(b) \in 0 .. n /\ b[S!StrLen(b)] = 0
  BY StrLenFacts
<1>2. n \in Nat
  BY ShellAssumption DEF S!Cells
<1>3. S!StrLen(b) = n
  BY <1>1, <1>2
<1> QED BY <1>3 DEF S!Str

\* An entry of the ring takes the place of the line.
LEMMA EntryLine ==
    ASSUME NEW b \in Buffers, NEW n \in 0 .. MAX_ARG_LEN, NEW p \in 0 .. n, NEW d \in Buffers,
           NEW e \in Texts
    PROVE  /\ S!StrCpy(d, e) \in Buffers
           /\ S!EraseRest(S!Put(S!cmd_backspace(Line(b, n, p), p), e))
                = Line(S!StrCpy(d, e), Len(e), Len(e))
           /\ \A i \in 0 .. Len(e) - 1 : S!StrCpy(d, e)[i] # 0
           /\ MAX_ARG_LEN - 1 \in S!Cells
           /\ d[MAX_ARG_LEN - 1] = 0 => S!StrCpy(d, e)[MAX_ARG_LEN - 1] = 0
<1> DEFINE c == S!StrCpy(d, e)
           X == SubSeq(S!Chars(b, n), 1, p - p) \o SubSeq(S!Chars(b, n), p + 1, n)
           Y == SubSeq(X, 1, p - p) \o e \o SubSeq(X, p - p + 1, Len(X))
<1>a. PICK l \in Nat : l = Len(e)
  BY LenProperties DEF Texts
<1>0. /\ MAX_ARG_LEN \in Nat \ {0} /\ n \in Nat /\ p \in Nat /\ p - p = 0 /\ l <= MAX_ARG_LEN - 1
      /\ S!Cells = 0 .. MAX_ARG_LEN - 1 /\ e \in Seq(Nat \ {0}) /\ e \in Seq(Nat) /\ l \in 0 .. MAX_ARG_LEN
      /\ 0 + l = l
  BY <1>a, ShellAssumption DEF Texts, S!Cells
<1>1. \A i \in 0 .. l - 1 : i + 1 \in 1 .. l /\ e[i + 1] \in Nat \ {0}
  <2> TAKE i \in 0 .. l - 1
  <2>1. i + 1 \in 1 .. l
    BY <1>0
  <2> QED BY <1>0, <1>a, <2>1, ElementOfSeq
<1>2. \A i \in S!Cells : c[i] = IF i < l THEN e[i + 1] ELSE IF i = l THEN 0 ELSE d[i]
  BY <1>a DEF S!StrCpy, S!NUL
<1>3. c \in Buffers
  <2> SUFFICES ASSUME NEW i \in S!Cells
               PROVE  (IF i < Len(e) THEN e[i + 1] ELSE IF i = Len(e) THEN S!NUL ELSE d[i]) \in Nat
    BY DEF S!StrCpy, Buffers
  <2>1. d[i] \in Nat /\ i \in Nat
    BY <1>0 DEF Buffers
  <2>2. ASSUME i < l PROVE e[i + 1] \in Nat
    <3>1. i \in 0 .. l - 1
      BY <2>1, <2>2
    <3> QED BY <1>1, <3>1
  <2> QED BY <1>a, <2>1, <2>2 DEF S!NUL
<1>4. \A i \in 0 .. l - 1 : c[i] = e[i + 1] /\ c[i] # 0
  <2> TAKE i \in 0 .. l - 1
  <2>1. i \in S!Cells /\ i < l
    BY <1>0
  <2> HIDE DEF c
  <2> QED BY <1>1, <1>2, <2>1
<1>5. d[MAX_ARG_LEN - 1] = 0 => c[MAX_ARG_LEN - 1] = 0
  <2>1. MAX_ARG_LEN - 1 \in S!Cells /\ ~(MAX_ARG_LEN - 1 < l)
    BY <1>0
  <2> HIDE DEF c
  <2> QED BY <1>2, <2>1
<1>6. S!Chars(c, l) = e
  <2>1. /\ S!Chars(c, l) \in Seq(Nat) /\ Len(S!Chars(c, l)) = l
        /\ \A i \in 1 .. l : S!Chars(c, l)[i] = c[i - 1]
    BY <1>0, <1>3, CharsFacts
  <2>2. ASSUME NEW i \in 1 .. l PROVE S!Chars(c, l)[i] = e[i]
    <3>1. i - 1 \in 0 .. l - 1 /\ (i - 1) + 1 = i
      BY <1>0
    <3> HIDE DEF c
    <3>2. c[i - 1] = e[(i - 1) + 1]
      BY <1>4, <3>1, Zenon
    <3> QED BY <2>1, <3>1, <3>2
  <2>3. Len(S!Chars(c, l)) = Len(e)
    BY <1>a, <2>1
  <2>4. \A i \in 1 .. Len(S!Chars(c, l)) : S!Chars(c, l)[i] = e[i]
    BY <2>1, <2>2, Zenon
  <2> QED BY <1>0, <2>1, <2>3, <2>4, SeqEqual, Zenon
<1>7. X \in Seq(Nat)
  <2>1. 0 \in 0 .. n
    BY <1>0
  <2>2. SubSeq(S!Chars(b, n), 1, 0) \in Seq(Nat)
    BY <2>1, HeadFacts
  <2>3. SubSeq(S!Chars(b, n), p + 1, n) \in Seq(Nat)
    BY TailFacts
  <2> QED BY <1>0, <2>2, <2>3, ConcatProperties
<1>8. S!EraseRest(S!Put(S!cmd_backspace(Line(b, n, p), p), e)) = [text |-> SubSeq(Y, 1, (p - p) + Len(e)), at |-> (p - p) + Len(e)]
  <2>1. Len(S!Chars(b, n)) = n
    BY CharsFacts
  <2>2. S!cmd_backspace(Line(b, n, p), p) = [text |-> X, at |-> p - p]
    BY <2>1 DEF S!cmd_backspace, Line
  <2> HIDE DEF X
  <2>3. S!Put([text |-> X, at |-> p - p], e) = [text |-> Y, at |-> (p - p) + Len(e)]
    BY DEF S!Put
  <2> HIDE DEF Y
  <2> QED BY <2>2, <2>3 DEF S!EraseRest
<1> HIDE DEF X
<1>9. SubSeq(Y, 1, (p - p) + Len(e)) = e
  <2>1. Y = SubSeq(X, 1, 0) \o e \o SubSeq(X, 1, Len(X)) /\ SubSeq(X, 1, Len(X)) = X
    BY <1>0, <1>7
  <2>2. SubSeq(X, 1, 0) = << >>
    BY SubSeqEmpty
  <2>3. << >> \o e = e
    BY <1>0, ConcatEmptySeq
  <2>4. Y = e \o X
    BY <2>1, <2>2, <2>3
  <2>5. e \o X \in Seq(Nat) /\ Len(e \o X) = Len(e) + Len(X) /\ Len(X) \in Nat
    BY <1>0, <1>7, ConcatProperties, LenProperties
  <2>6. ASSUME NEW i \in 1 .. l PROVE (e \o X)[i] = e[i]
    BY <1>0, <1>7, <1>a, ConcatProperties
  <2>7. \A i \in 1 .. l : (e \o X)[i] \in Nat
    BY <1>0, <1>a, <2>6, ElementOfSeq
  <2>8. /\ SubSeq(e \o X, 1, l) \in Seq(Nat)
        /\ Len(SubSeq(e \o X, 1, l)) = l
        /\ \A i \in 1 .. l : SubSeq(e \o X, 1, l)[i] = (e \o X)[i]
    <3>1. 1 \in Int /\ l \in Int
      OBVIOUS
    <3>2. /\ SubSeq(e \o X, 1, l) \in Seq(Nat)
          /\ Len(SubSeq(e \o X, 1, l)) = IF 1 <= l THEN l - 1 + 1 ELSE 0
          /\ \A i \in 1 .. l - 1 + 1 : SubSeq(e \o X, 1, l)[i] = (e \o X)[1 + i - 1]
      <4>1. PICK W : W = e \o X
        OBVIOUS
      <4>2. \A i \in 1 .. l : W[i] \in Nat
        BY <2>7, <4>1
      <4>3. /\ SubSeq(W, 1, l) \in Seq(Nat)
            /\ Len(SubSeq(W, 1, l)) = IF 1 <= l THEN l - 1 + 1 ELSE 0
            /\ \A i \in 1 .. l - 1 + 1 : SubSeq(W, 1, l)[i] = W[1 + i - 1]
        BY <3>1, <4>2, SubSeqProperties
      <4> QED BY <4>1, <4>3
    <3>3. (IF 1 <= l THEN l - 1 + 1 ELSE 0) = l
      BY <1>a
    <3>4. \A i \in 1 .. l : i \in 1 .. l - 1 + 1 /\ 1 + i - 1 = i
      BY <1>a
    <3>5. Len(SubSeq(e \o X, 1, l)) = l
      BY <3>2, <3>3
    <3>6. \A i \in 1 .. l : SubSeq(e \o X, 1, l)[i] = (e \o X)[i]
      BY <3>2, <3>4, Zenon
    <3> QED BY <3>2, <3>5, <3>6
  <2>9. SubSeq(e \o X, 1, l) = e
    <3>1. \A i \in 1 .. Len(SubSeq(e \o X, 1, l)) : SubSeq(e \o X, 1, l)[i] = e[i]
      BY <2>6, <2>8, Zenon
    <3> QED BY <1>0, <1>a, <2>8, <3>1, SeqEqual, Zenon
  <2> QED BY <1>0, <1>a, <2>4, <2>9
<1>10. MAX_ARG_LEN - 1 \in S!Cells
  BY <1>0
<1> HIDE DEF Y
<1> QED BY <1>0, <1>3, <1>4, <1>5, <1>6, <1>8, <1>9, <1>10, <1>a DEF Line

-----------------------------------------------------------------------------
(* The invariant of the shell *)

LineTypes ==
    /\ buf \in Buffers /\ cur_max \in 0 .. MAX_ARG_LEN /\ cur_pos \in 0 .. cur_max
    /\ flaw \in {"none", "full", "cut", "overrun"}

\* A line that no letter too many has entered ends before the last cell, and
\* that cell is free; without a flaw no NUL is in the line.
Tidy ==
    /\ flaw \in {"none", "cut"} => cur_max < MAX_ARG_LEN /\ buf[MAX_ARG_LEN - 1] = 0
    /\ flaw = "none" => \A i \in 0 .. cur_max - 1 : buf[i] # 0

RingTypes ==
    /\ hist \in S!Slots /\ hst_pos \in S!Slots
    /\ stack \in [S!Slots -> Texts \cup {S!NULL}]
    /\ log \in Seq(Texts)

\* From the entry that is shown to the slot of the next command every entry is
\* one the Down key can show.
Filled ==
    hst_pos # hist =>
      \A j \in S!Slots :
        (IF hst_pos <= hist THEN hst_pos <= j /\ j <= hist ELSE hst_pos <= j \/ j <= hist)
          => stack[j] # S!NULL

ShellInv == LineTypes /\ Tidy /\ ScreenShowsLine /\ RingTypes /\ Filled /\ HistoryKept

\* Letters put into a line without a NUL, and the last cell.
LEMMA InsertedTidy ==
    ASSUME NEW b \in Buffers, NEW n \in 0 .. MAX_ARG_LEN, NEW p \in 0 .. n, NEW s \in Seq(Nat \ {0}),
           n + Len(s) <= MAX_ARG_LEN
    PROVE  /\ (\A i \in 0 .. n - 1 : b[i] # 0)
                => \A i \in 0 .. n + Len(s) - 1 : S!Inserted(b, p, n, s)[i] # 0
           /\ n + Len(s) < MAX_ARG_LEN => S!Inserted(b, p, n, s)[MAX_ARG_LEN - 1] = b[MAX_ARG_LEN - 1]
<1> DEFINE B == S!Inserted(b, p, n, s)
<1>a. PICK l \in Nat : l = Len(s)
  BY LenProperties
<1>0. /\ MAX_ARG_LEN \in Nat \ {0} /\ n \in Nat /\ p \in Nat /\ p <= n /\ n + l <= MAX_ARG_LEN
      /\ S!Cells = 0 .. MAX_ARG_LEN - 1
  BY <1>a, ShellAssumption DEF S!Cells
<1>b. \A i \in S!Cells : B[i] = IF i < p \/ i >= n + l THEN b[i]
                                ELSE IF i < p + l THEN s[i - p + 1] ELSE b[i - l]
  BY <1>a DEF S!Inserted
<1> HIDE DEF B
<1>1. ASSUME \A i \in 0 .. n - 1 : b[i] # 0, NEW i \in 0 .. n + l - 1 PROVE B[i] # 0
  <2>0. i \in S!Cells /\ ~(i >= n + l)
    BY <1>0
  <2>1. CASE i < p
    <3>1. i \in 0 .. n - 1
      BY <1>0, <2>1
    <3>2. B[i] = b[i]
      BY <1>b, <2>0, <2>1
    <3> QED BY <1>1, <3>1, <3>2, Zenon
  <2>2. CASE ~(i < p) /\ i < p + l
    <3>1. i - p + 1 \in 1 .. l
      BY <1>0, <2>2
    <3>2. s[i - p + 1] \in Nat \ {0}
      BY <1>a, <3>1, ElementOfSeq
    <3>3. B[i] = s[i - p + 1]
      BY <1>b, <2>0, <2>2
    <3> QED BY <3>2, <3>3
  <2>3. CASE ~(i < p) /\ ~(i < p + l)
    <3>1. i - l \in 0 .. n - 1
      BY <1>0, <2>3
    <3>2. B[i] = b[i - l]
      BY <1>b, <2>0, <2>3
    <3> QED BY <1>1, <3>1, <3>2, Zenon
  <2> QED BY <2>1, <2>2, <2>3, Zenon
<1>2. ASSUME n + l < MAX_ARG_LEN PROVE B[MAX_ARG_LEN - 1] = b[MAX_ARG_LEN - 1]
  <2>1. MAX_ARG_LEN - 1 \in S!Cells /\ MAX_ARG_LEN - 1 >= n + l
    BY <1>0, <1>2
  <2> QED BY <1>b, <2>1
<1>3. \A i \in 0 .. n + l - 1 : (\A j \in 0 .. n - 1 : b[j] # 0) => B[i] # 0
  BY <1>1
<1> QED BY <1>2, <1>3, <1>a DEF B

LEMMA BlankLine == ASSUME NEW b PROVE Line(b, 0, 0) = S!Blank
<1>1. S!Chars(b, 0) = << >>
  BY DEF S!Chars
<1> QED BY <1>1 DEF Line, S!Blank

LEMMA ShowsLine == ScreenShowsLine <=> (flaw = "none" => screen = Line(buf, cur_max, cur_pos))
BY DEF ScreenShowsLine, S!ScreenShowsLine, Line

\* A step that leaves the ring alone.
LEMMA RingSame ==
    ASSUME ShellInv, UNCHANGED <<stack, hist, hst_pos, log>>,
           LineTypes', Tidy', flaw' = "none" => screen' = Line(buf', cur_max', cur_pos')
    PROVE  ShellInv'
<1>1. RingTypes' /\ Filled' /\ HistoryKept'
  BY DEF ShellInv, RingTypes, Filled, HistoryKept, S!HistoryKept
<1>2. ScreenShowsLine'
  BY DEF ScreenShowsLine, S!ScreenShowsLine, Line
<1> QED BY <1>1, <1>2 DEF ShellInv

LEMMA OverrunStep ==
    ASSUME ShellInv, S!Overrun
    PROVE  ShellInv'
<1>1. flaw' = "overrun" /\ UNCHANGED <<buf, cur_pos, cur_max, stack, hist, hst_pos, screen, log>>
  BY DEF S!Overrun
<1>2. LineTypes' /\ Tidy'
  BY <1>1 DEF ShellInv, LineTypes, Tidy
<1> QED BY <1>1, <1>2, RingSame

\* Letters are put into the line and shown, by print_input() or by cmd_match().
LEMMA InsertStep ==
    ASSUME ShellInv, NEW s \in Seq(Nat \ {0}), cur_max + Len(s) <= MAX_ARG_LEN,
           buf' = S!Inserted(buf, cur_pos, cur_max, s),
           cur_pos' = cur_pos + Len(s), cur_max' = cur_max + Len(s),
           flaw' = IF cur_max' = MAX_ARG_LEN THEN "full" ELSE flaw,
           flaw' = "none" => \/ screen' = S!Put(screen, s)
                             \/ screen' = [text |-> S!Chars(buf', cur_max'), at |-> cur_pos'],
           UNCHANGED <<stack, hist, hst_pos, log>>
    PROVE  ShellInv'
<1>a. PICK l \in Nat : l = Len(s)
  BY LenProperties
<1>0. /\ MAX_ARG_LEN \in Nat \ {0} /\ buf \in Buffers /\ cur_max \in 0 .. MAX_ARG_LEN /\ cur_pos \in 0 .. cur_max
      /\ cur_max \in Nat /\ cur_pos \in Nat /\ cur_pos <= cur_max /\ s \in Seq(Nat) /\ cur_max + l <= MAX_ARG_LEN
      /\ flaw \in {"none", "full", "cut", "overrun"}
  BY <1>a, ShellAssumption DEF ShellInv, LineTypes
<1>1. buf' \in Buffers
  BY <1>0, InsertedFacts
<1>2. LineTypes'
  BY <1>0, <1>1, <1>a DEF LineTypes
<1>3. Tidy'
  <2>1. ASSUME flaw' \in {"none", "cut"} PROVE cur_max' < MAX_ARG_LEN /\ buf'[MAX_ARG_LEN - 1] = 0
    <3>1. cur_max' # MAX_ARG_LEN /\ flaw \in {"none", "cut"}
      BY <2>1
    <3>2. cur_max' < MAX_ARG_LEN /\ cur_max + Len(s) < MAX_ARG_LEN
      BY <1>0, <1>a, <3>1
    <3>3. buf'[MAX_ARG_LEN - 1] = buf[MAX_ARG_LEN - 1]
      BY <1>0, <3>2, InsertedTidy
    <3> QED BY <3>1, <3>2, <3>3 DEF ShellInv, Tidy
  <2>2. ASSUME flaw' = "none" PROVE \A i \in 0 .. cur_max' - 1 : buf'[i] # 0
    <3>1. flaw = "none"
      BY <2>2
    <3>2. \A i \in 0 .. cur_max - 1 : buf[i] # 0
      BY <3>1 DEF ShellInv, Tidy
    <3> QED BY <1>0, <3>2, InsertedTidy, SMTT(40)
  <2> QED BY <2>1, <2>2 DEF Tidy
<1>4. ASSUME flaw' = "none" PROVE screen' = Line(buf', cur_max', cur_pos')
  <2>1. flaw = "none"
    BY <1>4
  <2>2. screen = Line(buf, cur_max, cur_pos)
    BY <2>1, ShowsLine DEF ShellInv
  <2>3. S!Put(screen, s) = Line(buf', cur_max', cur_pos')
    BY <1>0, <2>2, PutLine
  <2> QED BY <1>4, <2>3 DEF Line
<1> QED BY <1>2, <1>3, <1>4, RingSame

LEMMA PrintInput ==
    ASSUME ShellInv, NEW c \in Letters, S!print_input(c)
    PROVE  ShellInv'
<1>1. CASE S!Overrun
  BY <1>1, OverrunStep
<1>2. CASE /\ cur_max < MAX_ARG_LEN /\ S!insert_one_key(<<c>>)
           /\ flaw' = IF cur_max' = MAX_ARG_LEN THEN "full" ELSE flaw
           /\ UNCHANGED <<stack, hist, hst_pos, log>>
  <2>1. <<c>> \in Seq(Nat \ {0}) /\ Len(<<c>>) = 1
    BY ShellAssumption
  <2>2. MAX_ARG_LEN \in Nat /\ cur_max \in Nat
    BY ShellAssumption DEF ShellInv, LineTypes
  <2>3. PICK s : s = <<c>>
    OBVIOUS
  <2>4. s \in Seq(Nat \ {0}) /\ cur_max + Len(s) <= MAX_ARG_LEN
    BY <1>2, <2>1, <2>2, <2>3
  <2>5. /\ buf' = S!Inserted(buf, cur_pos, cur_max, s)
        /\ cur_pos' = cur_pos + Len(s) /\ cur_max' = cur_max + Len(s)
        /\ screen' = IF flaw = "none" THEN S!Put(screen, s) ELSE screen
    BY <1>2, <2>3 DEF S!insert_one_key, S!Show
  <2>6. flaw' = "none" => screen' = S!Put(screen, s)
    BY <1>2, <2>5
  <2> QED BY <1>2, <2>4, <2>5, <2>6, InsertStep
<1> QED BY <1>1, <1>2 DEF S!print_input

LEMMA RefuseStep ==
    ASSUME ShellInv, S!Refuse
    PROVE  ShellInv'
<1>1. CASE S!Overrun
  BY <1>1, OverrunStep
<1>2. CASE cur_max < MAX_ARG_LEN /\ S!Show(S!Put(S!Blank, S!Str(buf)))
           /\ UNCHANGED <<buf, cur_pos, cur_max, stack, hist, hst_pos, flaw, log>>
  <2>0. /\ MAX_ARG_LEN \in Nat \ {0} /\ cur_max \in Nat /\ cur_pos \in Nat /\ cur_pos <= cur_max /\ buf \in Buffers
        /\ cur_pos >= MAX_ARG_LEN - 1
    BY ShellAssumption DEF ShellInv, LineTypes, S!Refuse, S!TooLong
  <2>1. cur_max = MAX_ARG_LEN - 1 /\ cur_pos = cur_max /\ cur_max \in S!Cells /\ cur_max \in 0 .. MAX_ARG_LEN
    BY <1>2, <2>0 DEF S!Cells
  <2>2. LineTypes' /\ Tidy'
    BY <1>2 DEF ShellInv, LineTypes, Tidy
  <2>3. ASSUME flaw' = "none" PROVE screen' = Line(buf', cur_max', cur_pos')
    <3>1. flaw = "none"
      BY <1>2, <2>3
    <3>2. S!Str(buf) = S!Chars(buf, cur_max)
      BY <2>0, <2>1, <3>1, StrIsLine DEF ShellInv, Tidy
    <3>3. PICK T : T = S!Chars(buf, cur_max)
      OBVIOUS
    <3>4. T \in Seq(Nat) /\ Len(T) = cur_max
      BY <2>0, <2>1, <3>3, CharsFacts
    <3>5. S!Put(S!Blank, T) = [text |-> T, at |-> cur_max]
      <4>1. S!Put(S!Blank, T) = [text |-> SubSeq(<< >>, 1, 0) \o T \o SubSeq(<< >>, 0 + 1, Len(<< >>)),
                                at |-> 0 + Len(T)]
        BY DEF S!Put, S!Blank
      <4>2. SubSeq(<< >>, 1, 0) = << >> /\ SubSeq(<< >>, 0 + 1, Len(<< >>)) = << >>
        BY SubSeqEmpty, EmptySeq
      <4>3. << >> \o T \o << >> = T
        BY <3>4, ConcatEmptySeq
      <4>4. SubSeq(<< >>, 1, 0) \o T \o SubSeq(<< >>, 0 + 1, Len(<< >>)) = T
        BY <4>2, <4>3, Zenon
      <4>5. 0 + Len(T) = cur_max
        BY <2>0, <3>4
      <4> QED BY <4>1, <4>4, <4>5, Zenon
    <3>6. screen' = S!Put(S!Blank, T)
      BY <1>2, <3>1, <3>2, <3>3 DEF S!Show
    <3> QED BY <1>2, <2>1, <3>3, <3>5, <3>6 DEF Line
  <2> QED BY <1>2, <2>2, <2>3, RingSame
<1> QED BY <1>1, <1>2 DEF S!Refuse

LEMMA BackspaceStep ==
    ASSUME ShellInv, S!backspace_one_key
    PROVE  ShellInv'
<1>1. /\ cur_pos > 0 /\ buf' = Backed(buf, cur_max, cur_pos)
      /\ cur_pos' = cur_pos - 1 /\ cur_max' = cur_max - 1
      /\ screen' = IF flaw = "none" THEN S!cmd_backspace(screen, 1) ELSE screen
      /\ UNCHANGED <<stack, hist, hst_pos, flaw, log>>
  BY DEF S!backspace_one_key, S!Show, Backed
<1>0. /\ MAX_ARG_LEN \in Nat \ {0} /\ cur_max \in Nat /\ cur_pos \in Nat /\ cur_pos <= cur_max /\ buf \in Buffers
      /\ cur_max \in 0 .. MAX_ARG_LEN /\ cur_pos \in 1 .. cur_max
  BY <1>1, ShellAssumption DEF ShellInv, LineTypes
<1>2. buf' \in Buffers
  BY <1>0, <1>1, BackedFacts
<1>3. LineTypes'
  BY <1>0, <1>1, <1>2 DEF LineTypes, ShellInv
<1>4. \A i \in S!Cells : buf'[i] = IF i < cur_pos - 1 \/ i >= cur_max THEN buf[i]
                                   ELSE IF i = cur_max - 1 THEN S!NUL ELSE buf[i + 1]
  BY <1>1 DEF Backed
<1>5. Tidy'
  <2>1. ASSUME flaw' \in {"none", "cut"} PROVE cur_max' < MAX_ARG_LEN /\ buf'[MAX_ARG_LEN - 1] = 0
    <3>1. cur_max < MAX_ARG_LEN /\ buf[MAX_ARG_LEN - 1] = 0
      BY <1>1, <2>1 DEF ShellInv, Tidy
    <3>2. cur_max' < MAX_ARG_LEN /\ MAX_ARG_LEN - 1 \in S!Cells /\ MAX_ARG_LEN - 1 >= cur_max
      BY <1>0, <1>1, <3>1 DEF S!Cells
    <3> QED BY <1>4, <3>1, <3>2
  <2>2. ASSUME flaw' = "none", NEW i \in 0 .. cur_max' - 1 PROVE buf'[i] # 0
    <3>1. flaw = "none"
      BY <1>1, <2>2
    <3>2. \A j \in 0 .. cur_max - 1 : buf[j] # 0
      BY <3>1 DEF ShellInv, Tidy
    <3>3. i \in S!Cells /\ ~(i >= cur_max) /\ i # cur_max - 1 /\ i \in 0 .. cur_max - 1 /\ i + 1 \in 0 .. cur_max - 1
      BY <1>0, <1>1 DEF S!Cells
    <3> QED BY <1>4, <3>2, <3>3
  <2> QED BY <2>1, <2>2 DEF Tidy
<1>6. ASSUME flaw' = "none" PROVE screen' = Line(buf', cur_max', cur_pos')
  <2>1. screen = Line(buf, cur_max, cur_pos)
    BY <1>1, <1>6, ShowsLine DEF ShellInv
  <2> QED BY <1>0, <1>1, <1>6, <2>1, BackLine
<1> QED BY <1>1, <1>3, <1>5, <1>6, RingSame

LEMMA DeleteStep ==
    ASSUME ShellInv, S!delete_one_key
    PROVE  ShellInv'
<1>1. CASE S!Overrun
  BY <1>1, OverrunStep
<1>2. CASE /\ cur_pos < cur_max /\ cur_max < MAX_ARG_LEN /\ buf' = Deleted(buf, cur_max, cur_pos)
           /\ cur_max' = cur_max - 1
           /\ screen' = IF flaw = "none" THEN S!Eat(screen) ELSE screen
           /\ UNCHANGED <<cur_pos, stack, hist, hst_pos, flaw, log>>
  <2>0. /\ MAX_ARG_LEN \in Nat \ {0} /\ cur_max \in Nat /\ cur_pos \in Nat /\ cur_pos < cur_max /\ buf \in Buffers
        /\ cur_max \in 0 .. MAX_ARG_LEN /\ cur_pos \in 0 .. cur_max /\ cur_pos \in 0 .. cur_max - 1
    BY <1>2, ShellAssumption DEF ShellInv, LineTypes
  <2>1. buf' \in Buffers
    BY <1>2, <2>0, DeletedFacts
  <2>2. LineTypes'
    BY <1>2, <2>0, <2>1 DEF LineTypes, ShellInv
  <2>3. \A i \in S!Cells : buf'[i] = IF i = cur_max THEN S!NUL
                                     ELSE IF i >= cur_pos /\ i < cur_max - 1 THEN buf[i + 1] ELSE buf[i]
    BY <1>2 DEF Deleted
  <2>4. Tidy'
    <3>1. ASSUME flaw' \in {"none", "cut"} PROVE cur_max' < MAX_ARG_LEN /\ buf'[MAX_ARG_LEN - 1] = 0
      <4>1. buf[MAX_ARG_LEN - 1] = 0
        BY <1>2, <3>1 DEF ShellInv, Tidy
      <4>2. cur_max' < MAX_ARG_LEN /\ MAX_ARG_LEN - 1 \in S!Cells /\ ~(MAX_ARG_LEN - 1 < cur_max - 1)
        BY <1>2, <2>0 DEF S!Cells
      <4> QED BY <2>3, <4>1, <4>2 DEF S!NUL
    <3>2. ASSUME flaw' = "none", NEW i \in 0 .. cur_max' - 1 PROVE buf'[i] # 0
      <4>1. flaw = "none"
        BY <1>2, <3>2
      <4>2. \A j \in 0 .. cur_max - 1 : buf[j] # 0
        BY <4>1 DEF ShellInv, Tidy
      <4>3. i \in S!Cells /\ i # cur_max /\ i \in 0 .. cur_max - 1 /\ i + 1 \in 0 .. cur_max - 1
        BY <1>2, <2>0 DEF S!Cells
      <4> QED BY <2>3, <4>2, <4>3
    <3> QED BY <3>1, <3>2 DEF Tidy
  <2>5. ASSUME flaw' = "none" PROVE screen' = Line(buf', cur_max', cur_pos')
    <3>1. screen = Line(buf, cur_max, cur_pos)
      BY <1>2, <2>5, ShowsLine DEF ShellInv
    <3> QED BY <1>2, <2>0, <2>5, <3>1, EatLine
  <2> QED BY <1>2, <2>2, <2>4, <2>5, RingSame
<1> QED BY <1>1, <1>2 DEF S!delete_one_key, S!Show, Deleted

LEMMA MoveStep ==
    ASSUME ShellInv, NEW pos \in 0 .. cur_max, S!MoveTo(pos)
    PROVE  ShellInv'
<1>1. /\ cur_pos' = pos
      /\ screen' = IF flaw = "none" THEN [screen EXCEPT !.at = @ + pos - cur_pos] ELSE screen
      /\ UNCHANGED <<buf, cur_max, stack, hist, hst_pos, flaw, log>>
  BY DEF S!MoveTo, S!Show
<1>0. cur_max \in Nat /\ cur_pos \in Nat /\ pos \in Nat
  BY ShellAssumption DEF ShellInv, LineTypes
<1>2. LineTypes' /\ Tidy'
  BY <1>0, <1>1 DEF ShellInv, LineTypes, Tidy
<1>3. ASSUME flaw' = "none" PROVE screen' = Line(buf', cur_max', cur_pos')
  <2>1. screen = Line(buf, cur_max, cur_pos)
    BY <1>1, <1>3, ShowsLine DEF ShellInv
  <2>2. PICK T : T = S!Chars(buf, cur_max)
    OBVIOUS
  <2>3. [[text |-> T, at |-> cur_pos] EXCEPT !.at = @ + pos - cur_pos] = [text |-> T, at |-> pos]
    BY <1>0
  <2> QED BY <1>1, <1>3, <2>1, <2>2, <2>3 DEF Line
<1> QED BY <1>1, <1>2, <1>3, RingSame

LEMMA NewPromptStep ==
    ASSUME ShellInv, S!NewPrompt
    PROVE  ShellInv'
<1>1. /\ cur_pos' = 0 /\ cur_max' = 0 /\ screen' = S!Blank
      /\ flaw' = IF flaw = "cut" THEN "none" ELSE flaw
      /\ UNCHANGED <<buf, stack, hist, hst_pos, log>>
  BY DEF S!NewPrompt
<1>2. MAX_ARG_LEN \in Nat \ {0}
  BY ShellAssumption
<1>3. LineTypes'
  BY <1>1, <1>2 DEF ShellInv, LineTypes
<1>4. Tidy'
  BY <1>1, <1>2 DEF ShellInv, Tidy
<1>5. screen' = Line(buf', cur_max', cur_pos')
  BY <1>1, BlankLine
<1> QED BY <1>1, <1>3, <1>4, <1>5, RingSame

-----------------------------------------------------------------------------
(* The keys that use the ring *)

LEMMA NotNull == ASSUME NEW e \in Texts \cup {S!NULL}, e # S!NULL PROVE e \in Texts
OBVIOUS

\* The line becomes an entry of the ring.
LEMMA EntryStep ==
    ASSUME LineTypes, Tidy, ScreenShowsLine, NEW b \in Buffers,
           buf[MAX_ARG_LEN - 1] = 0 => b[MAX_ARG_LEN - 1] = 0,
           NEW ring, NEW index, ring[index] \in Texts, S!ShowEntry(b, ring, index), UNCHANGED flaw
    PROVE  LineTypes' /\ Tidy' /\ ScreenShowsLine'
<1> DEFINE d == [i \in S!Cells |-> IF i < cur_pos THEN S!NUL ELSE b[i]]
<1>0. PICK e : e = ring[index]
  OBVIOUS
<1>1. /\ buf' = S!StrCpy(d, e) /\ cur_pos' = Len(e) /\ cur_max' = Len(e)
      /\ screen' = IF flaw = "none" THEN S!EraseRest(S!Put(S!cmd_backspace(screen, cur_pos), e)) ELSE screen
  BY <1>0 DEF S!ShowEntry, S!Show
<1>2. /\ MAX_ARG_LEN \in Nat \ {0} /\ cur_max \in 0 .. MAX_ARG_LEN /\ cur_pos \in 0 .. cur_max
      /\ buf \in Buffers /\ e \in Texts /\ cur_pos \in Nat /\ flaw \in {"none", "full", "cut", "overrun"}
  BY <1>0, ShellAssumption DEF LineTypes
<1>3. d \in Buffers
  <2> SUFFICES ASSUME NEW i \in S!Cells PROVE (IF i < cur_pos THEN S!NUL ELSE b[i]) \in Nat
    BY DEF Buffers
  <2> QED BY DEF S!NUL, Buffers
<1>4. b[MAX_ARG_LEN - 1] = 0 => d[MAX_ARG_LEN - 1] = 0
  <2>1. MAX_ARG_LEN - 1 \in S!Cells
    BY <1>2 DEF S!Cells
  <2> QED BY <2>1 DEF S!NUL
<1> HIDE DEF d
<1>5. /\ S!StrCpy(d, e) \in Buffers
      /\ S!EraseRest(S!Put(S!cmd_backspace(Line(buf, cur_max, cur_pos), cur_pos), e))
           = Line(S!StrCpy(d, e), Len(e), Len(e))
      /\ \A i \in 0 .. Len(e) - 1 : S!StrCpy(d, e)[i] # 0
      /\ d[MAX_ARG_LEN - 1] = 0 => S!StrCpy(d, e)[MAX_ARG_LEN - 1] = 0
  BY <1>2, <1>3, EntryLine
<1>6. Len(e) \in Nat /\ Len(e) <= MAX_ARG_LEN - 1
  BY <1>2, LenProperties DEF Texts
<1>7. LineTypes'
  <2>1. buf' \in Buffers
    BY <1>1, <1>5
  <2>2. cur_max' \in 0 .. MAX_ARG_LEN /\ cur_pos' \in 0 .. cur_max'
    BY <1>1, <1>2, <1>6
  <2> QED BY <1>2, <2>1, <2>2 DEF LineTypes
<1>8. Tidy'
  <2>1. cur_max' < MAX_ARG_LEN
    BY <1>1, <1>2, <1>6
  <2>2. flaw \in {"none", "cut"} => buf'[MAX_ARG_LEN - 1] = 0
    BY <1>1, <1>4, <1>5 DEF Tidy
  <2>3. \A i \in 0 .. cur_max' - 1 : buf'[i] # 0
    BY <1>1, <1>5, Zenon
  <2> QED BY <2>1, <2>2, <2>3 DEF Tidy
<1>9. ASSUME flaw' = "none" PROVE screen' = Line(buf', cur_max', cur_pos')
  <2>1. flaw = "none"
    BY <1>9
  <2>2. screen = Line(buf, cur_max, cur_pos)
    BY <2>1, ShowsLine
  <2> QED BY <1>1, <1>5, <2>1, <2>2
<1>10. ScreenShowsLine'
  BY <1>9 DEF ScreenShowsLine, S!ScreenShowsLine, Line
<1> QED BY <1>7, <1>8, <1>10

\* The slot of the next command is none of those behind it.
LEMMA Behind ==
    ASSUME NEW k \in 1 .. APP_HIST_DEPTH - 1, NEW h \in S!Slots
    PROVE  S!APP_ADJUST_INDEX(h - k) \in S!Slots /\ S!APP_ADJUST_INDEX(h - k) # h
<1>0. APP_HIST_DEPTH \in Nat \ {0} /\ h \in 0 .. APP_HIST_DEPTH - 1 /\ k \in 0 .. APP_HIST_DEPTH
  BY ShellAssumption DEF S!Slots
<1>1. S!APP_ADJUST_INDEX(h - k) = IF k <= h THEN h - k ELSE h - k + APP_HIST_DEPTH
  BY <1>0, RingFacts
<1> QED BY <1>0, <1>1 DEF S!Slots

\* The slot of the next command may change.
LEMMA HistorySame ==
    ASSUME HistoryKept, RingTypes, NEW line,
           stack' = stack \/ stack' = [stack EXCEPT ![hist] = line], UNCHANGED <<hist, log>>
    PROVE  HistoryKept'
<1> SUFFICES ASSUME NEW k \in 1 .. APP_HIST_DEPTH - 1, k <= Len(log)
             PROVE  stack'[S!APP_ADJUST_INDEX(hist - k)] = log[Len(log) + 1 - k]
  BY DEF HistoryKept, S!HistoryKept
<1>1. stack[S!APP_ADJUST_INDEX(hist - k)] = log[Len(log) + 1 - k]
  BY DEF HistoryKept, S!HistoryKept
<1>2. S!APP_ADJUST_INDEX(hist - k) \in S!Slots /\ S!APP_ADJUST_INDEX(hist - k) # hist
  BY Behind DEF RingTypes
<1> QED BY <1>1, <1>2 DEF RingTypes

LEMMA UpStep ==
    ASSUME ShellInv, S!cmd_up_key
    PROVE  ShellInv'
<1> DEFINE saving == hst_pos = hist
           b == IF saving THEN [i \in S!Cells |-> IF i = cur_pos THEN S!NUL ELSE buf[i]] ELSE buf
           ring == IF saving THEN [stack EXCEPT ![hist] = S!Str(b)] ELSE stack
           index == S!APP_ADJUST_INDEX(hst_pos - 1)
           older == index # hist /\ ring[index] # S!NULL
<1>1. CASE S!Overrun
  BY <1>1, OverrunStep
<1>2. CASE /\ ~(saving /\ cur_pos >= MAX_ARG_LEN)
           /\ UNCHANGED <<hist, log>>
           /\ stack' = ring
           /\ \/ older /\ S!ShowEntry(b, ring, index) /\ UNCHANGED flaw
              \/ /\ ~older /\ buf' = b
                 /\ flaw' = IF saving /\ cur_pos < cur_max /\ flaw = "none" THEN "cut" ELSE flaw
                 /\ UNCHANGED <<cur_pos, cur_max, screen, hst_pos>>
  <2>0. /\ MAX_ARG_LEN \in Nat \ {0} /\ APP_HIST_DEPTH \in Nat \ {0} /\ buf \in Buffers
        /\ cur_max \in 0 .. MAX_ARG_LEN /\ cur_pos \in 0 .. cur_max /\ cur_max \in Nat /\ cur_pos \in Nat
        /\ hist \in S!Slots /\ hst_pos \in S!Slots /\ hist \in Nat /\ hst_pos \in Nat
        /\ stack \in [S!Slots -> Texts \cup {S!NULL}]
        /\ flaw \in {"none", "full", "cut", "overrun"} /\ S!Slots = 0 .. APP_HIST_DEPTH - 1
    BY ShellAssumption DEF ShellInv, LineTypes, RingTypes, S!Slots
  <2>1. b \in Buffers
    BY <2>0 DEF Buffers, S!NUL
  <2>2. buf[MAX_ARG_LEN - 1] = 0 => b[MAX_ARG_LEN - 1] = 0
    <3>1. MAX_ARG_LEN - 1 \in S!Cells
      BY <2>0 DEF S!Cells
    <3> QED BY <3>1 DEF S!NUL
  <2>3. saving => S!Str(b) \in Texts /\ S!Str(b) # S!NULL
    <3> SUFFICES ASSUME saving PROVE S!Str(b) \in Texts /\ S!Str(b) # S!NULL
      OBVIOUS
    <3>1. cur_pos \in S!Cells
      BY <1>2, <2>0 DEF S!Cells
    <3>2. b[cur_pos] = 0
      BY <3>1 DEF S!NUL
    <3> HIDE DEF b
    <3> QED BY <2>1, <3>1, <3>2, StrFacts
  <2>4. \A i \in S!Cells : b[i] = IF saving /\ i = cur_pos THEN 0 ELSE buf[i]
    BY DEF S!NUL
  <2> HIDE DEF b
  <2>5. /\ ring \in [S!Slots -> Texts \cup {S!NULL}]
        /\ \A j \in S!Slots : ring[j] = IF saving /\ j = hist THEN S!Str(b) ELSE stack[j]
    BY <2>0, <2>3
  <2>6. HistoryKept'
    BY <1>2, HistorySame DEF ShellInv
  <2>7. index \in S!Slots /\ index = IF 1 <= hst_pos THEN hst_pos - 1 ELSE hst_pos - 1 + APP_HIST_DEPTH
    <3>1. 1 \in 0 .. APP_HIST_DEPTH
      BY <2>0
    <3>2. index = IF 1 <= hst_pos THEN hst_pos - 1 ELSE hst_pos - 1 + APP_HIST_DEPTH
      BY <2>0, <3>1, RingFacts
    <3> HIDE DEF index
    <3> QED BY <2>0, <3>2
  <2> HIDE DEF ring, index
  <2>8. CASE older /\ S!ShowEntry(b, ring, index) /\ UNCHANGED flaw
    <3>1. index # hist /\ ring[index] # S!NULL
      BY <2>8
    <3>2. ring[index] \in Texts
      BY <2>5, <2>7, <3>1
    <3>3. LineTypes' /\ Tidy' /\ ScreenShowsLine'
      BY <2>1, <2>2, <2>8, <3>2, EntryStep DEF ShellInv
    <3>4. hst_pos' = index
      BY <2>8 DEF S!ShowEntry
    <3>5. RingTypes'
      BY <1>2, <2>0, <2>5, <2>7, <3>4 DEF RingTypes, ShellInv
    <3>6. Filled'
      <4> SUFFICES ASSUME NEW j \in S!Slots,
                          IF index <= hist THEN index <= j /\ j <= hist ELSE index <= j \/ j <= hist
                   PROVE  ring[j] # S!NULL
        BY <1>2, <3>4 DEF Filled
      <4>1. CASE j = index
        BY <3>1, <4>1
      <4>2. CASE j # index /\ saving
        <5>1. j = hist
          BY <2>0, <2>7, <3>1, <4>2
        <5> QED BY <2>3, <2>5, <4>2, <5>1
      <4>3. CASE j # index /\ ~saving
        <5>1. IF hst_pos <= hist THEN hst_pos <= j /\ j <= hist ELSE hst_pos <= j \/ j <= hist
          BY <2>0, <2>7, <3>1, <4>3
        <5>2. stack[j] # S!NULL
          BY <4>3, <5>1 DEF ShellInv, Filled
        <5> QED BY <2>5, <4>3, <5>2
      <4> QED BY <4>1, <4>2, <4>3
    <3> QED BY <2>6, <3>3, <3>5, <3>6 DEF ShellInv
  <2>9. CASE /\ ~older /\ buf' = b
             /\ flaw' = IF saving /\ cur_pos < cur_max /\ flaw = "none" THEN "cut" ELSE flaw
             /\ UNCHANGED <<cur_pos, cur_max, screen, hst_pos>>
    <3>1. LineTypes'
      BY <2>0, <2>1, <2>9 DEF LineTypes
    <3>2. Tidy'
      <4>1. ASSUME flaw' \in {"none", "cut"} PROVE cur_max' < MAX_ARG_LEN /\ buf'[MAX_ARG_LEN - 1] = 0
        <5>1. flaw \in {"none", "cut"}
          BY <2>9, <4>1
        <5> QED BY <2>2, <2>9, <5>1 DEF ShellInv, Tidy
      <4>2. ASSUME flaw' = "none", NEW i \in 0 .. cur_max' - 1 PROVE buf'[i] # 0
        <5>1. flaw = "none" /\ ~(saving /\ cur_pos < cur_max)
          BY <2>9, <4>2
        <5>2. i \in 0 .. cur_max - 1 /\ i \in S!Cells /\ ~(saving /\ i = cur_pos)
          BY <2>0, <2>9, <5>1 DEF S!Cells
        <5> QED BY <2>4, <2>9, <5>1, <5>2 DEF ShellInv, Tidy
      <4> QED BY <4>1, <4>2 DEF Tidy
    <3>3. ScreenShowsLine'
      <4> SUFFICES ASSUME flaw' = "none" PROVE screen = Line(b, cur_max, cur_pos)
        BY <2>9 DEF ScreenShowsLine, S!ScreenShowsLine, Line
      <4>1. flaw = "none" /\ ~(saving /\ cur_pos < cur_max)
        BY <2>9
      <4>2. screen = Line(buf, cur_max, cur_pos)
        BY <4>1, ShowsLine DEF ShellInv
      <4>3. \A i \in 1 .. cur_max : b[i - 1] = buf[i - 1]
        <5> TAKE i \in 1 .. cur_max
        <5>1. i - 1 \in S!Cells /\ ~(saving /\ i - 1 = cur_pos)
          BY <2>0, <4>1 DEF S!Cells
        <5> QED BY <2>4, <5>1
      <4>4. S!Chars(b, cur_max) = S!Chars(buf, cur_max)
        BY <4>3 DEF S!Chars
      <4> QED BY <4>2, <4>4 DEF Line
    <3>4. RingTypes'
      BY <1>2, <2>5, <2>9 DEF RingTypes, ShellInv
    <3>5. Filled'
      <4> SUFFICES ASSUME hst_pos # hist PROVE stack' = stack
        BY <1>2, <2>9 DEF ShellInv, Filled
      <4> QED BY <1>2 DEF ring
    <3> QED BY <2>6, <3>1, <3>2, <3>3, <3>4, <3>5 DEF ShellInv
  <2> QED BY <1>2, <2>8, <2>9
<1> QED BY <1>1, <1>2 DEF S!cmd_up_key

LEMMA DownStep ==
    ASSUME ShellInv, S!cmd_down_key
    PROVE  ShellInv'
<1>1. /\ hst_pos # hist /\ S!ShowEntry(buf, stack, S!APP_ADJUST_INDEX(hst_pos + 1))
      /\ UNCHANGED <<stack, hist, flaw, log>>
  BY DEF S!cmd_down_key
<1>2. PICK index : index = S!APP_ADJUST_INDEX(hst_pos + 1)
  OBVIOUS
<1>0. /\ APP_HIST_DEPTH \in Nat \ {0} /\ hist \in S!Slots /\ hst_pos \in S!Slots
      /\ S!Slots = 0 .. APP_HIST_DEPTH - 1 /\ buf \in Buffers
      /\ stack \in [S!Slots -> Texts \cup {S!NULL}]
  BY ShellAssumption DEF ShellInv, LineTypes, RingTypes, S!Slots
<1>3. index = IF hst_pos + 1 = APP_HIST_DEPTH THEN 0 ELSE hst_pos + 1
  BY <1>0, <1>2, RingFacts
<1>4. /\ index \in S!Slots
      /\ IF hst_pos <= hist THEN hst_pos <= index /\ index <= hist ELSE hst_pos <= index \/ index <= hist
  BY <1>0, <1>1, <1>3
<1>5. stack[index] \in Texts
  <2>1. stack[index] # S!NULL
    BY <1>1, <1>4 DEF ShellInv, Filled
  <2> QED BY <1>0, <1>4, <2>1
<1>6. LineTypes' /\ Tidy' /\ ScreenShowsLine'
  BY <1>0, <1>1, <1>2, <1>5, EntryStep DEF ShellInv
<1>7. hst_pos' = index
  BY <1>1, <1>2 DEF S!ShowEntry
<1>8. RingTypes'
  BY <1>1, <1>4, <1>7 DEF RingTypes, ShellInv
<1>9. HistoryKept'
  BY <1>1 DEF HistoryKept, S!HistoryKept, ShellInv
<1>10. Filled'
  <2> SUFFICES ASSUME index # hist, NEW j \in S!Slots,
                      IF index <= hist THEN index <= j /\ j <= hist ELSE index <= j \/ j <= hist
               PROVE  stack[j] # S!NULL
    BY <1>1, <1>7 DEF Filled
  <2>1. IF hst_pos <= hist THEN hst_pos <= j /\ j <= hist ELSE hst_pos <= j \/ j <= hist
    BY <1>0, <1>1, <1>3
  <2> QED BY <1>1, <2>1 DEF ShellInv, Filled
<1> QED BY <1>6, <1>8, <1>9, <1>10 DEF ShellInv

-----------------------------------------------------------------------------
(* Completion, Enter, and the whole shell *)

LEMMA SpaceCount == S!pre_space_count \in Nat
<1> DEFINE word == {i \in S!Cells : buf[i] # S!SPACE}
           z == CHOOSE i \in word : \A j \in word : i <= j
<1>1. word \subseteq Nat /\ MAX_ARG_LEN \in Nat
  BY ShellAssumption DEF S!Cells
<1>2. ASSUME word # {} PROVE z \in Nat
  <2> HIDE DEF word
  <2>1. \E i \in word : \A j \in word : i <= j
    BY <1>1, <1>2, LeastNat
  <2>2. z \in word
    BY <2>1
  <2> QED BY <1>1, <2>2
<1> QED BY <1>1, <1>2 DEF S!pre_space_count

\* What is completed is a part of a name.
LEMMA CommonFacts ==
    ASSUME NEW names, names \subseteq S!Commands, names # {}, cur_pos \in Nat,
           S!pre_space_count <= cur_pos
    PROVE  S!Common(names) \in Seq(Nat \ {0})
<1> DEFINE n == CHOOSE n \in names : TRUE
           same == {k \in 0 .. Len(n) : \A x \in names : Len(x) >= k /\ SubSeq(x, 1, k) = SubSeq(n, 1, k)}
           len == CHOOSE k \in same : \A j \in same : j <= k
           first == cur_pos - S!pre_space_count + 1
<1>1. n \in names
  OBVIOUS
<1>2. \A x \in names : x \in Seq(Nat \ {0}) /\ Len(x) \in Nat
  BY ShellAssumption, LenProperties DEF S!Commands
<1>3. PICK m : m = n
  OBVIOUS
<1>4. m \in Seq(Nat \ {0}) /\ Len(m) \in Nat
  BY <1>1, <1>2, <1>3
<1>5. \E k \in same : \A j \in same : j <= k
  <2> DEFINE gaps == {Len(m) - k : k \in same}
  <2>1. same \subseteq 0 .. Len(m)
    BY <1>3
  <2>2. 0 \in same
    <3>1. \A x : SubSeq(x, 1, 0) = << >>
      BY SubSeqEmpty
    <3>2. 0 \in 0 .. Len(n)
      BY <1>3, <1>4
    <3> HIDE DEF n
    <3> QED BY <1>2, <3>1, <3>2
  <2> HIDE DEF same
  <2>3. gaps \subseteq Nat /\ gaps # {}
    BY <1>4, <2>1, <2>2
  <2>4. PICK g \in gaps : \A h \in gaps : g <= h
    <3> HIDE DEF gaps
    <3> QED BY <2>3, LeastNat
  <2>5. PICK k \in same : g = Len(m) - k
    OBVIOUS
  <2>6. \A j \in same : j <= k
    <3> TAKE j \in same
    <3>1. Len(m) - j \in gaps
      OBVIOUS
    <3>2. g <= Len(m) - j
      BY <2>4, <3>1
    <3> QED BY <1>4, <2>1, <2>5, <3>2
  <2> QED BY <2>6
<1>6. len \in same
  <2> HIDE DEF same
  <2> QED BY <1>5
<1>7. len \in 0 .. Len(m)
  BY <1>3, <1>6
<1>8. first \in Nat /\ first >= 1
  BY SpaceCount
<1> HIDE DEF len, first
<1>9. \A i \in first .. len : m[i] \in Nat \ {0}
  <2> TAKE i \in first .. len
  <2>1. i \in 1 .. Len(m)
    BY <1>4, <1>7, <1>8
  <2> QED BY <1>4, <2>1, ElementOfSeq
<1>10. first \in Int /\ len \in Int
  BY <1>4, <1>7, <1>8
<1>11. SubSeq(m, first, len) \in Seq(Nat \ {0})
  BY <1>9, <1>10, SubSeqProperties
<1> QED BY <1>3, <1>11 DEF S!Common, len, first

LEMMA MatchStep ==
    ASSUME ShellInv, S!cmd_match
    PROVE  ShellInv'
<1> DEFINE m == S!Matches
           one == S!Cardinality(m) = 1
           space == IF one /\ cur_pos = cur_max THEN <<S!SPACE>> ELSE << >>
           s == S!Common(m) \o space
           outside == \/ S!Cardinality(m) > S!Cardinality(Exe)
                      \/ cur_pos < S!pre_space_count
                      \/ cur_max + Len(s) > MAX_ARG_LEN
<1>1. m # {} /\ IF outside THEN S!Overrun ELSE S!Complete(s, ~one)
  BY DEF S!cmd_match
<1>2. CASE S!Overrun
  BY <1>2, OverrunStep
<1>3. CASE ~outside /\ S!Complete(s, ~one)
  <2>0. cur_pos \in Nat /\ cur_max \in Nat /\ MAX_ARG_LEN \in Nat /\ S!pre_space_count \in Nat
    BY ShellAssumption, SpaceCount DEF ShellInv, LineTypes
  <2>1. m \subseteq S!Commands
    BY DEF S!Matches
  <2>2. S!pre_space_count <= cur_pos
    <3>1. ~(cur_pos < S!pre_space_count)
      BY <1>3
    <3> QED BY <2>0, <3>1
  <2> HIDE DEF m
  <2>3. S!Common(m) \in Seq(Nat \ {0})
    BY <1>1, <2>0, <2>1, <2>2, CommonFacts
  <2>4. space \in Seq(Nat \ {0})
    <3>1. <<1>> \in Seq(Nat \ {0}) /\ << >> \in Seq(Nat \ {0})
      OBVIOUS
    <3>2. space = <<1>> \/ space = << >>
      BY DEF S!SPACE
    <3> HIDE DEF space
    <3> QED BY <3>1, <3>2
  <2>5. s \in Seq(Nat \ {0})
    <3> HIDE DEF space
    <3> QED BY <2>3, <2>4, ConcatProperties
  <2>6. PICK t : t = s
    OBVIOUS
  <2>7. t \in Seq(Nat \ {0}) /\ cur_max + Len(t) <= MAX_ARG_LEN
    <3>1. ~(cur_max + Len(s) > MAX_ARG_LEN)
      BY <1>3
    <3>2. Len(t) \in Nat
      BY <2>5, <2>6, LenProperties
    <3> QED BY <2>0, <2>5, <2>6, <3>1, <3>2
  <2>8. S!Complete(t, ~one)
    BY <1>3, <2>6
  <2> HIDE DEF one
  <2>9. /\ buf' = S!Inserted(buf, cur_pos, cur_max, t)
        /\ cur_pos' = cur_pos + Len(t) /\ cur_max' = cur_max + Len(t)
        /\ flaw' = IF cur_max' = MAX_ARG_LEN THEN "full" ELSE flaw
        /\ screen' = IF flaw = "none"
                     THEN IF ~one THEN [text |-> S!Chars(buf', cur_max'), at |-> cur_pos']
                          ELSE S!Put(screen, t)
                     ELSE screen
        /\ UNCHANGED <<stack, hist, hst_pos, log>>
    BY <2>8 DEF S!Complete, S!Show
  <2>10. flaw' = "none" => \/ screen' = S!Put(screen, t)
                           \/ screen' = [text |-> S!Chars(buf', cur_max'), at |-> cur_pos']
    BY <2>9
  <2> QED BY <2>7, <2>9, <2>10, InsertStep
<1> QED BY <1>1, <1>2, <1>3

LEMMA EnterStep ==
    ASSUME ShellInv, S!Enter
    PROVE  ShellInv'
<1> DEFINE b == [buf EXCEPT ![cur_max] = S!NUL]
<1>1. CASE S!Overrun
  BY <1>1, OverrunStep
<1>2. CASE /\ cur_max < MAX_ARG_LEN
           /\ S!cmd_update_history(S!Str(b)) /\ log' = Append(log, S!Str(b))
           /\ hst_pos' = hist'
           /\ buf' = [i \in S!Cells |-> S!NUL] /\ cur_pos' = 0 /\ cur_max' = 0
           /\ screen' = S!Blank /\ flaw' = "none"
  <2>0. /\ MAX_ARG_LEN \in Nat \ {0} /\ APP_HIST_DEPTH \in Nat \ {0} /\ buf \in Buffers
        /\ cur_max \in S!Cells /\ hist \in S!Slots /\ S!Slots = 0 .. APP_HIST_DEPTH - 1
        /\ stack \in [S!Slots -> Texts \cup {S!NULL}] /\ log \in Seq(Texts)
    BY <1>2, ShellAssumption DEF ShellInv, LineTypes, RingTypes, S!Slots, S!Cells
  <2>1. PICK line : line = S!Str(b)
    OBVIOUS
  <2>2. line \in Texts
    <3>1. b \in Buffers /\ b[cur_max] = 0
      BY <2>0 DEF Buffers, S!NUL
    <3> HIDE DEF b
    <3> QED BY <2>0, <2>1, <3>1, StrFacts
  <2>3. /\ stack' = [stack EXCEPT ![hist] = line] /\ hist' = S!APP_ADJUST_INDEX(hist + 1)
        /\ log' = Append(log, line)
    BY <1>2, <2>1 DEF S!cmd_update_history
  <2>4. LineTypes' /\ Tidy'
    <3>1. buf' \in Buffers
      BY <1>2 DEF Buffers, S!NUL
    <3>2. buf'[MAX_ARG_LEN - 1] = 0
      BY <1>2, <2>0 DEF S!Cells, S!NUL
    <3> QED BY <1>2, <2>0, <3>1, <3>2 DEF LineTypes, Tidy
  <2>5. ScreenShowsLine'
    <3>1. screen' = Line(buf', cur_max', cur_pos')
      BY <1>2, BlankLine
    <3> QED BY <3>1 DEF ScreenShowsLine, S!ScreenShowsLine, Line
  <2>6. hist' \in S!Slots /\ hist' = IF hist + 1 = APP_HIST_DEPTH THEN 0 ELSE hist + 1
    <3>1. hist' = IF hist + 1 = APP_HIST_DEPTH THEN 0 ELSE hist + 1
      BY <2>0, <2>3, RingFacts
    <3> QED BY <2>0, <3>1
  <2>7. RingTypes'
    <3>1. stack' \in [S!Slots -> Texts \cup {S!NULL}]
      BY <2>0, <2>2, <2>3
    <3>2. log' \in Seq(Texts)
      BY <2>0, <2>2, <2>3, AppendProperties
    <3> QED BY <1>2, <2>6, <3>1, <3>2 DEF RingTypes
  <2>8. Filled'
    BY <1>2 DEF Filled
  <2>9. HistoryKept'
    <3>0. Len(log) \in Nat /\ Len(log') = Len(log) + 1
      BY <2>0, <2>2, <2>3, AppendProperties, LenProperties
    <3> SUFFICES ASSUME NEW k \in 1 .. APP_HIST_DEPTH - 1, k <= Len(log')
                 PROVE  stack'[S!APP_ADJUST_INDEX(hist' - k)] = log'[Len(log') + 1 - k]
      BY DEF HistoryKept, S!HistoryKept
    <3>1. S!APP_ADJUST_INDEX(hist' - k) = IF k <= hist' THEN hist' - k ELSE hist' - k + APP_HIST_DEPTH
      <4>1. k \in 0 .. APP_HIST_DEPTH
        BY <2>0
      <4> QED BY <2>6, <4>1, RingFacts
    <3>2. CASE k = 1
      <4>1. S!APP_ADJUST_INDEX(hist' - k) = hist
        BY <2>0, <2>6, <3>1, <3>2
      <4>2. Len(log') + 1 - k = Len(log) + 1
        BY <3>0, <3>2
      <4>3. log'[Len(log) + 1] = line
        BY <2>0, <2>2, <2>3, AppendProperties
      <4> QED BY <2>0, <2>3, <4>1, <4>2, <4>3
    <3>3. CASE k # 1
      <4>1. k - 1 \in 1 .. APP_HIST_DEPTH - 1 /\ k - 1 \in 0 .. APP_HIST_DEPTH /\ k - 1 <= Len(log)
        BY <2>0, <3>0, <3>3
      <4>2. PICK l : l = k - 1
        OBVIOUS
      <4>3. S!APP_ADJUST_INDEX(hist - l) = IF l <= hist THEN hist - l ELSE hist - l + APP_HIST_DEPTH
        BY <2>0, <4>1, <4>2, RingFacts
      <4>4. S!APP_ADJUST_INDEX(hist' - k) = S!APP_ADJUST_INDEX(hist - l)
        BY <2>0, <2>6, <3>1, <4>1, <4>2, <4>3
      <4>5. S!APP_ADJUST_INDEX(hist - l) \in S!Slots /\ S!APP_ADJUST_INDEX(hist - l) # hist
        BY <2>0, <4>1, <4>2, Behind
      <4>6. stack'[S!APP_ADJUST_INDEX(hist' - k)] = stack[S!APP_ADJUST_INDEX(hist - l)]
        BY <2>0, <2>3, <4>4, <4>5
      <4>7. stack[S!APP_ADJUST_INDEX(hist - l)] = log[Len(log) + 1 - l]
        BY <4>1, <4>2 DEF ShellInv, HistoryKept, S!HistoryKept
      <4>8. Len(log') + 1 - k = Len(log) + 1 - l /\ Len(log) + 1 - l \in 1 .. Len(log)
        BY <2>0, <3>0, <4>1, <4>2
      <4>9. log'[Len(log) + 1 - l] = log[Len(log) + 1 - l]
        BY <2>0, <2>2, <2>3, <4>8, AppendProperties
      <4> QED BY <4>6, <4>7, <4>8, <4>9
    <3> QED BY <3>2, <3>3
  <2> QED BY <2>4, <2>5, <2>7, <2>8, <2>9 DEF ShellInv
<1> QED BY <1>1, <1>2 DEF S!Enter

LEMMA ShellInit == S!Init => ShellInv
<1> SUFFICES ASSUME S!Init PROVE ShellInv
  OBVIOUS
<1>0. MAX_ARG_LEN \in Nat \ {0} /\ APP_HIST_DEPTH \in Nat \ {0}
  BY ShellAssumption
<1>1. /\ buf = [i \in S!Cells |-> 0] /\ cur_pos = 0 /\ cur_max = 0
      /\ stack = [i \in S!Slots |-> S!NULL] /\ hist = 0 /\ hst_pos = 0
      /\ screen = S!Blank /\ flaw = "none" /\ log = << >>
  BY DEF S!Init, S!NUL
<1>2. LineTypes
  BY <1>0, <1>1 DEF LineTypes, Buffers
<1>3. Tidy
  BY <1>0, <1>1 DEF Tidy, S!Cells
<1>4. ScreenShowsLine
  <2>1. screen = Line(buf, cur_max, cur_pos)
    BY <1>1, BlankLine
  <2> QED BY <2>1, ShowsLine
<1>5. RingTypes /\ Filled
  BY <1>0, <1>1, EmptySeq DEF RingTypes, Filled, S!Slots
<1>6. HistoryKept
  <2>1. Len(log) = 0
    BY <1>1, EmptySeq
  <2> QED BY <2>1 DEF HistoryKept, S!HistoryKept
<1> QED BY <1>2, <1>3, <1>4, <1>5, <1>6 DEF ShellInv

LEMMA ShellStep == ShellInv /\ [S!Next]_svars => ShellInv'
<1> SUFFICES ASSUME ShellInv, [S!Next]_svars PROVE ShellInv'
  OBVIOUS
<1>0. cur_max \in Nat /\ cur_pos \in Nat /\ cur_pos <= cur_max
  BY ShellAssumption DEF ShellInv, LineTypes
<1>1. CASE UNCHANGED svars
  <2>1. UNCHANGED <<buf, cur_pos, cur_max, stack, hist, hst_pos, screen, flaw, log>>
    BY <1>1 DEF svars
  <2>2. LineTypes' /\ Tidy' /\ RingTypes' /\ Filled'
    BY <2>1 DEF ShellInv, LineTypes, Tidy, RingTypes, Filled
  <2>3. ScreenShowsLine' /\ HistoryKept'
    BY <2>1 DEF ShellInv, ScreenShowsLine, S!ScreenShowsLine, HistoryKept, S!HistoryKept, S!Chars
  <2> QED BY <2>2, <2>3 DEF ShellInv
<1>2. CASE \E c \in Letters : S!print_input(c)
  BY <1>2, PrintInput
<1>3. CASE S!cmd_right_key \/ S!cmd_left_key \/ S!Home \/ S!End
  <2>1. CASE S!cmd_right_key
    <3>1. cur_pos + 1 \in 0 .. cur_max
      BY <1>0, <2>1 DEF S!cmd_right_key
    <3> QED BY <2>1, <3>1, MoveStep DEF S!cmd_right_key
  <2>2. CASE S!cmd_left_key
    <3>1. cur_pos - 1 \in 0 .. cur_max
      BY <1>0, <2>2 DEF S!cmd_left_key
    <3> QED BY <2>2, <3>1, MoveStep DEF S!cmd_left_key
  <2>3. CASE S!Home
    <3>1. 0 \in 0 .. cur_max
      BY <1>0
    <3> QED BY <2>3, <3>1, MoveStep DEF S!Home
  <2>4. CASE S!End
    <3>1. cur_max \in 0 .. cur_max
      BY <1>0
    <3> QED BY <2>4, <3>1, MoveStep DEF S!End
  <2> QED BY <1>3, <2>1, <2>2, <2>3, <2>4
<1> QED BY <1>1, <1>2, <1>3, RefuseStep, BackspaceStep, DeleteStep, UpStep, DownStep, MatchStep,
           NewPromptStep, EnterStep DEF S!Next

\* The invariant of the shell holds while the files and the card stand still.
LEMMA ShellSafe == FilesSpec => []ShellInv
<1>1. FilesInit => ShellInv
  BY ShellInit DEF FilesInit
<1>2. ShellInv /\ [FilesNext]_allvars => ShellInv'
  <2> SUFFICES ASSUME ShellInv, [FilesNext]_allvars PROVE ShellInv'
    OBVIOUS
  <2>1. [S!Next]_svars
    BY DEF FilesNext, allvars
  <2> QED BY <2>1, ShellStep
<1> QED BY <1>1, <1>2, PTL DEF FilesSpec

\* Whatever keys are pressed in whatever order, the terminal shows the line that Enter
\* would execute and the cursor is where the next letter goes, until a letter too many
\* was accepted or cmd_up_key() has put a 0 into the line: for every size of the
\* buffer and of the ring, every alphabet and every set of command names.
THEOREM ScreenIsLine == FilesSpec => []ScreenShowsLine
<1>1. ShellInv => ScreenShowsLine
  BY DEF ShellInv
<1> QED BY <1>1, ShellSafe, PTL

\* The ring of cmd_update_history() holds the last lines that were executed, however
\* the Up and Down keys and completion were used between them: the slot for the line
\* being edited, which cmd_up_key() overwrites, never is one of theirs.
THEOREM HistoryIsKept == FilesSpec => []HistoryKept
<1>1. ShellInv => HistoryKept
  BY DEF ShellInv
<1> QED BY <1>1, ShellSafe, PTL

-----------------------------------------------------------------------------
(* Files of an ext volume: sequences that are put together from parts *)

Cat(s, t) == s \o t

LEMMA CatFacts ==
    ASSUME NEW s \in Seq(Int), NEW t \in Seq(Int)
    PROVE  /\ Cat(s, t) \in Seq(Int) /\ Len(Cat(s, t)) = Len(s) + Len(t)
           /\ \A x \in 1 .. Len(s) : Cat(s, t)[x] = s[x]
           /\ \A x \in 1 .. Len(t) : Cat(s, t)[Len(s) + x] = t[x]
           /\ Len(s) \in Nat /\ Len(t) \in Nat
BY DEF Cat

FlatIs(q, f, n) == f = [i \in 1 .. n |-> IF i = 1 THEN q[i] ELSE Cat(f[i - 1], q[i])]

LEMMA FlatExists ==
    ASSUME NEW q, NEW n \in Nat
    PROVE  \E f : FlatIs(q, f, n)
<1> DEFINE T == {k \in Nat : ~ \E f : FlatIs(q, f, k)}
<1>1. SUFFICES ASSUME T # {} PROVE FALSE
  OBVIOUS
<1>2. PICK k \in T : \A y \in T : k <= y
  <2>1. T \subseteq Nat
    OBVIOUS
  <2> HIDE DEF T
  <2> QED BY <1>1, <2>1, LeastNat
<1>3. k \in Nat /\ ~ \E f : FlatIs(q, f, k)
  BY <1>2
<1>4. CASE k = 0
  <2>1. PICK f : f = [i \in 1 .. 0 |-> q[i]]
    OBVIOUS
  <2>2. FlatIs(q, f, 0)
    BY <2>1 DEF FlatIs
  <2> QED BY <1>3, <1>4, <2>2
<1>5. CASE k # 0
  <2>1. PICK j \in Nat : k = j + 1
    <3>1. k - 1 \in Nat /\ k = (k - 1) + 1
      BY <1>3, <1>5
    <3> QED BY <3>1
  <2>2. PICK f : FlatIs(q, f, j)
    <3>1. ~(k <= j)
      BY <2>1
    <3> QED BY <1>2, <3>1
  <2>3. \A i \in 1 .. j : f[i] = IF i = 1 THEN q[i] ELSE Cat(f[i - 1], q[i])
    BY <2>2 DEF FlatIs
  <2>4. PICK g : g = [i \in 1 .. k |-> IF i = k THEN (IF k = 1 THEN q[k] ELSE Cat(f[j], q[k])) ELSE f[i]]
    OBVIOUS
  <2>5. \A i \in 1 .. k : g[i] = IF i = 1 THEN q[i] ELSE Cat(g[i - 1], q[i])
    <3> TAKE i \in 1 .. k
    <3>1. CASE i = k /\ k # 1
      <4>1. g[i] = Cat(f[j], q[i]) /\ i # 1 /\ i - 1 = j /\ j \in 1 .. k /\ j # k
        BY <1>3, <1>5, <2>1, <2>4, <3>1
      <4>2. g[j] = f[j]
        BY <2>4, <4>1
      <4> QED BY <4>1, <4>2
    <3>2. CASE i = k /\ k = 1
      BY <2>4, <3>2
    <3>3. CASE i # k /\ i = 1
      <4>1. g[i] = f[i] /\ i \in 1 .. j
        BY <1>3, <2>1, <2>4, <3>3
      <4> QED BY <2>3, <3>3, <4>1
    <3>4. CASE i # k /\ i # 1
      <4>1. g[i] = f[i] /\ i \in 1 .. j /\ i - 1 \in 1 .. k /\ i - 1 # k
        BY <1>3, <2>1, <2>4, <3>4
      <4>2. g[i - 1] = f[i - 1]
        BY <2>4, <4>1
      <4> QED BY <2>3, <3>4, <4>1, <4>2
    <3> QED BY <3>1, <3>2, <3>3, <3>4
  <2>6. FlatIs(q, g, k)
    BY <2>4, <2>5 DEF FlatIs
  <2> QED BY <1>3, <2>6
<1> QED BY <1>4, <1>5

LEMMA FlatFun ==
    ASSUME NEW n \in Nat \ {0}, NEW q \in [1 .. n -> Seq(Int)]
    PROVE  \E f : /\ E!FlattenSeq(q) = f[n] /\ f[1] = q[1]
                  /\ \A i \in 2 .. n : f[i] = Cat(f[i - 1], q[i])
<1>0. q \in Seq(Seq(Int)) /\ Len(q) = n
  OBVIOUS
<1>1. PICK f : f = CHOOSE g : FlatIs(q, g, n)
  OBVIOUS
<1>2. FlatIs(q, f, n)
  BY <1>1, FlatExists
<1>3. E!FlattenSeq(q) = f[n]
  BY <1>0, <1>1 DEF E!FlattenSeq, FlatIs, Cat
<1>4. \A i \in 1 .. n : f[i] = IF i = 1 THEN q[i] ELSE Cat(f[i - 1], q[i])
  BY <1>2 DEF FlatIs
<1>5. f[1] = q[1] /\ \A i \in 2 .. n : f[i] = Cat(f[i - 1], q[i])
  BY <1>4
<1> QED BY <1>3, <1>5

\* Begins(F, s): F is a sequence that begins with s.
Begins(F, s) == F \in Seq(Int) /\ Len(F) >= Len(s) /\ \A x \in 1 .. Len(s) : F[x] = s[x]

LEMMA FlattenBegins ==
    ASSUME NEW n \in Nat \ {0}, NEW q \in [1 .. n -> Seq(Int)]
    PROVE  Begins(E!FlattenSeq(q), q[1])
<1>1. PICK f : /\ E!FlattenSeq(q) = f[n] /\ f[1] = q[1]
               /\ \A i \in 2 .. n : f[i] = Cat(f[i - 1], q[i])
  BY FlatFun
<1> DEFINE T == {k \in Nat : k \in 1 .. n /\ ~Begins(f[k], q[1])}
<1>2. SUFFICES ASSUME T # {} PROVE FALSE
  <2>1. n \in Nat /\ n \in 1 .. n
    OBVIOUS
  <2> QED BY <1>1, <2>1
<1>3. PICK k \in T : \A y \in T : k <= y
  <2>1. T \subseteq Nat
    OBVIOUS
  <2> HIDE DEF T
  <2> QED BY <1>2, <2>1, LeastNat
<1>4. k \in 1 .. n /\ ~Begins(f[k], q[1])
  BY <1>3
<1>5. k # 1
  BY <1>1, <1>4 DEF Begins
<1>6. k \in 2 .. n /\ k - 1 \in 1 .. n /\ k - 1 \in Nat /\ ~(k <= k - 1)
  BY <1>4, <1>5
<1>7. Begins(f[k - 1], q[1])
  BY <1>3, <1>6
<1>8. f[k] = Cat(f[k - 1], q[k]) /\ q[k] \in Seq(Int) /\ q[1] \in Seq(Int)
  BY <1>1, <1>6
<1>9. Begins(f[k], q[1])
  <2>1. PICK g : g = f[k - 1]
    OBVIOUS
  <2>2. PICK r, h : r = q[k] /\ h = q[1]
    OBVIOUS
  <2>3. /\ g \in Seq(Int) /\ Len(g) >= Len(h) /\ \A x \in 1 .. Len(h) : g[x] = h[x]
        /\ r \in Seq(Int) /\ h \in Seq(Int) /\ f[k] = Cat(g, r)
    BY <1>7, <1>8, <2>1, <2>2 DEF Begins
  <2>4. /\ Cat(g, r) \in Seq(Int) /\ Len(Cat(g, r)) = Len(g) + Len(r)
        /\ \A x \in 1 .. Len(g) : Cat(g, r)[x] = g[x]
        /\ Len(g) \in Nat /\ Len(r) \in Nat /\ Len(h) \in Nat
    BY <2>3, CatFacts
  <2>5. \A x \in 1 .. Len(h) : x \in 1 .. Len(g)
    BY <2>3, <2>4
  <2>6. Len(Cat(g, r)) >= Len(h)
    BY <2>3, <2>4
  <2>7. \A x \in 1 .. Len(h) : Cat(g, r)[x] = h[x]
    BY <2>3, <2>4, <2>5
  <2>8. Begins(Cat(g, r), h)
    BY <2>4, <2>6, <2>7 DEF Begins
  <2> QED BY <2>2, <2>3, <2>8
<1> QED BY <1>4, <1>9

LEMMA FlattenType ==
    ASSUME NEW n \in Nat, NEW q \in [1 .. n -> Seq(Int)]
    PROVE  E!FlattenSeq(q) \in Seq(Int)
<1>1. CASE n = 0
  <2>1. Len(q) = 0 /\ q \in Seq(Int)
    BY <1>1
  <2> QED BY <2>1 DEF E!FlattenSeq
<1>2. CASE n # 0
  BY <1>2, FlattenBegins DEF Begins
<1> QED BY <1>1, <1>2

\* F is made of the first m parts of q, which begin at the places b.
Made(q, b, F, m) ==
    /\ F \in Seq(Int) /\ Len(F) = b[m + 1] - b[1]
    /\ \A x \in 1 .. Len(F) : \E j \in 1 .. m : \E k \in 1 .. Len(q[j]) :
         x = b[j] - b[1] + k /\ F[x] = q[j][k]

LEMMA FlattenMade ==
    ASSUME NEW n \in Nat, NEW q \in [1 .. n -> Seq(Int)], NEW b \in [1 .. n + 1 -> Int],
           \A j \in 1 .. n : Len(q[j]) = b[j + 1] - b[j]
    PROVE  Made(q, b, E!FlattenSeq(q), n)
<1>a. CASE n = 0
  <2>1. Len(q) = 0 /\ q \in Seq(Int)
    BY <1>a
  <2>2. E!FlattenSeq(q) = q
    BY <2>1 DEF E!FlattenSeq
  <2> QED BY <1>a, <2>1, <2>2 DEF Made
<1>b. CASE n # 0
  <2>0. n \in Nat \ {0}
    BY <1>b
  <2>1. PICK f : /\ E!FlattenSeq(q) = f[n] /\ f[1] = q[1]
                 /\ \A i \in 2 .. n : f[i] = Cat(f[i - 1], q[i])
    BY <2>0, FlatFun
  <2> DEFINE T == {k \in Nat : k \in 1 .. n /\ ~Made(q, b, f[k], k)}
  <2>2. SUFFICES ASSUME T # {} PROVE FALSE
    <3>1. n \in Nat /\ n \in 1 .. n
      BY <2>0
    <3> QED BY <2>1, <3>1
  <2>3. PICK k \in T : \A y \in T : k <= y
    <3>1. T \subseteq Nat
      OBVIOUS
    <3> HIDE DEF T
    <3> QED BY <2>2, <3>1, LeastNat
  <2>4. k \in 1 .. n /\ ~Made(q, b, f[k], k)
    BY <2>3
  <2>5. ASSUME k = 1 PROVE Made(q, b, f[k], k)
    <3>1. f[1] = q[1] /\ q[1] \in Seq(Int) /\ Len(q[1]) = b[2] - b[1] /\ b[1] \in Int /\ b[2] \in Int
      BY <2>1, <2>4, <2>5
    <3>2. \A x \in 1 .. Len(q[1]) : x = b[1] - b[1] + x
      BY <3>1
    <3>3. \A x \in 1 .. Len(f[1]) : \E j \in 1 .. 1 : \E l \in 1 .. Len(q[j]) :
            x = b[j] - b[1] + l /\ f[1][x] = q[j][l]
      BY <3>1, <3>2
    <3> QED BY <2>5, <3>1, <3>3 DEF Made
  <2>6. k \in 2 .. n /\ k - 1 \in 1 .. n /\ k - 1 \in Nat /\ ~(k <= k - 1)
    BY <2>4, <2>5
  <2>7. Made(q, b, f[k - 1], k - 1)
    BY <2>3, <2>6
  <2>g. PICK g, r, h : g = f[k - 1] /\ r = q[k] /\ h = f[k]
    OBVIOUS
  <2>8. h = Cat(g, r) /\ r \in Seq(Int) /\ Len(r) = b[k + 1] - b[k]
    BY <2>1, <2>6, <2>g
  <2>9. /\ g \in Seq(Int) /\ Len(g) = b[k] - b[1]
        /\ \A x \in 1 .. Len(g) : \E j \in 1 .. k - 1 : \E l \in 1 .. Len(q[j]) :
             x = b[j] - b[1] + l /\ g[x] = q[j][l]
    <3>1. (k - 1) + 1 = k
      BY <2>6
    <3> QED BY <2>7, <2>g, <3>1, ZenonT(40) DEF Made
  <2>10. b[1] \in Int /\ b[k] \in Int /\ b[k + 1] \in Int
    BY <2>6
  <2>c. /\ Cat(g, r) \in Seq(Int) /\ Len(Cat(g, r)) = Len(g) + Len(r)
        /\ \A x \in 1 .. Len(g) : Cat(g, r)[x] = g[x]
        /\ \A x \in 1 .. Len(r) : Cat(g, r)[Len(g) + x] = r[x]
        /\ Len(g) \in Nat /\ Len(r) \in Nat
    BY <2>8, <2>9, CatFacts
  <2>11. h \in Seq(Int) /\ Len(h) = b[k + 1] - b[1]
    <3>1. h \in Seq(Int) /\ Len(h) = Len(g) + Len(r)
      BY <2>8, <2>c, Zenon
    <3>2. Len(r) = b[k + 1] - b[k] /\ Len(g) = b[k] - b[1]
      BY <2>8, <2>9, Zenon
    <3>3. (b[k] - b[1]) + (b[k + 1] - b[k]) = b[k + 1] - b[1]
      BY <2>10
    <3> QED BY <3>1, <3>2, <3>3, Zenon
  <2>12. \A x \in 1 .. Len(h) : \E j \in 1 .. k : \E l \in 1 .. Len(q[j]) :
            x = b[j] - b[1] + l /\ h[x] = q[j][l]
    <3> TAKE x \in 1 .. Len(h)
    <3>1. CASE x <= Len(g)
      <4>1. x \in 1 .. Len(g) /\ h[x] = g[x]
        <5>1. x \in 1 .. Len(g)
          BY <2>c, <3>1
        <5> QED BY <2>8, <2>c, <5>1, Zenon
      <4>2. PICK j \in 1 .. k - 1 : \E l \in 1 .. Len(q[j]) : x = b[j] - b[1] + l /\ g[x] = q[j][l]
        BY <2>9, <4>1
      <4>3. j \in 1 .. k
        BY <2>6
      <4> QED BY <4>1, <4>2, <4>3
    <3>2. CASE x > Len(g)
      <4>1. x - Len(g) \in 1 .. Len(r) /\ h[x] = r[x - Len(g)]
        <5>1. Len(h) = Len(g) + Len(r) /\ Len(g) \in Nat /\ Len(r) \in Nat
          BY <2>8, <2>c
        <5>2. x - Len(g) \in 1 .. Len(r) /\ Len(g) + (x - Len(g)) = x
          BY <3>2, <5>1
        <5>3. \A y \in 1 .. Len(r) : Cat(g, r)[Len(g) + y] = r[y]
          BY <2>c
        <5> QED BY <2>8, <5>2, <5>3
      <4>2. x = b[k] - b[1] + (x - Len(g)) /\ k \in 1 .. k
        BY <2>6, <2>9, <2>10
      <4> QED BY <2>g, <4>1, <4>2
    <3> QED BY <2>9, <2>11, <3>1, <3>2
  <2>13. Made(q, b, h, k)
    BY <2>11, <2>12 DEF Made
  <2> QED BY <2>4, <2>13, <2>g
<1> QED BY <1>a, <1>b

-----------------------------------------------------------------------------
(* The block map *)

LEMMA RestFacts ==
    ASSUME NEW base \in Int, NEW from \in 0 .. PerBlock
    PROVE  /\ E!Rest(base, from) \in Seq(Int) /\ Len(E!Rest(base, from)) = PerBlock - from
           /\ \A i \in 1 .. PerBlock - from : E!Rest(base, from)[i] = base + from + i - 1
<1>1. PerBlock \in Nat /\ PerBlock - from \in Nat
  BY ExtAssumption
<1>2. E!Clamp(PerBlock - from) = PerBlock - from
  BY <1>1 DEF E!Clamp
<1>3. E!Rest(base, from) = [i \in 1 .. PerBlock - from |-> base + from + i - 1]
  BY <1>2 DEF E!Rest
<1> QED BY <1>1, <1>3

LEMMA UpToFacts ==
    ASSUME NEW F \in Seq(Int), NEW len \in Nat
    PROVE  /\ E!UpTo(F, len) \in Seq(Int) /\ Len(E!UpTo(F, len)) = E!Least(len, Len(F))
           /\ \A x \in 1 .. E!Least(len, Len(F)) : E!UpTo(F, len)[x] = F[x]
<1>1. E!Least(len, Len(F)) \in Nat /\ E!Least(len, Len(F)) <= Len(F) /\ Len(F) \in Nat
  BY DEF E!Least
<1> DEFINE m == E!Least(len, Len(F))
<1> HIDE DEF m
<1>2. m \in Nat /\ m <= Len(F) /\ Len(F) \in Nat
  BY <1>1 DEF m
<1>3. SubSeq(F, 1, m) \in Seq(Int) /\ Len(SubSeq(F, 1, m)) = m
      /\ \A x \in 1 .. m : SubSeq(F, 1, m)[x] = F[x]
  BY <1>2
<1>4. E!UpTo(F, len) = SubSeq(F, 1, m)
  BY DEF E!UpTo, m
<1> QED BY <1>3, <1>4 DEF m

\* Numbers below a square.
LEMMA Square ==
    ASSUME NEW K \in Nat \ {0}, NEW s \in Nat, s < K * K
    PROVE  /\ s \div K \in 0 .. K - 1 /\ s % K \in 0 .. K - 1
           /\ s = (K * (s \div K)) + (s % K) /\ s \div (K * K) = 0 /\ K * K \in Nat \ {0}
<1>0. K * K \in Nat \ {0}
  BY SMT
<1>1. s % K \in 0 .. K - 1 /\ s \div K \in Int /\ s = (K * (s \div K)) + (s % K)
  BY Split
<1>2. s \div K >= 0
  <2> SUFFICES ASSUME s \div K < 0 PROVE FALSE
    BY <1>1
  <2>1. K * (s \div K) <= -K
    BY <1>1, SMT
  <2> QED BY <1>1, <2>1
<1>3. s \div K < K
  <2> SUFFICES ASSUME s \div K >= K PROVE FALSE
    BY <1>1
  <2>1. K * (s \div K) >= K * K
    BY <1>1, SMT
  <2> QED BY <1>0, <1>1, <2>1
<1>4. s \div (K * K) = 0
  <2>2. PICK q \in Nat \ {0} : q = K * K
    BY <1>0
  <2>1. s % q \in 0 .. q - 1 /\ s \div q \in Int /\ s = (q * (s \div q)) + (s % q)
    BY Split
  <2>3. q * 0 + s = (q * (s \div q)) + (s % q) /\ s \in 0 .. q - 1
    BY <2>1, <2>2
  <2>4. s \div q = 0
    BY <2>1, <2>2, <2>3, Unique
  <2> QED BY <2>2, <2>4
<1> QED BY <1>0, <1>1, <1>2, <1>3, <1>4

\* One doubly indirect block, from its entry s on.
Row(base, s) ==
    [j \in 1 .. PerBlock - (s \div PerBlock) |->
       E!Rest(base + ((s \div PerBlock) + j - 1) * PerBlock, IF j = 1 THEN s % PerBlock ELSE 0)]

LEMMA RowFacts ==
    ASSUME NEW base \in Int, NEW s \in Nat, s < PerBlock * PerBlock
    PROVE  /\ E!FlattenSeq(Row(base, s)) \in Seq(Int)
           /\ Len(E!FlattenSeq(Row(base, s))) = PerBlock * PerBlock - s
           /\ \A x \in 1 .. PerBlock * PerBlock - s : E!FlattenSeq(Row(base, s))[x] = base + s + x - 1
<1>1. PICK K \in Nat \ {0} : K = PerBlock
  BY ExtAssumption
<1>2. PICK j0 \in 0 .. K - 1, m0 \in 0 .. K - 1 :
        j0 = s \div K /\ m0 = s % K /\ s = K * j0 + m0
  <2>1. s < K * K
    BY <1>1
  <2>2. s \div K \in 0 .. K - 1 /\ s % K \in 0 .. K - 1 /\ s = (K * (s \div K)) + (s % K)
    BY <2>1, Square
  <2> QED BY <2>2
<1>3. PICK n \in Nat \ {0} : n = K - j0
  BY <1>2
<1>4. PICK q : q = Row(base, s)
  OBVIOUS
<1>5. q = [j \in 1 .. n |-> E!Rest(base + (j0 + j - 1) * K, IF j = 1 THEN m0 ELSE 0)]
  BY <1>1, <1>2, <1>3, <1>4 DEF Row
<1>6. PICK b : b = [j \in 1 .. n + 1 |-> IF j = 1 THEN s ELSE (j0 + j - 1) * K]
  OBVIOUS
<1>7. \A j \in Int : (j0 + j - 1) * K \in Int /\ (j0 + (j + 1) - 1) * K = (j0 + j - 1) * K + K
  <2> TAKE j \in Int
  <2>1. PICK a \in Int : a = j0 + j - 1
    OBVIOUS
  <2>2. j0 + (j + 1) - 1 = a + 1
    BY <2>1
  <2>3. a * K \in Int /\ (a + 1) * K = a * K + K
    BY SMT
  <2> QED BY <2>1, <2>2, <2>3
<1>8. b \in [1 .. n + 1 -> Int] /\ b[1] = s /\ \A j \in 2 .. n + 1 : b[j] = (j0 + j - 1) * K
  <2>1. \A j \in 1 .. n + 1 : (IF j = 1 THEN s ELSE (j0 + j - 1) * K) \in Int
    BY <1>7
  <2> QED BY <1>3, <1>6, <2>1
<1>9. \A j \in 1 .. n : /\ q[j] \in Seq(Int) /\ Len(q[j]) = b[j + 1] - b[j]
                        /\ \A k \in 1 .. Len(q[j]) : q[j][k] = base + b[j] + k - 1
  <2> TAKE j \in 1 .. n
  <2>1. PICK c \in Int : c = (j0 + j - 1) * K
    BY <1>7
  <2>2. PICK from \in 0 .. K : from = IF j = 1 THEN m0 ELSE 0
    BY <1>2
  <2>3. PICK r : r = E!Rest(base + c, from)
    OBVIOUS
  <2>4. q[j] = r
    BY <1>5, <2>1, <2>2, <2>3
  <2>5. r \in Seq(Int) /\ Len(r) = K - from /\ \A i \in 1 .. K - from : r[i] = (base + c) + from + i - 1
    <3>1. base + c \in Int
      OBVIOUS
    <3> QED BY <1>1, <2>2, <2>3, <3>1, RestFacts
  <2>6. b[j + 1] = c + K /\ b[j] = c + from /\ b[j] \in Int
    <3>1. b[j + 1] = (j0 + (j + 1) - 1) * K
      BY <1>3, <1>8
    <3>2. b[j + 1] = c + K
      BY <1>7, <2>1, <3>1
    <3>3. b[j] = c + from
      <4>1. CASE j = 1
        <5>1. (j0 + 1 - 1) * K = K * j0
          BY <1>2, SMT
        <5> QED BY <1>2, <1>8, <2>1, <2>2, <4>1, <5>1
      <4>2. CASE j # 1
        <5>1. j \in 2 .. n + 1
          BY <1>3, <4>2
        <5> QED BY <1>8, <2>1, <2>2, <4>2, <5>1
      <4> QED BY <4>1, <4>2
    <3> QED BY <2>2, <3>2, <3>3
  <2>7. Len(r) = b[j + 1] - b[j]
    BY <2>1, <2>2, <2>5, <2>6
  <2>8. \A k \in 1 .. Len(r) : r[k] = base + b[j] + k - 1
    BY <2>1, <2>2, <2>5, <2>6
  <2> QED BY <2>4, <2>5, <2>7, <2>8
<1>10. q \in [1 .. n -> Seq(Int)]
  BY <1>5, <1>9
<1>11. PICK F : F = E!FlattenSeq(q)
  OBVIOUS
<1>12. /\ F \in Seq(Int) /\ Len(F) = b[n + 1] - b[1]
       /\ \A x \in 1 .. Len(F) : \E j \in 1 .. n : \E k \in 1 .. Len(q[j]) :
            x = b[j] - b[1] + k /\ F[x] = q[j][k]
  <2>1. Made(q, b, F, n)
    BY <1>8, <1>9, <1>10, <1>11, FlattenMade
  <2> QED BY <2>1 DEF Made
<1>13. b[n + 1] = K * K
  <2>1. n + 1 \in 2 .. n + 1 /\ j0 + (n + 1) - 1 = K
    BY <1>2, <1>3
  <2> QED BY <1>8, <2>1
<1>14. \A x \in 1 .. Len(F) : F[x] = base + s + x - 1
  <2> TAKE x \in 1 .. Len(F)
  <2>1. PICK j \in 1 .. n : \E k \in 1 .. Len(q[j]) : x = b[j] - b[1] + k /\ F[x] = q[j][k]
    BY <1>12
  <2>2. PICK k \in 1 .. Len(q[j]) : x = b[j] - b[1] + k /\ F[x] = q[j][k]
    BY <2>1
  <2>3. F[x] = base + b[j] + k - 1
    BY <1>9, <2>2
  <2>4. PICK bj \in Int : bj = b[j]
    BY <1>8
  <2>5. x = bj - s + k /\ F[x] = base + bj + k - 1 /\ k \in Int
    BY <1>8, <2>2, <2>3, <2>4
  <2>6. base + bj + k - 1 = base + s + x - 1
    BY <2>5
  <2> QED BY <2>5, <2>6
<1>15. Len(F) = K * K - s
  BY <1>8, <1>12, <1>13
<1> QED BY <1>1, <1>4, <1>11, <1>12, <1>14, <1>15

LEMMA LayerTypes ==
    /\ E!Ind \in Nat /\ E!Ind = NDir /\ E!Dind \in Nat /\ E!Dind = E!Ind + PerBlock
    /\ E!Tind \in Nat /\ E!Tind = E!Dind + PerBlock * PerBlock /\ PerBlock * PerBlock \in Nat \ {0}
<1>1. NDir \in Nat /\ PerBlock \in Nat \ {0}
  BY ExtAssumption
<1>2. PerBlock * PerBlock \in Nat \ {0}
  BY <1>1, SMT
<1> QED BY <1>1, <1>2 DEF E!Ind, E!Dind, E!Tind

LEMMA ClampFacts ==
    ASSUME NEW a \in Int
    PROVE  E!Clamp(a) \in Nat /\ (a >= 0 => E!Clamp(a) = a) /\ (a <= 0 => E!Clamp(a) = 0)
BY DEF E!Clamp

\* What the doubly indirect blocks give for a read from their entry s on.
DindOK(r, len, s) ==
    /\ r \in Seq(Int) /\ Len(r) = E!Least(len, PerBlock * PerBlock - s)
    /\ \A x \in 1 .. Len(r) : r[x] = E!Dind + s + x - 1

LEMMA DindFacts ==
    ASSUME NEW start \in Int, NEW len \in Nat, NEW s, s = E!Clamp(start), s < PerBlock * PerBlock
    PROVE  DindOK(E!get_dind_block(start, len), len, s)
<1>1. s \in Nat
  BY ClampFacts
<1>2. PerBlock \in Nat \ {0} /\ E!Dind \in Int
  BY ExtAssumption, LayerTypes
<1>3. s \div PerBlock \in 0 .. PerBlock - 1
  BY <1>1, <1>2, Square
<1>4. E!Clamp(PerBlock - (s \div PerBlock)) = PerBlock - (s \div PerBlock)
  BY <1>2, <1>3 DEF E!Clamp
<1>5. PICK F : F = E!FlattenSeq(Row(E!Dind, s))
  OBVIOUS
<1>6. E!get_dind_block(start, len) = E!UpTo(F, len)
  BY <1>4, <1>5 DEF E!get_dind_block, Row
<1>7. /\ F \in Seq(Int) /\ Len(F) = PerBlock * PerBlock - s
      /\ \A x \in 1 .. PerBlock * PerBlock - s : F[x] = E!Dind + s + x - 1
  BY <1>1, <1>2, <1>5, RowFacts
<1>8. PICK r : r = E!UpTo(F, len)
  OBVIOUS
<1>9. PICK m \in Nat : m = PerBlock * PerBlock - s
  BY <1>7
<1>10. /\ r \in Seq(Int) /\ Len(r) = E!Least(len, m)
       /\ \A x \in 1 .. E!Least(len, m) : r[x] = F[x]
  <2>1. Len(F) = m /\ F \in Seq(Int)
    BY <1>7, <1>9
  <2>2. /\ r \in Seq(Int) /\ Len(r) = E!Least(len, Len(F))
        /\ \A x \in 1 .. E!Least(len, Len(F)) : r[x] = F[x]
    BY <1>8, <2>1, UpToFacts
  <2> QED BY <2>1, <2>2
<1>11. E!Least(len, m) \in Nat /\ E!Least(len, m) <= m
  BY DEF E!Least
<1>12. \A x \in 1 .. E!Least(len, m) : x \in 1 .. m
  BY <1>11
<1>13. \A x \in 1 .. Len(r) : r[x] = E!Dind + s + x - 1
  BY <1>7, <1>9, <1>10, <1>12
<1> QED BY <1>6, <1>8, <1>9, <1>10, <1>13 DEF DindOK

\* The rows that get_tind_block() goes through; only the first one is right.
TindRow(s, j) ==
    [k \in 1 .. E!Clamp(PerBlock - (s \div PerBlock)) |->
       E!Rest(E!Tind + ((((s \div (PerBlock * PerBlock)) + j - 1) * PerBlock + (s \div PerBlock) + k - 1) * PerBlock),
              IF j = 1 /\ k = 1 THEN s % PerBlock ELSE 0)]

TindOK(r, len, s) ==
    /\ r \in Seq(Int)
    /\ s < PerBlock * PerBlock =>
         /\ Len(r) >= E!Least(len, PerBlock * PerBlock - s)
         /\ \A x \in 1 .. E!Least(len, PerBlock * PerBlock - s) : r[x] = E!Tind + s + x - 1

LEMMA TindFacts ==
    ASSUME NEW start \in Int, NEW len \in Nat, NEW s, s = E!Clamp(start)
    PROVE  TindOK(E!get_tind_block(start, len), len, s)
<1>1. s \in Nat
  BY ClampFacts
<1>2. PICK K \in Nat \ {0}, Q \in Nat \ {0} : K = PerBlock /\ Q = PerBlock * PerBlock
  BY ExtAssumption, LayerTypes
<1>3. /\ s \div K \in Int /\ s \div Q \in Int /\ s % K \in 0 .. K - 1
      /\ E!Tind \in Int
  <2>1. s \in Int
    BY <1>1
  <2>2. s \div K \in Int /\ s % K \in 0 .. K - 1
    BY <2>1, Split
  <2>3. s \div Q \in Int
    BY <2>1, Split
  <2>4. E!Tind \in Int
    BY LayerTypes
  <2> QED BY <2>2, <2>3, <2>4
<1>4. PICK n \in Nat, m \in Nat : n = E!Clamp(K - (s \div Q)) /\ m = E!Clamp(K - (s \div K))
  BY <1>2, <1>3, ClampFacts
<1>5. PICK q : q = [j \in 1 .. n |-> E!FlattenSeq(TindRow(s, j))]
  OBVIOUS
<1>6. E!get_tind_block(start, len) = E!UpTo(E!FlattenSeq(q), len)
  BY <1>2, <1>4, <1>5 DEF E!get_tind_block, TindRow
<1>7. \A j \in 1 .. n : TindRow(s, j) \in [1 .. m -> Seq(Int)]
  <2> TAKE j \in 1 .. n
  <2> DEFINE base(k) == E!Tind + ((((s \div Q) + j - 1) * K + (s \div K) + k - 1) * K)
             from(k) == IF j = 1 /\ k = 1 THEN s % K ELSE 0
  <2>1. TindRow(s, j) = [k \in 1 .. m |-> E!Rest(base(k), from(k))]
    BY <1>2, <1>4 DEF TindRow
  <2>2. \A k \in 1 .. m : base(k) \in Int /\ from(k) \in 0 .. PerBlock
    <3> TAKE k \in 1 .. m
    <3>1. PICK a \in Int : a = ((s \div Q) + j - 1) * K
      <4>1. (s \div Q) + j - 1 \in Int
        BY <1>3
      <4> QED BY <4>1, SMT
    <3>2. PICK c \in Int : c = a + (s \div K) + k - 1
      BY <1>3
    <3>3. E!Tind + (c * K) \in Int
      BY <1>3, SMT
    <3>4. from(k) \in 0 .. PerBlock
      BY <1>2, <1>3
    <3> QED BY <3>1, <3>2, <3>3, <3>4
  <2> HIDE DEF base, from
  <2>3. \A k \in 1 .. m : E!Rest(base(k), from(k)) \in Seq(Int)
    BY <2>2, RestFacts
  <2> QED BY <2>1, <2>3
<1>8. q \in [1 .. n -> Seq(Int)]
  <2>1. \A j \in 1 .. n : E!FlattenSeq(TindRow(s, j)) \in Seq(Int)
    BY <1>4, <1>7, FlattenType
  <2> QED BY <1>5, <2>1
<1>9. PICK F : F = E!FlattenSeq(q)
  OBVIOUS
<1>10. F \in Seq(Int)
  BY <1>8, <1>9, FlattenType
<1>11. PICK r : r = E!UpTo(F, len)
  OBVIOUS
<1>12. /\ r \in Seq(Int) /\ Len(r) = E!Least(len, Len(F))
       /\ \A x \in 1 .. E!Least(len, Len(F)) : r[x] = F[x]
  BY <1>10, <1>11, UpToFacts
<1>13. ASSUME s < Q
       PROVE  /\ Len(r) >= E!Least(len, Q - s)
              /\ \A x \in 1 .. E!Least(len, Q - s) : r[x] = E!Tind + s + x - 1
  <2>1. s \div Q = 0 /\ s \div K \in 0 .. K - 1
    <3>1. s < K * K /\ Q = K * K
      BY <1>2, <1>13
    <3>2. s \div K \in 0 .. K - 1 /\ s \div (K * K) = 0
      BY <1>1, <3>1, Square
    <3> QED BY <3>1, <3>2
  <2>2. n = K /\ m = K - (s \div K)
    BY <1>4, <2>1 DEF E!Clamp
  <2>3. TindRow(s, 1) = Row(E!Tind, s)
    <3>1. \A k \in 1 .. m :
            (((s \div Q) + 1 - 1) * K + (s \div K) + k - 1) * K = ((s \div K) + k - 1) * K
      <4>1. ((s \div Q) + 1 - 1) * K = 0
        BY <2>1, SMT
      <4>2. \A k \in 1 .. m : ((s \div Q) + 1 - 1) * K + (s \div K) + k - 1 = (s \div K) + k - 1
        BY <1>3, <4>1
      <4> QED BY <4>2
    <3>2. TindRow(s, 1) =
            [k \in 1 .. m |-> E!Rest(E!Tind + ((s \div K) + k - 1) * K, IF k = 1 THEN s % K ELSE 0)]
      BY <1>2, <1>4, <3>1 DEF TindRow
    <3> QED BY <1>2, <2>2, <3>2 DEF Row
  <2>4. PICK h : h = E!FlattenSeq(Row(E!Tind, s))
    OBVIOUS
  <2>5. h \in Seq(Int) /\ Len(h) = Q - s /\ \A x \in 1 .. Q - s : h[x] = E!Tind + s + x - 1
    <3>1. s < PerBlock * PerBlock
      BY <1>2, <1>13
    <3>2. /\ h \in Seq(Int) /\ Len(h) = PerBlock * PerBlock - s
          /\ \A x \in 1 .. PerBlock * PerBlock - s : h[x] = E!Tind + s + x - 1
      BY <1>1, <1>3, <2>4, <3>1, RowFacts, ZenonT(40)
    <3> QED BY <1>2, <3>2
  <2>6. q[1] = h
    BY <1>5, <2>2, <2>3, <2>4
  <2>7. F \in Seq(Int) /\ Len(F) >= Len(h) /\ \A x \in 1 .. Len(h) : F[x] = h[x]
    BY <1>8, <1>9, <2>2, <2>6, FlattenBegins DEF Begins
  <2>8. PICK L \in Nat, d \in Nat : L = Len(F) /\ d = Q - s /\ L >= d
    BY <1>1, <1>2, <1>13, <2>5, <2>7
  <2>9. E!Least(len, L) >= E!Least(len, d) /\ \A x \in 1 .. E!Least(len, d) :
          x \in 1 .. E!Least(len, L) /\ x \in 1 .. d
    BY <2>8 DEF E!Least
  <2>10. Len(r) >= E!Least(len, d)
    BY <1>12, <2>8, <2>9
  <2>11. \A x \in 1 .. E!Least(len, d) : r[x] = E!Tind + s + x - 1
    <3> TAKE x \in 1 .. E!Least(len, d)
    <3>1. x \in 1 .. E!Least(len, L) /\ x \in 1 .. d
      BY <2>9
    <3>2. r[x] = F[x]
      BY <1>12, <2>8, <3>1
    <3>3. F[x] = h[x] /\ h[x] = E!Tind + s + x - 1
      BY <2>5, <2>7, <2>8, <3>1
    <3> QED BY <3>2, <3>3
  <2> QED BY <2>8, <2>10, <2>11
<1> QED BY <1>2, <1>6, <1>9, <1>11, <1>12, <1>13 DEF TindOK

\* The layers below lim fill sq as far as they reach.
Fills(sq, start, len, lim) ==
    /\ sq \in Seq(Int)
    /\ Len(sq) = IF start >= lim THEN 0 ELSE E!Least(len, lim - start)
    /\ \A i \in 1 .. Len(sq) : sq[i] = start + i - 1

LEMMA FillsLen ==
    ASSUME NEW start \in Nat, NEW len \in Nat, NEW lim \in Nat, NEW sq, Fills(sq, start, len, lim)
    PROVE  Len(sq) \in 0 .. len
<1>1. CASE start >= lim
  BY <1>1 DEF Fills
<1>2. CASE start < lim
  <2>1. Len(sq) = E!Least(len, lim - start)
    BY <1>2 DEF Fills
  <2>2. E!Least(len, lim - start) \in 0 .. len
    BY <1>2 DEF E!Least
  <2> QED BY <2>1, <2>2
<1> QED BY <1>1, <1>2

\* The n numbers from `first' on.
Layer(r, first, n) == r \in Seq(Int) /\ Len(r) = n /\ \A x \in 1 .. n : r[x] = first + x - 1

LEMMA FillsNext ==
    ASSUME NEW start \in Nat, NEW len \in Nat, NEW lo \in Nat, NEW hi \in Nat, lo <= hi,
           start < hi, NEW a, Fills(a, start, len, lo), NEW s, s = E!Clamp(start - lo),
           NEW r, Layer(r, lo + s, E!Least(len - Len(a), hi - lo - s))
    PROVE  Fills(a \o r, start, len, hi)
<1>0. /\ r \in Seq(Int) /\ Len(r) = E!Least(len - Len(a), hi - lo - s)
      /\ \A x \in 1 .. Len(r) : r[x] = lo + s + x - 1
  BY DEF Layer
<1>1. PICK na \in Nat, nr \in Nat : na = Len(a) /\ nr = Len(r)
  BY <1>0 DEF Fills
<1>2. /\ a \in Seq(Int) /\ na = (IF start >= lo THEN 0 ELSE E!Least(len, lo - start))
      /\ \A i \in 1 .. na : a[i] = start + i - 1
  BY <1>1 DEF Fills
<1>3. s = IF start >= lo THEN start - lo ELSE 0
  BY DEF E!Clamp
<1>4. /\ Cat(a, r) \in Seq(Int) /\ Len(Cat(a, r)) = na + nr
      /\ \A x \in 1 .. na : Cat(a, r)[x] = a[x]
      /\ \A x \in 1 .. nr : Cat(a, r)[na + x] = r[x]
  <2>1. a \in Seq(Int) /\ r \in Seq(Int)
    BY <1>0, <1>2
  <2>2. /\ Cat(a, r) \in Seq(Int) /\ Len(Cat(a, r)) = Len(a) + Len(r)
        /\ \A x \in 1 .. Len(a) : Cat(a, r)[x] = a[x]
        /\ \A x \in 1 .. Len(r) : Cat(a, r)[Len(a) + x] = r[x]
    BY <2>1, CatFacts
  <2> QED BY <1>1, <2>2, Zenon
<1>5. nr = E!Least(len - na, hi - lo - s)
  BY <1>0, <1>1
<1>6. na + nr = E!Least(len, hi - start)
  <2>1. CASE start >= lo
    <3>1. na = 0 /\ s = start - lo
      BY <1>2, <1>3, <2>1
    <3>2. hi - lo - s = hi - start /\ len - na = len
      BY <3>1
    <3> QED BY <1>5, <3>1, <3>2
  <2>2. CASE start < lo
    <3>1. na = E!Least(len, lo - start) /\ s = 0
      BY <1>2, <1>3, <2>2
    <3>2. CASE len < lo - start
      <4>1. na = len /\ nr = 0
        BY <1>5, <3>1, <3>2 DEF E!Least
      <4> QED BY <3>2, <4>1 DEF E!Least
    <3>3. CASE ~(len < lo - start)
      <4>1. na = lo - start /\ nr = E!Least(len - na, hi - lo)
        BY <1>5, <3>1, <3>3 DEF E!Least
      <4> QED BY <3>3, <4>1 DEF E!Least
    <3> QED BY <3>2, <3>3
  <2> QED BY <2>1, <2>2
<1>7. nr > 0 => lo + s = start + na
  BY <1>2, <1>3, <1>5 DEF E!Least
<1>8. \A i \in 1 .. na + nr : Cat(a, r)[i] = start + i - 1
  <2> TAKE i \in 1 .. na + nr
  <2>1. CASE i <= na
    <3>1. i \in 1 .. na
      BY <2>1
    <3> QED BY <1>2, <1>4, <3>1
  <2>2. CASE i > na
    <3>1. PICK x \in 1 .. nr : i = na + x
      <4>1. i - na \in 1 .. nr /\ i = na + (i - na)
        BY <2>2
      <4> QED BY <4>1
    <3>2. Cat(a, r)[i] = lo + s + x - 1
      BY <1>0, <1>1, <1>4, <3>1
    <3>3. lo + s = start + na
      BY <1>7, <3>1
    <3> QED BY <3>1, <3>2, <3>3
  <2> QED BY <2>1, <2>2
<1>9. Fills(Cat(a, r), start, len, hi)
  <2>1. Len(Cat(a, r)) = IF start >= hi THEN 0 ELSE E!Least(len, hi - start)
    BY <1>4, <1>6
  <2>2. \A i \in 1 .. Len(Cat(a, r)) : Cat(a, r)[i] = start + i - 1
    BY <1>4, <1>8
  <2> QED BY <1>4, <2>1, <2>2 DEF Fills
<1> QED BY <1>9 DEF Cat

LEMMA LayerOf ==
    ASSUME NEW start \in Nat
    PROVE  LET l == E!get_start_layer(start)
           IN  /\ (l = 0) <=> start < E!Ind
               /\ (l <= 1) <=> start < E!Dind
               /\ (l <= 2) <=> start < E!Tind
<1>1. /\ E!Ind \in Nat /\ E!Dind \in Nat /\ E!Tind \in Nat /\ E!Ind <= E!Dind /\ E!Dind <= E!Tind
  BY ExtAssumption, LayerTypes
<1>2. PICK l : l = E!get_start_layer(start)
  OBVIOUS
<1>3. CASE start < E!Ind
  <2>1. l = 0
    BY <1>1, <1>2, <1>3 DEF E!get_start_layer
  <2> QED BY <1>1, <1>2, <1>3, <2>1
<1>4. CASE start >= E!Ind /\ start < E!Dind
  <2>1. l = 1
    BY <1>1, <1>2, <1>4 DEF E!get_start_layer
  <2> QED BY <1>1, <1>2, <1>4, <2>1
<1>5. CASE start >= E!Dind /\ start < E!Tind
  <2>1. l = 2
    BY <1>1, <1>2, <1>5 DEF E!get_start_layer
  <2> QED BY <1>1, <1>2, <1>5, <2>1
<1>6. CASE start >= E!Tind
  <2>1. l = 3
    BY <1>1, <1>2, <1>6 DEF E!get_start_layer
  <2> QED BY <1>1, <1>2, <1>6, <2>1
<1> QED BY <1>1, <1>3, <1>4, <1>5, <1>6

\* The map is right up to lim: block i of a read from block `start' on is found.
Maps(bl, start, len, lim) ==
    /\ bl \in Seq(Int)
    /\ \A i \in 1 .. len : start + i - 1 < lim => i <= Len(bl) /\ bl[i] = start + i - 1

LEMMA IndexMaps ==
    ASSUME NEW start \in Nat, NEW len \in Nat
    PROVE  Maps(E!get_block_indexs(start, len), start, len, E!Tind + PerBlock * PerBlock)
<1>0. PICK I \in Nat, D \in Nat, T \in Nat, P \in Nat \ {0}, Q \in Nat \ {0} :
         /\ I = E!Ind /\ I = NDir /\ P = PerBlock /\ Q = PerBlock * PerBlock
         /\ D = E!Dind /\ D = I + P /\ T = E!Tind /\ T = D + Q
  BY ExtAssumption, LayerTypes
<1>l. PICK l : l = E!get_start_layer(start)
  OBVIOUS
<1>m. (l = 0 <=> start < I) /\ (l <= 1 <=> start < D) /\ (l <= 2 <=> start < T)
  BY <1>0, <1>l, LayerOf
<1>1. PICK a : a = IF l = 0 THEN E!get_dir_block(start, len) ELSE <<>>
  OBVIOUS
<1>2. PICK b : b = IF l <= 1 THEN a \o E!get_ind_block(start - I, len - Len(a)) ELSE a
  OBVIOUS
<1>3. PICK c : c = IF l <= 2 THEN b \o E!get_dind_block(start - D, len - Len(b)) ELSE b
  OBVIOUS
<1>4. PICK t : t = E!get_tind_block(start - T, len - Len(c))
  OBVIOUS
<1>5. E!get_block_indexs(start, len) = c \o t
  BY <1>0, <1>l, <1>1, <1>2, <1>3, <1>4 DEF E!get_block_indexs
<1>6. Fills(a, start, len, I)
  <2>1. CASE start < I
    <3>1. PICK n \in Nat : n = E!Least(len, I - start)
      BY <2>1 DEF E!Least
    <3>2. a = [i \in 1 .. n |-> start + i - 1]
      BY <1>0, <1>m, <1>1, <2>1, <3>1 DEF E!get_dir_block
    <3> QED BY <2>1, <3>1, <3>2 DEF Fills
  <2>2. CASE start >= I
    <3>1. a = <<>>
      BY <1>m, <1>1, <2>2
    <3> QED BY <2>2, <3>1 DEF Fills
  <2> QED BY <2>1, <2>2
<1>7. PICK na \in 0 .. len : na = Len(a)
  BY <1>0, <1>6, FillsLen
<1>8. Fills(b, start, len, D)
  <2>1. CASE start < D
    <3>1. PICK r : r = E!get_ind_block(start - I, len - na)
      OBVIOUS
    <3>2. PICK s \in Nat : s = E!Clamp(start - I)
      BY ClampFacts
    <3>3. PICK n \in Nat : n = E!Least(len - na, P - s)
      <4>1. P - s \in Nat
        BY <1>0, <2>1, <3>2 DEF E!Clamp
      <4>2. len - na \in Nat
        OBVIOUS
      <4> QED BY <4>1, <4>2 DEF E!Least
    <3>4. r = [i \in 1 .. n |-> I + s + i - 1]
      BY <1>0, <3>1, <3>2, <3>3 DEF E!get_ind_block
    <3>5. Layer(r, I + s, n)
      BY <3>4 DEF Layer
    <3>6. n = E!Least(len - na, D - I - s) /\ I <= D
      BY <1>0, <3>3
    <3>7. Fills(a \o r, start, len, D)
      <4>1. Layer(r, I + s, E!Least(len - Len(a), D - I - s))
        BY <1>7, <3>5, <3>6
      <4> QED BY <1>6, <2>1, <3>2, <3>6, <4>1, FillsNext
    <3>8. l <= 1
      BY <1>m, <2>1
    <3> QED BY <1>2, <1>7, <3>1, <3>7, <3>8
  <2>2. CASE start >= D
    <3>1. b = a /\ start >= I
      BY <1>0, <1>m, <1>2, <2>2
    <3> QED BY <1>6, <2>2, <3>1 DEF Fills
  <2> QED BY <2>1, <2>2
<1>9. PICK nb \in 0 .. len : nb = Len(b)
  BY <1>0, <1>8, FillsLen
<1>10. Fills(c, start, len, T)
  <2>1. CASE start < T
    <3>1. PICK r : r = E!get_dind_block(start - D, len - nb)
      OBVIOUS
    <3>2. PICK s \in Nat : s = E!Clamp(start - D)
      BY ClampFacts
    <3>3. s < PerBlock * PerBlock /\ Q = T - D
      BY <1>0, <2>1, <3>2 DEF E!Clamp
    <3>4. start - D \in Int /\ len - nb \in Nat
      BY <1>9
    <3>5. /\ r \in Seq(Int) /\ Len(r) = E!Least(len - nb, PerBlock * PerBlock - s)
          /\ \A x \in 1 .. Len(r) : r[x] = E!Dind + s + x - 1
      <4>1. DindOK(E!get_dind_block(start - D, len - nb), len - nb, s)
        BY <3>2, <3>3, <3>4, DindFacts
      <4> QED BY <3>1, <4>1 DEF DindOK
    <3>6. /\ Len(r) = E!Least(len - nb, T - D - s) /\ D <= T
          /\ \A x \in 1 .. Len(r) : r[x] = D + s + x - 1
      BY <1>0, <3>3, <3>5
    <3>7. Fills(b \o r, start, len, T)
      <4>1. Layer(r, D + s, E!Least(len - Len(b), T - D - s))
        BY <1>9, <3>5, <3>6 DEF Layer
      <4> QED BY <1>8, <2>1, <3>2, <3>6, <4>1, FillsNext
    <3>8. l <= 2
      BY <1>m, <2>1
    <3> QED BY <1>3, <1>9, <3>1, <3>7, <3>8
  <2>2. CASE start >= T
    <3>1. c = b /\ start >= D
      BY <1>0, <1>m, <1>3, <2>2
    <3> QED BY <1>8, <2>2, <3>1 DEF Fills
  <2> QED BY <2>1, <2>2
<1>11. PICK nc \in 0 .. len : nc = Len(c)
  BY <1>0, <1>10, FillsLen
<1>12. PICK s \in Nat : s = E!Clamp(start - T)
  BY ClampFacts
<1>13. /\ t \in Seq(Int)
       /\ s < Q => /\ Len(t) >= E!Least(len - nc, Q - s)
                   /\ \A x \in 1 .. E!Least(len - nc, Q - s) : t[x] = T + s + x - 1
  <2>1. start - T \in Int /\ len - nc \in Nat
    OBVIOUS
  <2>2. t = E!get_tind_block(start - T, len - nc)
    BY <1>4, <1>11
  <2>3. /\ t \in Seq(Int)
        /\ s < PerBlock * PerBlock =>
             /\ Len(t) >= E!Least(len - nc, PerBlock * PerBlock - s)
             /\ \A x \in 1 .. E!Least(len - nc, PerBlock * PerBlock - s) : t[x] = E!Tind + s + x - 1
    <3>1. TindOK(E!get_tind_block(start - T, len - nc), len - nc, s)
      BY <1>12, <2>1, TindFacts
    <3> QED BY <2>2, <3>1 DEF TindOK
  <2> QED BY <1>0, <2>3
<1>14. PICK nt \in Nat : nt = Len(t)
  BY <1>13
<1>15. c \in Seq(Int) /\ \A i \in 1 .. nc : c[i] = start + i - 1
  BY <1>10, <1>11 DEF Fills
<1>16. /\ Cat(c, t) \in Seq(Int) /\ Len(Cat(c, t)) = nc + nt
       /\ \A x \in 1 .. nc : Cat(c, t)[x] = c[x]
       /\ \A x \in 1 .. nt : Cat(c, t)[nc + x] = t[x]
  BY <1>11, <1>13, <1>14, <1>15, CatFacts
<1>17. nc = IF start >= T THEN 0 ELSE E!Least(len, T - start)
  BY <1>10, <1>11 DEF Fills
<1>18. s = IF start >= T THEN start - T ELSE 0
  BY <1>12 DEF E!Clamp
<1>19. \A i \in 1 .. len : start + i - 1 < T + Q =>
          i <= nc + nt /\ Cat(c, t)[i] = start + i - 1
  <2> SUFFICES ASSUME NEW i \in 1 .. len, start + i - 1 < T + Q
               PROVE  i <= nc + nt /\ Cat(c, t)[i] = start + i - 1
    OBVIOUS
  <2>1. CASE i <= nc
    <3>1. i \in 1 .. nc
      BY <2>1
    <3> QED BY <1>15, <1>16, <3>1
  <2>2. CASE i > nc
    <3>1. PICK x \in Nat \ {0} : i = nc + x
      <4>1. i - nc \in Nat \ {0} /\ i = nc + (i - nc)
        BY <2>2
      <4> QED BY <4>1
    <3>2. s < Q /\ T + s = start + nc
      BY <1>17, <1>18, <2>2 DEF E!Least
    <3>3. x \in 1 .. E!Least(len - nc, Q - s)
      BY <3>1, <3>2 DEF E!Least
    <3>4. Len(t) >= E!Least(len - nc, Q - s) /\ t[x] = T + s + x - 1
      BY <1>13, <3>2, <3>3
    <3>5. E!Least(len - nc, Q - s) \in Int
      BY DEF E!Least
    <3>6. x \in 1 .. nt
      BY <1>14, <3>3, <3>4, <3>5
    <3>7. Cat(c, t)[nc + x] = t[x]
      BY <1>16, <3>6
    <3>8. Cat(c, t)[i] = T + s + x - 1
      BY <3>1, <3>4, <3>7
    <3> QED BY <3>1, <3>2, <3>6, <3>8
  <2> QED BY <2>1, <2>2
<1>20. Maps(Cat(c, t), start, len, T + Q)
  BY <1>16, <1>19 DEF Maps
<1> QED BY <1>0, <1>5, <1>20 DEF Cat

-----------------------------------------------------------------------------
(* One read() *)

LEMMA Times ==
    ASSUME NEW K \in Nat, NEW a \in Int, NEW c \in Int
    PROVE  /\ a * K \in Int /\ K * a = a * K /\ (a + 1) * K = a * K + K /\ (a - 1) * K = a * K - K
           /\ (a + c) * K = a * K + c * K
           /\ a <= c => a * K <= c * K
BY SMT

LEMMA CeilSplit ==
    ASSUME NEW K \in Nat \ {0}, NEW q \in Nat, NEW r \in 0 .. K - 1, NEW a, a = K * q + r
    PROVE  E!Ceil(a, K) = IF r = 0 THEN q ELSE q + 1
<1>0. PICK p \in Int : p = K * q
  BY SMT
<1>1. a + K - 1 \in Int /\ a \in Int
  BY <1>0
<1>2. PICK u \in Int, v \in 0 .. K - 1 : u = (a + K - 1) \div K /\ a + K - 1 = K * u + v
  <2>1. PICK d \in Int : d = a + K - 1
    BY <1>1
  <2>2. d % K \in 0 .. K - 1 /\ d \div K \in Int /\ d = (K * (d \div K)) + (d % K)
    BY Split
  <2> QED BY <2>1, <2>2
<1>3. E!Ceil(a, K) = u
  BY <1>2 DEF E!Ceil
<1>4. CASE r = 0
  <2>1. K * q + (K - 1) = K * u + v /\ K - 1 \in 0 .. K - 1
    BY <1>0, <1>2, <1>4
  <2>2. q = u
    BY <2>1, Unique
  <2> QED BY <1>3, <1>4, <2>2
<1>5. CASE r # 0
  <2>1. K * (q + 1) = p + K
    BY <1>0, SMT
  <2>2. K * (q + 1) + (r - 1) = K * u + v /\ r - 1 \in 0 .. K - 1 /\ q + 1 \in Int
    BY <1>0, <1>2, <1>5, <2>1
  <2>3. q + 1 = u
    BY <2>2, Unique
  <2> QED BY <1>3, <1>5, <2>3
<1> QED BY <1>4, <1>5

LEMMA CeilFacts ==
    ASSUME NEW K \in Nat \ {0}, NEW a \in Nat
    PROVE  \E n \in Nat : /\ n = E!Ceil(a, K) /\ a <= n * K /\ (n - 1) * K < a
                          /\ a % K = (IF a = n * K THEN 0 ELSE a - (n - 1) * K)
<1>1. PICK q \in Int, r \in 0 .. K - 1 : r = a % K /\ a = K * q + r
  <2>1. a % K \in 0 .. K - 1 /\ a \div K \in Int /\ a = (K * (a \div K)) + (a % K)
    BY Split
  <2> QED BY <2>1
<1>2. q \in Nat
  <2> SUFFICES ASSUME q < 0 PROVE FALSE
    OBVIOUS
  <2>1. K * q <= -K
    BY SMT
  <2> QED BY <1>1, <2>1
<1>3. E!Ceil(a, K) = IF r = 0 THEN q ELSE q + 1
  <2>1. a = K * q + r
    BY <1>1
  <2> QED BY <1>2, <2>1, CeilSplit
<1>4. PICK p \in Int : p = q * K /\ K * q = p /\ (q + 1) * K = p + K /\ (q - 1) * K = p - K
  BY Times
<1>5. CASE r = 0
  <2>1. a = p
    BY <1>1, <1>4, <1>5
  <2>2. q = E!Ceil(a, K)
    BY <1>3, <1>5
  <2>3. a = q * K
    BY <1>4, <2>1
  <2>4. (q - 1) * K < a /\ a <= q * K
    <3>1. p - K < p /\ a <= a
      OBVIOUS
    <3> QED BY <1>4, <2>1, <2>3, <3>1
  <2>5. a % K = (IF a = q * K THEN 0 ELSE a - (q - 1) * K)
    BY <1>1, <1>5, <2>3, Zenon
  <2> QED BY <1>2, <2>2, <2>4, <2>5
<1>6. CASE r # 0
  <2>1. a = p + r /\ (q + 1) - 1 = q
    BY <1>1, <1>4
  <2>2. q + 1 = E!Ceil(a, K)
    BY <1>3, <1>6
  <2>3. ((q + 1) - 1) * K = p
    BY <1>4, <2>1
  <2>4. a <= (q + 1) * K /\ ((q + 1) - 1) * K < a /\ a # (q + 1) * K /\ a - ((q + 1) - 1) * K = r
    BY <1>4, <1>6, <2>1, <2>3
  <2>5. a % K = (IF a = (q + 1) * K THEN 0 ELSE a - ((q + 1) - 1) * K)
    BY <1>1, <2>4
  <2>6. q + 1 \in Nat
    BY <1>2
  <2> QED BY <2>2, <2>4, <2>5, <2>6
<1> QED BY <1>5, <1>6

LEMMA BytesType ==
    ASSUME NEW bl \in Seq(Int), NEW i \in Nat \ {0}, NEW off \in Nat, NEW len \in Nat, file.size \in Nat
    PROVE  E!Bytes(bl, i, off, len) \in Seq(Int) /\ Len(E!Bytes(bl, i, off, len)) = len
<1>1. BlockSize \in Nat
  BY ExtAssumption
<1>2. PICK f : f = E!Bytes(bl, i, off, len)
  OBVIOUS
<1>3. \A k \in 1 .. len : f[k] \in Int
  <2> TAKE k \in 1 .. len
  <2>1. CASE i > Len(bl) \/ off + k - 1 >= BlockSize
    BY <1>2, <2>1 DEF E!Bytes, E!Junk
  <2>2. CASE ~(i > Len(bl) \/ off + k - 1 >= BlockSize)
    <3>1. i \in 1 .. Len(bl)
      BY <2>2
    <3>2. PICK v \in Int : v = bl[i]
      BY <3>1
    <3>3. PICK w \in Int : w = bl[i] * BlockSize
      BY <1>1, <3>2, SMT
    <3>4. w + (off + k - 1) \in Int
      BY <3>3
    <3>5. f[k] = IF w + (off + k - 1) >= file.size THEN E!Junk ELSE w + (off + k - 1)
      BY <1>2, <2>2, <3>3 DEF E!Bytes
    <3> QED BY <3>4, <3>5 DEF E!Junk
  <2> QED BY <2>1, <2>2
<1>4. f = [k \in 1 .. len |-> f[k]]
  BY <1>2 DEF E!Bytes
<1>5. f \in Seq(Int) /\ Len(f) = len
  <2>1. f \in [1 .. len -> Int]
    BY <1>3, <1>4
  <2> QED BY <2>1
<1> QED BY <1>2, <1>5

LEMMA BytesValue ==
    ASSUME NEW bl, NEW start \in Nat, NEW n \in Nat, NEW lim \in Nat, Maps(bl, start, n, lim),
           NEW i \in 1 .. n, start + i - 1 < lim, NEW off \in Nat, NEW len \in Nat, NEW k \in 1 .. len,
           off + k - 1 < BlockSize, NEW w \in Int, w = (start + i - 1) * BlockSize,
           w + off + k - 1 < file.size, file.size \in Nat
    PROVE  E!Bytes(bl, i, off, len)[k] = w + off + k - 1
<1>1. bl \in Seq(Int) /\ i <= Len(bl) /\ bl[i] = start + i - 1
  BY DEF Maps
<1>2. BlockSize \in Nat /\ Len(bl) \in Nat
  BY <1>1, ExtAssumption
<1>3. ~(i > Len(bl) \/ off + k - 1 >= BlockSize)
  BY <1>1, <1>2
<1>4. bl[i] * BlockSize = w
  BY <1>1
<1>5. E!Bytes(bl, i, off, len)[k] =
        IF w + (off + k - 1) >= file.size THEN E!Junk ELSE w + (off + k - 1)
  BY <1>3, <1>4 DEF E!Bytes
<1>6. ~(w + (off + k - 1) >= file.size) /\ w + (off + k - 1) = w + off + k - 1
  OBVIOUS
<1> QED BY <1>5, <1>6

\* The parts of a read of `real' bytes in n blocks: all but the last are whole.
Parts(bl, n, off, real) ==
    [i \in 1 .. n |-> E!Bytes(bl, i, IF i = 1 THEN off ELSE 0,
                              IF i = n THEN real - (n - 1) * BlockSize ELSE BlockSize)]

\* A read of `real' bytes at f_pos, of which the map knows the blocks below lim.
Delivered(F, real, lim) ==
    /\ F \in Seq(Int) /\ Len(F) = real
    /\ \A x \in 1 .. real :
         f_pos + x - 1 < file.size /\ file.size <= lim * BlockSize => F[x] = f_pos + x - 1

\* The position and the size of a read, in blocks.
At(start, off, n, real) ==
    /\ start \in Nat /\ off \in 0 .. BlockSize - 1 /\ n \in Nat /\ real \in Nat
    /\ f_pos = start * BlockSize + off
    /\ real <= n * BlockSize /\ (n - 1) * BlockSize < real
    /\ off = 0 \/ (n <= 1 /\ off + real <= BlockSize)

LEMMA ReadPart ==
    ASSUME NEW start, NEW off, NEW n, NEW real, At(start, off, n, real), file.size \in Nat,
           NEW bl \in Seq(Int), NEW i \in 1 .. n, NEW q, q = Parts(bl, n, off, real)
    PROVE  \E o \in Nat, l \in Nat :
             /\ q[i] = E!Bytes(bl, i, o, l) /\ q[i] \in Seq(Int) /\ Len(q[i]) = l
             /\ o = (IF i = 1 THEN off ELSE 0) /\ o + l <= BlockSize
             /\ l = IF i = n THEN real - (n - 1) * BlockSize ELSE BlockSize
<1>1. PICK K \in Nat \ {0} : K = BlockSize
  BY ExtAssumption
<1>2. /\ start \in Nat /\ off \in 0 .. K - 1 /\ n \in Nat /\ real \in Nat
      /\ real <= n * K /\ (n - 1) * K < real
      /\ off = 0 \/ (n <= 1 /\ off + real <= K)
  BY <1>1 DEF At
<1>3. PICK p \in Int : p = (n - 1) * K /\ n * K = p + K
  <2>1. n \in Int /\ K \in Nat
    BY <1>2
  <2>2. (n - 1) * K = n * K - K /\ n * K \in Int
    BY <2>1, Times
  <2> QED BY <2>2
<1>4. n = 1 => p = 0
  BY <1>3, SMT
<1>5. PICK l \in Nat : l = (IF i = n THEN real - p ELSE K) /\ l <= K
  <2>1. real \in Nat /\ real <= p + K /\ p < real
    BY <1>2, <1>3
  <2>2. real - p \in Nat /\ real - p <= K /\ K \in Nat /\ K <= K
    BY <2>1
  <2> QED BY <2>2
<1>6. PICK o \in Nat : o = IF i = 1 THEN off ELSE 0
  BY <1>2
<1>7. o + l <= K
  <2>1. CASE o = 0
    BY <1>5, <2>1
  <2>2. CASE o # 0
    <3>1. i = 1 /\ o = off /\ n <= 1 /\ off + real <= K
      BY <1>2, <1>6, <2>2
    <3>2. n = 1 /\ i = n
      BY <1>2, <3>1
    <3>3. l = real
      BY <1>2, <1>4, <1>5, <3>2
    <3> QED BY <1>2, <3>1, <3>3
  <2> QED BY <2>1, <2>2
<1>8. q[i] = E!Bytes(bl, i, o, l)
  BY <1>1, <1>3, <1>5, <1>6 DEF Parts
<1>9. i \in Nat \ {0}
  BY <1>2
<1>10. E!Bytes(bl, i, o, l) \in Seq(Int) /\ Len(E!Bytes(bl, i, o, l)) = l
  BY <1>9, BytesType
<1> QED BY <1>1, <1>3, <1>5, <1>6, <1>7, <1>8, <1>10

LEMMA ReadFacts ==
    ASSUME NEW start, NEW off, NEW n, NEW real, At(start, off, n, real), file.size \in Nat,
           NEW bl, NEW lim \in Nat, Maps(bl, start, n, lim)
    PROVE  Delivered(E!FlattenSeq(Parts(bl, n, off, real)), real, lim)
<1>1. PICK K \in Nat \ {0} : K = BlockSize
  BY ExtAssumption
<1>2. /\ start \in Nat /\ off \in 0 .. K - 1 /\ n \in Nat /\ real \in Nat
      /\ f_pos = start * K + off
      /\ real <= n * K /\ (n - 1) * K < real
      /\ off = 0 \/ (n <= 1 /\ off + real <= K)
  BY <1>1 DEF At
<1>3. bl \in Seq(Int)
  BY DEF Maps
<1>4. PICK q : q = Parts(bl, n, off, real)
  OBVIOUS
<1>5. \A i \in 1 .. n : \E o \in Nat, l \in Nat :
             /\ q[i] = E!Bytes(bl, i, o, l) /\ q[i] \in Seq(Int) /\ Len(q[i]) = l
             /\ o = (IF i = 1 THEN off ELSE 0) /\ o + l <= K
             /\ l = IF i = n THEN real - (n - 1) * K ELSE K
  BY <1>1, <1>3, <1>4, ReadPart
<1>6. q \in [1 .. n -> Seq(Int)]
  <2>1. \A i \in 1 .. n : q[i] \in Seq(Int)
    BY <1>5
  <2> QED BY <1>4, <2>1 DEF Parts
<1>7. PICK b : b = [j \in 1 .. n + 1 |-> IF j = n + 1 THEN real ELSE (j - 1) * K]
  OBVIOUS
<1>t. \A j \in Int : (j - 1) * K \in Int /\ ((j + 1) - 1) * K = (j - 1) * K + K
  <2> TAKE j \in Int
  <2>1. PICK a \in Int : a = j - 1 /\ (j + 1) - 1 = a + 1
    OBVIOUS
  <2>2. a * K \in Int /\ (a + 1) * K = a * K + K
    BY Times
  <2> QED BY <2>1, <2>2
<1>8. b \in [1 .. n + 1 -> Int] /\ b[n + 1] = real /\ \A j \in 1 .. n : b[j] = (j - 1) * K
  <2>1. \A j \in 1 .. n + 1 : (IF j = n + 1 THEN real ELSE (j - 1) * K) \in Int
    BY <1>2, <1>t
  <2>2. \A j \in 1 .. n : j \in 1 .. n + 1 /\ j # n + 1
    BY <1>2
  <2>3. n + 1 \in 1 .. n + 1
    BY <1>2
  <2> QED BY <1>7, <2>1, <2>2, <2>3
<1>9. \A j \in 1 .. n : Len(q[j]) = b[j + 1] - b[j]
  <2> TAKE j \in 1 .. n
  <2>1. Len(q[j]) = IF j = n THEN real - (n - 1) * K ELSE K
    BY <1>5
  <2>2. CASE j = n
    BY <1>8, <2>1, <2>2
  <2>3. CASE j # n
    <3>1. j + 1 \in 1 .. n /\ j \in Int
      BY <1>2, <2>3
    <3>2. PICK c \in Int : c = (j - 1) * K /\ ((j + 1) - 1) * K = c + K
      BY <1>t, <3>1
    <3>3. b[j + 1] = c + K /\ b[j] = c
      BY <1>8, <3>1, <3>2
    <3> QED BY <2>1, <2>3, <3>3
  <2> QED BY <2>2, <2>3
<1>10. b[1] = 0
  <2>1. CASE n = 0
    <3>1. n * K = 0
      BY <2>1, SMT
    <3> QED BY <1>2, <1>8, <2>1, <3>1
  <2>2. CASE n # 0
    <3>1. 1 \in 1 .. n /\ (1 - 1) * K = 0
      BY <1>2, <2>2, SMT
    <3> QED BY <1>8, <3>1
  <2> QED BY <2>1, <2>2
<1>11. PICK F : F = E!FlattenSeq(q)
  OBVIOUS
<1>12. Made(q, b, F, n)
  BY <1>2, <1>6, <1>8, <1>9, <1>11, FlattenMade
<1>13. /\ F \in Seq(Int) /\ Len(F) = real
       /\ \A x \in 1 .. real : \E j \in 1 .. n : \E k \in 1 .. Len(q[j]) :
            x = b[j] - 0 + k /\ F[x] = q[j][k]
  <2>1. /\ F \in Seq(Int) /\ Len(F) = real - 0
        /\ \A x \in 1 .. Len(F) : \E j \in 1 .. n : \E k \in 1 .. Len(q[j]) :
             x = b[j] - 0 + k /\ F[x] = q[j][k]
    <3>1. /\ F \in Seq(Int) /\ Len(F) = b[n + 1] - b[1]
          /\ \A x \in 1 .. Len(F) : \E j \in 1 .. n : \E k \in 1 .. Len(q[j]) :
               x = b[j] - b[1] + k /\ F[x] = q[j][k]
      BY <1>12 DEF Made
    <3>2. b[n + 1] = real /\ b[1] = 0
      BY <1>8, <1>10
    <3> QED BY <3>1, <3>2, SMTT(60)
  <2>2. real - 0 = real
    BY <1>2
  <2> QED BY <2>1, <2>2, Zenon
<1>14. ASSUME NEW x \in 1 .. real, f_pos + x - 1 < file.size, file.size <= lim * K
       PROVE  F[x] = f_pos + x - 1
  <2>1. PICK j \in 1 .. n : \E k \in 1 .. Len(q[j]) : x = b[j] - 0 + k /\ F[x] = q[j][k]
    BY <1>13
  <2>2. PICK k \in 1 .. Len(q[j]) : x = b[j] - 0 + k /\ F[x] = q[j][k]
    BY <2>1
  <2>3. PICK o \in Nat, l \in Nat :
             /\ q[j] = E!Bytes(bl, j, o, l) /\ Len(q[j]) = l
             /\ o = (IF j = 1 THEN off ELSE 0) /\ o + l <= K
    BY <1>5
  <2>4. PICK c \in Int : c = (j - 1) * K /\ b[j] = c
    BY <1>8, <1>t
  <2>5. x = c + k /\ k \in 1 .. l /\ k \in Int
    BY <2>2, <2>3, <2>4
  <2>6. PICK w \in Int : w = (start + j - 1) * K
    <3>1. start + j - 1 \in Int
      BY <1>2
    <3> QED BY <3>1, Times
  <2>7. PICK u \in Int : u = start * K
    BY <1>2, Times
  <2>8. w = u + c
    <3>1. PICK y \in Int : y = j - 1 /\ start + j - 1 = start + y
      BY <1>2
    <3>2. (start + y) * K = start * K + y * K
      BY <1>2, Times
    <3> QED BY <2>4, <2>6, <2>7, <3>1, <3>2
  <2>9. w + o + k - 1 = f_pos + x - 1
    <3>1. f_pos = u + off
      BY <1>2, <2>7
    <3>2. CASE j = 1
      <4>1. o = off
        BY <2>3, <3>2
      <4> QED BY <1>2, <2>5, <2>8, <3>1, <4>1
    <3>3. CASE j # 1
      <4>1. o = 0 /\ off = 0
        BY <1>2, <2>3, <3>3
      <4> QED BY <2>5, <2>8, <3>1, <4>1
    <3> QED BY <3>2, <3>3
  <2>10. o + k - 1 < K
    BY <2>3, <2>5
  <2>11. w + o + k - 1 < file.size
    BY <1>14, <2>9
  <2>12. start + j - 1 < lim
    <3> SUFFICES ASSUME ~(start + j - 1 < lim) PROVE FALSE
      OBVIOUS
    <3>1. PICK y \in Int : y = start + j - 1 /\ lim <= y
      BY <1>2
    <3>2. lim * K <= y * K /\ lim * K \in Int
      <4>1. lim \in Int /\ y \in Int /\ K \in Nat /\ lim <= y
        BY <3>1
      <4>2. lim <= y => lim * K <= y * K
        BY <4>1, Times, Zenon
      <4>3. lim * K \in Int
        BY <4>1, Times, Zenon
      <4> QED BY <4>1, <4>2, <4>3, Zenon
    <3>3. lim * K <= w /\ lim * K \in Int
      BY <2>6, <3>1, <3>2
    <3> QED BY <1>14, <2>5, <2>11, <3>3
  <2>13. E!Bytes(bl, j, o, l)[k] = w + o + k - 1
    BY <1>1, <1>2, <2>5, <2>6, <2>10, <2>11, <2>12, BytesValue
  <2> QED BY <2>2, <2>3, <2>9, <2>13
<1>15. Delivered(F, real, lim)
  BY <1>1, <1>13, <1>14 DEF Delivered
<1> QED BY <1>4, <1>11, <1>15

LEMMA AtFacts ==
    ASSUME f_pos \in Nat, NEW real \in Nat, f_pos % BlockSize = 0 \/ (f_pos % BlockSize) + real <= BlockSize
    PROVE  At(f_pos \div BlockSize, f_pos % BlockSize, E!Ceil(real, BlockSize), real)
<1>1. PICK K \in Nat \ {0} : K = BlockSize
  BY ExtAssumption
<1>2. PICK start \in Int, off \in 0 .. K - 1 :
        start = f_pos \div K /\ off = f_pos % K /\ f_pos = K * start + off
  <2>1. f_pos % K \in 0 .. K - 1 /\ f_pos \div K \in Int /\ f_pos = (K * (f_pos \div K)) + (f_pos % K)
    BY Split
  <2> QED BY <2>1
<1>3. start \in Nat
  <2> SUFFICES ASSUME start < 0 PROVE FALSE
    OBVIOUS
  <2>1. K * start <= -K
    BY SMT
  <2>2. f_pos = K * start + off
    BY <1>2
  <2> QED BY <2>1, <2>2
<1>4. f_pos = start * K + off
  <2>1. K * start = start * K
    BY Times
  <2> QED BY <1>2, <2>1
<1>5. PICK n \in Nat : n = E!Ceil(real, K) /\ real <= n * K /\ (n - 1) * K < real
  BY CeilFacts
<1>6. off = 0 \/ (n <= 1 /\ off + real <= K)
  <2> SUFFICES ASSUME off # 0 PROVE n <= 1 /\ off + real <= K
    OBVIOUS
  <2>1. off + real <= K
    BY <1>1, <1>2
  <2>2. PICK a \in Int : a = n - 1
    OBVIOUS
  <2>3. ASSUME n > 1 PROVE FALSE
    <3>1. 1 <= a
      BY <2>2, <2>3
    <3>2. 1 * K <= a * K
      BY <3>1, Times
    <3>3. 1 * K = K
      OBVIOUS
    <3>4. PICK p \in Int : p = a * K
      BY Times
    <3>5. p < real
      BY <1>5, <2>2, <3>4
    <3> QED BY <2>1, <3>2, <3>3, <3>4, <3>5
  <2> QED BY <2>1, <2>3
<1> QED BY <1>1, <1>2, <1>3, <1>4, <1>5, <1>6 DEF At

LEMMA Read2Parts ==
    ASSUME NEW real \in Nat, NEW bl, NEW off, NEW n, off = f_pos % BlockSize,
           n = E!Ceil(real, BlockSize), off = 0 \/ n <= 1, off \in Nat
    PROVE  E!Read2(real, bl) = E!FlattenSeq(Parts(bl, n, off, real))
<1>1. PICK K \in Nat \ {0} : K = BlockSize
  BY ExtAssumption
<1>2. /\ n \in Nat /\ real <= n * K /\ (n - 1) * K < real
      /\ real % K = (IF real = n * K THEN 0 ELSE real - (n - 1) * K)
  BY <1>1, CeilFacts
<1>3. PICK p \in Int : p = (n - 1) * K /\ n * K = p + K
  <2>1. (n - 1) * K = n * K - K /\ n * K \in Int
    BY <1>2, Times
  <2> QED BY <2>1
<1>4. PICK m \in Int : m = real % K /\ m = IF real = p + K THEN 0 ELSE real - p
  BY <1>2, <1>3
<1>5. (IF m = 0 THEN K ELSE m) = real - p
  <2>1. p < real
    BY <1>2, <1>3
  <2>2. CASE real = p + K
    BY <1>4, <2>2
  <2>3. CASE real # p + K
    BY <1>4, <2>1, <2>3
  <2> QED BY <2>2, <2>3
<1> DEFINE last == IF real % K = 0 THEN K ELSE real % K
           len(i) == IF i = n THEN last ELSE IF i = 1 THEN K - off ELSE K
           o(i) == IF i = 1 THEN off ELSE 0
<1>6. last = real - (n - 1) * K
  BY <1>3, <1>4, <1>5
<1>7. \A i \in 1 .. n : len(i) = IF i = n THEN real - (n - 1) * K ELSE K
  <2> TAKE i \in 1 .. n
  <2>1. CASE i = n
    BY <1>6, <2>1
  <2>2. CASE i # n /\ i = 1
    <3>1. off = 0
      BY <1>2, <2>2
    <3>2. K - off = K
      BY <3>1
    <3> QED BY <2>2, <3>2
  <2>3. CASE i # n /\ i # 1
    BY <2>3
  <2> QED BY <2>1, <2>2, <2>3
<1>8. E!Read2(real, bl) = E!FlattenSeq([i \in 1 .. n |-> E!Bytes(bl, i, o(i), len(i))])
  BY <1>1 DEF E!Read2
<1> HIDE DEF len, last
<1>9. [i \in 1 .. n |-> E!Bytes(bl, i, o(i), len(i))] = Parts(bl, n, off, real)
  BY <1>1, <1>7 DEF Parts
<1> QED BY <1>8, <1>9

LEMMA Read4Parts ==
    ASSUME NEW size, NEW bl, NEW n, n = E!Ceil(size, BlockSize)
    PROVE  E!Read4(size, bl) = E!FlattenSeq(Parts(bl, n, 0, size))
<1> DEFINE len(i) == IF i = n THEN size - (n - 1) * BlockSize ELSE BlockSize
<1>1. E!Read4(size, bl) = E!FlattenSeq([i \in 1 .. n |-> E!Bytes(bl, i, 0, len(i))])
  BY DEF E!Read4
<1>2. [i \in 1 .. n |-> E!Bytes(bl, i, 0, len(i))] = Parts(bl, n, 0, size)
  BY DEF Parts
<1> QED BY <1>1, <1>2

\* The extents of a file are numbers of blocks, and ext2 has none.
FileOK ==
    /\ file.size \in Nat /\ file.fs \in {"ext2", "ext4"}
    /\ file.fs = "ext2" => file.extents = <<>>
    /\ file.extents # <<>> => file.extents[1] \in Nat

LEMMA BlocksMapped ==
    ASSUME FileOK, NEW start \in Nat, NEW n \in Nat
    PROVE  /\ E!MapLimit \in Nat
           /\ file.fs = "ext2" => Maps(E!get_block_indexs(start, n), start, n, E!MapLimit)
           /\ Maps(E!ext4_get_blknums(start, n), start, n, E!MapLimit)
<1>1. Maps(E!get_block_indexs(start, n), start, n, E!Tind + PerBlock * PerBlock)
  BY IndexMaps
<1>2. E!Tind + PerBlock * PerBlock \in Nat
  BY LayerTypes
<1>3. CASE file.extents = <<>>
  <2>1. E!MapLimit = E!Tind + PerBlock * PerBlock
    BY <1>3 DEF E!MapLimit
  <2>2. E!ext4_get_blknums(start, n) = E!get_block_indexs(start, n)
    BY <1>3 DEF E!ext4_get_blknums
  <2> QED BY <1>1, <1>2, <2>1, <2>2
<1>4. CASE file.extents # <<>>
  <2>1. PICK lim \in Nat : lim = E!Found /\ E!MapLimit = lim /\ file.fs # "ext2"
    BY <1>4 DEF E!MapLimit, E!Found, FileOK
  <2>2. PICK m \in Nat : m = E!Clamp(E!Least(n, lim - start))
    BY DEF E!Clamp, E!Least
  <2>3. E!ext4_get_blknums(start, n) = [i \in 1 .. m |-> start + i - 1]
    BY <1>4, <2>1, <2>2 DEF E!ext4_get_blknums, E!ext4_get_extent_blkbums
  <2>4. PICK f : f = [i \in 1 .. m |-> start + i - 1]
    OBVIOUS
  <2>5. f \in Seq(Int) /\ Len(f) = m
    BY <2>4
  <2>6. \A i \in 1 .. n : start + i - 1 < lim => i <= m
    BY <2>2 DEF E!Clamp, E!Least
  <2>7. \A i \in 1 .. n : start + i - 1 < lim => i <= Len(f) /\ f[i] = start + i - 1
    BY <2>4, <2>5, <2>6
  <2>8. Maps(f, start, n, lim)
    BY <2>5, <2>7 DEF Maps
  <2> QED BY <2>1, <2>3, <2>4, <2>8
<1> QED BY <1>3, <1>4

\* A read of a whole number of blocks, or of a part of one that divides it,
\* never begins within a block and ends within the next.
LEMMA InOneBlock ==
    ASSUME NEW c \in Chunks, NEW m \in Nat, f_pos = c * m
    PROVE  f_pos % BlockSize = 0 \/ (f_pos % BlockSize) + c <= BlockSize
<1>1. PICK K \in Nat \ {0} : K = BlockSize
  BY ExtAssumption
<1>2. c \in Nat \ {0} /\ (c % K = 0 \/ K % c = 0)
  BY <1>1, ExtAssumption, ChunksAligned
<1>3. PICK p \in Int : p = c * m /\ p = f_pos
  BY <1>2, SMT
<1>4. PICK s \in Int, off \in 0 .. K - 1 : off = f_pos % K /\ p = K * s + off
  <2>1. p % K \in 0 .. K - 1 /\ p \div K \in Int /\ p = (K * (p \div K)) + (p % K)
    BY Split
  <2> QED BY <1>3, <2>1
<1>5. CASE c % K = 0
  <2>1. PICK d \in Int : c = K * d
    <3>1. c % K \in 0 .. K - 1 /\ c \div K \in Int /\ c = (K * (c \div K)) + (c % K)
      BY <1>2, Split
    <3>2. c = (K * (c \div K)) + 0
      BY <1>5, <3>1
    <3>3. PICK e \in Int : e = c \div K
      BY <3>1
    <3>4. K * e \in Int
      BY SMT
    <3>5. c = K * e
      BY <3>2, <3>3, <3>4
    <3> QED BY <3>5
  <2>2. PICK e \in Int : e = d * m
    BY SMT
  <2>3. p = K * e
    BY <1>3, <2>1, <2>2, SMT
  <2>4. K * e + 0 = K * s + off /\ 0 \in 0 .. K - 1
    BY <1>3, <1>4, <2>3
  <2>5. off = 0
    BY <2>4, Unique
  <2> QED BY <1>1, <1>4, <2>5
<1>6. CASE K % c = 0
  <2>1. PICK d \in Int : K = c * d
    <3>1. K % c \in 0 .. c - 1 /\ K \div c \in Int /\ K = (c * (K \div c)) + (K % c)
      BY <1>2, Split
    <3>2. K = (c * (K \div c)) + 0
      BY <1>6, <3>1
    <3>3. PICK e \in Int : e = K \div c
      BY <3>1
    <3>4. c * e \in Int
      BY <1>2, SMT
    <3>5. K = c * e
      BY <3>2, <3>3, <3>4
    <3> QED BY <3>5
  <2>2. PICK e \in Int : e = d * s
    BY SMT
  <2>3. K * s = c * e
    BY <1>2, <2>1, <2>2, SMT
  <2>4. PICK g \in Int : g = m - e
    OBVIOUS
  <2>5. off = c * g
    <3>1. c * g = c * m - c * e
      BY <1>2, <2>4, SMT
    <3>2. c * e \in Int
      BY <1>2, SMT
    <3>3. p = c * e + off
      BY <1>4, <2>3
    <3> QED BY <1>3, <3>1, <3>2, <3>3
  <2>6. g < d
    <3> SUFFICES ASSUME d <= g PROVE FALSE
      OBVIOUS
    <3>1. c * d <= c * g
      BY <1>2, SMT
    <3> QED BY <2>1, <2>5, <3>1
  <2>7. off + c <= K
    <3>1. g + 1 <= d
      BY <2>6
    <3>2. c * (g + 1) <= c * d
      BY <1>2, <3>1, SMT
    <3>3. c * (g + 1) = c * g + c
      BY <1>2, SMT
    <3> QED BY <1>2, <2>1, <2>5, <3>2, <3>3
  <2> QED BY <1>1, <1>4, <2>7
<1> QED BY <1>2, <1>5, <1>6

\* How much more than the file the memory may hold: nothing, or what is left
\* of the last read() of ext4.
Slack == IF file.fs = "ext2" THEN 1 ELSE chunk

\* Until the end of the file is reached, every read() has been a whole one.
Whole == f_pos < file.size => \E m \in Nat : f_pos = chunk * m

\* What is in memory is the file, as far as the block map reaches.
Content ==
    file.size <= E!MapLimit * BlockSize =>
      \A x \in 1 .. Len(mem) : x <= file.size => mem[x] = x - 1

ExtInv ==
    /\ FileOK /\ chunk \in Chunks /\ chunk \in Nat \ {0}
    /\ mem \in Seq(Int) /\ f_pos = Len(mem)
    /\ f_pos < file.size + Slack
    /\ Whole
    /\ Content
    /\ stop = "end" => f_pos >= file.size

LEMMA ExtStart == E!Init => ExtInv
<1> SUFFICES ASSUME E!Init PROVE ExtInv
  OBVIOUS
<1>1. /\ file \in E!Files /\ chunk \in Chunks /\ f_pos = 0 /\ mem = <<>> /\ stop = "no"
  BY DEF E!Init
<1>2. chunk \in Nat \ {0} /\ MaxSize \in Nat
  BY <1>1, ExtAssumption
<1>3. PICK n \in Nat : n = E!Ceil(MaxSize, BlockSize)
  <2>1. BlockSize \in Nat \ {0}
    BY ExtAssumption
  <2> QED BY <1>2, <2>1, CeilFacts
<1>4. FileOK
  <2>1. CASE file \in [fs : {"ext2"}, size : 0 .. MaxSize, extents : {<<>>}, head : {"leaf"}]
    BY <1>2, <2>1 DEF FileOK
  <2>2. CASE file \in [fs : {"ext4"}, size : 1 .. MaxSize, extents : {<<>>}, head : {"leaf"}]
    BY <1>2, <2>2 DEF FileOK
  <2>3. CASE \E k \in 1 .. MaxSize, e \in {<<1, n>>, <<n>>}, h \in {"leaf", "index", "bad"} :
               file = [fs |-> "ext4", size |-> k, extents |-> e, head |-> h]
    <3>1. PICK k \in 1 .. MaxSize, e \in {<<1, n>>, <<n>>}, h \in {"leaf", "index", "bad"} :
               file = [fs |-> "ext4", size |-> k, extents |-> e, head |-> h]
      BY <2>3
    <3>2. e[1] \in Nat
      <4>1. CASE e = <<1, n>>
        BY <4>1
      <4>2. CASE e = <<n>>
        BY <4>2
      <4> QED BY <3>1, <4>1, <4>2
    <3>3. file.fs = "ext4" /\ file.size = k /\ file.extents = e
      BY <3>1
    <3>4. k \in Nat
      BY <1>2
    <3> QED BY <3>2, <3>3, <3>4 DEF FileOK
  <2> QED BY <1>1, <1>3, <2>1, <2>2, <2>3 DEF E!Files
<1>5. mem \in Seq(Int) /\ Len(mem) = 0
  BY <1>1
<1>6. f_pos < file.size + Slack
  <2>1. Slack \in Nat \ {0} /\ file.size \in Nat
    BY <1>2, <1>4 DEF Slack, FileOK
  <2> QED BY <1>1, <2>1
<1>7. Whole
  <2>1. chunk * 0 = 0
    BY <1>2
  <2> QED BY <1>1, <2>1 DEF Whole
<1>8. Content
  BY <1>5 DEF Content
<1> QED BY <1>1, <1>2, <1>4, <1>5, <1>6, <1>7, <1>8 DEF ExtInv

\* A turn of the loop keeps the invariant if the read is a right one.
LEMMA ExtDeliver ==
    ASSUME ExtInv, NEW data, NEW real \in Nat, Delivered(data, real, E!MapLimit), E!Deliver(data),
           f_pos + real < file.size + Slack, f_pos + real < file.size => real = chunk,
           real = 0 => f_pos >= file.size
    PROVE  ExtInv'
<1>1. /\ FileOK /\ chunk \in Chunks /\ chunk \in Nat \ {0}
      /\ mem \in Seq(Int) /\ f_pos = Len(mem) /\ Whole /\ Content
  BY DEF ExtInv
<1>2. /\ mem' = Cat(mem, data) /\ f_pos' = f_pos + Len(data) /\ file' = file /\ chunk' = chunk
      /\ stop' = IF data = <<>> THEN "end" ELSE "no"
  BY DEF E!Deliver, Cat
<1>3. data \in Seq(Int) /\ Len(data) = real
  BY DEF Delivered
<1>4. PICK p \in Nat : p = f_pos /\ p = Len(mem)
  BY <1>1
<1>5. f_pos' = p + real
  BY <1>2, <1>3, <1>4
<1>6. E!MapLimit' = E!MapLimit /\ Slack' = Slack /\ FileOK'
  BY <1>1, <1>2 DEF E!MapLimit, E!Found, Slack, FileOK
<1>7. /\ Cat(mem, data) \in Seq(Int) /\ Len(Cat(mem, data)) = p + real
      /\ \A x \in 1 .. p : Cat(mem, data)[x] = mem[x]
      /\ \A x \in 1 .. real : Cat(mem, data)[p + x] = data[x]
  <2>1. /\ Cat(mem, data) \in Seq(Int) /\ Len(Cat(mem, data)) = Len(mem) + Len(data)
        /\ \A x \in 1 .. Len(mem) : Cat(mem, data)[x] = mem[x]
        /\ \A x \in 1 .. Len(data) : Cat(mem, data)[Len(mem) + x] = data[x]
    BY <1>1, <1>3, CatFacts
  <2> QED BY <1>3, <1>4, <2>1
<1>8. f_pos' < file'.size + Slack'
  BY <1>2, <1>4, <1>5, <1>6
<1>s. PICK z \in Nat : z = file.size
  BY <1>1 DEF FileOK
<1>9. Whole'
  <2> SUFFICES ASSUME p + real < z PROVE \E m \in Nat : p + real = chunk * m
    BY <1>2, <1>5, <1>s DEF Whole
  <2>1. real = chunk /\ p < z
    BY <1>4, <1>s
  <2>2. PICK m \in Nat : p = chunk * m
    BY <1>1, <1>4, <1>s, <2>1 DEF Whole
  <2>3. chunk * (m + 1) = chunk * m + chunk
    BY <1>1, SMT
  <2>4. m + 1 \in Nat /\ p + real = chunk * (m + 1)
    BY <2>1, <2>2, <2>3
  <2> QED BY <2>4
<1>10. Content'
  <2>1. SUFFICES ASSUME z <= E!MapLimit * BlockSize, NEW x \in 1 .. p + real, x <= z
                 PROVE  Cat(mem, data)[x] = x - 1
    BY <1>2, <1>6, <1>7, <1>s DEF Content
  <2>2. CASE x <= p
    <3>1. x \in 1 .. p
      BY <2>2
    <3>2. mem[x] = x - 1
      BY <1>1, <1>4, <1>s, <2>1, <3>1 DEF Content
    <3> QED BY <1>7, <3>1, <3>2
  <2>3. CASE x > p
    <3>1. PICK y \in 1 .. real : x = p + y
      <4>1. x - p \in 1 .. real /\ x = p + (x - p)
        BY <2>3
      <4> QED BY <4>1
    <3>2. p + y - 1 < z
      BY <2>1, <3>1
    <3>3. data[y] = p + y - 1
      BY <1>4, <1>s, <2>1, <3>2 DEF Delivered
    <3> QED BY <1>7, <3>1, <3>3
  <2> QED BY <2>2, <2>3
<1>11. stop' = "end" => f_pos' >= file'.size
  <2> SUFFICES ASSUME stop' = "end" PROVE p + real >= z
    BY <1>2, <1>5, <1>s
  <2>1. data = <<>>
    BY <1>2
  <2>2. real = 0
    BY <1>3, <2>1
  <2> QED BY <1>4, <1>s, <2>2
<1>12. mem' \in Seq(Int) /\ f_pos' = Len(mem')
  BY <1>2, <1>5, <1>7
<1>13. chunk' \in Chunks /\ chunk' \in Nat \ {0}
  BY <1>1, <1>2
<1> QED BY <1>6, <1>8, <1>9, <1>10, <1>11, <1>12, <1>13 DEF ExtInv

LEMMA Ext2Step == ExtInv /\ E!ext2_read => ExtInv'
<1> SUFFICES ASSUME ExtInv, E!ext2_read PROVE ExtInv'
  OBVIOUS
<1>1. /\ FileOK /\ chunk \in Chunks /\ chunk \in Nat \ {0} /\ mem \in Seq(Int) /\ f_pos = Len(mem)
      /\ f_pos < file.size + Slack /\ Whole
  BY DEF ExtInv
<1>2. PICK real, start, n : /\ real = E!real_size(chunk) /\ start = f_pos \div BlockSize
                            /\ n = E!Ceil(real, BlockSize)
  OBVIOUS
<1>3. file.fs = "ext2" /\ E!Deliver(E!Read2(real, E!get_block_indexs(start, n)))
  BY <1>2 DEF E!ext2_read
<1>4. PICK z \in Nat, p \in Nat, c \in Nat \ {0} :
         z = file.size /\ p = f_pos /\ c = chunk /\ p <= z /\ Slack = 1
  <2>1. Slack = 1
    BY <1>3 DEF Slack
  <2>2. file.size \in Nat /\ f_pos \in Nat
    BY <1>1 DEF FileOK
  <2>3. f_pos <= file.size
    BY <1>1, <2>1, <2>2
  <2> QED BY <1>1, <2>1, <2>2, <2>3
<1>5. real = E!Least(c, z - p)
  BY <1>2, <1>4 DEF E!real_size
<1>6. real \in Nat /\ real <= c /\ p + real <= z /\ (p + real < z => real = c) /\ (real = 0 => p >= z)
  BY <1>4, <1>5 DEF E!Least
<1>7. f_pos % BlockSize = 0 \/ (f_pos % BlockSize) + real <= BlockSize
  <2>0. BlockSize \in Nat \ {0} /\ f_pos \in Int
    BY <1>4, ExtAssumption
  <2>1. PICK off \in 0 .. BlockSize - 1 : off = f_pos % BlockSize
    BY <2>0, Split
  <2>2. CASE p < z
    <3>1. PICK m \in Nat : f_pos = chunk * m
      BY <1>1, <1>4, <2>2 DEF Whole
    <3>2. f_pos % BlockSize = 0 \/ (f_pos % BlockSize) + chunk <= BlockSize
      BY <1>1, <3>1, InOneBlock
    <3>3. off = 0 \/ off + c <= BlockSize
      BY <1>4, <2>1, <3>2
    <3>4. off = 0 \/ off + real <= BlockSize
      BY <1>6, <2>0, <3>3
    <3> QED BY <2>1, <3>4
  <2>3. CASE ~(p < z)
    <3>1. real = 0
      BY <1>4, <1>6, <2>3
    <3>2. off + real <= BlockSize
      BY <2>0, <3>1
    <3> QED BY <2>1, <3>2
  <2> QED BY <2>2, <2>3
<1>8. PICK off : off = f_pos % BlockSize
  OBVIOUS
<1>9. At(start, off, n, real)
  BY <1>2, <1>4, <1>6, <1>7, <1>8, AtFacts
<1>10. start \in Nat /\ n \in Nat /\ off \in Nat /\ (off = 0 \/ n <= 1)
  BY <1>9, ExtAssumption DEF At
<1>11. PICK bl : bl = E!get_block_indexs(start, n)
  OBVIOUS
<1>12. E!MapLimit \in Nat /\ Maps(bl, start, n, E!MapLimit)
  BY <1>1, <1>3, <1>10, <1>11, BlocksMapped
<1>13. PICK data : data = E!Read2(real, bl)
  OBVIOUS
<1>14. data = E!FlattenSeq(Parts(bl, n, off, real))
  BY <1>2, <1>6, <1>8, <1>10, <1>13, Read2Parts
<1>15. file.size \in Nat
  BY <1>4
<1>16. Delivered(data, real, E!MapLimit)
  BY <1>9, <1>12, <1>14, <1>15, ReadFacts
<1>17. E!Deliver(data)
  BY <1>3, <1>11, <1>13
<1>18. f_pos + real < file.size + Slack /\ (f_pos + real < file.size => real = chunk)
       /\ (real = 0 => f_pos >= file.size)
  BY <1>4, <1>6
<1> QED BY <1>6, <1>16, <1>17, <1>18, ExtDeliver

LEMMA Ext4Step == ExtInv /\ E!ext4_read => ExtInv'
<1> SUFFICES ASSUME ExtInv, E!ext4_read PROVE ExtInv'
  OBVIOUS
<1>1. /\ FileOK /\ chunk \in Chunks /\ chunk \in Nat \ {0} /\ mem \in Seq(Int) /\ f_pos = Len(mem)
      /\ f_pos < file.size + Slack /\ Whole
  BY DEF ExtInv
<1>2. PICK start, n : start = f_pos \div BlockSize /\ n = E!Ceil(chunk, BlockSize)
  OBVIOUS
<1>3. PICK bl : bl = E!ext4_get_blknums(start, n)
  OBVIOUS
<1>4. /\ file.fs = "ext4" /\ ~E!Overruns(chunk)
      /\ E!Deliver(IF f_pos >= file.size THEN <<>> ELSE E!Read4(chunk, bl))
  BY <1>2, <1>3 DEF E!ext4_read
<1>5. PICK z \in Nat, p \in Nat, c \in Nat \ {0} :
         z = file.size /\ p = f_pos /\ c = chunk /\ Slack = c /\ p < z + c
  <2>1. Slack = chunk
    BY <1>4 DEF Slack
  <2>2. file.size \in Nat /\ f_pos \in Nat
    BY <1>1 DEF FileOK
  <2> QED BY <1>1, <2>1, <2>2
<1>6. CASE p >= z
  <2>1. E!Deliver(<<>>)
    BY <1>4, <1>5, <1>6
  <2>2. Delivered(<<>>, 0, E!MapLimit)
    BY DEF Delivered
  <2>3. f_pos + 0 < file.size + Slack /\ (f_pos + 0 < file.size => 0 = chunk)
        /\ (0 = 0 => f_pos >= file.size)
    BY <1>5, <1>6
  <2>4. 0 \in Nat
    OBVIOUS
  <2> QED BY <2>1, <2>2, <2>3, <2>4, ExtDeliver
<1>7. CASE p < z
  <2>0. BlockSize \in Nat \ {0} /\ f_pos \in Int
    BY <1>5, ExtAssumption
  <2>1. PICK off \in 0 .. BlockSize - 1 : off = f_pos % BlockSize
    BY <2>0, Split
  <2>2. off = 0
    <3>1. PICK m \in Nat : f_pos = chunk * m
      BY <1>1, <1>5, <1>7 DEF Whole
    <3>2. f_pos % BlockSize = 0 \/ (f_pos % BlockSize) + chunk <= BlockSize
      BY <1>1, <3>1, InOneBlock
    <3>3. ~(off # 0 /\ c <= BlockSize - off)
      BY <1>4, <1>5, <1>7, <2>1 DEF E!Overruns
    <3>4. off = 0 \/ off + c <= BlockSize
      BY <1>5, <2>1, <3>2
    <3> QED BY <2>0, <3>3, <3>4
  <2>3. At(start, 0, n, chunk)
    <3>1. f_pos \in Nat /\ chunk \in Nat /\ f_pos % BlockSize = 0
      BY <1>5, <2>1, <2>2
    <3>2. At(f_pos \div BlockSize, f_pos % BlockSize, E!Ceil(chunk, BlockSize), chunk)
      BY <3>1, AtFacts
    <3> QED BY <1>2, <3>1, <3>2
  <2>4. start \in Nat /\ n \in Nat
    BY <2>3 DEF At
  <2>5. E!MapLimit \in Nat /\ Maps(bl, start, n, E!MapLimit)
    BY <1>1, <1>3, <2>4, BlocksMapped
  <2>6. PICK data : data = E!Read4(chunk, bl)
    OBVIOUS
  <2>7. data = E!FlattenSeq(Parts(bl, n, 0, chunk))
    BY <1>2, <2>6, Read4Parts
  <2>8. file.size \in Nat
    BY <1>5
  <2>9. Delivered(data, chunk, E!MapLimit)
    BY <2>3, <2>5, <2>7, <2>8, ReadFacts
  <2>10. E!Deliver(data)
    BY <1>4, <1>5, <1>7, <2>6
  <2>11. f_pos + chunk < file.size + Slack /\ (chunk = 0 => f_pos >= file.size) /\ chunk \in Nat
    BY <1>5, <1>7
  <2> QED BY <2>9, <2>10, <2>11, ExtDeliver
<1> QED BY <1>5, <1>6, <1>7

LEMMA ExtStep == ExtInv /\ [E!Next]_evars => ExtInv'
<1> SUFFICES ASSUME ExtInv, [E!Next]_evars PROVE ExtInv'
  OBVIOUS
<1>1. CASE E!ext2_read
  BY <1>1, Ext2Step
<1>2. CASE E!ext4_read
  BY <1>2, Ext4Step
<1>3. ASSUME file' = file /\ chunk' = chunk /\ f_pos' = f_pos /\ mem' = mem,
             stop' = "end" => f_pos >= file.size
      PROVE  ExtInv'
  <2>1. E!MapLimit' = E!MapLimit /\ Slack' = Slack /\ FileOK'
    BY <1>3 DEF E!MapLimit, E!Found, Slack, FileOK, ExtInv
  <2>2. Whole' /\ Content'
    BY <1>3, <2>1 DEF Whole, Content, ExtInv
  <2> QED BY <1>3, <2>1, <2>2 DEF ExtInv
<1>4. CASE E!Overrun
  BY <1>3, <1>4 DEF E!Overrun
<1>7. CASE E!ReadFails
  BY <1>3, <1>7 DEF E!ReadFails
<1>5. CASE E!BootEnds
  BY <1>3, <1>5 DEF E!BootEnds, ExtInv
<1>6. CASE UNCHANGED evars
  <2>1. stop' = "end" => f_pos >= file.size
    BY <1>6 DEF evars, ExtInv
  <2> QED BY <1>3, <1>6, <2>1 DEF evars
<1> QED BY <1>1, <1>2, <1>4, <1>5, <1>6, <1>7 DEF E!Next

\* The loops of boot and cat read the file: when one ends, memory holds every
\* byte of it in its place, on ext2 nothing more and on ext4 less than one
\* read() more, for every size of blocks, files and reads that are whole
\* blocks or divide one, as far as get_block_indexs() and the first extent in
\* the inode reach.
THEOREM FileIsLoaded == FilesSpec => []FileLoaded
<1>1. FilesInit => ExtInv
  BY ExtStart DEF FilesInit
<1>2. ExtInv /\ [FilesNext]_allvars => ExtInv'
  <2> SUFFICES ASSUME ExtInv, [FilesNext]_allvars PROVE ExtInv'
    OBVIOUS
  <2>1. [E!Next]_evars
    BY DEF FilesNext, allvars
  <2> QED BY <2>1, ExtStep
<1>3. ExtInv => FileLoaded
  <2> SUFFICES ASSUME ExtInv PROVE FileLoaded
    OBVIOUS
  <2>1. PICK z \in Nat : z = file.size
    BY DEF ExtInv, FileOK
  <2>2. Len(mem) < file.size + Slack /\ Len(mem) \in Nat
    BY DEF ExtInv
  <2>3. ASSUME stop = "end", file.size <= E!MapLimit * BlockSize
        PROVE  Len(mem) >= file.size /\ \A i \in 1 .. file.size : mem[i] = i - 1
    <3>1. Len(mem) >= file.size
      BY <2>3 DEF ExtInv
    <3>2. \A x \in 1 .. Len(mem) : x <= file.size => mem[x] = x - 1
      BY <2>3 DEF ExtInv, Content
    <3>3. \A i \in 1 .. z : i \in 1 .. Len(mem) /\ i <= z
      BY <2>1, <2>2, <3>1
    <3> QED BY <2>1, <3>1, <3>2, <3>3
  <2> QED BY <2>2, <2>3 DEF FileLoaded, E!FileLoaded, Slack
<1> QED BY <1>1, <1>2, <1>3, PTL DEF FilesSpec
=============================================================================
