----------------------------- MODULE TcpProofs -----------------------------
(***************************************************************************)
(* Proofs about TcpSocket, for every number of ports, calls, segments and  *)
(* losses and for both builds: a connected socket is released only after   *)
(* both FINs, and the peer's FIN is acknowledged only by a socket that has *)
(* seen it.                                                                *)
(*                                                                         *)
(* Proofs about what flows between TcpSocket and its peer on a link that   *)
(* loses nothing, when the waits of the main line outlast the exchange:    *)
(* tcp_layer_deliver() never stops with BUG(), recv() returns the peer's   *)
(* data in order, and the two ends agree on the numbers.                   *)
(***************************************************************************)
EXTENDS TcpSocket, SequenceTheorems, TLAPS

PeerStates == {"LISTEN", "SYN_RCVD", "ESTABLISHED", "FIN_SENT", "CLOSE_WAIT", "LAST_ACK", "DONE"}
Flags == {"SYN", "SYN|ACK", "ACK", "PSH|ACK", "RST|ACK"} \cup FinFlags
Places == Polling \cup {"user", "connect_failed", "send", "sent", "send_fin", "close_tail",
                        "close_null"}

Segs == [port : Nat, flags : Flags, seq : Nat, ack : Nat, len : {0, 1}]
Socks == [live : BOOLEAN, state : TcpStates, seq_num : Nat, ack_num : Nat, rx_qu : Seq(Nat)]
Peers == [st : PeerStates, snd : Nat, una : Nat, rcv : Nat, fin : Nat]
Counters == [connects : Nat, sends : Nat, data : Nat, lost : Nat]
Marks == [conn : BOOLEAN, fin : BOOLEAN]

TcpTypes ==
    /\ irq \in Builds /\ pc \in Places /\ open \in BOOLEAN /\ port \in 0 .. MaxPorts
    /\ sock \in Socks /\ fault \in {"none", "BUG", "freed"}
    /\ up \in Seq(Segs) /\ down \in Seq(Segs) /\ arp \in {"unknown", "asked", "known"}
    /\ peer \in Peers /\ used \in Counters /\ got \in Seq(Nat) /\ done \in Marks

-----------------------------------------------------------------------------
(* Changes of the socket's fields.                                         *)

LEMMA StateFacts ==
    ASSUME NEW s \in Socks, NEW x \in TcpStates
    PROVE  /\ [s EXCEPT !.state = x] \in Socks /\ [s EXCEPT !.state = x].state = x
           /\ [s EXCEPT !.state = x].live = s.live /\ [s EXCEPT !.state = x].ack_num = s.ack_num
           /\ [s EXCEPT !.state = x].rx_qu = s.rx_qu /\ [s EXCEPT !.state = x].seq_num = s.seq_num
BY DEF Socks

LEMMA SeqFacts ==
    ASSUME NEW s \in Socks, NEW x \in Nat
    PROVE  /\ [s EXCEPT !.seq_num = x] \in Socks /\ [s EXCEPT !.seq_num = x].state = s.state
           /\ [s EXCEPT !.seq_num = x].live = s.live /\ [s EXCEPT !.seq_num = x].ack_num = s.ack_num
           /\ [s EXCEPT !.seq_num = x].rx_qu = s.rx_qu /\ [s EXCEPT !.seq_num = x].seq_num = x
BY DEF Socks

LEMMA AckFacts ==
    ASSUME NEW s \in Socks, NEW x \in Nat
    PROVE  /\ [s EXCEPT !.ack_num = x] \in Socks /\ [s EXCEPT !.ack_num = x].state = s.state
           /\ [s EXCEPT !.ack_num = x].live = s.live /\ [s EXCEPT !.ack_num = x].ack_num = x
           /\ [s EXCEPT !.ack_num = x].rx_qu = s.rx_qu /\ [s EXCEPT !.ack_num = x].seq_num = s.seq_num
BY DEF Socks

LEMMA RxFacts ==
    ASSUME NEW s \in Socks, NEW x \in Seq(Nat)
    PROVE  /\ [s EXCEPT !.rx_qu = x] \in Socks /\ [s EXCEPT !.rx_qu = x].state = s.state
           /\ [s EXCEPT !.rx_qu = x].live = s.live /\ [s EXCEPT !.rx_qu = x].ack_num = s.ack_num
           /\ [s EXCEPT !.rx_qu = x].rx_qu = x /\ [s EXCEPT !.rx_qu = x].seq_num = s.seq_num
BY DEF Socks

\* Two fields change: one after the other.
StateSeq(s, x, n) == [s EXCEPT !.state = x, !.seq_num = n]
AckState(s, n, x) == [s EXCEPT !.ack_num = n, !.state = x]
AckRx(s, n, q) == [s EXCEPT !.ack_num = n, !.rx_qu = q]
Freed(s) == [s EXCEPT !.live = FALSE, !.rx_qu = <<>>]

LEMMA StateSeqFacts ==
    ASSUME NEW s \in Socks, NEW x \in TcpStates, NEW n \in Nat
    PROVE  /\ StateSeq(s, x, n) \in Socks /\ StateSeq(s, x, n).state = x
           /\ StateSeq(s, x, n).seq_num = n /\ StateSeq(s, x, n).live = s.live
           /\ StateSeq(s, x, n).ack_num = s.ack_num /\ StateSeq(s, x, n).rx_qu = s.rx_qu
<1> DEFINE v == [s EXCEPT !.state = x]
<1>1. StateSeq(s, x, n) = [v EXCEPT !.seq_num = n]
  BY DEF StateSeq
<1>2. /\ v \in Socks /\ v.state = x /\ v.live = s.live /\ v.ack_num = s.ack_num /\ v.rx_qu = s.rx_qu
  BY StateFacts
<1> HIDE DEF v
<1> QED BY <1>1, <1>2, SeqFacts

LEMMA AckStateFacts ==
    ASSUME NEW s \in Socks, NEW n \in Nat, NEW x \in TcpStates
    PROVE  /\ AckState(s, n, x) \in Socks /\ AckState(s, n, x).state = x
           /\ AckState(s, n, x).ack_num = n /\ AckState(s, n, x).live = s.live
           /\ AckState(s, n, x).seq_num = s.seq_num /\ AckState(s, n, x).rx_qu = s.rx_qu
<1> DEFINE v == [s EXCEPT !.ack_num = n]
<1>1. AckState(s, n, x) = [v EXCEPT !.state = x]
  BY DEF AckState
<1>2. /\ v \in Socks /\ v.ack_num = n /\ v.live = s.live /\ v.seq_num = s.seq_num /\ v.rx_qu = s.rx_qu
  BY AckFacts
<1> HIDE DEF v
<1> QED BY <1>1, <1>2, StateFacts

LEMMA AckRxFacts ==
    ASSUME NEW s \in Socks, NEW n \in Nat, NEW q \in Seq(Nat)
    PROVE  /\ AckRx(s, n, q) \in Socks /\ AckRx(s, n, q).state = s.state
           /\ AckRx(s, n, q).ack_num = n /\ AckRx(s, n, q).live = s.live
           /\ AckRx(s, n, q).seq_num = s.seq_num /\ AckRx(s, n, q).rx_qu = q
<1> DEFINE v == [s EXCEPT !.ack_num = n]
<1>1. AckRx(s, n, q) = [v EXCEPT !.rx_qu = q]
  BY DEF AckRx
<1>2. /\ v \in Socks /\ v.ack_num = n /\ v.live = s.live /\ v.seq_num = s.seq_num /\ v.state = s.state
  BY AckFacts
<1> HIDE DEF v
<1> QED BY <1>1, <1>2, RxFacts

LEMMA FreedFacts ==
    ASSUME NEW s \in Socks
    PROVE  /\ Freed(s) \in Socks /\ Freed(s).state = s.state /\ Freed(s).ack_num = s.ack_num
           /\ Freed(s).live = FALSE /\ Freed(s).seq_num = s.seq_num
<1> DEFINE v == [s EXCEPT !.live = FALSE]
<1>1. PICK e \in Seq(Nat) : Freed(s) = [v EXCEPT !.rx_qu = e]
  <2>1. <<>> \in Seq(Nat) /\ Freed(s) = [v EXCEPT !.rx_qu = <<>>]
    BY DEF Freed
  <2> QED BY <2>1
<1>2. /\ v \in Socks /\ v.ack_num = s.ack_num /\ v.live = FALSE /\ v.seq_num = s.seq_num
      /\ v.state = s.state
  BY DEF Socks
<1> HIDE DEF v
<1> QED BY <1>1, <1>2, RxFacts

LEMMA SegmentFacts ==
    ASSUME TcpTypes, NEW f \in Flags, NEW s \in Nat, NEW a \in Nat, NEW l \in {0, 1}
    PROVE  /\ Segment(f, s, a, l) \in Segs /\ Segment(f, s, a, l).port = port
           /\ Segment(f, s, a, l).flags = f /\ Segment(f, s, a, l).seq = s
           /\ Segment(f, s, a, l).ack = a /\ Segment(f, s, a, l).len = l
<1>1. port \in Nat
  BY DEF TcpTypes
<1> QED BY <1>1 DEF Segment, Segs

\* What the peer makes of an acknowledgement.
AckTaken(p, a, q) ==
    /\ q.una = IF a > p.una /\ a <= p.snd THEN a ELSE p.una
    /\ \/ q.st = p.st /\ (p.st = "SYN_RCVD" => ~(q.una > 0))
       \/ p.st = "SYN_RCVD" /\ q.st = "ESTABLISHED" /\ q.una > 0
       \/ p.st = "LAST_ACK" /\ q.st = "DONE"

LEMMA PeerAckedFacts ==
    ASSUME NEW p \in Peers, NEW a \in Nat
    PROVE  LET q == PeerAcked(p, a) IN
           q \in Peers /\ q.snd = p.snd /\ q.rcv = p.rcv /\ q.fin = p.fin /\ AckTaken(p, a, q)
<1> DEFINE q == PeerAcked(p, a)
<1> DEFINE una == IF a > p.una /\ a <= p.snd THEN a ELSE p.una
           st == CASE p.st = "SYN_RCVD" /\ una > 0  -> "ESTABLISHED"
                   [] p.st = "LAST_ACK" /\ una > p.fin -> "DONE"
                   [] OTHER -> p.st
           v == [p EXCEPT !.una = una]
<1>1. una \in Nat /\ p.st \in PeerStates /\ p.fin \in Nat
  BY DEF Peers
<1>2. q = [v EXCEPT !.st = st]
  BY DEF PeerAcked, Peers
<1> HIDE DEF q
<1>3. st \in PeerStates
  <2>1. "ESTABLISHED" \in PeerStates /\ "DONE" \in PeerStates
    BY DEF PeerStates
  <2> QED BY <1>1, <2>1
<1> HIDE DEF una, st
<1>4. v \in Peers /\ v.una = una /\ v.snd = p.snd /\ v.rcv = p.rcv /\ v.fin = p.fin
  BY <1>1 DEF Peers
<1> HIDE DEF v
<1>5. q \in Peers /\ q.una = una /\ q.snd = p.snd /\ q.rcv = p.rcv /\ q.fin = p.fin /\ q.st = st
  BY <1>2, <1>3, <1>4 DEF Peers
<1>6. \/ st = p.st /\ (p.st = "SYN_RCVD" => ~(una > 0))
      \/ p.st = "SYN_RCVD" /\ st = "ESTABLISHED" /\ una > 0
      \/ p.st = "LAST_ACK" /\ st = "DONE"
  BY DEF st
<1>7. q.una = IF a > p.una /\ a <= p.snd THEN a ELSE p.una
  BY <1>5 DEF una
<1> QED BY <1>5, <1>6, <1>7 DEF AckTaken, q

-----------------------------------------------------------------------------
(* Segments under way.                                                     *)

\* The segments of s that belong to port p.
Of(s, p) == {s[i] : i \in {j \in 1 .. Len(s) : s[j].port = p}}

\* Of two segments of port p a first one with a flag in F is not followed by
\* one with a flag in G.
Before(s, p, F, G) ==
    \A i, j \in 1 .. Len(s) :
      (i < j /\ s[i].port = p /\ s[j].port = p /\ s[i].flags \in F) => s[j].flags \notin G

\* Ports up to p have been in use.
Past(s, p) == \A i \in 1 .. Len(s) : s[i].port <= p

LEMMA TailFacts ==
    ASSUME NEW s \in Seq(Segs), s # <<>>
    PROVE  /\ Tail(s) \in Seq(Segs) /\ Len(s) \in Nat \ {0} /\ Len(Tail(s)) = Len(s) - 1
           /\ \A i \in 1 .. Len(Tail(s)) : i + 1 \in 1 .. Len(s) /\ Tail(s)[i] = s[i + 1]
           /\ 1 \in 1 .. Len(s) /\ Head(s) = s[1] /\ Head(s) \in Segs
<1>1. Tail(s) \in Seq(Segs) /\ Len(s) \in Nat \ {0} /\ Len(Tail(s)) = Len(s) - 1
  OBVIOUS
<1>2. \A i \in 1 .. Len(Tail(s)) : Tail(s)[i] = s[i + 1]
  OBVIOUS
<1>3. \A i \in 1 .. Len(Tail(s)) : i + 1 \in 1 .. Len(s)
  BY <1>1
<1>4. Head(s) = s[1] /\ Head(s) \in Segs /\ 1 \in 1 .. Len(s)
  BY <1>1
<1> QED BY <1>1, <1>2, <1>3, <1>4

LEMMA AppendFacts ==
    ASSUME NEW s \in Seq(Segs), NEW x \in Segs
    PROVE  /\ Append(s, x) \in Seq(Segs) /\ Len(s) \in Nat /\ Len(Append(s, x)) = Len(s) + 1
           /\ \A i \in 1 .. Len(s) : Append(s, x)[i] = s[i]
           /\ Append(s, x)[Len(s) + 1] = x
           /\ \A i \in 1 .. Len(Append(s, x)) : i \in 1 .. Len(s) \/ i = Len(s) + 1
<1>1. Append(s, x) \in Seq(Segs) /\ Len(s) \in Nat /\ Len(Append(s, x)) = Len(s) + 1
  OBVIOUS
<1>2. \A i \in 1 .. Len(s) : Append(s, x)[i] = s[i]
  OBVIOUS
<1>3. Append(s, x)[Len(s) + 1] = x
  OBVIOUS
<1>4. \A i \in 1 .. Len(Append(s, x)) : i \in 1 .. Len(s) \/ i = Len(s) + 1
  BY <1>1
<1> QED BY <1>1, <1>2, <1>3, <1>4

LEMMA OfFacts ==
    ASSUME NEW s \in Seq(Segs), NEW p \in Nat
    PROVE  \A x \in Of(s, p) : x \in Segs /\ x.port = p
BY DEF Of

LEMMA OfTail ==
    ASSUME NEW s \in Seq(Segs), s # <<>>, NEW p \in Nat
    PROVE  /\ Of(Tail(s), p) \subseteq Of(s, p) /\ (Past(s, p) => Past(Tail(s), p))
           /\ Head(s).port = p => Head(s) \in Of(s, p)
<1>1. /\ \A i \in 1 .. Len(Tail(s)) : i + 1 \in 1 .. Len(s) /\ Tail(s)[i] = s[i + 1]
      /\ 1 \in 1 .. Len(s) /\ Head(s) = s[1]
  BY TailFacts
<1> QED BY <1>1 DEF Of, Past

LEMMA OfAppend ==
    ASSUME NEW s \in Seq(Segs), NEW x \in Segs, NEW p \in Nat
    PROVE  /\ \A y \in Of(Append(s, x), p) : y \in Of(s, p) \/ (y = x /\ x.port = p)
           /\ Past(s, p) /\ x.port <= p => Past(Append(s, x), p)
<1>1. /\ \A i \in 1 .. Len(s) : Append(s, x)[i] = s[i]
      /\ Append(s, x)[Len(s) + 1] = x
      /\ \A i \in 1 .. Len(Append(s, x)) : i \in 1 .. Len(s) \/ i = Len(s) + 1
  BY AppendFacts
<1> QED BY <1>1 DEF Of, Past

\* A port that no segment has is free of segments.
LEMMA OfNew ==
    ASSUME NEW s \in Seq(Segs), NEW p \in Nat, Past(s, p)
    PROVE  Of(s, p + 1) = {} /\ Past(s, p + 1)
<1>1. \A i \in 1 .. Len(s) : s[i].port \in Nat
  <2>1. \A i \in 1 .. Len(s) : s[i] \in Segs
    OBVIOUS
  <2> QED BY <2>1 DEF Segs
<1>2. \A i \in 1 .. Len(s) : s[i].port <= p + 1 /\ s[i].port # p + 1
  BY <1>1 DEF Past
<1> QED BY <1>2 DEF Of, Past

LEMMA BeforeTail ==
    ASSUME NEW s \in Seq(Segs), s # <<>>, NEW p \in Nat, NEW F, NEW G, Before(s, p, F, G)
    PROVE  /\ Before(Tail(s), p, F, G)
           /\ (Head(s).port = p /\ Head(s).flags \in F) => \A y \in Of(Tail(s), p) : y.flags \notin G
<1>1. /\ \A i \in 1 .. Len(Tail(s)) : i + 1 \in 1 .. Len(s) /\ Tail(s)[i] = s[i + 1]
      /\ 1 \in 1 .. Len(s) /\ Head(s) = s[1]
  BY TailFacts
<1>2. \A i \in 1 .. Len(Tail(s)) : i \in Nat /\ 1 < i + 1
  OBVIOUS
<1>3. \A i, j \in 1 .. Len(Tail(s)) : i < j => i + 1 < j + 1
  OBVIOUS
<1>4. Before(Tail(s), p, F, G)
  BY <1>1, <1>3 DEF Before
<1>5. (Head(s).port = p /\ Head(s).flags \in F) => \A y \in Of(Tail(s), p) : y.flags \notin G
  BY <1>1, <1>2 DEF Before, Of
<1> QED BY <1>4, <1>5

LEMMA BeforeAppend ==
    ASSUME NEW s \in Seq(Segs), NEW x \in Segs, NEW p \in Nat, NEW F, NEW G, Before(s, p, F, G),
           x.flags \in G => \A y \in Of(s, p) : y.flags \notin F
    PROVE  Before(Append(s, x), p, F, G)
<1>1. /\ \A i \in 1 .. Len(s) : Append(s, x)[i] = s[i]
      /\ Append(s, x)[Len(s) + 1] = x /\ Len(s) \in Nat
      /\ \A i \in 1 .. Len(Append(s, x)) : i \in 1 .. Len(s) \/ i = Len(s) + 1
  BY AppendFacts
<1> DEFINE t == Append(s, x)
<1> SUFFICES ASSUME NEW i \in 1 .. Len(t), NEW j \in 1 .. Len(t), i < j,
                    t[i].port = p, t[j].port = p, t[i].flags \in F
             PROVE  t[j].flags \notin G
  BY DEF Before
<1> HIDE DEF t
<1>2. i \in 1 .. Len(s)
  BY <1>1 DEF t
<1>3. t[i] = s[i] /\ s[i] \in Of(s, p)
  BY <1>1, <1>2 DEF t, Of
<1>4. CASE j \in 1 .. Len(s)
  BY <1>1, <1>2, <1>3, <1>4 DEF Before, t
<1>5. CASE j = Len(s) + 1
  BY <1>1, <1>3, <1>5 DEF t
<1> QED BY <1>1, <1>4, <1>5 DEF t

LEMMA BeforeNew ==
    ASSUME NEW s \in Seq(Segs), NEW p \in Nat, NEW F, NEW G, Of(s, p) = {}
    PROVE  Before(s, p, F, G)
BY DEF Before, Of

-----------------------------------------------------------------------------
(* The inductive invariant.                                                *)

Syns == {"SYN", "SYN|ACK"}

Ports == Past(up, port) /\ Past(down, port)

\* The state of the socket and what the two ends have done.
SockLife ==
    /\ sock.state \notin {"LISTEN", "SYN_RCVD"}
    /\ done.conn => sock.state # "SYN_SENT"
    /\ (done.conn /\ sock.state = "CLOSED") => done.fin /\ peer.fin > 0
    /\ ~open => sock.state = "CLOSED"
    /\ sock.state \in {"CLOSE_WAIT", "LAST_ACK", "CLOSING", "TIME_WAIT"} => peer.fin > 0
    /\ sock.state \in {"FIN_WAIT1", "FIN_WAIT2", "CLOSING", "LAST_ACK", "TIME_WAIT"} => done.fin
    /\ sock.state \in {"SYN_SENT", "ESTABLISHED", "CLOSE_WAIT"} => ~done.fin
    /\ done.fin => done.conn
    /\ sock.state \notin {"CLOSED", "SYN_SENT"} => sock.ack_num > 0

\* The state of the socket and the place of the main line.
PcLife ==
    /\ pc \in {"wait_established", "connect_failed"} => ~done.conn
    /\ (~done.conn /\ pc \notin {"wait_established", "connect_failed"}) => sock.state = "CLOSED"
    /\ pc = "send_fin" => sock.state \in {"ESTABLISHED", "CLOSE_WAIT"}
    /\ pc = "time_wait" => sock.state = "TIME_WAIT"
    /\ pc = "close_null" => sock.state = "CLOSED" /\ ~sock.live

\* The peer's numbers, and the segments on their way to it: there is one FIN
\* at most among them, and none once it has arrived.
PeerLife ==
    /\ peer.una <= peer.snd /\ sock.ack_num <= peer.snd
    /\ peer.st = "LISTEN" <=> peer.snd = 0
    /\ peer.st \notin {"LISTEN", "SYN_RCVD"} => peer.una > 0
    /\ peer.fin > 0 <=> peer.st \in {"FIN_SENT", "LAST_ACK", "DONE"}
    /\ peer.fin > 0 => peer.snd = peer.fin + 1
    /\ \A s \in Of(up, port) : s.ack <= peer.snd /\ (s.flags = "FIN|ACK" => s.ack > 0)
    /\ Before(up, port, {"FIN|ACK"}, {"FIN|ACK"})
    /\ peer.st \in {"CLOSE_WAIT", "LAST_ACK", "DONE"} => \A s \in Of(up, port) : s.flags # "FIN|ACK"
    /\ ~done.fin => /\ peer.st \notin {"CLOSE_WAIT", "LAST_ACK", "DONE"}
                    /\ \A s \in Of(up, port) : s.flags # "FIN|ACK"

\* Of the peer's segments only a FIN by itself goes beyond what precedes the
\* FIN, and no SYN comes after it.
FromPeer(s) ==
    /\ s.flags \in FinFlags => peer.fin > 0
    /\ (s.flags \in FinFlags /\ s.len = 0) => s.seq + 1 <= peer.snd
    /\ s.len > 0 => s.seq + s.len <= peer.snd /\ (peer.fin > 0 => s.seq + s.len <= peer.fin)
    /\ s.flags \in Syns => s.seq + 1 <= peer.snd /\ (peer.fin > 0 => s.seq + 1 <= peer.fin)
    /\ s.flags = "PSH|ACK" => s.len > 0

DownLife ==
    /\ \A s \in Of(down, port) : FromPeer(s)
    /\ Before(down, port, FinFlags, Syns)

\* The FIN is acknowledged, or will be.
Acked ==
    /\ peer.fin > 0
    /\ \/ peer.una > peer.fin \/ sock.ack_num > peer.fin
       \/ \E s \in Of(up, port) : s.ack > peer.fin

SeenStates == {"CLOSE_WAIT", "LAST_ACK", "CLOSING", "TIME_WAIT", "CLOSED", "SYN_SENT"}

Seen ==
    Acked => sock.state \in SeenStates /\ \A s \in Of(down, port) : s.flags \notin Syns

TcpInv == TcpTypes /\ Ports /\ SockLife /\ PcLife /\ PeerLife /\ DownLife /\ Seen

LEMMA TcpInit == Init => TcpInv
<1> SUFFICES ASSUME Init PROVE TcpInv
  OBVIOUS
<1>1. /\ <<>> \in Seq(Nat) /\ <<>> \in Seq(Segs) /\ Of(<<>>, 0) = {}
      /\ Past(<<>>, 0) /\ Before(<<>>, 0, {"FIN|ACK"}, {"FIN|ACK"}) /\ Before(<<>>, 0, FinFlags, Syns)
  BY DEF Of, Past, Before
<1>2. /\ sock \in Socks /\ sock.state = "CLOSED" /\ sock.ack_num = 0
  BY <1>1 DEF Init, Socks, TcpStates
<1>3. peer \in Peers /\ peer.st = "LISTEN" /\ peer.snd = 0 /\ peer.una = 0 /\ peer.fin = 0
  BY DEF Init, Peers, PeerStates
<1>4. done \in Marks /\ ~done.conn /\ ~done.fin /\ used \in Counters
  BY DEF Init, Marks, Counters
<1>5. 0 \in 0 .. MaxPorts /\ "user" \in Places
  BY ConstantsAssumption DEF Places
<1>6. /\ up = <<>> /\ down = <<>> /\ port = 0 /\ pc = "user" /\ got = <<>> /\ irq \in Builds
      /\ open \in BOOLEAN /\ fault = "none" /\ arp = "unknown"
  BY DEF Init
<1>7. TcpTypes
  BY <1>1, <1>2, <1>3, <1>4, <1>5, <1>6 DEF TcpTypes
<1>8. Ports /\ SockLife /\ PcLife
  BY <1>1, <1>2, <1>3, <1>4, <1>6 DEF Ports, SockLife, PcLife
<1>9. PeerLife /\ DownLife /\ Seen
  BY <1>1, <1>2, <1>3, <1>4, <1>6 DEF PeerLife, DownLife, Seen, Acked
<1> QED BY <1>7, <1>8, <1>9 DEF TcpInv

\* A step of the main line that sends nothing and leaves the state as it is.
LEMMA SameStep ==
    ASSUME TcpInv, sock' \in Socks, sock'.state = sock.state, sock'.ack_num = sock.ack_num,
           pc' \in Places, PcLife', arp' \in {"unknown", "asked", "known"},
           used' \in Counters, got' \in Seq(Nat),
           UNCHANGED <<irq, open, port, fault, up, down, peer, done>>
    PROVE  TcpInv'
<1> USE DEF TcpInv
<1>1. TcpTypes'
  BY DEF TcpTypes
<1>2. Ports' /\ SockLife'
  BY DEF Ports, SockLife
<1>3. PeerLife'
  BY DEF PeerLife
<1>4. DownLife' /\ Seen'
  BY DEF DownLife, FromPeer, Seen, Acked
<1> QED BY <1>1, <1>2, <1>3, <1>4

LEMMA IdleSteps ==
    ASSUME TcpInv,
           \/ ConnectTimeout \/ SendCheck \/ SendCount \/ RecvCheck \/ Recv \/ RecvAbort \/ Close
           \/ CloseWaitDone \/ CloseTimeout \/ ArpReply
    PROVE  TcpInv'
<1> USE DEF TcpInv
<1>1. UNCHANGED <<irq, open, port, fault, up, down, peer, done, used>>
  BY DEF ConnectTimeout, SendCheck, SendCount, RecvCheck, Recv, RecvAbort, Close,
         CloseWaitDone, CloseTimeout, ArpReply
<1>2. sock \in Socks /\ pc \in Places
  BY DEF TcpTypes
<1>3. /\ sock' \in Socks /\ sock'.state = sock.state /\ sock'.ack_num = sock.ack_num
      /\ sock'.live = sock.live
  <2>1. CASE UNCHANGED sock
    BY <1>2, <2>1
  <2>2. CASE SendCount
    <3>1. seq_after("PSH|ACK", 1) \in Nat
      BY <1>2 DEF seq_after, Socks
    <3> QED BY <1>2, <2>2, <3>1, SeqFacts DEF SendCount
  <2>3. CASE Recv
    <3>1. sock.rx_qu \in Seq(Nat) /\ sock.rx_qu # <<>>
      BY <1>2, <2>3 DEF Recv, Socks
    <3>2. Tail(sock.rx_qu) \in Seq(Nat)
      BY <3>1
    <3>3. sock' = [sock EXCEPT !.rx_qu = Tail(sock.rx_qu)]
      BY <2>3 DEF Recv
    <3> QED BY <1>2, <3>2, <3>3, RxFacts
  <2> QED BY <2>1, <2>2, <2>3 DEF ConnectTimeout, SendCheck, RecvCheck, RecvAbort, Close,
         CloseWaitDone, CloseTimeout, ArpReply
<1>4. got' \in Seq(Nat)
  <2>1. CASE UNCHANGED got
    BY <2>1 DEF TcpTypes
  <2>2. CASE Recv
    <3>1. sock.rx_qu \in Seq(Nat) /\ sock.rx_qu # <<>> /\ got \in Seq(Nat)
      BY <1>2, <2>2 DEF Recv, Socks, TcpTypes
    <3>2. Head(sock.rx_qu) \in Nat
      BY <3>1
    <3>3. got' = Append(got, Head(sock.rx_qu))
      BY <2>2 DEF Recv
    <3> QED BY <3>1, <3>2, <3>3
  <2> QED BY <2>1, <2>2 DEF ConnectTimeout, SendCheck, SendCount, RecvCheck, RecvAbort, Close,
         CloseWaitDone, CloseTimeout, ArpReply
<1>5. /\ arp' \in {"unknown", "asked", "known"} /\ used' \in Counters
  BY <1>1 DEF ConnectTimeout, SendCheck, SendCount, RecvCheck, Recv, RecvAbort, Close,
         CloseWaitDone, CloseTimeout, ArpReply, TcpTypes
<1>6. pc' \in Places /\ PcLife'
  <2>1. CASE ConnectTimeout
    BY <1>1, <1>3, <2>1 DEF ConnectTimeout, PcLife, Places
  <2>2. CASE SendCheck \/ RecvCheck \/ Close
    BY <1>1, <1>3, <2>2 DEF SendCheck, RecvCheck, Close, PcLife, SockLife, Places, Polling
  <2>3. CASE SendCount \/ Recv \/ RecvAbort \/ CloseWaitDone \/ CloseTimeout
    BY <1>1, <1>3, <2>3 DEF SendCount, Recv, RecvAbort, CloseWaitDone, CloseTimeout, PcLife, Places
  <2>4. CASE ArpReply
    BY <1>1, <1>2, <1>3, <2>4 DEF ArpReply, PcLife
  <2> QED BY <2>1, <2>2, <2>3, <2>4
<1> QED BY <1>1, <1>3, <1>4, <1>5, <1>6, SameStep

\* The socket is closed, or its descriptor released.
LEMMA ClosedStep ==
    ASSUME TcpInv, sock' \in Socks, sock'.state = "CLOSED", sock'.ack_num = sock.ack_num,
           done.conn => done.fin /\ peer.fin > 0, pc' \in Places, PcLife', open' \in BOOLEAN,
           UNCHANGED <<irq, port, fault, up, down, arp, peer, used, got, done>>
    PROVE  TcpInv'
<1> USE DEF TcpInv
<1>1. TcpTypes'
  BY DEF TcpTypes
<1>2. Ports' /\ SockLife'
  BY DEF Ports, SockLife
<1>3. PeerLife'
  BY DEF PeerLife
<1>4. DownLife' /\ Seen'
  BY DEF DownLife, FromPeer, Seen, Acked, SeenStates
<1> QED BY <1>1, <1>2, <1>3, <1>4

LEMMA CloseSteps ==
    ASSUME TcpInv, ConnectFail \/ TimeWaitOver \/ CloseTail \/ CloseNull
    PROVE  TcpInv'
<1> USE DEF TcpInv
<1>1. /\ UNCHANGED <<irq, port, fault, up, down, arp, peer, used, got, done>>
  BY DEF ConnectFail, TimeWaitOver, CloseTail, CloseNull
<1>2. sock \in Socks /\ "CLOSED" \in TcpStates /\ {"user", "close_tail", "time_wait", "close_null"} \subseteq Places
      /\ open \in BOOLEAN
  BY DEF TcpTypes, TcpStates, Places, Polling
<1>3. CASE ConnectFail \/ TimeWaitOver
  <2>1. sock' = [sock EXCEPT !.state = "CLOSED"] /\ UNCHANGED open
    BY <1>3 DEF ConnectFail, TimeWaitOver
  <2>2. sock' \in Socks /\ sock'.state = "CLOSED" /\ sock'.ack_num = sock.ack_num
    BY <1>2, <2>1, StateFacts
  <2>3. pc' \in Places /\ PcLife' /\ (done.conn => done.fin /\ peer.fin > 0)
    BY <1>1, <1>2, <1>3, <2>2 DEF ConnectFail, TimeWaitOver, PcLife, SockLife
  <2> QED BY <1>1, <1>2, <2>1, <2>2, <2>3, ClosedStep
<1>4. CASE CloseNull
  <2>1. sock.state = "CLOSED" /\ UNCHANGED sock /\ open' = FALSE /\ pc' = "user"
    BY <1>4 DEF CloseNull, PcLife
  <2>2. PcLife' /\ (done.conn => done.fin /\ peer.fin > 0)
    BY <1>1, <2>1 DEF PcLife, SockLife
  <2> QED BY <1>1, <1>2, <2>1, <2>2, ClosedStep
<1>5. CASE CloseTail /\ sock.state = "CLOSED"
  <2>1. sock' = Freed(sock) /\ UNCHANGED open /\ pc' = "close_null"
    BY <1>5 DEF CloseTail, Freed
  <2>2. sock' \in Socks /\ sock'.state = "CLOSED" /\ sock'.ack_num = sock.ack_num /\ sock'.live = FALSE
    BY <1>2, <1>5, <2>1, FreedFacts
  <2>3. PcLife' /\ (done.conn => done.fin /\ peer.fin > 0)
    BY <1>1, <1>5, <2>1, <2>2 DEF PcLife, SockLife, CloseTail
  <2> QED BY <1>1, <1>2, <2>1, <2>2, <2>3, ClosedStep
<1>6. CASE CloseTail /\ sock.state # "CLOSED"
  <2>1. UNCHANGED <<open, sock>> /\ pc' \in Places
    BY <1>2, <1>6 DEF CloseTail
  <2>2. PcLife'
    BY <1>1, <1>6, <2>1 DEF CloseTail, PcLife
  <2>3. used' \in Counters /\ got' \in Seq(Nat) /\ arp' \in {"unknown", "asked", "known"}
    BY <1>1 DEF TcpTypes
  <2> QED BY <1>1, <1>2, <2>1, <2>2, <2>3, SameStep
<1> QED BY <1>3, <1>4, <1>5, <1>6

\* socket(): the new port has no segments yet.
LEMMA SocketStep ==
    ASSUME TcpInv, Socket
    PROVE  TcpInv'
<1> USE DEF TcpInv
<1>1. /\ pc = "user" /\ open' = TRUE /\ port' = port + 1 /\ port < MaxPorts
      /\ UNCHANGED <<irq, pc, fault, up, down, arp, used>> /\ got' = <<>>
  BY DEF Socket
<1>2. port \in Nat /\ port' \in 0 .. MaxPorts /\ <<>> \in Seq(Nat)
  BY <1>1, ConstantsAssumption DEF TcpTypes
<1>3. sock' \in Socks /\ sock'.state = "CLOSED" /\ sock'.ack_num = 0
  BY <1>2 DEF Socket, Socks, TcpStates
<1>4. peer' \in Peers /\ peer'.st = "LISTEN" /\ peer'.snd = 0 /\ peer'.una = 0 /\ peer'.fin = 0
  BY DEF Socket, Peers, PeerStates
<1>5. done' \in Marks /\ ~done'.conn /\ ~done'.fin
  BY DEF Socket, Marks
<1>6. up \in Seq(Segs) /\ down \in Seq(Segs)
  BY DEF TcpTypes
<1>7. /\ Of(up, port + 1) = {} /\ Past(up, port + 1) /\ Of(down, port + 1) = {} /\ Past(down, port + 1)
  BY <1>2, <1>6, OfNew DEF Ports
<1>8. /\ Before(up, port + 1, {"FIN|ACK"}, {"FIN|ACK"}) /\ Before(down, port + 1, FinFlags, Syns)
  <2>1. port + 1 \in Nat
    BY <1>2
  <2> QED BY <1>6, <1>7, <2>1, BeforeNew
<1>9. TcpTypes'
  BY <1>1, <1>2, <1>3, <1>4, <1>5 DEF TcpTypes
<1>10. Ports' /\ SockLife' /\ PcLife'
  BY <1>1, <1>3, <1>4, <1>5, <1>7 DEF Ports, SockLife, PcLife
<1>11. PeerLife' /\ DownLife' /\ Seen'
  BY <1>1, <1>3, <1>4, <1>5, <1>7, <1>8 DEF PeerLife, DownLife, Seen, Acked
<1> QED BY <1>9, <1>10, <1>11

\* connect() has returned 0.
LEMMA ConnectDoneStep ==
    ASSUME TcpInv, ConnectDone
    PROVE  TcpInv'
<1> USE DEF TcpInv
<1>1. /\ sock.state = "ESTABLISHED" /\ pc' = "user" /\ done' = [done EXCEPT !.conn = TRUE]
      /\ UNCHANGED <<irq, open, sock, port, fault, up, down, arp, peer, used, got>>
  BY DEF ConnectDone
<1>2. done \in Marks
  BY DEF TcpTypes
<1>3. done' \in Marks /\ done'.conn /\ done'.fin = done.fin
  BY <1>1, <1>2 DEF Marks
<1>4. TcpTypes'
  BY <1>1, <1>3 DEF TcpTypes, Places
<1>5. Ports' /\ SockLife' /\ PcLife'
  BY <1>1, <1>3 DEF Ports, SockLife, PcLife
<1>6. PeerLife' /\ DownLife' /\ Seen'
  BY <1>1, <1>3 DEF PeerLife, DownLife, FromPeer, Seen, Acked
<1> QED BY <1>4, <1>5, <1>6

-----------------------------------------------------------------------------
(* What the socket sends.                                                  *)

LEMMA UpFacts ==
    ASSUME TcpInv, NEW x \in Segs, x.port = port, x.ack <= peer.snd,
           x.flags = "FIN|ACK" => x.ack > 0 /\ ~done.fin
    PROVE  LET u == Append(up, x) IN
           /\ u \in Seq(Segs) /\ Past(u, port)
           /\ \A s \in Of(u, port) : s.ack <= peer.snd /\ (s.flags = "FIN|ACK" => s.ack > 0)
           /\ Before(u, port, {"FIN|ACK"}, {"FIN|ACK"})
           /\ \A s \in Of(u, port) : s \in Of(up, port) \/ s = x
<1> USE DEF TcpInv
<1>1. up \in Seq(Segs) /\ port \in Nat /\ port <= port
  BY DEF TcpTypes
<1>2. /\ \A y \in Of(Append(up, x), port) : y \in Of(up, port) \/ y = x
      /\ Past(Append(up, x), port)
  BY <1>1, OfAppend DEF Ports
<1>3. Append(up, x) \in Seq(Segs)
  BY <1>1
<1>4. x.flags \in {"FIN|ACK"} => \A y \in Of(up, port) : y.flags \notin {"FIN|ACK"}
  BY DEF PeerLife
<1>5. Before(Append(up, x), port, {"FIN|ACK"}, {"FIN|ACK"})
  BY <1>1, <1>4, BeforeAppend DEF PeerLife
<1>6. \A s \in Of(Append(up, x), port) : s.ack <= peer.snd /\ (s.flags = "FIN|ACK" => s.ack > 0)
  BY <1>2 DEF PeerLife
<1> QED BY <1>2, <1>3, <1>5, <1>6

\* tcp_send_packet() on the main line: SYN, data or FIN.
LEMMA SendStep ==
    ASSUME TcpInv, NEW x \in Segs, x.port = port, x.ack = sock.ack_num, up' = Append(up, x),
           x.flags = "FIN|ACK" => ~done.fin /\ done'.fin /\ sock.ack_num > 0,
           sock' \in Socks, sock'.ack_num = sock.ack_num,
           pc' \in Places, PcLife', SockLife', used' \in Counters, arp' \in {"unknown", "asked", "known"},
           done' \in Marks, done.fin => done'.fin,
           sock.state \in SeenStates => sock'.state \in SeenStates,
           UNCHANGED <<irq, open, port, fault, down, peer, got>>
    PROVE  TcpInv'
<1> USE DEF TcpInv
<1>1. x.ack <= peer.snd /\ (x.flags = "FIN|ACK" => x.ack > 0)
  BY DEF PeerLife
<1>2. /\ up' \in Seq(Segs) /\ Past(up', port)
      /\ \A s \in Of(up', port) : s.ack <= peer.snd /\ (s.flags = "FIN|ACK" => s.ack > 0)
      /\ Before(up', port, {"FIN|ACK"}, {"FIN|ACK"})
      /\ \A s \in Of(up', port) : s \in Of(up, port) \/ s = x
  BY <1>1, UpFacts
<1>3. TcpTypes'
  BY <1>2 DEF TcpTypes
<1>4. Ports'
  BY <1>2 DEF Ports
<1>5. PeerLife'
  BY <1>2 DEF PeerLife
<1>6. DownLife'
  BY DEF DownLife, FromPeer
<1>7. Acked' => Acked
  BY <1>2 DEF Acked
<1>8. Seen'
  BY <1>7 DEF Seen
<1> QED BY <1>3, <1>4, <1>5, <1>6, <1>8

LEMMA ConnectStep ==
    ASSUME TcpInv, Connect
    PROVE  TcpInv'
<1> USE DEF TcpInv
<1>1. /\ sock.state = "CLOSED" /\ ~done.conn /\ pc' = "wait_established" /\ open
      /\ sock' = StateSeq(sock, "SYN_SENT", seq_after("SYN", 0))
      /\ UNCHANGED <<irq, open, port, fault, down, peer, got, done>>
  BY DEF Connect, StateSeq
<1>2. sock \in Socks /\ used \in Counters /\ sock.seq_num \in Nat /\ sock.ack_num \in Nat /\ done \in Marks
  BY DEF TcpTypes, Socks
<1>3. used' \in Counters
  BY <1>2 DEF Connect, Counters
<1>4. seq_after("SYN", 0) \in Nat /\ "SYN_SENT" \in TcpStates /\ "wait_established" \in Places
  BY <1>2 DEF seq_after, TcpStates, Places, Polling
<1>5. sock' \in Socks /\ sock'.state = "SYN_SENT" /\ sock'.ack_num = sock.ack_num
  BY <1>1, <1>2, <1>4, StateSeqFacts
<1>6. PcLife' /\ SockLife'
  BY <1>1, <1>5 DEF PcLife, SockLife
<1>7. arp' \in {"unknown", "asked", "known"}
  BY DEF Connect, ip_send_syn
<1>8. "SYN_SENT" \in SeenStates
  BY DEF SeenStates
<1>9. CASE tcp_send_packet("SYN", 0)
  <2> DEFINE x == Segment("SYN", sock.seq_num, sock.ack_num, 0)
  <2>1. up' = Append(up, x)
    BY <1>9 DEF tcp_send_packet
  <2>2. x \in Segs /\ x.port = port /\ x.ack = sock.ack_num /\ x.flags = "SYN"
    BY <1>2, SegmentFacts DEF Flags
  <2> HIDE DEF x
  <2> QED BY <1>1, <1>2, <1>3, <1>4, <1>5, <1>6, <1>7, <1>8, <2>1, <2>2, SendStep
<1>10. CASE UNCHANGED up
  <2>1. TcpTypes'
    BY <1>1, <1>2, <1>3, <1>4, <1>5, <1>7, <1>10 DEF TcpTypes
  <2>2. Ports' /\ PeerLife'
    BY <1>1, <1>5, <1>10 DEF Ports, PeerLife
  <2>3. DownLife' /\ Seen'
    BY <1>1, <1>5, <1>8, <1>10 DEF DownLife, FromPeer, Seen, Acked
  <2> QED BY <1>6, <2>1, <2>2, <2>3
<1> QED BY <1>9, <1>10 DEF Connect, ip_send_syn

LEMMA SendDataStep ==
    ASSUME TcpInv, Send
    PROVE  TcpInv'
<1> USE DEF TcpInv
<1> DEFINE x == Segment("PSH|ACK", sock.seq_num, sock.ack_num, 1)
<1>1. /\ up' = Append(up, x) /\ pc = "send" /\ pc' = "sent"
      /\ UNCHANGED <<irq, open, sock, port, fault, down, arp, peer, got, done>>
  BY DEF Send, tcp_send_packet
<1>2. sock \in Socks /\ used \in Counters /\ sock.seq_num \in Nat /\ sock.ack_num \in Nat /\ done \in Marks
      /\ arp \in {"unknown", "asked", "known"}
  BY DEF TcpTypes, Socks
<1>3. used' \in Counters
  BY <1>2 DEF Send, Counters
<1>4. x \in Segs /\ x.port = port /\ x.ack = sock.ack_num /\ x.flags = "PSH|ACK"
  BY <1>2, SegmentFacts DEF Flags
<1> HIDE DEF x
<1>5. PcLife' /\ SockLife' /\ pc' \in Places
  BY <1>1 DEF PcLife, SockLife, Places
<1> QED BY <1>1, <1>2, <1>3, <1>4, <1>5, SendStep

\* sk_close() sends the FIN, the only one of this socket.
LEMMA SendFinStep ==
    ASSUME TcpInv, SendFin
    PROVE  TcpInv'
<1> USE DEF TcpInv
<1> DEFINE x == Segment("FIN|ACK", sock.seq_num, sock.ack_num, 0)
           last_state == IF sock.state = "CLOSE_WAIT" THEN "LAST_ACK" ELSE "FIN_WAIT1"
<1>1. /\ up' = Append(up, x) /\ pc = "send_fin"
      /\ pc' = (IF last_state = "LAST_ACK" THEN "wait_closed" ELSE "wait_time_wait")
      /\ sock' = StateSeq(sock, last_state, seq_after("FIN|ACK", 0))
      /\ done' = [done EXCEPT !.fin = TRUE]
      /\ UNCHANGED <<irq, open, port, fault, down, arp, peer, used, got>>
  BY DEF SendFin, tcp_send_packet, StateSeq
<1>2. sock \in Socks /\ used \in Counters /\ sock.seq_num \in Nat /\ sock.ack_num \in Nat /\ done \in Marks
      /\ arp \in {"unknown", "asked", "known"}
  BY DEF TcpTypes, Socks
<1>3. sock.state \in {"ESTABLISHED", "CLOSE_WAIT"} /\ done.conn /\ ~done.fin /\ sock.ack_num > 0
  BY <1>1 DEF PcLife, SockLife
<1>4. done' \in Marks /\ done'.conn /\ done'.fin
  BY <1>1, <1>2, <1>3 DEF Marks
<1>5. x \in Segs /\ x.port = port /\ x.ack = sock.ack_num /\ x.flags = "FIN|ACK"
  BY <1>2, SegmentFacts, SMTT(40) DEF Flags, FinFlags
<1> HIDE DEF x
<1>6. seq_after("FIN|ACK", 0) \in Nat /\ last_state \in TcpStates
  BY <1>2 DEF seq_after, TcpStates
<1>7. last_state \in SeenStates \/ sock.state \notin SeenStates
  BY <1>3 DEF SeenStates
<1>8. pc' \in {"wait_closed", "wait_time_wait"}
  BY <1>1
<1>9. /\ last_state \in {"LAST_ACK", "FIN_WAIT1"}
      /\ last_state = "LAST_ACK" => sock.state = "CLOSE_WAIT"
  OBVIOUS
<1> HIDE DEF last_state
<1>10. sock' \in Socks /\ sock'.state = last_state /\ sock'.ack_num = sock.ack_num
  BY <1>1, <1>2, <1>6, StateSeqFacts
<1>11. PcLife' /\ pc' \in Places
  BY <1>4, <1>8 DEF PcLife, Places, Polling
<1>12. SockLife'
  BY <1>1, <1>3, <1>4, <1>9, <1>10 DEF SockLife
<1> QED BY <1>1, <1>2, <1>3, <1>4, <1>5, <1>7, <1>10, <1>11, <1>12, SendStep

-----------------------------------------------------------------------------
(* What the socket receives.                                               *)

\* The changes of state that a segment makes.
Moves(from, to) ==
    \/ from = to
    \/ from = "SYN_SENT" /\ to = "ESTABLISHED"
    \/ from = "FIN_WAIT1" /\ to = "FIN_WAIT2"
    \/ from = "CLOSING" /\ to = "TIME_WAIT"
    \/ from = "LAST_ACK" /\ to = "CLOSED"
    \/ /\ peer.fin > 0
       /\ \/ from = "FIN_WAIT1" /\ to \in {"CLOSING", "TIME_WAIT"}
          \/ from = "FIN_WAIT2" /\ to = "TIME_WAIT"
          \/ from = "ESTABLISHED" /\ to = "CLOSE_WAIT"

\* A segment for the open socket, with or without an acknowledgement of it.
LEMMA TakenStep ==
    ASSUME TcpInv, down # <<>>, down' = Tail(down), open, sock.live,
           sock' \in Socks, sock'.live = sock.live, Moves(sock.state, sock'.state),
           sock'.ack_num = sock.ack_num \/ (sock'.ack_num > 0 /\ sock'.ack_num <= peer.snd),
           sock'.state \notin {"CLOSED", "SYN_SENT"} => sock'.ack_num > 0,
           up' = up \/ \E x \in Segs : /\ up' = Append(up, x) /\ x.port = port
                                       /\ x.ack = sock'.ack_num /\ x.flags = "ACK",
           fault' \in {"none", "BUG", "freed"},
           Acked => sock'.state \in SeenStates,
           (peer.fin > 0 /\ sock'.ack_num > peer.fin) =>
             sock'.state \in SeenStates /\ \A s \in Of(Tail(down), port) : s.flags \notin Syns,
           UNCHANGED <<irq, pc, open, port, arp, peer, used, got, done>>
    PROVE  TcpInv'
<1> USE DEF TcpInv
<1>1. down \in Seq(Segs) /\ up \in Seq(Segs) /\ port \in Nat
  BY DEF TcpTypes
<1>2. /\ Of(Tail(down), port) \subseteq Of(down, port) /\ Past(Tail(down), port)
      /\ Tail(down) \in Seq(Segs) /\ Before(Tail(down), port, FinFlags, Syns)
  BY <1>1, OfTail, BeforeTail, TailFacts DEF Ports, DownLife
<1>3. sock'.ack_num <= peer.snd /\ sock'.ack_num \in Nat /\ peer.snd \in Nat
  BY DEF PeerLife, Socks, TcpTypes, Peers
<1>4. /\ up' \in Seq(Segs) /\ Past(up', port)
      /\ \A s \in Of(up', port) : s.ack <= peer.snd /\ (s.flags = "FIN|ACK" => s.ack > 0)
      /\ Before(up', port, {"FIN|ACK"}, {"FIN|ACK"})
      /\ \A s \in Of(up', port) : s \in Of(up, port) \/ (s.ack = sock'.ack_num /\ s.flags = "ACK")
  <2>1. CASE up' = up
    BY <1>1, <2>1 DEF Ports, PeerLife
  <2>2. ASSUME NEW x \in Segs, up' = Append(up, x), x.port = port,
               x.ack = sock'.ack_num, x.flags = "ACK"
        PROVE  /\ up' \in Seq(Segs) /\ Past(up', port)
               /\ \A s \in Of(up', port) : s.ack <= peer.snd /\ (s.flags = "FIN|ACK" => s.ack > 0)
               /\ Before(up', port, {"FIN|ACK"}, {"FIN|ACK"})
               /\ \A s \in Of(up', port) : s \in Of(up, port) \/ s = x
    BY <1>3, <2>2, UpFacts
  <2> QED BY <2>1, <2>2
<1>5. TcpTypes'
  BY <1>2, <1>4 DEF TcpTypes
<1>6. Ports'
  BY <1>2, <1>4 DEF Ports
<1>7. SockLife'
  BY DEF SockLife, Moves
<1>8. PcLife'
  BY DEF PcLife, Moves
<1>9. PeerLife'
  BY <1>3, <1>4 DEF PeerLife
<1>10. DownLife'
  BY <1>2 DEF DownLife, FromPeer
<1>11. Acked' => Acked \/ (peer.fin > 0 /\ sock'.ack_num > peer.fin)
  BY <1>4 DEF Acked
<1>12. Seen'
  BY <1>2, <1>11 DEF Seen
<1> QED BY <1>5, <1>6, <1>7, <1>8, <1>9, <1>10, <1>12

\* A segment is dropped, or lost.
LEMMA DropStep ==
    ASSUME TcpInv, fault' \in {"none", "BUG", "freed"}, used' \in Counters,
           up' = up \/ (up # <<>> /\ up' = Tail(up)),
           down' = down \/ (down # <<>> /\ down' = Tail(down)),
           UNCHANGED <<irq, pc, open, sock, port, arp, peer, got, done>>
    PROVE  TcpInv'
<1> USE DEF TcpInv
<1>1. down \in Seq(Segs) /\ up \in Seq(Segs) /\ port \in Nat
  BY DEF TcpTypes
<1>2. /\ Of(down', port) \subseteq Of(down, port) /\ Past(down', port)
      /\ down' \in Seq(Segs) /\ Before(down', port, FinFlags, Syns)
  <2>1. CASE down' = down
    BY <1>1, <2>1 DEF Ports, DownLife
  <2>2. CASE down # <<>> /\ down' = Tail(down)
    <3>1. /\ Of(Tail(down), port) \subseteq Of(down, port) /\ Past(Tail(down), port)
          /\ Tail(down) \in Seq(Segs) /\ Before(Tail(down), port, FinFlags, Syns)
      BY <1>1, <2>2, OfTail, BeforeTail, TailFacts DEF Ports, DownLife
    <3> QED BY <2>2, <3>1
  <2> QED BY <2>1, <2>2
<1>3. /\ Of(up', port) \subseteq Of(up, port) /\ Past(up', port)
      /\ up' \in Seq(Segs) /\ Before(up', port, {"FIN|ACK"}, {"FIN|ACK"})
  <2>1. CASE up' = up
    BY <1>1, <2>1 DEF Ports, PeerLife
  <2>2. CASE up # <<>> /\ up' = Tail(up)
    <3>1. /\ Of(Tail(up), port) \subseteq Of(up, port) /\ Past(Tail(up), port)
          /\ Tail(up) \in Seq(Segs) /\ Before(Tail(up), port, {"FIN|ACK"}, {"FIN|ACK"})
      BY <1>1, <2>2, OfTail, BeforeTail, TailFacts DEF Ports, PeerLife
    <3> QED BY <2>2, <3>1
  <2> QED BY <2>1, <2>2
<1>4. TcpTypes'
  BY <1>2, <1>3 DEF TcpTypes
<1>5. Ports' /\ SockLife' /\ PcLife'
  BY <1>2, <1>3 DEF Ports, SockLife, PcLife
<1>6. PeerLife'
  BY <1>3 DEF PeerLife
<1>7. DownLife'
  BY <1>2 DEF DownLife, FromPeer
<1>8. Acked' => Acked
  BY <1>3 DEF Acked
<1>9. Seen'
  BY <1>2, <1>8 DEF Seen
<1> QED BY <1>4, <1>5, <1>6, <1>7, <1>9

LEMMA DeliverStep ==
    ASSUME TcpInv, Deliver
    PROVE  TcpInv'
<1> USE DEF TcpInv
<1> DEFINE seg == Head(down)
<1>1. /\ down # <<>> /\ down' = Tail(down) /\ fault = "none"
      /\ UNCHANGED <<irq, pc, open, port, arp, peer, used, got, done>>
  BY DEF Deliver
<1>2. /\ sock \in Socks /\ down \in Seq(Segs) /\ port \in Nat /\ used \in Counters /\ peer \in Peers
      /\ sock.seq_num \in Nat /\ sock.ack_num \in Nat /\ sock.state \in TcpStates
  BY DEF TcpTypes, Socks
<1>3. seg \in Segs
  BY <1>1, <1>2, TailFacts
<1>4. seg.seq \in Nat /\ seg.len \in {0, 1} /\ seg.flags \in Flags
  BY <1>3 DEF Segs
<1>5. CASE UNCHANGED <<sock, up>> /\ fault' \in {"none", "BUG", "freed"}
  BY <1>1, <1>2, <1>5, DropStep
<1>6. ASSUME open, seg.port = port, sock.live,
             \/ DeliverSyn(seg) \/ DeliverFinData(seg) \/ DeliverFin(seg)
             \/ DeliverAck(seg) \/ DeliverData(seg)
      PROVE  TcpInv'
  <2>1. seg \in Of(down, port) /\ FromPeer(seg) /\ Of(Tail(down), port) \subseteq Of(down, port)
    BY <1>1, <1>2, <1>6, OfTail DEF DownLife
  <2>2. \A a \in Nat : tcp_send_ack(a) =>
          \E x \in Segs : up' = Append(up, x) /\ x.port = port /\ x.ack = a /\ x.flags = "ACK"
    <3> SUFFICES ASSUME NEW a \in Nat, tcp_send_ack(a)
                 PROVE  \E x \in Segs : up' = Append(up, x) /\ x.port = port /\ x.ack = a /\ x.flags = "ACK"
      OBVIOUS
    <3> DEFINE x == Segment("ACK", sock.seq_num, a, 0)
    <3>1. up' = Append(up, x)
      BY DEF tcp_send_ack
    <3>2. x \in Segs /\ x.port = port /\ x.ack = a /\ x.flags = "ACK"
      BY <1>2, SegmentFacts DEF Flags
    <3> HIDE DEF x
    <3> QED BY <3>1, <3>2
  <2>3. CASE DeliverSyn(seg)
    <3> DEFINE st == IF sock.state = "SYN_SENT" THEN "ESTABLISHED" ELSE sock.state
    <3>1. /\ sock' = AckState(sock, seg.seq + 1, st) /\ tcp_send_ack(seg.seq + 1)
          /\ seg.flags \in Syns /\ fault' \in {"none", "BUG", "freed"}
      BY <2>3 DEF DeliverSyn, AckState, Syns
    <3>2. st \in TcpStates /\ seg.seq + 1 \in Nat /\ seg.seq + 1 > 0 /\ Moves(sock.state, st)
      BY <1>2, <1>4 DEF TcpStates, Moves
    <3> HIDE DEF st
    <3>3. sock' \in Socks /\ sock'.state = st /\ sock'.ack_num = seg.seq + 1 /\ sock'.live = sock.live
      BY <1>2, <3>1, <3>2, AckStateFacts, ZenonT(40)
    <3>4. ~Acked
      BY <2>1, <3>1 DEF Seen
    <3>5. sock'.ack_num <= peer.snd /\ ~(peer.fin > 0 /\ sock'.ack_num > peer.fin)
      BY <1>2, <1>4, <2>1, <3>1, <3>3 DEF FromPeer, Peers
    <3> QED BY <1>1, <1>6, <2>2, <3>1, <3>2, <3>3, <3>4, <3>5, TakenStep
  <2>4. CASE DeliverFinData(seg) \/ DeliverData(seg)
    <3> DEFINE q == Append(sock.rx_qu, seg.seq)
    <3>1. /\ sock' = AckRx(sock, seg.seq + seg.len, q) /\ tcp_send_ack(seg.seq + seg.len)
          /\ fault' = fault /\ seg.len > 0
      BY <2>1, <2>4 DEF DeliverFinData, DeliverData, AckRx, FromPeer
    <3>2. q \in Seq(Nat) /\ seg.seq + seg.len \in Nat /\ seg.seq + seg.len > 0
      BY <1>2, <1>4, <3>1 DEF Socks
    <3> HIDE DEF q
    <3>3. /\ sock' \in Socks /\ sock'.state = sock.state /\ sock'.ack_num = seg.seq + seg.len
          /\ sock'.live = sock.live
      BY <1>2, <3>1, <3>2, AckRxFacts
    <3>4. sock'.ack_num <= peer.snd /\ ~(peer.fin > 0 /\ sock'.ack_num > peer.fin)
      BY <1>2, <1>4, <2>1, <3>1, <3>3 DEF FromPeer, Peers
    <3>5. Acked => sock'.state \in SeenStates
      BY <3>3 DEF Seen
    <3>6. Moves(sock.state, sock'.state) /\ fault' \in {"none", "BUG", "freed"}
      BY <1>1, <3>1, <3>3 DEF Moves
    <3>7. up' = up \/ \E x \in Segs : /\ up' = Append(up, x) /\ x.port = port
                                      /\ x.ack = sock'.ack_num /\ x.flags = "ACK"
      BY <2>2, <3>1, <3>2, <3>3
    <3>8. sock'.ack_num > 0
      BY <3>2, <3>3
    <3> QED BY <1>1, <1>6, <3>3, <3>4, <3>5, <3>6, <3>7, <3>8, TakenStep
  <2>5. CASE DeliverFin(seg)
    <3>1. seg.flags \in FinFlags /\ seg.len = 0 /\ peer.fin > 0 /\ seg.seq + 1 <= peer.snd
      BY <2>1, <2>5 DEF DeliverFin, FromPeer
    <3>2. \A s \in Of(Tail(down), port) : s.flags \notin Syns
      BY <1>1, <1>2, <1>6, <3>1, BeforeTail DEF DownLife
    <3>3. seg.seq + 1 \in Nat /\ seg.seq + 1 > 0
      BY <1>4
    <3> DEFINE st == StateAfterFin(seg.flags)
    <3>4. CASE st = "BUG"
      <4>1. /\ fault' = "BUG" /\ sock' = [sock EXCEPT !.ack_num = seg.seq + 1] /\ UNCHANGED up
        BY <2>5, <3>4 DEF DeliverFin
      <4>2. /\ sock' \in Socks /\ sock'.state = sock.state /\ sock'.ack_num = seg.seq + 1
            /\ sock'.live = sock.live
        BY <1>2, <3>3, <4>1, AckFacts
      <4>3. sock.state \notin {"FIN_WAIT1", "FIN_WAIT2", "ESTABLISHED"}
        BY <3>4 DEF StateAfterFin
      <4>4. sock.state \in SeenStates
        BY <1>2, <4>3 DEF SockLife, SeenStates, TcpStates
      <4>5. Moves(sock.state, sock'.state)
        BY <4>2 DEF Moves
      <4> QED BY <1>1, <1>6, <3>1, <3>2, <3>3, <4>1, <4>2, <4>4, <4>5, TakenStep
    <3>5. CASE st # "BUG"
      <4>1. /\ fault' = fault /\ sock' = AckState(sock, seg.seq + 1, st) /\ tcp_send_ack(seg.seq + 1)
        BY <2>5, <3>5 DEF DeliverFin, AckState
      <4>2. st \in {"CLOSING", "TIME_WAIT", "CLOSE_WAIT"} /\ Moves(sock.state, st)
        BY <3>1, <3>5 DEF StateAfterFin, Moves
      <4> HIDE DEF st
      <4>3. st \in TcpStates /\ st \in SeenStates
        BY <4>2 DEF TcpStates, SeenStates
      <4>4. sock' \in Socks /\ sock'.state = st /\ sock'.ack_num = seg.seq + 1 /\ sock'.live = sock.live
        BY <1>2, <3>3, <4>1, <4>3, AckStateFacts, ZenonT(40)
      <4>5. fault' \in {"none", "BUG", "freed"}
        BY <1>1, <4>1
      <4> QED BY <1>1, <1>6, <2>2, <3>1, <3>2, <3>3, <4>1, <4>2, <4>3, <4>4, <4>5, TakenStep
    <3> QED BY <3>4, <3>5
  <2>6. CASE DeliverAck(seg)
    <3> DEFINE st == CASE sock.state = "FIN_WAIT1" -> "FIN_WAIT2"
                       [] sock.state = "CLOSING"   -> "TIME_WAIT"
                       [] sock.state = "LAST_ACK"  -> "CLOSED"
                       [] OTHER                    -> sock.state
    <3>1. sock' = [sock EXCEPT !.state = st] /\ UNCHANGED <<fault, up>>
      BY <2>6 DEF DeliverAck
    <3>2. st \in TcpStates /\ Moves(sock.state, st)
      BY <1>2 DEF TcpStates, Moves
    <3>3. Acked => st \in SeenStates
      BY DEF Seen, SeenStates
    <3>4. st \notin {"CLOSED", "SYN_SENT"} => sock.ack_num > 0
      BY DEF SockLife
    <3> HIDE DEF st
    <3>5. sock' \in Socks /\ sock'.state = st /\ sock'.ack_num = sock.ack_num /\ sock'.live = sock.live
      BY <1>2, <3>1, <3>2, StateFacts
    <3>6. (peer.fin > 0 /\ sock'.ack_num > peer.fin) => Acked
      BY <3>5 DEF Acked
    <3>7. Acked => \A s \in Of(Tail(down), port) : s.flags \notin Syns
      BY <2>1 DEF Seen
    <3>8. fault' \in {"none", "BUG", "freed"}
      BY <1>1, <3>1
    <3> QED BY <1>1, <1>6, <3>1, <3>2, <3>3, <3>4, <3>5, <3>6, <3>7, <3>8, TakenStep
  <2> QED BY <1>6, <2>3, <2>4, <2>5, <2>6
<1> QED BY <1>1, <1>5, <1>6 DEF Deliver, DeliverOther

-----------------------------------------------------------------------------
(* The peer.                                                               *)

\* The peer sends a segment, or none, and its numbers move on.
LEMMA PeerStep ==
    ASSUME TcpInv, peer' \in Peers, peer'.snd >= peer.snd, peer'.una <= peer'.snd,
           peer'.una = peer.una \/ \E s \in Of(up, port) : peer'.una = s.ack,
           peer'.st = "LISTEN" <=> peer'.snd = 0,
           peer'.st \notin {"LISTEN", "SYN_RCVD"} => peer'.una > 0,
           peer'.fin > 0 <=> peer'.st \in {"FIN_SENT", "LAST_ACK", "DONE"},
           peer'.fin > 0 => peer'.snd = peer'.fin + 1,
           peer.fin > 0 => peer'.fin = peer.fin,
           peer.fin = 0 /\ peer'.fin > 0 => peer'.fin >= peer.snd,
           up' \in Seq(Segs), Past(up', port), Of(up', port) \subseteq Of(up, port),
           Before(up', port, {"FIN|ACK"}, {"FIN|ACK"}),
           peer'.st \in {"CLOSE_WAIT", "LAST_ACK", "DONE"} =>
             done.fin /\ \A s \in Of(up', port) : s.flags # "FIN|ACK",
           down' \in Seq(Segs), Past(down', port), \A s \in Of(down', port) : FromPeer(s)',
           Before(down', port, FinFlags, Syns),
           Acked => \A s \in Of(down', port) : s.flags \notin Syns,
           used' \in Counters,
           UNCHANGED <<irq, pc, open, sock, port, fault, arp, got, done>>
    PROVE  TcpInv'
<1> USE DEF TcpInv
<1>1. /\ peer \in Peers /\ sock \in Socks /\ up \in Seq(Segs) /\ port \in Nat
  BY DEF TcpTypes
<1>2. /\ peer.snd \in Nat /\ peer.una \in Nat /\ peer.fin \in Nat /\ sock.ack_num \in Nat
      /\ peer'.snd \in Nat /\ peer'.una \in Nat /\ peer'.fin \in Nat
      /\ \A s \in Of(up, port) : s.ack \in Nat
  <2>1. \A s \in Of(up, port) : s \in Segs
    BY <1>1, OfFacts
  <2> QED BY <1>1, <2>1 DEF Peers, Socks, Segs
<1>3. TcpTypes'
  BY DEF TcpTypes
<1>4. Ports'
  BY DEF Ports
<1>5. SockLife'
  BY <1>2 DEF SockLife
<1>6. PcLife'
  BY DEF PcLife
<1>7. PeerLife'
  <2>1. sock.ack_num <= peer'.snd
    BY <1>2 DEF PeerLife
  <2>2. \A s \in Of(up', port) : s.ack <= peer'.snd /\ (s.flags = "FIN|ACK" => s.ack > 0)
    BY <1>2 DEF PeerLife
  <2>3. ~done.fin => \A s \in Of(up', port) : s.flags # "FIN|ACK"
    BY DEF PeerLife
  <2> QED BY <2>1, <2>2, <2>3 DEF PeerLife
<1>8. DownLife'
  BY DEF DownLife
<1>9. Acked' => Acked
  <2> SUFFICES ASSUME Acked' PROVE Acked
    OBVIOUS
  <2>1. peer'.fin > 0 /\ \/ peer'.una > peer'.fin \/ sock.ack_num > peer'.fin
                         \/ \E s \in Of(up', port) : s.ack > peer'.fin
    BY DEF Acked
  <2>2. CASE peer.fin > 0
    BY <2>1, <2>2 DEF Acked
  <2>3. CASE peer.fin = 0
    <3>1. /\ sock.ack_num <= peer.snd /\ peer.una <= peer.snd /\ peer'.fin >= peer.snd
          /\ \A s \in Of(up, port) : s.ack <= peer.snd
      BY <2>1, <2>3 DEF PeerLife
    <3>2. peer'.una <= peer.snd
      BY <3>1
    <3> QED BY <1>2, <2>1, <3>1, <3>2, SMTT(40)
  <2> QED BY <1>2, <2>2, <2>3
<1>10. Seen'
  BY <1>9 DEF Seen
<1> QED BY <1>3, <1>4, <1>5, <1>6, <1>7, <1>8, <1>10

LEMMA FromPeerKept ==
    ASSUME TcpInv, NEW s \in Segs, FromPeer(s), peer' \in Peers, peer'.snd >= peer.snd,
           peer.fin > 0 => peer'.fin = peer.fin,
           peer.fin = 0 /\ peer'.fin > 0 => peer'.fin >= peer.snd
    PROVE  FromPeer(s)'
<1>1. peer \in Peers
  BY DEF TcpInv, TcpTypes
<1>2. /\ peer.snd \in Nat /\ peer.fin \in Nat /\ peer'.snd \in Nat /\ peer'.fin \in Nat
      /\ s.seq \in Nat /\ s.len \in Nat
  BY <1>1 DEF Peers, Segs
<1>3. peer.fin > 0 => peer'.fin > 0
  BY <1>2
<1>4. CASE peer.fin > 0
  BY <1>2, <1>4 DEF FromPeer
<1>5. CASE peer.fin = 0
  BY <1>2, <1>5 DEF FromPeer
<1> QED BY <1>2, <1>4, <1>5

LEMMA DownFacts ==
    ASSUME TcpInv, NEW x \in Segs, x.port = port, FromPeer(x)',
           \A s \in Of(down, port) : FromPeer(s)',
           x.flags \in Syns => \A y \in Of(down, port) : y.flags \notin FinFlags,
           down' = Append(down, x)
    PROVE  /\ down' \in Seq(Segs) /\ Past(down', port) /\ \A s \in Of(down', port) : FromPeer(s)'
           /\ Before(down', port, FinFlags, Syns)
           /\ \A s \in Of(down', port) : s \in Of(down, port) \/ s = x
<1> USE DEF TcpInv
<1>1. down \in Seq(Segs) /\ port \in Nat /\ port <= port
  BY DEF TcpTypes
<1>2. /\ \A y \in Of(Append(down, x), port) : y \in Of(down, port) \/ y = x
      /\ Past(Append(down, x), port)
  BY <1>1, OfAppend DEF Ports
<1>3. Append(down, x) \in Seq(Segs)
  BY <1>1
<1>4. Before(Append(down, x), port, FinFlags, Syns)
  BY <1>1, BeforeAppend DEF DownLife
<1>5. \A s \in Of(down', port) : FromPeer(s)'
  BY <1>2
<1> QED BY <1>2, <1>3, <1>4, <1>5

\* The peer sends on its own: data or a FIN.
LEMMA PeerSendStep ==
    ASSUME TcpInv, NEW x \in Segs, x.port = port, FromPeer(x)', down' = Append(down, x),
           x.flags \notin Syns, peer' \in Peers, peer'.una = peer.una, peer'.snd > peer.snd,
           peer.fin = 0, peer'.fin > 0 => peer'.snd = peer'.fin + 1 /\ peer'.fin >= peer.snd,
           peer.st \in {"ESTABLISHED", "CLOSE_WAIT"},
           peer'.fin > 0 <=> peer'.st \in {"FIN_SENT", "LAST_ACK"},
           peer'.st \in {"ESTABLISHED", "CLOSE_WAIT", "FIN_SENT", "LAST_ACK"},
           peer'.st \in {"CLOSE_WAIT", "LAST_ACK"} => peer.st = "CLOSE_WAIT",
           used' \in Counters,
           UNCHANGED <<irq, pc, open, sock, port, fault, up, arp, got, done>>
    PROVE  TcpInv'
<1> USE DEF TcpInv
<1>1. /\ peer \in Peers /\ up \in Seq(Segs) /\ port \in Nat /\ down \in Seq(Segs)
  BY DEF TcpTypes
<1>2. /\ peer.snd \in Nat /\ peer.una \in Nat /\ peer'.snd \in Nat /\ peer'.fin \in Nat
  BY <1>1 DEF Peers
<1>3. /\ peer'.una <= peer'.snd /\ peer'.snd >= peer.snd /\ peer'.una > 0
      /\ (peer'.st = "LISTEN" <=> peer'.snd = 0)
  BY <1>2 DEF PeerLife
<1>4. \A s \in Of(down, port) : FromPeer(s)'
  <2>1. \A s \in Of(down, port) : s \in Segs /\ FromPeer(s)
    BY <1>1, OfFacts DEF DownLife
  <2> QED BY <1>3, <2>1, FromPeerKept
<1>5. /\ down' \in Seq(Segs) /\ Past(down', port) /\ \A s \in Of(down', port) : FromPeer(s)'
      /\ Before(down', port, FinFlags, Syns)
  BY <1>4, DownFacts
<1>6. ~Acked
  BY DEF Acked
<1>7. /\ peer'.st \in {"CLOSE_WAIT", "LAST_ACK", "DONE"} =>
           done.fin /\ \A s \in Of(up', port) : s.flags # "FIN|ACK"
      /\ Past(up, port) /\ Before(up, port, {"FIN|ACK"}, {"FIN|ACK"})
  BY DEF PeerLife, Ports
<1> QED BY <1>1, <1>3, <1>5, <1>6, <1>7, PeerStep

LEMMA PeerDataStep ==
    ASSUME TcpInv, PeerData
    PROVE  TcpInv'
<1> USE DEF TcpInv
<1>1. /\ peer.st \in {"ESTABLISHED", "CLOSE_WAIT"} /\ peer' = [peer EXCEPT !.snd = @ + 1]
      /\ used' = [used EXCEPT !.data = @ + 1]
      /\ UNCHANGED <<irq, pc, open, sock, port, fault, up, arp, got, done>>
  BY DEF PeerData
<1>2. peer \in Peers /\ used \in Counters /\ peer.snd \in Nat /\ peer.rcv \in Nat
  BY DEF TcpTypes, Peers
<1>3. /\ peer' \in Peers /\ peer'.snd = peer.snd + 1 /\ peer'.una = peer.una /\ peer'.st = peer.st
      /\ peer'.fin = peer.fin
  BY <1>1, <1>2 DEF Peers
<1>4. used' \in Counters
  BY <1>1, <1>2 DEF Counters
<1>5. peer.fin = 0
  BY <1>1, <1>2 DEF PeerLife, Peers
<1>6. PICK flags \in {"ACK", "PSH|ACK"} : down' = Append(down, Segment(flags, peer.snd, peer.rcv, 1))
  BY DEF PeerData, peerSend
<1>7. flags \in Flags
  BY DEF Flags
<1>8. PICK x \in Segs : /\ x.port = port /\ x.flags = flags /\ x.seq = peer.snd /\ x.len = 1
                       /\ down' = Append(down, x)
  BY <1>2, <1>6, <1>7, SegmentFacts
<1>9. FromPeer(x)' /\ x.flags \notin Syns
  BY <1>2, <1>3, <1>5, <1>8 DEF FromPeer, FinFlags, Syns
<1>10. peer'.snd > peer.snd
  BY <1>2, <1>3
<1>11. peer'.fin > 0 <=> peer'.st \in {"FIN_SENT", "LAST_ACK"}
  BY <1>1, <1>3, <1>5
<1>12. ~(peer'.fin > 0)
  BY <1>3, <1>5
<1> QED BY <1>1, <1>3, <1>4, <1>5, <1>8, <1>9, <1>10, <1>11, <1>12, PeerSendStep

\* The peer's numbers after its FIN.
FinPeer(p, len) ==
    [p EXCEPT !.fin = p.snd + len, !.snd = @ + len + 1,
              !.st = IF @ = "CLOSE_WAIT" THEN "LAST_ACK" ELSE "FIN_SENT"]

LEMMA FinPeerFacts ==
    ASSUME NEW p \in Peers, NEW l \in {0, 1}
    PROVE  /\ FinPeer(p, l) \in Peers /\ FinPeer(p, l).fin = p.snd + l
           /\ FinPeer(p, l).snd = p.snd + l + 1 /\ FinPeer(p, l).una = p.una
           /\ FinPeer(p, l).st = IF p.st = "CLOSE_WAIT" THEN "LAST_ACK" ELSE "FIN_SENT"
<1> DEFINE f == p.snd + l
           n == p.snd + l + 1
           st == IF p.st = "CLOSE_WAIT" THEN "LAST_ACK" ELSE "FIN_SENT"
           v == [p EXCEPT !.fin = f]
           w == [v EXCEPT !.snd = n]
<1>1. f \in Nat /\ n \in Nat /\ st \in PeerStates
  BY DEF Peers, PeerStates
<1>2. FinPeer(p, l) = [w EXCEPT !.st = st]
  BY DEF FinPeer, Peers
<1> HIDE DEF f, n, st
<1>3. v \in Peers /\ v.fin = f /\ v.una = p.una
  BY <1>1 DEF Peers
<1> HIDE DEF v
<1>4. w \in Peers /\ w.fin = f /\ w.una = p.una /\ w.snd = n
  BY <1>1, <1>3 DEF Peers
<1> HIDE DEF w
<1>5. /\ FinPeer(p, l) \in Peers /\ FinPeer(p, l).fin = f /\ FinPeer(p, l).snd = n
      /\ FinPeer(p, l).una = p.una /\ FinPeer(p, l).st = st
  BY <1>1, <1>2, <1>4 DEF Peers
<1> QED BY <1>5 DEF f, n, st

LEMMA PeerFinStep ==
    ASSUME TcpInv, PeerFin
    PROVE  TcpInv'
<1> USE DEF TcpInv
<1>1. PICK flags \in FinFlags, len \in {0, 1} :
        /\ down' = Append(down, Segment(flags, peer.snd, peer.rcv, len))
        /\ peer' = FinPeer(peer, len)
        /\ used' = [used EXCEPT !.data = @ + len]
  BY DEF PeerFin, peerSend, FinPeer
<1>2. /\ peer.st \in {"ESTABLISHED", "CLOSE_WAIT"}
      /\ UNCHANGED <<irq, pc, open, sock, port, fault, up, arp, got, done>>
  BY DEF PeerFin
<1>3. peer \in Peers /\ used \in Counters /\ peer.snd \in Nat /\ peer.rcv \in Nat /\ len \in Nat
  BY DEF TcpTypes, Peers
<1>4. /\ peer' \in Peers /\ peer'.fin = peer.snd + len /\ peer'.snd = peer.snd + len + 1
      /\ peer'.una = peer.una
      /\ peer'.st = IF peer.st = "CLOSE_WAIT" THEN "LAST_ACK" ELSE "FIN_SENT"
  BY <1>1, <1>3, FinPeerFacts
<1>5. used' \in Counters
  BY <1>1, <1>3, SMTT(40) DEF Counters
<1>6. peer.fin = 0 /\ peer.snd > 0
  BY <1>2, <1>3 DEF PeerLife, Peers
<1>7. flags \in Flags
  BY DEF Flags
<1>8. PICK x \in Segs : /\ x.port = port /\ x.flags = flags /\ x.seq = peer.snd /\ x.len = len
                       /\ down' = Append(down, x)
  BY <1>1, <1>3, <1>7, SegmentFacts
<1>9. /\ peer'.fin \in Nat /\ peer'.snd \in Nat /\ peer'.fin > 0 /\ peer'.snd = peer'.fin + 1
      /\ peer'.fin >= peer.snd /\ peer'.snd > peer.snd
      /\ peer.snd + len <= peer'.fin /\ peer.snd + len <= peer'.snd
      /\ (len = 0 => peer.snd + 1 <= peer'.snd)
  BY <1>3, <1>4, <1>6
<1>10. FromPeer(x)' /\ x.flags \notin Syns
  BY <1>8, <1>9 DEF FromPeer, FinFlags, Syns
<1>11. /\ peer'.st \in {"FIN_SENT", "LAST_ACK"}
       /\ peer'.st = "LAST_ACK" => peer.st = "CLOSE_WAIT"
  BY <1>4
<1> QED BY <1>2, <1>4, <1>5, <1>6, <1>8, <1>9, <1>10, <1>11, PeerSendStep

LEMMA PeerRetransmitStep ==
    ASSUME TcpInv, PeerRetransmit
    PROVE  TcpInv'
<1> USE DEF TcpInv
<1> DEFINE flags == CASE peer.una = 0                       -> "SYN|ACK"
                      [] peer.una > 0 /\ peer.una = peer.fin -> "FIN|ACK"
                      [] OTHER                              -> "PSH|ACK"
           len == IF peer.una \in {0, peer.fin} THEN 0 ELSE 1
<1>1. /\ up = <<>> /\ down = <<>> /\ peer.una < peer.snd
      /\ down' = <<Segment(flags, peer.una, peer.rcv, len)>>
      /\ UNCHANGED <<irq, pc, open, sock, port, fault, up, arp, peer, used, got, done>>
  BY DEF PeerRetransmit
<1>2. /\ peer \in Peers /\ peer.snd \in Nat /\ peer.rcv \in Nat /\ peer.una \in Nat /\ peer.fin \in Nat
      /\ down \in Seq(Segs) /\ up \in Seq(Segs) /\ port \in Nat /\ used \in Counters
  BY DEF TcpTypes, Peers
<1>3. flags \in Flags /\ len \in {0, 1}
  BY DEF Flags, FinFlags
<1>4. /\ flags \in {"SYN|ACK", "FIN|ACK", "PSH|ACK"}
      /\ flags = "SYN|ACK" => peer.una = 0 /\ len = 0
      /\ flags = "FIN|ACK" => peer.una = peer.fin /\ peer.una > 0 /\ len = 0
      /\ flags = "PSH|ACK" => peer.una # peer.fin /\ peer.una > 0 /\ len = 1
  <2>1. CASE peer.una = 0
    <3>0. len = 0
      BY <2>1
    <3>1. flags = "SYN|ACK" /\ len = 0
      BY <1>2, <2>1, <3>0
    <3> QED BY <2>1, <3>1
  <2>2. CASE peer.una # 0 /\ peer.una = peer.fin
    <3>1. flags = "FIN|ACK" /\ len = 0
      BY <1>2, <2>2
    <3> QED BY <1>2, <2>2, <3>1
  <2>3. CASE peer.una # 0 /\ peer.una # peer.fin
    <3>1. flags = "PSH|ACK" /\ len = 1
      BY <2>3
    <3> QED BY <1>2, <2>3, <3>1
  <2> QED BY <2>1, <2>2, <2>3
<1>5. PICK x \in Segs : /\ x.port = port /\ x.flags = flags /\ x.seq = peer.una /\ x.len = len
                       /\ down' = Append(down, x)
  <2> DEFINE x == Segment(flags, peer.una, peer.rcv, len)
  <2> HIDE DEF flags, len
  <2>1. x \in Segs /\ x.port = port /\ x.flags = flags /\ x.seq = peer.una /\ x.len = len
    BY <1>2, <1>3, SegmentFacts
  <2>2. down' = <<x>>
    BY <1>1
  <2> HIDE DEF x
  <2>3. <<x>> = Append(<<>>, x)
    OBVIOUS
  <2> QED BY <1>1, <2>1, <2>2, <2>3
<1> HIDE DEF flags, len
<1>6. Of(down, port) = {} /\ Of(up, port) = {}
  BY <1>1 DEF Of
<1>7. peer.fin > 0 => peer.snd = peer.fin + 1 /\ peer.una > 0
  BY DEF PeerLife
<1>8. FromPeer(x)
  <2>1. x.flags \in FinFlags => flags = "FIN|ACK"
    BY <1>4, <1>5 DEF FinFlags
  <2>2. x.flags \in Syns => flags = "SYN|ACK"
    BY <1>4, <1>5 DEF Syns
  <2>3. CASE flags = "FIN|ACK"
    BY <1>1, <1>2, <1>4, <1>5, <2>2, <2>3 DEF FromPeer
  <2>4. CASE flags = "SYN|ACK"
    BY <1>1, <1>2, <1>4, <1>5, <1>7, <2>1, <2>4 DEF FromPeer
  <2>5. CASE flags = "PSH|ACK"
    BY <1>1, <1>2, <1>4, <1>5, <1>7, <2>1, <2>2, <2>5 DEF FromPeer
  <2> QED BY <1>4, <2>3, <2>4, <2>5
<1>9. FromPeer(x)'
  BY <1>1, <1>8 DEF FromPeer
<1>10. /\ down' \in Seq(Segs) /\ Past(down', port) /\ \A s \in Of(down', port) : FromPeer(s)'
       /\ Before(down', port, FinFlags, Syns) /\ \A s \in Of(down', port) : s = x
  BY <1>5, <1>6, <1>9, DownFacts
<1>11. Acked => x.flags \notin Syns
  BY <1>2, <1>4, <1>5, <1>7 DEF Acked, Syns
<1>12. /\ peer'.snd >= peer.snd /\ peer'.una <= peer'.snd /\ (peer'.st = "LISTEN" <=> peer'.snd = 0)
       /\ (peer'.st \notin {"LISTEN", "SYN_RCVD"} => peer'.una > 0)
       /\ (peer'.fin > 0 <=> peer'.st \in {"FIN_SENT", "LAST_ACK", "DONE"})
       /\ (peer'.fin > 0 => peer'.snd = peer'.fin + 1) /\ ~(peer.fin = 0 /\ peer'.fin > 0)
       /\ (peer'.st \in {"CLOSE_WAIT", "LAST_ACK", "DONE"} => done.fin)
  BY <1>1, <1>2 DEF PeerLife
<1>13. Past(up', port) /\ Before(up', port, {"FIN|ACK"}, {"FIN|ACK"}) /\ Of(up', port) = {}
  BY <1>1, <1>6 DEF PeerLife, Ports
<1> QED BY <1>1, <1>2, <1>6, <1>10, <1>11, <1>12, <1>13, PeerStep

LEMMA LoseStep ==
    ASSUME TcpInv, Lose
    PROVE  TcpInv'
<1>1. used \in Counters /\ fault \in {"none", "BUG", "freed"}
  BY DEF TcpInv, TcpTypes
<1>2. used' \in Counters /\ fault' = fault
  BY <1>1 DEF Lose, Counters
<1> QED BY <1>1, <1>2, DropStep DEF Lose

\* The peer takes the SYN.
SynPeer(p, n) == [p EXCEPT !.st = "SYN_RCVD", !.snd = 1, !.rcv = n]

LEMMA SynPeerFacts ==
    ASSUME NEW p \in Peers, NEW n \in Nat
    PROVE  /\ SynPeer(p, n) \in Peers /\ SynPeer(p, n).st = "SYN_RCVD" /\ SynPeer(p, n).snd = 1
           /\ SynPeer(p, n).una = p.una /\ SynPeer(p, n).fin = p.fin /\ SynPeer(p, n).rcv = n
<1> DEFINE v == [p EXCEPT !.st = "SYN_RCVD"]
           w == [v EXCEPT !.snd = 1]
<1>1. SynPeer(p, n) = [w EXCEPT !.rcv = n]
  BY DEF SynPeer, Peers
<1>2. v \in Peers /\ v.st = "SYN_RCVD" /\ v.una = p.una /\ v.fin = p.fin
  BY DEF Peers, PeerStates
<1> HIDE DEF v
<1>3. w \in Peers /\ w.st = "SYN_RCVD" /\ w.una = p.una /\ w.fin = p.fin /\ w.snd = 1
  BY <1>2 DEF Peers
<1> HIDE DEF w
<1> QED BY <1>1, <1>3 DEF Peers

\* The FIN of the socket arrives.
ClosedPeer(p) ==
    [p EXCEPT !.rcv = @ + 1, !.st = IF @ = "FIN_SENT" THEN "LAST_ACK" ELSE "CLOSE_WAIT"]

LEMMA ClosedPeerFacts ==
    ASSUME NEW p \in Peers
    PROVE  /\ ClosedPeer(p) \in Peers /\ ClosedPeer(p).snd = p.snd /\ ClosedPeer(p).una = p.una
           /\ ClosedPeer(p).fin = p.fin /\ ClosedPeer(p).rcv = p.rcv + 1
           /\ ClosedPeer(p).st = IF p.st = "FIN_SENT" THEN "LAST_ACK" ELSE "CLOSE_WAIT"
<1> DEFINE n == p.rcv + 1
           st == IF p.st = "FIN_SENT" THEN "LAST_ACK" ELSE "CLOSE_WAIT"
           v == [p EXCEPT !.rcv = n]
<1>1. n \in Nat /\ st \in PeerStates
  BY DEF Peers, PeerStates
<1>2. ClosedPeer(p) = [v EXCEPT !.st = st]
  BY DEF ClosedPeer, Peers
<1> HIDE DEF n, st
<1>3. v \in Peers /\ v.snd = p.snd /\ v.una = p.una /\ v.fin = p.fin /\ v.rcv = n
  BY <1>1 DEF Peers
<1> HIDE DEF v
<1>4. /\ ClosedPeer(p) \in Peers /\ ClosedPeer(p).snd = p.snd /\ ClosedPeer(p).una = p.una
      /\ ClosedPeer(p).fin = p.fin /\ ClosedPeer(p).rcv = n /\ ClosedPeer(p).st = st
  BY <1>1, <1>2, <1>3 DEF Peers
<1> QED BY <1>4 DEF n, st

LEMMA PeerRecvStep ==
    ASSUME TcpInv, PeerRecv
    PROVE  TcpInv'
<1> USE DEF TcpInv
<1> DEFINE seg == Head(up)
<1>1. /\ up # <<>> /\ up' = Tail(up)
      /\ UNCHANGED <<irq, pc, open, sock, port, fault, arp, used, got, done>>
  BY DEF PeerRecv
<1>2. /\ up \in Seq(Segs) /\ down \in Seq(Segs) /\ port \in Nat /\ used \in Counters /\ peer \in Peers
      /\ peer.snd \in Nat /\ peer.una \in Nat /\ peer.fin \in Nat /\ peer.rcv \in Nat
      /\ fault \in {"none", "BUG", "freed"}
  BY DEF TcpTypes, Peers
<1>3. /\ seg \in Segs /\ Tail(up) \in Seq(Segs) /\ Of(Tail(up), port) \subseteq Of(up, port)
      /\ Past(Tail(up), port) /\ Before(Tail(up), port, {"FIN|ACK"}, {"FIN|ACK"})
      /\ seg.port = port => seg \in Of(up, port)
      /\ (seg.port = port /\ seg.flags \in {"FIN|ACK"}) =>
            \A y \in Of(Tail(up), port) : y.flags \notin {"FIN|ACK"}
  BY <1>1, <1>2, OfTail, BeforeTail, TailFacts DEF Ports, PeerLife
<1>4. seg.seq \in Nat /\ seg.ack \in Nat /\ seg.seq + 1 \in Nat
  BY <1>3 DEF Segs
<1>5. CASE UNCHANGED <<peer, down>>
  BY <1>1, <1>2, <1>5, DropStep
\* The segments that the peer sends now, and the ones under way.
<1>6. ASSUME NEW x \in Segs, x.port = port, down' = Append(down, x), FromPeer(x)',
             peer' \in Peers, peer'.snd >= peer.snd, peer'.fin = peer.fin,
             x.flags \in Syns => peer.fin = 0
      PROVE  /\ down' \in Seq(Segs) /\ Past(down', port) /\ \A s \in Of(down', port) : FromPeer(s)'
             /\ Before(down', port, FinFlags, Syns)
             /\ \A s \in Of(down', port) : s \in Of(down, port) \/ s = x
  <2>1. \A s \in Of(down, port) : s \in Segs /\ FromPeer(s)
    BY <1>2, OfFacts DEF DownLife
  <2>2. \A s \in Of(down, port) : FromPeer(s)'
    BY <1>2, <1>6, <2>1, FromPeerKept
  <2>3. x.flags \in Syns => \A y \in Of(down, port) : y.flags \notin FinFlags
    BY <1>2, <1>6, <2>1 DEF FromPeer
  <2> QED BY <1>6, <2>2, <2>3, DownFacts
<1>7. ASSUME NEW f \in Flags, NEW n \in Nat, NEW a \in Nat, down' = Append(down, Segment(f, n, a, 0))
      PROVE  \E x \in Segs : /\ x.port = port /\ x.flags = f /\ x.seq = n /\ x.len = 0
                             /\ down' = Append(down, x)
  BY <1>7, SegmentFacts
<1>8. CASE PeerSyn(seg) /\ UNCHANGED peer
  <2>1. peer.fin = 0 /\ down' = Append(down, Segment("RST|ACK", 0, seg.seq + 1, 0))
    <3>1. peer.st = "LISTEN" /\ ("SYN_RCVD" # "LISTEN")
      BY <1>8 DEF PeerSyn
    <3>2. peer.fin = 0
      BY <1>2, <3>1 DEF PeerLife
    <3>3. peer' # SynPeer(peer, seg.seq + 1)
      BY <1>2, <1>4, <1>8, <3>1, SynPeerFacts
    <3> QED BY <1>8, <3>2, <3>3 DEF PeerSyn, SynPeer
  <2>2. PICK x \in Segs : /\ x.port = port /\ x.flags = "RST|ACK" /\ x.seq = 0 /\ x.len = 0
                          /\ down' = Append(down, x)
    BY <1>4, <1>7, <2>1 DEF Flags
  <2>3. FromPeer(x)' /\ x.flags \notin Syns
    BY <2>2 DEF FromPeer, FinFlags, Syns
  <2>4. /\ down' \in Seq(Segs) /\ Past(down', port) /\ \A s \in Of(down', port) : FromPeer(s)'
        /\ Before(down', port, FinFlags, Syns)
    BY <1>2, <1>6, <1>8, <2>2, <2>3
  <2>5. ~Acked
    BY <2>1 DEF Acked
  <2>6. /\ peer'.snd >= peer.snd /\ peer'.una <= peer'.snd /\ (peer'.st = "LISTEN" <=> peer'.snd = 0)
        /\ (peer'.st \notin {"LISTEN", "SYN_RCVD"} => peer'.una > 0)
        /\ (peer'.fin > 0 <=> peer'.st \in {"FIN_SENT", "LAST_ACK", "DONE"})
        /\ ~(peer'.fin > 0) /\ ~(peer.fin > 0) /\ peer'.st = "LISTEN"
    BY <1>2, <1>8, <2>1 DEF PeerLife, PeerSyn
  <2> QED BY <1>1, <1>2, <1>3, <1>8, <2>4, <2>5, <2>6, PeerStep
<1>9. CASE PeerSyn(seg) /\ peer' = SynPeer(peer, seg.seq + 1)
  <2>1. peer.st = "LISTEN" /\ peer.fin = 0 /\ peer.snd = 0 /\ peer.una = 0
    BY <1>2, <1>9 DEF PeerSyn, PeerLife
  <2>2. /\ peer' \in Peers /\ peer'.st = "SYN_RCVD" /\ peer'.snd = 1 /\ peer'.una = 0 /\ peer'.fin = 0
    BY <1>2, <1>4, <1>9, <2>1, SynPeerFacts
  <2>3. down' = Append(down, Segment("SYN|ACK", 0, seg.seq + 1, 0))
    BY <1>9, <2>1, <2>2 DEF PeerSyn
  <2>4. PICK x \in Segs : /\ x.port = port /\ x.flags = "SYN|ACK" /\ x.seq = 0 /\ x.len = 0
                          /\ down' = Append(down, x)
    BY <1>4, <1>7, <2>3 DEF Flags
  <2>5. FromPeer(x)'
    BY <2>2, <2>4 DEF FromPeer, FinFlags, Syns
  <2>6. /\ down' \in Seq(Segs) /\ Past(down', port) /\ \A s \in Of(down', port) : FromPeer(s)'
        /\ Before(down', port, FinFlags, Syns)
    BY <1>2, <1>6, <2>1, <2>2, <2>4, <2>5
  <2>7. ~Acked
    BY <2>1 DEF Acked
  <2> QED BY <1>1, <1>2, <1>3, <2>1, <2>2, <2>6, <2>7, PeerStep
<1>10. CASE PeerTakes(seg)
  <2> DEFINE p == PeerAcked(peer, seg.ack)
             inSequence == seg.seq = p.rcv /\ p.st \notin {"LISTEN", "DONE"}
  <2>1. seg.flags # "SYN" /\ seg.port = port /\ seg \in Of(up, port)
    BY <1>3, <1>10 DEF PeerTakes
  <2>3. \/ seg.flags = "ACK" /\ peer' = p /\ UNCHANGED down
        \/ /\ seg.flags = "PSH|ACK" /\ inSequence /\ peer' = [p EXCEPT !.rcv = @ + 1]
           /\ down' = Append(down, Segment("ACK", p.snd, p.rcv + 1, 0))
        \/ /\ seg.flags = "FIN|ACK" /\ inSequence /\ peer' = ClosedPeer(p)
           /\ down' = Append(down, Segment("ACK", p.snd, p.rcv + 1, 0))
        \/ seg.flags # "ACK" /\ ~inSequence /\ peer' = p /\ UNCHANGED down
    BY <1>10 DEF PeerTakes, ClosedPeer
  <2> HIDE DEF p
  <2>2. /\ p \in Peers /\ p.snd = peer.snd /\ p.rcv = peer.rcv /\ p.fin = peer.fin
        /\ AckTaken(peer, seg.ack, p)
    BY <1>2, <1>4, PeerAckedFacts DEF p
  <2>4. /\ p.snd \in Nat /\ p.rcv \in Nat /\ p.una \in Nat /\ p.fin \in Nat
    BY <2>2 DEF Peers
  <2>5. seg.ack <= peer.snd /\ (seg.flags = "FIN|ACK" => seg.ack > 0)
    BY <2>1 DEF PeerLife
  <2>6. /\ p.una = peer.una \/ p.una = seg.ack
        /\ p.una <= p.snd /\ p.una >= peer.una /\ p.una >= seg.ack
    BY <1>2, <1>4, <2>2, <2>5 DEF PeerLife, AckTaken
  <2>7. \/ p.st = peer.st /\ (peer.st = "SYN_RCVD" => ~(p.una > 0))
        \/ peer.st = "SYN_RCVD" /\ p.st = "ESTABLISHED" /\ p.una > 0
        \/ peer.st = "LAST_ACK" /\ p.st = "DONE"
    BY <2>2 DEF AckTaken
  <2>8. /\ p.st = "LISTEN" <=> p.snd = 0
        /\ p.st \notin {"LISTEN", "SYN_RCVD"} => p.una > 0
        /\ p.fin > 0 <=> p.st \in {"FIN_SENT", "LAST_ACK", "DONE"}
        /\ p.fin > 0 => p.snd = p.fin + 1
        /\ p.st \in {"CLOSE_WAIT", "LAST_ACK", "DONE"} =>
             done.fin /\ \A s \in Of(up, port) : s.flags # "FIN|ACK"
    BY <1>2, <2>2, <2>4, <2>6, <2>7 DEF PeerLife
  <2>9. /\ peer' \in Peers /\ peer'.snd = p.snd /\ peer'.una = p.una /\ peer'.fin = p.fin
        /\ \/ peer'.st = p.st
           \/ /\ seg.flags = "FIN|ACK" /\ p.st \notin {"LISTEN", "DONE"}
              /\ peer'.st = IF p.st = "FIN_SENT" THEN "LAST_ACK" ELSE "CLOSE_WAIT"
    <3>1. CASE peer' = p
      BY <2>2, <3>1
    <3>2. CASE peer' = [p EXCEPT !.rcv = @ + 1]
      BY <2>2, <3>2 DEF Peers
    <3>3. CASE seg.flags = "FIN|ACK" /\ inSequence /\ peer' = ClosedPeer(p)
      BY <2>2, <3>3, ClosedPeerFacts
    <3> QED BY <2>3, <3>1, <3>2, <3>3
  <2>12. /\ peer'.st = "LISTEN" <=> peer'.snd = 0
         /\ peer'.st \notin {"LISTEN", "SYN_RCVD"} => peer'.una > 0
         /\ peer'.fin > 0 <=> peer'.st \in {"FIN_SENT", "LAST_ACK", "DONE"}
         /\ peer'.st \in {"CLOSE_WAIT", "LAST_ACK", "DONE"} =>
              done.fin /\ \A s \in Of(Tail(up), port) : s.flags # "FIN|ACK"
    <3>1. CASE peer'.st = p.st
      BY <1>3, <2>8, <2>9, <3>1
    <3>2. CASE /\ seg.flags = "FIN|ACK" /\ p.st \notin {"LISTEN", "DONE"}
               /\ peer'.st = IF p.st = "FIN_SENT" THEN "LAST_ACK" ELSE "CLOSE_WAIT"
      <4>1. p.una > 0 /\ done.fin /\ p.st \in {"ESTABLISHED", "FIN_SENT"}
        <5>1. p.una > 0
          BY <1>4, <2>4, <2>5, <2>6, <3>2
        <5>2. p.st \notin {"SYN_RCVD", "CLOSE_WAIT", "LAST_ACK"}
          BY <2>1, <2>7, <2>8, <3>2, <5>1
        <5>3. done.fin
          BY <2>1, <3>2 DEF PeerLife
        <5> QED BY <2>2, <3>2, <5>1, <5>2, <5>3 DEF Peers, PeerStates
      <4>2. \A y \in Of(Tail(up), port) : y.flags # "FIN|ACK"
        BY <1>3, <2>1, <3>2
      <4>3. \/ peer'.st = "CLOSE_WAIT" /\ p.st = "ESTABLISHED"
            \/ peer'.st = "LAST_ACK" /\ p.st = "FIN_SENT"
        BY <3>2, <4>1
      <4> QED BY <2>8, <2>9, <4>1, <4>2, <4>3
    <3> QED BY <2>9, <3>1, <3>2
  <2>13. /\ peer'.snd = peer.snd /\ peer'.fin = peer.fin /\ peer'.snd >= peer.snd
         /\ peer'.una <= peer'.snd /\ (peer'.fin > 0 => peer'.snd = peer'.fin + 1)
         /\ ~(peer.fin = 0 /\ peer'.fin > 0)
         /\ peer'.una = peer.una \/ \E s \in Of(up, port) : peer'.una = s.ack
    BY <1>2, <2>1, <2>2, <2>6, <2>8, <2>9
  <2>14. /\ down' \in Seq(Segs) /\ Past(down', port) /\ \A s \in Of(down', port) : FromPeer(s)'
         /\ Before(down', port, FinFlags, Syns)
         /\ Acked => \A s \in Of(down', port) : s.flags \notin Syns
    <3>1. CASE UNCHANGED down
      <4>1. \A s \in Of(down, port) : s \in Segs /\ FromPeer(s)
        BY <1>2, OfFacts DEF DownLife
      <4>2. \A s \in Of(down, port) : FromPeer(s)'
        BY <2>9, <2>13, <4>1, FromPeerKept
      <4> QED BY <1>1, <1>2, <3>1, <4>2 DEF Ports, DownLife, Seen
    <3>2. CASE down' = Append(down, Segment("ACK", p.snd, p.rcv + 1, 0))
      <4>1. p.rcv + 1 \in Nat /\ "ACK" \in Flags
        BY <2>4 DEF Flags
      <4>2. PICK x \in Segs : /\ x.port = port /\ x.flags = "ACK" /\ x.seq = p.snd /\ x.len = 0
                              /\ down' = Append(down, x)
        BY <1>7, <2>4, <3>2, <4>1
      <4>3. FromPeer(x)' /\ x.flags \notin Syns
        BY <4>2 DEF FromPeer, FinFlags, Syns
      <4>4. /\ down' \in Seq(Segs) /\ Past(down', port) /\ \A s \in Of(down', port) : FromPeer(s)'
            /\ Before(down', port, FinFlags, Syns)
            /\ \A s \in Of(down', port) : s \in Of(down, port) \/ s = x
        BY <1>6, <2>9, <2>13, <4>2, <4>3
      <4> QED BY <4>3, <4>4 DEF Seen
    <3> QED BY <2>3, <3>1, <3>2
  <2> QED BY <1>1, <1>2, <1>3, <2>9, <2>12, <2>13, <2>14, PeerStep
<1>11. PeerSyn(seg) => UNCHANGED peer \/ peer' = SynPeer(peer, seg.seq + 1)
  BY DEF PeerSyn, SynPeer
<1> QED BY <1>5, <1>8, <1>9, <1>10, <1>11 DEF PeerRecv

-----------------------------------------------------------------------------
(* The theorems.                                                           *)

LEMMA TcpStep == TcpInv /\ [Next]_vars => TcpInv'
<1> SUFFICES ASSUME TcpInv, [Next]_vars PROVE TcpInv'
  OBVIOUS
<1>1. CASE \/ ConnectTimeout \/ SendCheck \/ SendCount \/ RecvCheck \/ Recv \/ RecvAbort \/ Close
           \/ CloseWaitDone \/ CloseTimeout \/ ArpReply
  BY <1>1, IdleSteps
<1>2. CASE ConnectFail \/ TimeWaitOver \/ CloseTail \/ CloseNull
  BY <1>2, CloseSteps
<1>3. CASE Socket
  BY <1>3, SocketStep
<1>4. CASE Connect
  BY <1>4, ConnectStep
<1>5. CASE ConnectDone
  BY <1>5, ConnectDoneStep
<1>6. CASE Send
  BY <1>6, SendDataStep
<1>7. CASE SendFin
  BY <1>7, SendFinStep
<1>8. CASE Deliver
  BY <1>8, DeliverStep
<1>9. CASE PeerRecv
  BY <1>9, PeerRecvStep
<1>10. CASE PeerData
  BY <1>10, PeerDataStep
<1>11. CASE PeerFin
  BY <1>11, PeerFinStep
<1>12. CASE PeerRetransmit
  BY <1>12, PeerRetransmitStep
<1>13. CASE Lose
  BY <1>13, LoseStep
<1>14. CASE UNCHANGED vars
  BY <1>14 DEF vars, TcpInv, TcpTypes, Ports, SockLife, PcLife, PeerLife, DownLife, FromPeer,
               Seen, Acked
<1> QED BY <1>1, <1>2, <1>3, <1>4, <1>5, <1>6, <1>7, <1>8, <1>9, <1>10, <1>11, <1>12, <1>13, <1>14
        DEF Next, InCall, Calls

\* The variables of the stream socket have their types.
THEOREM TcpTypeCorrect == Spec => []TypeOK
<1>1. TcpInv => TypeOK
  BY DEF TcpInv, TcpTypes, TypeOK, Socks, Places
<1> QED BY <1>1, TcpInit, TcpStep, PTL DEF Spec

\* The descriptor of a connected socket is released only after both sides have
\* sent a FIN: with or without interrupts, and however late or lost the
\* segments are.
THEOREM TcpReleased == Spec => []ReleasedAfterBothFins
<1>1. TcpInv => ReleasedAfterBothFins
  BY DEF TcpInv, SockLife, ReleasedAfterBothFins
<1> QED BY <1>1, TcpInit, TcpStep, PTL DEF Spec

\* An acknowledgement of the peer's FIN means that the state machine of
\* tcp_layer_deliver() has taken note of it, also when segments are sent again
\* or lost and when connect() was tried more than once.
THEOREM TcpFinSeen == Spec => []FinAckedMeansSeen
<1>1. TcpInv => FinAckedMeansSeen
  BY DEF TcpInv, SockLife, Seen, Acked, SeenStates, FinAckedMeansSeen
<1> QED BY <1>1, TcpInit, TcpStep, PTL DEF Spec

-----------------------------------------------------------------------------
(* Numbered segments in a queue.                                           *)

Mine(s, p, K) == s.port = p /\ s \in K

\* The segments of port p and kind K in q are numbered in order, lo at the
\* earliest, and carry every number before hi but those of X.
Numbered(q, p, K, lo, hi, X) ==
    /\ lo <= hi
    /\ \A i, j \in 1 .. Len(q) :
         (i < j /\ Mine(q[i], p, K) /\ Mine(q[j], p, K)) => q[i].seq < q[j].seq
    /\ \A i \in 1 .. Len(q) : Mine(q[i], p, K) => lo <= q[i].seq /\ q[i].seq < hi
    /\ \A n \in lo .. hi - 1 : n \in X \/ \E i \in 1 .. Len(q) : Mine(q[i], p, K) /\ q[i].seq = n

LEMMA TailBack ==
    ASSUME NEW s \in Seq(Segs), s # <<>>, NEW i \in 1 .. Len(s), i # 1
    PROVE  i - 1 \in 1 .. Len(Tail(s)) /\ Tail(s)[i - 1] = s[i]
<1>1. Len(s) \in Nat \ {0} /\ Len(Tail(s)) = Len(s) - 1
  BY TailFacts
<1>2. i - 1 \in 1 .. Len(Tail(s)) /\ (i - 1) + 1 = i
  BY <1>1
<1>3. Tail(s)[i - 1] = s[(i - 1) + 1]
  BY <1>2, TailFacts
<1> QED BY <1>2, <1>3

LEMMA SeqIsNat ==
    ASSUME NEW q \in Seq(Segs)
    PROVE  \A i \in 1 .. Len(q) : q[i] \in Segs /\ q[i].seq \in Nat
<1>1. \A i \in 1 .. Len(q) : q[i] \in Segs
  OBVIOUS
<1> QED BY <1>1 DEF Segs

\* The first segment of the kind has the first number, if a number without a
\* segment can only be the last one.
LEMMA NumberedHead ==
    ASSUME NEW q \in Seq(Segs), q # <<>>, NEW p, NEW K, NEW lo \in Nat, NEW hi \in Nat, NEW X,
           Numbered(q, p, K, lo, hi, X), Mine(Head(q), p, K), \A n \in X : n + 1 = hi
    PROVE  Head(q).seq = lo /\ lo < hi /\ Numbered(Tail(q), p, K, lo + 1, hi, X)
<1> DEFINE t == Tail(q)
<1>1. /\ t \in Seq(Segs)
      /\ \A i \in 1 .. Len(t) : i + 1 \in 1 .. Len(q) /\ t[i] = q[i + 1]
      /\ 1 \in 1 .. Len(q) /\ Head(q) = q[1]
  BY TailFacts
<1>2. \A i \in 1 .. Len(q) : i # 1 => i - 1 \in 1 .. Len(t) /\ t[i - 1] = q[i] /\ 1 < i
  BY TailBack
<1>3. \A i \in 1 .. Len(q) : q[i].seq \in Nat
  BY SeqIsNat
<1> HIDE DEF t
<1>4. lo <= q[1].seq /\ q[1].seq < hi
  BY <1>1 DEF Numbered
<1>5. q[1].seq = lo
  <2>1. lo \in lo .. hi - 1
    BY <1>1, <1>3, <1>4
  <2>2. CASE lo \in X
    BY <1>1, <1>3, <1>4, <2>2
  <2>3. ASSUME NEW i \in 1 .. Len(q), Mine(q[i], p, K), q[i].seq = lo PROVE q[1].seq = lo
    <3>1. CASE i = 1
      BY <2>3, <3>1
    <3>2. CASE i # 1
      <4>1. q[1].seq < q[i].seq
        BY <1>1, <1>2, <2>3, <3>2 DEF Numbered
      <4> QED BY <1>1, <1>3, <1>4, <2>3, <4>1
    <3> QED BY <3>1, <3>2
  <2> QED BY <2>1, <2>2, <2>3 DEF Numbered
<1>6. lo < hi /\ lo + 1 <= hi
  BY <1>1, <1>3, <1>4
<1>7. \A i, j \in 1 .. Len(t) :
        (i < j /\ Mine(t[i], p, K) /\ Mine(t[j], p, K)) => t[i].seq < t[j].seq
  <2>1. \A i, j \in 1 .. Len(t) : i < j => i + 1 < j + 1
    OBVIOUS
  <2> QED BY <1>1, <2>1 DEF Numbered
<1>8. \A i \in 1 .. Len(t) : Mine(t[i], p, K) => lo + 1 <= t[i].seq /\ t[i].seq < hi
  <2> SUFFICES ASSUME NEW i \in 1 .. Len(t), Mine(t[i], p, K)
               PROVE  lo + 1 <= t[i].seq /\ t[i].seq < hi
    OBVIOUS
  <2>1. 1 < i + 1 /\ i + 1 \in 1 .. Len(q) /\ t[i] = q[i + 1]
    BY <1>1
  <2>2. q[1].seq < q[i + 1].seq /\ q[i + 1].seq < hi
    BY <1>1, <2>1 DEF Numbered
  <2> QED BY <1>3, <1>5, <2>1, <2>2
<1>9. \A n \in lo + 1 .. hi - 1 : n \in X \/ \E i \in 1 .. Len(t) : Mine(t[i], p, K) /\ t[i].seq = n
  <2> SUFFICES ASSUME NEW n \in lo + 1 .. hi - 1, n \notin X
               PROVE  \E i \in 1 .. Len(t) : Mine(t[i], p, K) /\ t[i].seq = n
    OBVIOUS
  <2>1. n \in lo .. hi - 1 /\ n # lo
    OBVIOUS
  <2>2. PICK i \in 1 .. Len(q) : Mine(q[i], p, K) /\ q[i].seq = n
    BY <2>1 DEF Numbered
  <2>3. i # 1
    BY <1>5, <2>1, <2>2
  <2>4. i - 1 \in 1 .. Len(t) /\ t[i - 1] = q[i]
    BY <1>2, <2>3
  <2> QED BY <2>2, <2>4
<1>10. Numbered(t, p, K, lo + 1, hi, X)
  BY <1>6, <1>7, <1>8, <1>9 DEF Numbered
<1> QED BY <1>1, <1>5, <1>6, <1>10 DEF t

\* A segment of another kind, or of another port, makes no difference.
LEMMA NumberedSkip ==
    ASSUME NEW q \in Seq(Segs), q # <<>>, NEW p, NEW K, NEW lo, NEW hi, NEW X,
           Numbered(q, p, K, lo, hi, X), ~Mine(Head(q), p, K)
    PROVE  Numbered(Tail(q), p, K, lo, hi, X)
<1> DEFINE t == Tail(q)
<1>1. /\ \A i \in 1 .. Len(t) : i + 1 \in 1 .. Len(q) /\ t[i] = q[i + 1]
      /\ 1 \in 1 .. Len(q) /\ Head(q) = q[1]
  BY TailFacts
<1>2. \A i \in 1 .. Len(q) : i # 1 => i - 1 \in 1 .. Len(t) /\ t[i - 1] = q[i]
  BY TailBack
<1>3. \A i, j \in 1 .. Len(t) : i < j => i + 1 < j + 1
  OBVIOUS
<1> HIDE DEF t
<1>4. \A i, j \in 1 .. Len(t) :
        (i < j /\ Mine(t[i], p, K) /\ Mine(t[j], p, K)) => t[i].seq < t[j].seq
  BY <1>1, <1>3 DEF Numbered
<1>5. \A i \in 1 .. Len(t) : Mine(t[i], p, K) => lo <= t[i].seq /\ t[i].seq < hi
  BY <1>1 DEF Numbered
<1>6. \A n \in lo .. hi - 1 : n \in X \/ \E i \in 1 .. Len(t) : Mine(t[i], p, K) /\ t[i].seq = n
  <2> SUFFICES ASSUME NEW n \in lo .. hi - 1, n \notin X
               PROVE  \E i \in 1 .. Len(t) : Mine(t[i], p, K) /\ t[i].seq = n
    OBVIOUS
  <2>1. PICK i \in 1 .. Len(q) : Mine(q[i], p, K) /\ q[i].seq = n
    BY DEF Numbered
  <2>2. i # 1
    BY <1>1, <2>1
  <2> QED BY <1>2, <2>1, <2>2
<1>7. lo <= hi
  BY DEF Numbered
<1>8. Numbered(t, p, K, lo, hi, X)
  BY <1>4, <1>5, <1>6, <1>7 DEF Numbered
<1> QED BY <1>8 DEF t

LEMMA NumberedOther ==
    ASSUME NEW q \in Seq(Segs), NEW x \in Segs, NEW p, NEW K, NEW lo, NEW hi, NEW X,
           Numbered(q, p, K, lo, hi, X), ~Mine(x, p, K)
    PROVE  Numbered(Append(q, x), p, K, lo, hi, X)
<1> DEFINE t == Append(q, x)
<1>1. /\ \A i \in 1 .. Len(q) : t[i] = q[i]
      /\ t[Len(q) + 1] = x
      /\ \A i \in 1 .. Len(t) : i \in 1 .. Len(q) \/ i = Len(q) + 1
  BY AppendFacts
<1>2. \A i \in 1 .. Len(q) : i \in 1 .. Len(t)
  <2>1. Len(q) \in Nat /\ Len(t) = Len(q) + 1
    BY AppendFacts
  <2> HIDE DEF t
  <2> QED BY <2>1
<1> HIDE DEF t
<1>3. \A i \in 1 .. Len(t) : Mine(t[i], p, K) => i \in 1 .. Len(q) /\ t[i] = q[i]
  BY <1>1
<1>4. \A n \in lo .. hi - 1 : n \in X \/ \E i \in 1 .. Len(t) : Mine(t[i], p, K) /\ t[i].seq = n
  BY <1>1, <1>2 DEF Numbered
<1>5. Numbered(t, p, K, lo, hi, X)
  BY <1>3, <1>4 DEF Numbered
<1> QED BY <1>5 DEF t

\* The next number is sent.
LEMMA NumberedAdd ==
    ASSUME NEW q \in Seq(Segs), NEW x \in Segs, NEW p, NEW K, NEW lo \in Nat, NEW hi \in Nat, NEW X,
           Numbered(q, p, K, lo, hi, X), Mine(x, p, K), x.seq = hi
    PROVE  Numbered(Append(q, x), p, K, lo, hi + 1, X)
<1> DEFINE t == Append(q, x)
<1>1. /\ \A i \in 1 .. Len(q) : t[i] = q[i]
      /\ t[Len(q) + 1] = x
      /\ \A i \in 1 .. Len(t) : i \in 1 .. Len(q) \/ i = Len(q) + 1
  BY AppendFacts
<1>2. Len(q) \in Nat /\ Len(t) = Len(q) + 1
  BY AppendFacts
<1> HIDE DEF t
<1>3. (\A i \in 1 .. Len(q) : i \in 1 .. Len(t)) /\ Len(q) + 1 \in 1 .. Len(t)
  BY <1>2
<1>4. \A i \in 1 .. Len(q) : q[i].seq \in Nat
  BY SeqIsNat
<1>5. lo <= hi /\ lo <= hi + 1
  BY DEF Numbered
<1>6. \A i, j \in 1 .. Len(t) :
        (i < j /\ Mine(t[i], p, K) /\ Mine(t[j], p, K)) => t[i].seq < t[j].seq
  <2> SUFFICES ASSUME NEW i \in 1 .. Len(t), NEW j \in 1 .. Len(t), i < j,
                      Mine(t[i], p, K), Mine(t[j], p, K)
               PROVE  t[i].seq < t[j].seq
    OBVIOUS
  <2>1. i \in 1 .. Len(q)
    BY <1>2
  <2>2. CASE j \in 1 .. Len(q)
    BY <1>1, <2>1, <2>2 DEF Numbered
  <2>3. CASE j = Len(q) + 1
    <3>1. t[j].seq = hi /\ t[i] = q[i]
      BY <1>1, <2>1, <2>3
    <3>2. q[i].seq < hi
      BY <2>1, <3>1 DEF Numbered
    <3> QED BY <3>1, <3>2
  <2> QED BY <1>1, <2>2, <2>3
<1>7. \A i \in 1 .. Len(t) : Mine(t[i], p, K) => lo <= t[i].seq /\ t[i].seq < hi + 1
  <2> SUFFICES ASSUME NEW i \in 1 .. Len(t), Mine(t[i], p, K)
               PROVE  lo <= t[i].seq /\ t[i].seq < hi + 1
    OBVIOUS
  <2>1. CASE i \in 1 .. Len(q)
    <3>1. lo <= q[i].seq /\ q[i].seq < hi /\ t[i] = q[i] /\ q[i].seq \in Nat
      BY <1>1, <1>4, <2>1 DEF Numbered
    <3> QED BY <3>1
  <2>2. CASE i = Len(q) + 1
    BY <1>1, <1>5, <2>2
  <2> QED BY <1>1, <2>1, <2>2
<1>8. \A n \in lo .. (hi + 1) - 1 : n \in X \/ \E i \in 1 .. Len(t) : Mine(t[i], p, K) /\ t[i].seq = n
  <2> SUFFICES ASSUME NEW n \in lo .. (hi + 1) - 1, n \notin X
               PROVE  \E i \in 1 .. Len(t) : Mine(t[i], p, K) /\ t[i].seq = n
    OBVIOUS
  <2>1. CASE n = hi
    BY <1>1, <1>3, <2>1
  <2>2. CASE n # hi
    <3>1. n \in lo .. hi - 1
      BY <2>2
    <3>2. PICK i \in 1 .. Len(q) : Mine(q[i], p, K) /\ q[i].seq = n
      BY <3>1 DEF Numbered
    <3> QED BY <1>1, <1>3, <3>2
  <2> QED BY <2>1, <2>2
<1>9. Numbered(t, p, K, lo, hi + 1, X)
  BY <1>5, <1>6, <1>7, <1>8 DEF Numbered
<1> QED BY <1>9 DEF t

\* No segment of the kind, and no number to carry.
LEMMA NumberedNone ==
    ASSUME NEW q \in Seq(Segs), NEW p \in Nat, NEW K, NEW lo \in Nat, NEW X,
           \A s \in Of(q, p) : s \notin K
    PROVE  Numbered(q, p, K, lo, lo, X)
<1>1. \A i \in 1 .. Len(q) : ~Mine(q[i], p, K)
  BY DEF Of, Mine
<1>2. \A n \in lo .. lo - 1 : FALSE
  OBVIOUS
<1> QED BY <1>1, <1>2 DEF Numbered

\* More numbers may be without a segment.
LEMMA NumberedWiden ==
    ASSUME NEW q, NEW p, NEW K, NEW lo, NEW hi, NEW X, NEW Y, Numbered(q, p, K, lo, hi, X), X \subseteq Y
    PROVE  Numbered(q, p, K, lo, hi, Y)
BY DEF Numbered

\* One more number, without a segment of its own.
LEMMA NumberedMore ==
    ASSUME NEW q \in Seq(Segs), NEW p, NEW K, NEW lo \in Nat, NEW hi \in Nat, NEW X, NEW Y,
           Numbered(q, p, K, lo, hi, X), X \subseteq Y, hi \in Y
    PROVE  Numbered(q, p, K, lo, hi + 1, Y)
<1>1. \A i \in 1 .. Len(q) : q[i].seq \in Nat
  BY SeqIsNat
<1>2. lo <= hi + 1
  BY DEF Numbered
<1>3. \A i \in 1 .. Len(q) : Mine(q[i], p, K) => lo <= q[i].seq /\ q[i].seq < hi + 1
  BY <1>1 DEF Numbered
<1>4. \A n \in lo .. (hi + 1) - 1 : n \in Y \/ \E i \in 1 .. Len(q) : Mine(q[i], p, K) /\ q[i].seq = n
  <2> SUFFICES ASSUME NEW n \in lo .. (hi + 1) - 1, n \notin Y
               PROVE  \E i \in 1 .. Len(q) : Mine(q[i], p, K) /\ q[i].seq = n
    OBVIOUS
  <2>1. n \in lo .. hi - 1 /\ n \notin X
    OBVIOUS
  <2> QED BY <2>1 DEF Numbered
<1> QED BY <1>2, <1>3, <1>4 DEF Numbered

\* The segments of a port are the first one, or in the rest.
LEMMA OfSplit ==
    ASSUME NEW s \in Seq(Segs), s # <<>>, NEW p \in Nat, NEW y \in Of(s, p)
    PROVE  (y = Head(s) /\ Head(s).port = p) \/ y \in Of(Tail(s), p)
<1>1. PICK i \in 1 .. Len(s) : y = s[i] /\ s[i].port = p
  BY DEF Of
<1>2. CASE i = 1
  BY <1>1, <1>2, TailFacts
<1>3. CASE i # 1
  <2>1. i - 1 \in 1 .. Len(Tail(s)) /\ Tail(s)[i - 1] = s[i]
    BY <1>3, TailBack
  <2> QED BY <1>1, <2>1 DEF Of
<1> QED BY <1>2, <1>3

\* What is appended is among the segments of its port, with those before.
LEMMA OfAdded ==
    ASSUME NEW s \in Seq(Segs), NEW x \in Segs, NEW p \in Nat
    PROVE  Of(s, p) \subseteq Of(Append(s, x), p) /\ (x.port = p => x \in Of(Append(s, x), p))
<1> DEFINE t == Append(s, x)
<1>1. /\ \A i \in 1 .. Len(s) : t[i] = s[i]
      /\ t[Len(s) + 1] = x
  BY AppendFacts
<1>2. Len(s) \in Nat /\ Len(t) = Len(s) + 1
  BY AppendFacts
<1> HIDE DEF t
<1>3. (\A i \in 1 .. Len(s) : i \in 1 .. Len(t)) /\ Len(s) + 1 \in 1 .. Len(t)
  BY <1>2
<1>4. Of(s, p) \subseteq Of(t, p) /\ (x.port = p => x \in Of(t, p))
  BY <1>1, <1>3 DEF Of
<1> QED BY <1>4 DEF t

-----------------------------------------------------------------------------
(* The inductive invariant.                                                *)

\* Segments of the peer that fill a number of its own: a data segment has one
\* unit of data.
Fills ==
    {s \in Segs : \/ s.flags \in Syns \cup FinFlags \cup {"PSH|ACK"}
                  \/ s.flags = "ACK" /\ s.len > 0}

\* Segments of the socket that take up a number, the SYN apart.
Sent == {s \in Segs : s.flags \in {"PSH|ACK", "FIN|ACK"}}

\* The number of a FIN that goes with data: no segment carries it alone until
\* the peer's timer sends it again.
Unsent == IF peer.fin > 0 THEN {peer.fin} ELSE {}

\* The numbers used so far: send() counts after the segment has gone out.
SeqTop == IF pc = "sent" THEN sock.seq_num + 1 ELSE sock.seq_num

\* The peer counts from the number of the SYN that the socket sent last.
Joined ==
    peer.st = "SYN_RCVD" \/ done.conn \/ sock.state \notin {"CLOSED", "SYN_SENT"}

\* What is not taken yet of the peer's numbers is under way.
DownFlow ==
    (open /\ fault = "none") =>
      Numbered(down, port, Fills, sock.ack_num, peer.snd, Unsent)

Shapes ==
    \A s \in Of(down, port) :
      /\ s.flags \in Syns => s.seq = 0
      /\ (s.flags \in FinFlags /\ s.len = 0) => s.seq = peer.fin
      /\ s.len > 0 => s.seq >= 1

\* What is acknowledged has been taken, and what has been taken is acknowledged
\* or will be.
UpAcks ==
    /\ peer.una <= sock.ack_num
    /\ \A s \in Of(up, port) : s.ack <= sock.ack_num
    /\ \/ sock.ack_num = peer.una
       \/ \E s \in Of(up, port) : s.flags # "SYN" /\ s.ack = sock.ack_num

\* What the peer has not taken of the socket's numbers is under way, the FIN
\* last.
UpFlow ==
    /\ Joined => Numbered(up, port, Sent, peer.rcv, SeqTop, {})
    /\ peer.st \in {"CLOSE_WAIT", "LAST_ACK", "DONE"} => peer.rcv = SeqTop
    /\ \A s \in Of(up, port) : s.flags = "FIN|ACK" => s.seq + 1 = SeqTop

\* The beginning of a connection: connect() gives up only when the peer has
\* nothing outstanding, and only the peer that has not seen a SYN listens.
Opening ==
    /\ peer.st \in {"LISTEN", "SYN_RCVD"} => peer.una = 0
    /\ (~done.conn /\ pc # "wait_established") =>
         peer.una = peer.snd /\ peer.st \notin {"ESTABLISHED", "CLOSE_WAIT"}
    /\ pc = "wait_established" => sock.state \in {"SYN_SENT", "ESTABLISHED", "CLOSE_WAIT"}
    /\ sock.state = "SYN_SENT" =>
         /\ pc \in {"wait_established", "connect_failed"}
         /\ peer.st \in {"LISTEN", "SYN_RCVD", "FIN_SENT"}
         /\ peer.st = "SYN_RCVD" => sock.ack_num = 0
         /\ peer.st = "FIN_SENT" => peer.una = peer.snd
    /\ peer.st = "LISTEN" =>
         \A s \in Of(up, port) : /\ s.flags = "SYN" /\ s.seq + 1 = sock.seq_num
                                 /\ pc = "wait_established" /\ sock.state = "SYN_SENT"
    /\ pc \in {"send", "sent"} => done.conn /\ ~done.fin

\* The states after the peer's FIN.
FinTaken ==
    (\/ sock.state \in {"CLOSE_WAIT", "LAST_ACK", "CLOSING", "TIME_WAIT"}
     \/ done.conn /\ sock.state = "CLOSED") => sock.ack_num > peer.fin

\* The data returned and queued is the peer's, up to what is acknowledged.
Stream ==
    sock.live =>
      /\ \A i \in 1 .. Len(got) : got[i] = i
      /\ \A i \in 1 .. Len(sock.rx_qu) : sock.rx_qu[i] = Len(got) + i
      /\ sock.ack_num = 0 => Len(got) + Len(sock.rx_qu) = 0
      /\ (sock.ack_num > 0 /\ ~(peer.fin > 0 /\ sock.ack_num > peer.fin)) =>
           Len(got) + Len(sock.rx_qu) = sock.ack_num - 1

FlowInv ==
    /\ DownFlow /\ Shapes /\ UpAcks /\ UpFlow /\ Opening /\ FinTaken /\ Stream
    /\ fault # "BUG"

\* The types, one by one.
LEMMA Plain ==
    ASSUME TcpInv
    PROVE  /\ sock \in Socks /\ up \in Seq(Segs) /\ down \in Seq(Segs) /\ port \in Nat /\ peer \in Peers
           /\ sock.seq_num \in Nat /\ sock.ack_num \in Nat /\ sock.state \in TcpStates
           /\ sock.rx_qu \in Seq(Nat) /\ got \in Seq(Nat) /\ sock.live \in BOOLEAN
           /\ peer.snd \in Nat /\ peer.una \in Nat /\ peer.rcv \in Nat /\ peer.fin \in Nat
           /\ peer.st \in PeerStates /\ SeqTop \in Nat
           /\ done \in Marks /\ done.conn \in BOOLEAN /\ done.fin \in BOOLEAN
           /\ \A s \in Of(up, port) : s \in Segs /\ s.port = port /\ s.ack \in Nat /\ s.seq \in Nat
           /\ \A s \in Of(down, port) : s \in Segs /\ s.port = port /\ s.seq \in Nat
<1>1. /\ sock \in Socks /\ up \in Seq(Segs) /\ down \in Seq(Segs) /\ port \in Nat /\ peer \in Peers
      /\ done \in Marks /\ got \in Seq(Nat)
  BY DEF TcpInv, TcpTypes
<1>2. /\ sock.seq_num \in Nat /\ sock.ack_num \in Nat /\ sock.state \in TcpStates
      /\ sock.rx_qu \in Seq(Nat) /\ sock.live \in BOOLEAN
  BY <1>1 DEF Socks
<1>3. /\ peer.snd \in Nat /\ peer.una \in Nat /\ peer.rcv \in Nat /\ peer.fin \in Nat
      /\ peer.st \in PeerStates
  BY <1>1 DEF Peers
<1>4. done.conn \in BOOLEAN /\ done.fin \in BOOLEAN
  BY <1>1 DEF Marks
<1>5. SeqTop \in Nat
  BY <1>2 DEF SeqTop
<1>6. /\ \A s \in Of(up, port) : s \in Segs /\ s.port = port
      /\ \A s \in Of(down, port) : s \in Segs /\ s.port = port
  BY <1>1, OfFacts
<1>7. \A s \in Segs : s.ack \in Nat /\ s.seq \in Nat
  BY DEF Segs
<1> QED BY <1>1, <1>2, <1>3, <1>4, <1>5, <1>6, <1>7

\* A peer that the socket is connected with does not listen.
LEMMA JoinedFacts ==
    ASSUME TcpInv, Joined
    PROVE  peer.st # "LISTEN" /\ peer.snd > 0
<1>1. /\ sock.ack_num \in Nat /\ peer.snd \in Nat /\ sock.ack_num <= peer.snd
      /\ (peer.st = "LISTEN" <=> peer.snd = 0)
  BY Plain DEF TcpInv, PeerLife
<1>2. CASE peer.st = "SYN_RCVD"
  BY <1>1, <1>2
<1>3. CASE sock.state \notin {"CLOSED", "SYN_SENT"}
  BY <1>1, <1>3 DEF TcpInv, SockLife
<1>4. CASE done.conn /\ sock.state \in {"CLOSED", "SYN_SENT"}
  BY <1>1, <1>4 DEF TcpInv, SockLife, PeerLife
<1> QED BY <1>2, <1>3, <1>4 DEF Joined

LEMMA FlowInit == Init => FlowInv
<1> SUFFICES ASSUME Init PROVE FlowInv
  OBVIOUS
<1>1. TcpInv
  BY TcpInit
<1>2. /\ sock.state = "CLOSED" /\ sock.ack_num = 0 /\ sock.rx_qu = <<>>
      /\ peer.st = "LISTEN" /\ peer.snd = 0 /\ peer.una = 0 /\ peer.fin = 0
      /\ done.conn = FALSE /\ done.fin = FALSE /\ pc = "user" /\ open = FALSE
      /\ up = <<>> /\ down = <<>> /\ got = <<>> /\ fault = "none" /\ sock.live = FALSE
  BY DEF Init
<1>3. Of(up, port) = {} /\ Of(down, port) = {}
  BY <1>2 DEF Of
<1>4. ~Joined
  BY <1>2 DEF Joined
<1>5. DownFlow /\ Shapes /\ UpAcks /\ UpFlow
  BY <1>2, <1>3, <1>4 DEF DownFlow, Shapes, UpAcks, UpFlow
<1>6. Opening /\ FinTaken /\ Stream
  BY <1>2, <1>3 DEF Opening, FinTaken, Stream
<1> QED BY <1>2, <1>5, <1>6 DEF FlowInv

-----------------------------------------------------------------------------
(* The main line.                                                          *)

\* A step of the main line that sends nothing.
LEMMA LocalStep ==
    ASSUME FlowInv, sock'.ack_num = sock.ack_num, SeqTop' = SeqTop, Joined' => Joined,
           Opening', FinTaken', Stream', open' => open,
           UNCHANGED <<port, up, down, peer, fault>>
    PROVE  FlowInv'
<1> USE DEF FlowInv
<1>1. DownFlow'
  BY DEF DownFlow, Unsent
<1>2. Shapes'
  BY DEF Shapes
<1>3. UpAcks'
  BY DEF UpAcks
<1>4. UpFlow'
  BY DEF UpFlow
<1> QED BY <1>1, <1>2, <1>3, <1>4

Apart == {"wait_established", "connect_failed", "sent", "send"}

\* A step outside connect() and send() that leaves the socket's state.
LEMMA IdleFlow ==
    ASSUME FlowInv, TcpInv, pc \notin Apart, pc' \notin {"wait_established", "connect_failed", "sent"},
           pc' = "send" => done.conn /\ ~done.fin,
           sock'.state = sock.state, sock'.ack_num = sock.ack_num, sock'.seq_num = sock.seq_num,
           Stream', open' => open, UNCHANGED <<port, up, down, peer, fault, done>>
    PROVE  FlowInv'
<1> USE DEF FlowInv
<1>1. SeqTop' = SeqTop /\ Joined' = Joined
  BY DEF SeqTop, Joined, Apart
<1>2. Opening'
  BY DEF Opening, Apart
<1>3. FinTaken'
  BY DEF FinTaken
<1> QED BY <1>1, <1>2, <1>3, LocalStep

LEMMA IdleFlows ==
    ASSUME FlowInv, TcpInv,
           \/ SendCheck \/ RecvCheck \/ RecvAbort \/ Close \/ CloseWaitDone \/ CloseTimeout
           \/ CloseNull
    PROVE  FlowInv'
<1>1. UNCHANGED <<sock, port, up, down, peer, fault, done, got>> /\ (open' => open)
  BY DEF SendCheck, RecvCheck, RecvAbort, Close, CloseWaitDone, CloseTimeout, CloseNull
<1>2. pc \notin Apart
  BY DEF SendCheck, RecvCheck, RecvAbort, Close, CloseWaitDone, CloseTimeout, CloseNull, Apart
<1>3. pc' \notin {"wait_established", "connect_failed", "sent"}
  BY DEF SendCheck, RecvCheck, RecvAbort, Close, CloseWaitDone, CloseTimeout, CloseNull
<1>4. pc' = "send" => done.conn /\ ~done.fin
  <2>1. CASE SendCheck
    BY <2>1 DEF SendCheck, TcpInv, PcLife, SockLife
  <2>2. CASE ~SendCheck
    BY <2>2 DEF RecvCheck, RecvAbort, Close, CloseWaitDone, CloseTimeout, CloseNull
  <2> QED BY <2>1, <2>2
<1>5. Stream'
  BY <1>1 DEF FlowInv, Stream
<1> QED BY <1>1, <1>2, <1>3, <1>4, <1>5, IdleFlow

LEMMA ArpFlow ==
    ASSUME FlowInv, ArpReply \/ UNCHANGED vars
    PROVE  FlowInv'
<1>1. UNCHANGED <<pc, open, sock, port, up, down, peer, fault, done, got>>
  BY DEF ArpReply, vars
<1>2. Opening' /\ FinTaken' /\ Stream' /\ SeqTop' = SeqTop /\ Joined' = Joined
  BY <1>1 DEF FlowInv, Opening, FinTaken, Stream, SeqTop, Joined
<1> QED BY <1>1, <1>2, LocalStep

\* recv() takes the first packet of the queue.
LEMMA RecvFlow ==
    ASSUME FlowInv, TcpInv, Recv
    PROVE  FlowInv'
<1> DEFINE q == sock.rx_qu
<1>1. /\ pc = "recv" /\ q # <<>> /\ got' = Append(got, Head(q)) /\ pc' = "user"
      /\ sock' = [sock EXCEPT !.rx_qu = Tail(q)]
      /\ UNCHANGED <<open, port, fault, up, down, peer, done>>
  BY DEF Recv
<1>2. sock \in Socks /\ q \in Seq(Nat) /\ got \in Seq(Nat)
  BY Plain
<1>3. Tail(q) \in Seq(Nat) /\ Len(q) \in Nat \ {0} /\ Len(Tail(q)) = Len(q) - 1 /\ Head(q) = q[1]
  BY <1>1, <1>2
<1>4. \A i \in 1 .. Len(Tail(q)) : Tail(q)[i] = q[i + 1]
  BY <1>1, <1>2
<1>5. /\ sock'.state = sock.state /\ sock'.ack_num = sock.ack_num /\ sock'.seq_num = sock.seq_num
      /\ sock'.live = sock.live /\ sock'.rx_qu = Tail(q)
  BY <1>1, <1>2, <1>3, RxFacts
<1>6. /\ Len(got) \in Nat /\ Len(got') = Len(got) + 1 /\ got'[Len(got) + 1] = Head(q)
      /\ \A i \in 1 .. Len(got) : got'[i] = got[i]
  BY <1>1, <1>2, <1>3
<1> HIDE DEF q
<1>7. Stream'
  <2> SUFFICES ASSUME sock.live PROVE Stream'
    BY <1>5 DEF Stream
  <2>1. /\ \A i \in 1 .. Len(got) : got[i] = i
        /\ \A i \in 1 .. Len(q) : q[i] = Len(got) + i
        /\ (sock.ack_num = 0 => Len(got) + Len(q) = 0)
        /\ ((sock.ack_num > 0 /\ ~(peer.fin > 0 /\ sock.ack_num > peer.fin)) =>
             Len(got) + Len(q) = sock.ack_num - 1)
    BY DEF FlowInv, Stream, q
  <2>2. Len(got') + Len(Tail(q)) = Len(got) + Len(q)
    BY <1>3, <1>6
  <2>3. 1 \in 1 .. Len(q)
    BY <1>3
  <2>4. got'[Len(got) + 1] = Len(got) + 1
    BY <1>3, <1>6, <2>1, <2>3
  <2>5. \A i \in 1 .. Len(got') : got'[i] = i
    <3>1. \A i \in 1 .. Len(got') : i \in 1 .. Len(got) \/ i = Len(got) + 1
      BY <1>6
    <3> QED BY <1>6, <2>1, <2>4, <3>1
  <2>6. \A i \in 1 .. Len(Tail(q)) : Tail(q)[i] = Len(got') + i
    <3>1. \A i \in 1 .. Len(Tail(q)) : i + 1 \in 1 .. Len(q) /\ Len(got) + (i + 1) = Len(got') + i
      BY <1>3, <1>6
    <3> QED BY <1>4, <2>1, <3>1
  <2> QED BY <1>1, <1>5, <2>1, <2>2, <2>5, <2>6 DEF Stream
<1>8. pc \notin Apart
  BY <1>1 DEF Apart
<1> QED BY <1>1, <1>5, <1>7, <1>8, IdleFlow

\* The end of sk_close(): the socket is freed, or nothing happens to it.
LEMMA CloseTailFlow ==
    ASSUME FlowInv, TcpInv, CloseTail
    PROVE  FlowInv'
<1>1. /\ pc = "close_tail" /\ pc' \in {"time_wait", "close_null", "user"}
      /\ sock' = sock \/ sock' = Freed(sock)
      /\ UNCHANGED <<open, port, fault, up, down, peer, got, done>>
  BY DEF CloseTail, Freed
<1>2. /\ sock'.state = sock.state /\ sock'.ack_num = sock.ack_num /\ sock'.seq_num = sock.seq_num
      /\ sock' = sock \/ sock'.live = FALSE
  BY <1>1, Plain, FreedFacts
<1>3. Stream'
  BY <1>1, <1>2 DEF FlowInv, Stream
<1>4. pc \notin Apart /\ pc' \notin Apart
  BY <1>1 DEF Apart
<1> QED BY <1>1, <1>2, <1>3, <1>4, IdleFlow DEF Apart

\* The socket becomes closed, by the clock or because connect() has failed.
LEMMA ClosedFlow ==
    ASSUME FlowInv, TcpInv, ConnectFail \/ TimeWaitOver
    PROVE  FlowInv'
<1> USE DEF FlowInv
<1>1. /\ sock' = [sock EXCEPT !.state = "CLOSED"] /\ pc \in {"connect_failed", "time_wait"}
      /\ pc' \in {"user", "close_tail"}
      /\ UNCHANGED <<open, port, fault, up, down, peer, got, done>>
  BY DEF ConnectFail, TimeWaitOver
<1>2. /\ sock'.state = "CLOSED" /\ sock'.ack_num = sock.ack_num /\ sock'.seq_num = sock.seq_num
      /\ sock'.live = sock.live /\ sock'.rx_qu = sock.rx_qu
  BY <1>1, Plain, StateFacts DEF TcpStates
<1>3. SeqTop' = SeqTop /\ (Joined' => Joined)
  BY <1>1, <1>2 DEF SeqTop, Joined
<1>4. Opening'
  BY <1>1, <1>2 DEF Opening
<1>5. FinTaken'
  <2>1. CASE pc = "connect_failed"
    BY <1>1, <1>2, <2>1 DEF FinTaken, TcpInv, PcLife
  <2>2. CASE pc = "time_wait"
    BY <1>1, <1>2, <2>2 DEF FinTaken, TcpInv, PcLife
  <2> QED BY <1>1, <2>1, <2>2
<1>6. Stream'
  BY <1>1, <1>2 DEF Stream
<1> QED BY <1>1, <1>2, <1>3, <1>4, <1>5, <1>6, LocalStep

\* connect() succeeds.
LEMMA ConnectDoneFlow ==
    ASSUME FlowInv, TcpInv, ConnectDone
    PROVE  FlowInv'
<1> USE DEF FlowInv
<1>1. /\ pc = "wait_established" /\ sock.state = "ESTABLISHED" /\ pc' = "user"
      /\ done' = [done EXCEPT !.conn = TRUE]
      /\ UNCHANGED <<open, sock, port, fault, up, down, peer, got>>
  BY DEF ConnectDone
<1>2. done'.conn = TRUE /\ done'.fin = done.fin
  BY <1>1, Plain DEF Marks
<1>3. SeqTop' = SeqTop /\ Joined
  BY <1>1 DEF SeqTop, Joined
<1>4. peer.st # "LISTEN"
  BY <1>3, JoinedFacts
<1>5. Opening'
  BY <1>1, <1>2, <1>4 DEF Opening
<1>6. FinTaken' /\ Stream'
  BY <1>1 DEF FinTaken, Stream
<1> QED BY <1>1, <1>3, <1>5, <1>6, LocalStep

\* connect() gives up when nothing is under way any more.
LEMMA ConnectTimeoutFlow ==
    ASSUME Late = FALSE, FlowInv, TcpInv, ConnectTimeout
    PROVE  FlowInv'
<1> USE DEF FlowInv
<1>1. /\ pc = "wait_established" /\ sock.state # "ESTABLISHED" /\ pc' = "connect_failed" /\ Quiet
      /\ UNCHANGED <<open, sock, port, fault, up, down, peer, got, done>>
  BY DEF ConnectTimeout, TimedOut
<1>2. up = <<>> /\ peer.una = peer.snd /\ peer.st # "CLOSE_WAIT"
  BY <1>1 DEF Quiet
<1>3. Of(up, port) = {}
  BY <1>2 DEF Of
<1>4. peer.st # "ESTABLISHED"
  <2>1. CASE sock.state = "SYN_SENT"
    BY <2>1 DEF Opening
  <2>2. CASE sock.state = "CLOSE_WAIT"
    BY <2>2 DEF TcpInv, SockLife, PeerLife
  <2> QED BY <1>1, <2>1, <2>2 DEF Opening
<1>5. Opening'
  BY <1>1, <1>2, <1>3, <1>4 DEF Opening
<1>6. FinTaken' /\ Stream' /\ SeqTop' = SeqTop /\ Joined' = Joined
  BY <1>1 DEF FinTaken, Stream, SeqTop, Joined
<1> QED BY <1>1, <1>5, <1>6, LocalStep

\* send() counts what has gone out.
LEMMA SendCountFlow ==
    ASSUME FlowInv, TcpInv, SendCount
    PROVE  FlowInv'
<1> USE DEF FlowInv
<1>1. /\ pc = "sent" /\ pc' = "user" /\ sock' = [sock EXCEPT !.seq_num = sock.seq_num + 1]
      /\ UNCHANGED <<open, port, fault, up, down, peer, got, done>>
  <2>1. seq_after("PSH|ACK", 1) = sock.seq_num + 1
    BY Plain DEF seq_after
  <2> QED BY <2>1 DEF SendCount
<1>2. sock.seq_num + 1 \in Nat /\ sock \in Socks
  BY Plain
<1>3. /\ sock'.state = sock.state /\ sock'.ack_num = sock.ack_num /\ sock'.seq_num = sock.seq_num + 1
      /\ sock'.live = sock.live /\ sock'.rx_qu = sock.rx_qu
  BY <1>1, <1>2, SeqFacts
<1>4. SeqTop' = SeqTop /\ Joined' = Joined
  BY <1>1, <1>3 DEF SeqTop, Joined
<1>5. done.conn /\ peer.st # "LISTEN"
  BY <1>1, JoinedFacts DEF Opening, Joined
<1>6. Opening'
  BY <1>1, <1>3, <1>5 DEF Opening
<1>7. FinTaken' /\ Stream'
  BY <1>1, <1>3 DEF FinTaken, Stream
<1> QED BY <1>1, <1>3, <1>4, <1>6, <1>7, LocalStep

\* socket(): a port that no segment has.
LEMMA SocketFlow ==
    ASSUME FlowInv, TcpInv, Socket
    PROVE  FlowInv'
<1>1. /\ port' = port + 1 /\ pc' = "user" /\ up' = up /\ down' = down /\ fault' = "none"
      /\ sock'.state = "CLOSED" /\ sock'.ack_num = 0 /\ sock'.rx_qu = <<>>
      /\ peer'.st = "LISTEN" /\ peer'.snd = 0 /\ peer'.una = 0 /\ peer'.fin = 0
      /\ done'.conn = FALSE /\ done'.fin = FALSE /\ got' = <<>>
  BY DEF Socket
<1>2. up \in Seq(Segs) /\ down \in Seq(Segs) /\ port \in Nat /\ port' \in Nat
  BY <1>1, Plain
<1>3. Of(up', port') = {} /\ Of(down', port') = {}
  BY <1>1, <1>2, OfNew DEF TcpInv, Ports
<1>4. Numbered(down', port', Fills, 0, 0, Unsent')
  BY <1>1, <1>2, <1>3, NumberedNone
<1>5. DownFlow'
  BY <1>1, <1>4 DEF DownFlow
<1>6. ~Joined'
  BY <1>1 DEF Joined
<1>7. Shapes' /\ UpAcks' /\ UpFlow'
  BY <1>1, <1>3, <1>6 DEF Shapes, UpAcks, UpFlow
<1>8. Opening' /\ FinTaken'
  BY <1>1, <1>3 DEF Opening, FinTaken
<1>9. Stream'
  <2>1. Len(<<>>) = 0
    OBVIOUS
  <2> QED BY <1>1, <2>1 DEF Stream
<1> QED BY <1>1, <1>5, <1>7, <1>8, <1>9 DEF FlowInv

\* The main line sends a segment, which carries what has been taken so far.
LEMMA SendFlow ==
    ASSUME FlowInv, TcpInv, sock'.ack_num = sock.ack_num, UpFlow', Opening', FinTaken',
           sock'.live = sock.live, sock'.rx_qu = sock.rx_qu,
           up' = up \/ \E x \in Segs : up' = Append(up, x) /\ x.ack = sock.ack_num,
           UNCHANGED <<port, down, peer, fault, open, got>>
    PROVE  FlowInv'
<1> USE DEF FlowInv
<1>1. DownFlow'
  BY DEF DownFlow, Unsent
<1>2. Shapes'
  BY DEF Shapes
<1>3. UpAcks'
  <2>1. CASE up' = up
    BY <2>1 DEF UpAcks
  <2>2. ASSUME NEW x \in Segs, up' = Append(up, x), x.ack = sock.ack_num
        PROVE  UpAcks'
    <3>1. up \in Seq(Segs) /\ port \in Nat /\ sock.ack_num <= sock.ack_num
      BY Plain
    <3>2. /\ \A y \in Of(up', port) : y \in Of(up, port) \/ y = x
          /\ Of(up, port) \subseteq Of(up', port)
      BY <2>2, <3>1, OfAppend, OfAdded
    <3> QED BY <2>2, <3>1, <3>2 DEF UpAcks
  <2> QED BY <2>1, <2>2
<1>4. Stream'
  BY DEF Stream
<1> QED BY <1>1, <1>2, <1>3, <1>4

\* The segment of a number of the socket goes out.
LEMMA SentFlow ==
    ASSUME FlowInv, TcpInv, NEW x \in Segs, x.port = port, x \in Sent, x.seq = SeqTop,
           up' = Append(up, x), SeqTop' = SeqTop + 1, done.conn, ~done.fin,
           peer' = peer, port' = port, done' \in Marks, done'.conn,
           x.flags = "PSH|ACK" \/ done'.fin
    PROVE  UpFlow' /\ peer.st # "LISTEN"
<1> USE DEF FlowInv
<1>1. /\ up \in Seq(Segs) /\ port \in Nat /\ SeqTop \in Nat /\ peer.rcv \in Nat
      /\ Joined /\ Mine(x, port, Sent)
  BY Plain DEF Joined, Mine
<1>2. Numbered(up, port, Sent, peer.rcv, SeqTop, {})
  BY <1>1 DEF UpFlow
<1>3. Numbered(up', port, Sent, peer.rcv, SeqTop + 1, {})
  BY <1>1, <1>2, NumberedAdd
<1>4. /\ peer.st \notin {"CLOSE_WAIT", "LAST_ACK", "DONE"}
      /\ \A s \in Of(up, port) : s.flags # "FIN|ACK"
  BY DEF TcpInv, PeerLife
<1>5. \A y \in Of(up', port) : y \in Of(up, port) \/ y = x
  BY <1>1, OfAppend
<1>6. UpFlow'
  BY <1>3, <1>4, <1>5 DEF UpFlow
<1> QED BY <1>1, <1>6, JoinedFacts

LEMMA SendDataFlow ==
    ASSUME FlowInv, TcpInv, Send
    PROVE  FlowInv'
<1> USE DEF FlowInv
<1>1. /\ pc = "send" /\ pc' = "sent" /\ up' = Append(up, Segment("PSH|ACK", sock.seq_num, sock.ack_num, 1))
      /\ UNCHANGED <<open, sock, port, fault, down, peer, got, done>>
  BY DEF Send, tcp_send_packet
<1>2. done.conn /\ ~done.fin /\ done' \in Marks /\ done'.conn
  BY <1>1, Plain DEF Opening
<1>3. "PSH|ACK" \in Flags /\ sock.seq_num \in Nat /\ sock.ack_num \in Nat
  BY Plain DEF Flags
<1>4. PICK x \in Segs : /\ x.port = port /\ x.flags = "PSH|ACK" /\ x.seq = sock.seq_num
                       /\ x.ack = sock.ack_num /\ up' = Append(up, x)
  BY <1>1, <1>3, SegmentFacts DEF TcpInv
<1>5. x \in Sent /\ SeqTop = sock.seq_num /\ SeqTop' = SeqTop + 1
  BY <1>1, <1>4 DEF Sent, SeqTop
<1>6. UpFlow' /\ peer.st # "LISTEN"
  BY <1>1, <1>2, <1>4, <1>5, SentFlow
<1>7. Opening'
  BY <1>1, <1>2, <1>6 DEF Opening
<1>8. FinTaken'
  BY <1>1 DEF FinTaken
<1> QED BY <1>1, <1>4, <1>6, <1>7, <1>8, SendFlow

LEMMA SendFinFlow ==
    ASSUME FlowInv, TcpInv, SendFin
    PROVE  FlowInv'
<1> USE DEF FlowInv
<1> DEFINE st == IF sock.state = "CLOSE_WAIT" THEN "LAST_ACK" ELSE "FIN_WAIT1"
<1>1. /\ pc = "send_fin" /\ pc' = (IF st = "LAST_ACK" THEN "wait_closed" ELSE "wait_time_wait")
      /\ up' = Append(up, Segment("FIN|ACK", sock.seq_num, sock.ack_num, 0))
      /\ sock' = StateSeq(sock, st, sock.seq_num + 1)
      /\ done' = [done EXCEPT !.fin = TRUE]
      /\ UNCHANGED <<open, port, fault, down, peer, got>>
  <2>1. seq_after("FIN|ACK", 0) = sock.seq_num + 1
    BY Plain DEF seq_after
  <2> QED BY <2>1 DEF SendFin, tcp_send_packet, StateSeq
<1>2. st \in TcpStates /\ (st = "LAST_ACK" => sock.state = "CLOSE_WAIT")
      /\ st \in {"LAST_ACK", "FIN_WAIT1"}
  BY DEF TcpStates
<1> HIDE DEF st
<1>3. "FIN|ACK" \in Flags /\ sock.seq_num \in Nat /\ sock.ack_num \in Nat /\ sock.seq_num + 1 \in Nat
      /\ sock \in Socks /\ done \in Marks
  BY Plain DEF Flags, FinFlags
<1>4. /\ sock'.state = st /\ sock'.seq_num = sock.seq_num + 1 /\ sock'.ack_num = sock.ack_num
      /\ sock'.live = sock.live /\ sock'.rx_qu = sock.rx_qu
  BY <1>1, <1>2, <1>3, StateSeqFacts
<1>5. PICK x \in Segs : /\ x.port = port /\ x.flags = "FIN|ACK" /\ x.seq = sock.seq_num
                       /\ x.ack = sock.ack_num /\ up' = Append(up, x)
  BY <1>1, <1>3, SegmentFacts DEF TcpInv
<1>6. x \in Sent /\ SeqTop = sock.seq_num /\ SeqTop' = SeqTop + 1
  BY <1>1, <1>4, <1>5 DEF Sent, SeqTop
<1>7. done.conn /\ ~done.fin
  BY <1>1 DEF TcpInv, PcLife, SockLife
<1>8. done' \in Marks /\ done'.conn = done.conn /\ done'.fin = TRUE
  BY <1>1, <1>3 DEF Marks
<1>9. UpFlow' /\ peer.st # "LISTEN"
  BY <1>1, <1>5, <1>6, <1>7, <1>8, SentFlow
<1>10. Opening'
  BY <1>1, <1>2, <1>4, <1>7, <1>8, <1>9 DEF Opening
<1>11. FinTaken'
  BY <1>1, <1>2, <1>4 DEF FinTaken
<1> QED BY <1>1, <1>4, <1>5, <1>9, <1>10, <1>11, SendFlow

\* connect() of a new socket, or once more.
LEMMA ConnectFlow ==
    ASSUME FlowInv, TcpInv, Connect
    PROVE  FlowInv'
<1> USE DEF FlowInv
<1>1. /\ pc = "user" /\ sock.state = "CLOSED" /\ ~done.conn /\ pc' = "wait_established"
      /\ sock' = StateSeq(sock, "SYN_SENT", sock.seq_num + 1)
      /\ up' = up \/ up' = Append(up, Segment("SYN", sock.seq_num, sock.ack_num, 0))
      /\ UNCHANGED <<open, port, fault, down, peer, got, done>>
  <2>1. seq_after("SYN", 0) = sock.seq_num + 1
    BY Plain DEF seq_after
  <2> QED BY <2>1 DEF Connect, ip_send_syn, tcp_send_packet, StateSeq
<1>2. "SYN" \in Flags /\ sock.seq_num \in Nat /\ sock.ack_num \in Nat /\ sock.seq_num + 1 \in Nat
      /\ sock \in Socks /\ "SYN_SENT" \in TcpStates /\ up \in Seq(Segs) /\ port \in Nat
      /\ peer.st \in PeerStates /\ peer.snd \in Nat /\ peer.una \in Nat
  BY Plain DEF Flags, TcpStates
<1>3. /\ sock'.state = "SYN_SENT" /\ sock'.seq_num = sock.seq_num + 1
      /\ sock'.ack_num = sock.ack_num /\ sock'.live = sock.live /\ sock'.rx_qu = sock.rx_qu
  <2>1. /\ sock' = StateSeq(sock, "SYN_SENT", sock.seq_num + 1) /\ sock \in Socks
        /\ "SYN_SENT" \in TcpStates /\ sock.seq_num + 1 \in Nat
    BY <1>1, <1>2
  <2> QED BY ONLY <2>1, StateSeqFacts
<1>4. up' = up \/ \E x \in Segs : /\ x.port = port /\ x.flags = "SYN" /\ x.seq = sock.seq_num
                                  /\ x.ack = sock.ack_num /\ up' = Append(up, x)
  BY <1>1, <1>2, SegmentFacts, SMTT(40) DEF TcpInv
<1>5. peer.una = peer.snd /\ peer.st \in {"LISTEN", "FIN_SENT"}
  <2>1. peer.una = peer.snd /\ peer.st \notin {"ESTABLISHED", "CLOSE_WAIT"}
    BY <1>1 DEF Opening
  <2>2. peer.st \notin {"LAST_ACK", "DONE"}
    BY <1>1 DEF TcpInv, SockLife, PeerLife
  <2>3. peer.st # "SYN_RCVD"
    BY <2>1 DEF Opening, TcpInv, PeerLife
  <2> QED BY <1>2, <2>1, <2>2, <2>3 DEF PeerStates
<1>6. \A s \in Of(up', port) :
        \/ s \in Of(up, port)
        \/ s.flags = "SYN" /\ s.seq + 1 = sock'.seq_num
  <2>1. CASE up' = up
    BY <2>1
  <2>2. ASSUME NEW x \in Segs, x.flags = "SYN", x.seq = sock.seq_num, up' = Append(up, x)
        PROVE  \A s \in Of(up', port) : s \in Of(up, port) \/ (s.flags = "SYN" /\ s.seq + 1 = sock'.seq_num)
    BY <1>2, <1>3, <2>2, OfAppend
  <2> QED BY <1>4, <2>1, <2>2
<1>7. Opening'
  BY <1>1, <1>3, <1>5, <1>6 DEF Opening
<1>8. ~Joined'
  BY <1>1, <1>3, <1>5 DEF Joined
<1>9. \A s \in Of(up', port) : s.flags # "FIN|ACK"
  BY <1>1, <1>6 DEF TcpInv, SockLife, PeerLife
<1>10. UpFlow'
  BY <1>1, <1>5, <1>8, <1>9 DEF UpFlow
<1>11. FinTaken'
  BY <1>1, <1>3 DEF FinTaken
<1> QED BY <1>1, <1>3, <1>4, <1>7, <1>10, <1>11, SendFlow

-----------------------------------------------------------------------------
(* tcp_layer_deliver().                                                    *)

\* A segment that fills a number fills the next one.
LEMMA TakenHead ==
    ASSUME FlowInv, TcpInv, open, fault = "none", down # <<>>, Head(down).port = port,
           Head(down) \in Fills
    PROVE  /\ Head(down).seq = sock.ack_num /\ sock.ack_num < peer.snd /\ peer.st # "LISTEN"
           /\ Numbered(Tail(down), port, Fills, sock.ack_num + 1, peer.snd, Unsent)
<1>1. /\ down \in Seq(Segs) /\ sock.ack_num \in Nat /\ peer.snd \in Nat /\ peer.fin \in Nat
      /\ Mine(Head(down), port, Fills)
  BY Plain DEF Mine
<1>2. Numbered(down, port, Fills, sock.ack_num, peer.snd, Unsent)
  BY DEF FlowInv, DownFlow
<1>3. \A n \in Unsent : n + 1 = peer.snd
  BY DEF Unsent, TcpInv, PeerLife
<1>4. /\ Head(down).seq = sock.ack_num /\ sock.ack_num < peer.snd
      /\ Numbered(Tail(down), port, Fills, sock.ack_num + 1, peer.snd, Unsent)
  BY <1>1, <1>2, <1>3, NumberedHead
<1> QED BY <1>1, <1>4 DEF TcpInv, PeerLife

\* What is taken is acknowledged.
LEMMA AnswerFlow ==
    ASSUME FlowInv, TcpInv, down # <<>>, down' = Tail(down), NEW x \in Segs, up' = Append(up, x),
           x.port = port, x.flags = "ACK", x.ack = sock'.ack_num, sock'.ack_num \in Nat,
           sock'.ack_num >= sock.ack_num, sock'.seq_num = sock.seq_num, Joined' => Joined,
           DownFlow', Opening', FinTaken', Stream', fault' # "BUG",
           UNCHANGED <<pc, port, peer>>
    PROVE  FlowInv'
<1> USE DEF FlowInv
<1>1. /\ up \in Seq(Segs) /\ down \in Seq(Segs) /\ port \in Nat /\ sock.ack_num \in Nat
      /\ peer.una \in Nat /\ \A s \in Of(up, port) : s.ack \in Nat
  BY Plain
<1>2. Of(down', port) \subseteq Of(down, port)
  BY <1>1, OfTail
<1>3. Shapes'
  BY <1>2 DEF Shapes
<1>4. /\ \A y \in Of(up', port) : y \in Of(up, port) \/ y = x
      /\ x \in Of(up', port)
  BY <1>1, OfAppend, OfAdded
<1>5. UpAcks'
  <2>1. peer.una <= sock'.ack_num /\ \A s \in Of(up, port) : s.ack <= sock'.ack_num
    BY <1>1 DEF UpAcks
  <2>2. sock'.ack_num <= sock'.ack_num
    OBVIOUS
  <2> QED BY <1>4, <2>1, <2>2 DEF UpAcks
<1>6. SeqTop' = SeqTop
  BY DEF SeqTop
<1>7. x \notin Sent /\ ~Mine(x, port, Sent)
  BY DEF Sent, Mine
<1>8. Joined => Numbered(up', port, Sent, peer.rcv, SeqTop, {})
  BY <1>1, <1>7, NumberedOther DEF UpFlow
<1>9. UpFlow'
  BY <1>4, <1>6, <1>8 DEF UpFlow
<1> QED BY <1>3, <1>5, <1>9

\* The acknowledgement that tcp_layer_deliver() sends.
LEMMA AckSent ==
    ASSUME TcpInv, NEW a \in Nat, tcp_send_ack(a)
    PROVE  \E x \in Segs : up' = Append(up, x) /\ x.port = port /\ x.ack = a /\ x.flags = "ACK"
<1> DEFINE x == Segment("ACK", sock.seq_num, a, 0)
<1>1. up' = Append(up, x)
  BY DEF tcp_send_ack
<1>2. "ACK" \in Flags /\ sock.seq_num \in Nat
  BY Plain DEF Flags
<1>3. x \in Segs /\ x.port = port /\ x.ack = a /\ x.flags = "ACK"
  BY <1>2, SegmentFacts DEF TcpInv
<1> HIDE DEF x
<1> QED BY <1>1, <1>3

\* A segment that fills nothing is taken off the link, and nothing is sent.
LEMMA PassFlow ==
    ASSUME FlowInv, TcpInv, down # <<>>, down' = Tail(down),
           (open /\ fault' = "none") => ~Mine(Head(down), port, Fills) /\ fault = "none",
           sock'.ack_num = sock.ack_num, sock'.seq_num = sock.seq_num, Joined' => Joined,
           sock'.live = sock.live, sock'.rx_qu = sock.rx_qu,
           Opening', FinTaken', fault' # "BUG", UNCHANGED <<pc, open, port, peer, up, got>>
    PROVE  FlowInv'
<1> USE DEF FlowInv
<1>1. down \in Seq(Segs) /\ port \in Nat
  BY Plain
<1>2. Of(down', port) \subseteq Of(down, port)
  BY <1>1, OfTail
<1>3. Shapes'
  BY <1>2 DEF Shapes
<1>4. DownFlow'
  <2> SUFFICES ASSUME open, fault' = "none"
               PROVE  Numbered(down', port, Fills, sock.ack_num, peer.snd, Unsent)
    BY DEF DownFlow, Unsent
  <2>1. Numbered(down, port, Fills, sock.ack_num, peer.snd, Unsent)
    BY DEF DownFlow
  <2> QED BY <1>1, <2>1, NumberedSkip
<1>5. SeqTop' = SeqTop
  BY DEF SeqTop
<1>6. UpAcks' /\ UpFlow'
  BY <1>5 DEF UpAcks, UpFlow
<1>7. Stream'
  BY DEF Stream
<1> QED BY <1>3, <1>4, <1>6, <1>7

\* A segment that changes nothing: for another port, for a freed socket, or
\* with flags that are ignored.
LEMMA DroppedFlow ==
    ASSUME FlowInv, TcpInv, down # <<>>, down' = Tail(down),
           (open /\ fault' = "none") => ~Mine(Head(down), port, Fills) /\ fault = "none",
           fault' # "BUG", UNCHANGED <<pc, open, port, peer, up, got, sock, done>>
    PROVE  FlowInv'
<1>1. Opening' /\ FinTaken' /\ Joined' = Joined
  BY DEF FlowInv, Opening, FinTaken, Joined
<1> QED BY <1>1, PassFlow

\* A segment is delivered to the socket.
Arrives(seg) ==
    /\ down # <<>> /\ seg = Head(down) /\ down' = Tail(down) /\ fault = "none"
    /\ open /\ seg.port = port /\ sock.live
    /\ UNCHANGED <<irq, pc, open, port, arp, peer, used, got, done>>

LEMMA ArrivesFacts ==
    ASSUME FlowInv, TcpInv, NEW seg, Arrives(seg)
    PROVE  /\ seg \in Segs /\ seg.seq \in Nat /\ seg.len \in {0, 1} /\ seg.flags \in Flags
           /\ seg \in Of(down, port) /\ FromPeer(seg)
           /\ seg \in Fills => /\ seg.seq = sock.ack_num /\ sock.ack_num < peer.snd
                               /\ peer.st # "LISTEN"
                               /\ Numbered(down', port, Fills, sock.ack_num + 1, peer.snd, Unsent')
<1>1. down \in Seq(Segs) /\ port \in Nat
  BY Plain
<1>2. seg \in Segs /\ seg \in Of(down, port)
  BY <1>1, TailFacts, OfTail DEF Arrives
<1>3. seg.seq \in Nat /\ seg.len \in {0, 1} /\ seg.flags \in Flags
  BY <1>2 DEF Segs
<1>4. FromPeer(seg)
  BY <1>2 DEF TcpInv, DownLife
<1>5. Unsent' = Unsent
  BY DEF Arrives, Unsent
<1> QED BY <1>2, <1>3, <1>4, <1>5, TakenHead DEF Arrives

\* A socket that has not taken all of the peer's numbers is connected, or
\* connect() waits for it.
LEMMA Behind ==
    ASSUME FlowInv, TcpInv, sock.ack_num < peer.snd, sock.ack_num <= peer.fin,
           sock.state \in {"CLOSED", "CLOSE_WAIT", "LAST_ACK", "CLOSING", "TIME_WAIT"}
    PROVE  FALSE
<1>1. sock.ack_num \in Nat /\ peer.snd \in Nat /\ peer.una \in Nat /\ peer.fin \in Nat
  BY Plain
<1>2. sock.state = "CLOSED" /\ ~done.conn
  BY <1>1 DEF FlowInv, FinTaken
<1>3. pc # "wait_established"
  BY <1>2 DEF FlowInv, Opening
<1>4. peer.una = peer.snd
  BY <1>2, <1>3 DEF FlowInv, Opening
<1>5. peer.una <= sock.ack_num
  BY DEF FlowInv, UpAcks
<1> QED BY <1>1, <1>4, <1>5

LEMMA DeliverSynFlow ==
    ASSUME FlowInv, TcpInv, NEW seg, Arrives(seg), DeliverSyn(seg)
    PROVE  FlowInv'
<1> USE DEF FlowInv
<1>1. /\ seg \in Segs /\ seg.flags \in Syns /\ seg \in Of(down, port)
  BY ArrivesFacts DEF DeliverSyn, Syns
<1>2. seg \in Fills
  BY <1>1 DEF Fills
<1>3. /\ seg.seq = sock.ack_num /\ sock.ack_num < peer.snd /\ peer.st # "LISTEN"
      /\ Numbered(down', port, Fills, sock.ack_num + 1, peer.snd, Unsent')
  BY <1>2, ArrivesFacts
<1>4. sock.ack_num = 0 /\ seg.seq = 0
  BY <1>1, <1>3 DEF Shapes
<1>5. /\ peer.una = 0 /\ peer.fin \in Nat /\ sock \in Socks /\ sock.state \in TcpStates /\ 1 \in Nat
      /\ peer.snd \in Nat /\ peer.una \in Nat
  BY <1>4, Plain DEF UpAcks
<1>6. sock.state = "SYN_SENT"
  <2>1. sock.state \in {"CLOSED", "SYN_SENT"}
    BY <1>4 DEF TcpInv, SockLife
  <2>2. sock.state # "CLOSED"
    BY <1>3, <1>4, <1>5, Behind
  <2> QED BY <2>1, <2>2
<1>7. ~done.conn /\ pc = "wait_established" /\ peer.st = "SYN_RCVD"
  <2>1. ~done.conn
    BY <1>6 DEF TcpInv, SockLife
  <2>2. peer.una # peer.snd
    BY <1>3, <1>4, <1>5
  <2>3. pc = "wait_established"
    BY <2>1, <2>2 DEF Opening
  <2> QED BY <1>3, <1>6, <2>1, <2>2, <2>3 DEF Opening
<1>8. /\ sock' = AckState(sock, 1, "ESTABLISHED") /\ tcp_send_ack(1) /\ fault' = "none"
  BY <1>4, <1>6 DEF DeliverSyn, AckState
<1>9. /\ sock'.state = "ESTABLISHED" /\ sock'.ack_num = 1 /\ sock'.seq_num = sock.seq_num
      /\ sock'.live = sock.live /\ sock'.rx_qu = sock.rx_qu
  <2>1. /\ sock \in Socks /\ 1 \in Nat /\ "ESTABLISHED" \in TcpStates
        /\ sock' = AckState(sock, 1, "ESTABLISHED")
    BY <1>5, <1>8 DEF TcpStates
  <2> QED BY ONLY <2>1, AckStateFacts
<1>10. PICK x \in Segs : up' = Append(up, x) /\ x.port = port /\ x.ack = 1 /\ x.flags = "ACK"
  BY <1>5, <1>8, AckSent
<1>11. UNCHANGED <<pc, open, port, peer, got, done>> /\ down # <<>> /\ down' = Tail(down)
  BY DEF Arrives
<1>12. DownFlow'
  BY <1>3, <1>4, <1>9, <1>11 DEF DownFlow
<1>13. Joined
  BY <1>7 DEF Joined
<1>14. Opening'
  BY <1>5, <1>7, <1>9, <1>11 DEF Opening
<1>15. FinTaken'
  BY <1>7, <1>9, <1>11 DEF FinTaken
<1>16. Stream'
  <2>1. sock.live => Len(got) + Len(sock.rx_qu) = 0
    BY <1>4 DEF Stream
  <2>2. (sock.live => /\ \A i \in 1 .. Len(got) : got[i] = i
                      /\ \A i \in 1 .. Len(sock.rx_qu) : sock.rx_qu[i] = Len(got) + i)
    BY DEF Stream
  <2> QED BY <1>9, <1>11, <2>1, <2>2 DEF Stream
<1> QED BY <1>4, <1>8, <1>9, <1>10, <1>11, <1>12, <1>13, <1>14, <1>15, <1>16, AnswerFlow

LEMMA DeliverDataFlow ==
    ASSUME FlowInv, TcpInv, NEW seg, Arrives(seg), DeliverFinData(seg) \/ DeliverData(seg)
    PROVE  FlowInv'
<1> USE DEF FlowInv
<1> DEFINE a == sock.ack_num
           q == Append(sock.rx_qu, a)
<1>1. /\ seg \in Segs /\ seg.len = 1 /\ seg \in Of(down, port) /\ FromPeer(seg) /\ seg.seq \in Nat
  BY ArrivesFacts DEF DeliverFinData, DeliverData, FromPeer
<1>2. seg \in Fills
  BY <1>1 DEF Fills, DeliverFinData, DeliverData
<1>3. /\ seg.seq = a /\ a < peer.snd /\ peer.st # "LISTEN"
      /\ Numbered(down', port, Fills, a + 1, peer.snd, Unsent')
  BY <1>2, ArrivesFacts
<1>4. /\ a \in Nat /\ a >= 1 /\ (peer.fin > 0 => a + 1 <= peer.fin)
  BY <1>1, <1>3, Plain DEF Shapes, FromPeer
<1>5. /\ peer.fin \in Nat /\ sock \in Socks /\ sock.rx_qu \in Seq(Nat) /\ got \in Seq(Nat)
      /\ a + 1 \in Nat /\ peer.snd \in Nat /\ peer.una \in Nat
  BY <1>4, Plain
<1>6. /\ sock' = AckRx(sock, a + 1, q) /\ tcp_send_ack(a + 1) /\ fault' = fault
  BY <1>1, <1>3 DEF DeliverFinData, DeliverData, AckRx
<1>7. q \in Seq(Nat) /\ Len(q) = Len(sock.rx_qu) + 1 /\ Len(sock.rx_qu) \in Nat /\ Len(got) \in Nat
  BY <1>4, <1>5
<1>8. (\A i \in 1 .. Len(sock.rx_qu) : q[i] = sock.rx_qu[i]) /\ q[Len(sock.rx_qu) + 1] = a
  BY <1>4, <1>5
<1> HIDE DEF q
<1>9. /\ sock'.state = sock.state /\ sock'.ack_num = a + 1 /\ sock'.seq_num = sock.seq_num
      /\ sock'.live = sock.live /\ sock'.rx_qu = q
  <2>1. sock \in Socks /\ a + 1 \in Nat /\ q \in Seq(Nat) /\ sock' = AckRx(sock, a + 1, q)
    BY <1>5, <1>6, <1>7
  <2> HIDE DEF a
  <2> QED BY ONLY <2>1, AckRxFacts
<1>10. PICK x \in Segs : up' = Append(up, x) /\ x.port = port /\ x.ack = a + 1 /\ x.flags = "ACK"
  BY <1>5, <1>6, AckSent
<1>11. /\ UNCHANGED <<pc, open, port, peer, got, done>> /\ down # <<>> /\ down' = Tail(down)
       /\ fault = "none" /\ sock.live
  BY DEF Arrives
<1>12. DownFlow'
  BY <1>3, <1>9, <1>11 DEF DownFlow
<1>13. Joined' = Joined
  BY <1>9, <1>11 DEF Joined
<1>14. sock.state # "SYN_SENT"
  <2>1. ~(peer.st = "SYN_RCVD" /\ a = 0)
    BY <1>4
  <2>2. peer.una # peer.snd
    BY <1>3, <1>4, <1>5 DEF UpAcks
  <2> QED BY <1>3, <1>4, <2>2 DEF Opening
<1>15. Opening'
  BY <1>3, <1>9, <1>11, <1>14 DEF Opening
<1>16. FinTaken'
  BY <1>4, <1>5, <1>9, <1>11 DEF FinTaken
<1>17. Stream'
  <2>1. /\ \A i \in 1 .. Len(got) : got[i] = i
        /\ \A i \in 1 .. Len(sock.rx_qu) : sock.rx_qu[i] = Len(got) + i
    BY <1>11 DEF Stream
  <2>2. Len(got) + Len(sock.rx_qu) = a - 1
    BY <1>4, <1>5, <1>11 DEF Stream
  <2>0. a = Len(got) + (Len(sock.rx_qu) + 1) /\ Len(got) + (Len(sock.rx_qu) + 1) = (a + 1) - 1
        /\ a + 1 # 0
    <3>1. Len(got) \in Nat /\ Len(sock.rx_qu) \in Nat /\ a \in Nat
      BY <1>4, <1>7
    <3> HIDE DEF a
    <3> QED BY ONLY <2>2, <3>1
  <2>3. \A i \in 1 .. Len(q) : q[i] = Len(got) + i
    <3>1. \A i \in 1 .. Len(q) : i \in 1 .. Len(sock.rx_qu) \/ i = Len(sock.rx_qu) + 1
      BY <1>7
    <3>2. q[Len(sock.rx_qu) + 1] = Len(got) + (Len(sock.rx_qu) + 1)
      BY <1>8, <2>0
    <3> QED BY <1>8, <2>1, <3>1, <3>2
  <2>4. Len(got) + Len(q) = (a + 1) - 1 /\ a + 1 # 0
    BY <1>7, <2>0
  <2> QED BY <1>9, <1>11, <2>1, <2>3, <2>4 DEF Stream
<1>18. a + 1 >= a
  BY <1>4
<1> QED BY <1>5, <1>6, <1>9, <1>10, <1>11, <1>12, <1>13, <1>15, <1>16, <1>17, <1>18, AnswerFlow

LEMMA DeliverFinFlow ==
    ASSUME FlowInv, TcpInv, NEW seg, Arrives(seg), DeliverFin(seg)
    PROVE  FlowInv'
<1> USE DEF FlowInv
<1> DEFINE a == sock.ack_num
           st == StateAfterFin(seg.flags)
<1>1. /\ seg \in Segs /\ seg.len = 0 /\ seg.flags \in FinFlags /\ seg \in Of(down, port)
      /\ FromPeer(seg)
  BY ArrivesFacts DEF DeliverFin
<1>2. seg \in Fills
  BY <1>1 DEF Fills
<1>3. /\ seg.seq = a /\ a < peer.snd /\ peer.st # "LISTEN"
      /\ Numbered(down', port, Fills, a + 1, peer.snd, Unsent')
  BY <1>2, ArrivesFacts
<1>4. a = peer.fin /\ peer.fin > 0
  BY <1>1, <1>3 DEF Shapes, FromPeer
<1>5. /\ a \in Nat /\ a + 1 \in Nat /\ peer.fin \in Nat /\ sock \in Socks /\ sock.state \in TcpStates
      /\ peer.una \in Nat /\ peer.snd \in Nat /\ a <= peer.fin
  BY <1>4, Plain
<1>6. peer.una # peer.snd
  BY <1>3, <1>5 DEF UpAcks
<1>7. sock.state \in {"FIN_WAIT1", "FIN_WAIT2", "ESTABLISHED"}
  <2>1. sock.state # "SYN_SENT"
    <3>1. peer.st \notin {"LISTEN", "SYN_RCVD"}
      BY <1>4 DEF TcpInv, PeerLife
    <3> QED BY <1>6, <3>1 DEF Opening
  <2>2. sock.state \notin {"CLOSED", "CLOSE_WAIT", "LAST_ACK", "CLOSING", "TIME_WAIT"}
    BY <1>3, <1>5, Behind
  <2>3. sock.state \notin {"LISTEN", "SYN_RCVD"}
    BY DEF TcpInv, SockLife
  <2> QED BY <1>5, <2>1, <2>2, <2>3 DEF TcpStates
<1>8. /\ st \in {"CLOSING", "TIME_WAIT", "CLOSE_WAIT"} /\ st \in TcpStates /\ st # "BUG"
      /\ (sock.state = "ESTABLISHED" => st = "CLOSE_WAIT")
  BY <1>7 DEF StateAfterFin, TcpStates
<1>9. sock' = AckState(sock, a + 1, st) /\ tcp_send_ack(a + 1) /\ fault' = fault
  BY <1>3, <1>8 DEF DeliverFin, AckState
<1> HIDE DEF st
<1>10. /\ sock'.state = st /\ sock'.ack_num = a + 1 /\ sock'.seq_num = sock.seq_num
       /\ sock'.live = sock.live /\ sock'.rx_qu = sock.rx_qu
  <2>1. sock \in Socks /\ a + 1 \in Nat /\ st \in TcpStates /\ sock' = AckState(sock, a + 1, st)
    BY <1>5, <1>8, <1>9
  <2> HIDE DEF a
  <2> QED BY ONLY <2>1, AckStateFacts
<1>11. PICK x \in Segs : up' = Append(up, x) /\ x.port = port /\ x.ack = a + 1 /\ x.flags = "ACK"
  BY <1>5, <1>9, AckSent
<1>12. /\ UNCHANGED <<pc, open, port, peer, got, done>> /\ down # <<>> /\ down' = Tail(down)
       /\ fault = "none"
  BY DEF Arrives
<1>13. DownFlow'
  BY <1>3, <1>10, <1>12 DEF DownFlow
<1>14. Joined
  BY <1>7 DEF Joined
<1>15. Opening'
  BY <1>3, <1>7, <1>8, <1>10, <1>12 DEF Opening
<1>16. FinTaken'
  BY <1>4, <1>5, <1>10, <1>12 DEF FinTaken
<1>17. Stream'
  <2>1. peer.fin > 0 /\ a + 1 > peer.fin /\ a + 1 # 0
    BY <1>4, <1>5
  <2> QED BY <1>10, <1>12, <2>1 DEF Stream
<1>18. a + 1 >= a
  BY <1>5
<1> QED BY <1>5, <1>9, <1>10, <1>11, <1>12, <1>13, <1>14, <1>15, <1>16, <1>17, <1>18, AnswerFlow

LEMMA DeliverAckFlow ==
    ASSUME FlowInv, TcpInv, NEW seg, Arrives(seg), DeliverAck(seg)
    PROVE  FlowInv'
<1> USE DEF FlowInv
<1> DEFINE st == CASE sock.state = "FIN_WAIT1" -> "FIN_WAIT2"
                   [] sock.state = "CLOSING"   -> "TIME_WAIT"
                   [] sock.state = "LAST_ACK"  -> "CLOSED"
                   [] OTHER                    -> sock.state
<1>1. /\ seg.flags = "ACK" /\ seg.len = 0 /\ sock' = [sock EXCEPT !.state = st]
      /\ UNCHANGED <<fault, up>>
  BY DEF DeliverAck
<1>2. sock \in Socks /\ sock.state \in TcpStates
  BY Plain
<1>3. /\ st \in TcpStates
      /\ \/ st = sock.state
         \/ sock.state = "FIN_WAIT1" /\ st = "FIN_WAIT2"
         \/ sock.state = "CLOSING" /\ st = "TIME_WAIT"
         \/ sock.state = "LAST_ACK" /\ st = "CLOSED"
  BY <1>2 DEF TcpStates
<1> HIDE DEF st
<1>4. /\ sock'.state = st /\ sock'.ack_num = sock.ack_num /\ sock'.seq_num = sock.seq_num
      /\ sock'.live = sock.live /\ sock'.rx_qu = sock.rx_qu
  BY <1>1, <1>2, <1>3, StateFacts
<1>5. /\ UNCHANGED <<pc, open, port, peer, got, done>> /\ down # <<>> /\ down' = Tail(down)
      /\ fault = "none" /\ seg = Head(down)
  BY DEF Arrives
<1>6. ~Mine(Head(down), port, Fills)
  BY <1>1, <1>5 DEF Mine, Fills, Syns, FinFlags
<1>7. Joined' => Joined
  BY <1>3, <1>4, <1>5 DEF Joined
<1>8. Opening'
  <2>1. sock.state \in {"FIN_WAIT1", "CLOSING", "LAST_ACK"} => pc # "wait_established"
    BY DEF Opening
  <2>2. sock.state \in {"FIN_WAIT1", "CLOSING", "LAST_ACK"} => peer.st # "LISTEN"
    BY JoinedFacts DEF Joined
  <2>3. CASE st = sock.state
    BY <1>1, <1>4, <1>5, <2>3 DEF Opening
  <2>4. CASE sock.state \in {"FIN_WAIT1", "CLOSING", "LAST_ACK"} /\ st # "SYN_SENT"
    BY <1>1, <1>4, <1>5, <2>1, <2>2, <2>4 DEF Opening
  <2> QED BY <1>3, <2>3, <2>4
<1>9. FinTaken'
  BY <1>3, <1>4, <1>5 DEF FinTaken
<1> QED BY <1>1, <1>4, <1>5, <1>6, <1>7, <1>8, <1>9, PassFlow

LEMMA DeliverFlow ==
    ASSUME FlowInv, TcpInv, Deliver
    PROVE  FlowInv'
<1> DEFINE seg == Head(down)
<1>1. /\ fault = "none" /\ down # <<>> /\ down' = Tail(down)
      /\ UNCHANGED <<irq, pc, open, port, arp, peer, used, got, done>>
  BY DEF Deliver
<1>2. CASE ~(open /\ seg.port = port) /\ UNCHANGED <<sock, fault, up>>
  BY <1>1, <1>2, DroppedFlow DEF Mine
<1>3. CASE fault' = "freed" /\ UNCHANGED <<sock, up>>
  BY <1>1, <1>3, DroppedFlow
<1>4. CASE DeliverOther(seg) /\ seg.port = port
  <2>1. seg \notin Fills /\ UNCHANGED <<sock, fault, up>>
    BY <1>4 DEF DeliverOther, Fills, Syns, FinFlags
  <2> QED BY <1>1, <2>1, DroppedFlow DEF Mine
<1>5. ASSUME open, seg.port = port, sock.live,
             \/ DeliverSyn(seg) \/ DeliverFinData(seg) \/ DeliverFin(seg)
             \/ DeliverAck(seg) \/ DeliverData(seg)
      PROVE  FlowInv'
  <2>1. Arrives(seg)
    BY <1>1, <1>5 DEF Arrives
  <2> QED BY <1>5, <2>1, DeliverSynFlow, DeliverDataFlow, DeliverFinFlow, DeliverAckFlow
<1> QED BY <1>2, <1>3, <1>4, <1>5 DEF Deliver

-----------------------------------------------------------------------------
(* The peer.                                                               *)

\* The peer sends, and numbers what it sends.
LEMMA PeerSendFlow ==
    ASSUME FlowInv, TcpInv, peer.st \in {"ESTABLISHED", "CLOSE_WAIT"}, peer' \in Peers,
           peer'.una = peer.una, peer'.rcv = peer.rcv,
           \/ peer'.st = peer.st
           \/ peer'.st = IF peer.st = "CLOSE_WAIT" THEN "LAST_ACK" ELSE "FIN_SENT",
           peer'.fin = 0 \/ peer'.fin >= peer.snd, DownFlow', Shapes',
           UNCHANGED <<pc, open, sock, port, fault, up, got, done>>
    PROVE  FlowInv'
<1> USE DEF FlowInv
<1>1. /\ peer.snd \in Nat /\ peer'.fin \in Nat /\ sock.ack_num \in Nat /\ peer.fin \in Nat
  BY Plain DEF Peers
<1>2. sock.ack_num <= peer.snd /\ peer.fin = 0
  BY <1>1 DEF TcpInv, PeerLife
<1>3. UpAcks'
  BY DEF UpAcks
<1>4. UpFlow'
  BY DEF UpFlow, SeqTop, Joined
<1>5. Opening'
  <2>1. done.conn \/ pc = "wait_established"
    BY DEF Opening
  <2>2. sock.state # "SYN_SENT"
    BY DEF Opening
  <2>3. peer'.st \notin {"LISTEN", "SYN_RCVD"}
    OBVIOUS
  <2> QED BY <2>1, <2>2, <2>3 DEF Opening
<1>6. FinTaken'
  BY <1>2 DEF FinTaken, TcpInv, SockLife
<1>7. ~(peer'.fin > 0 /\ sock.ack_num > peer'.fin)
  BY <1>1, <1>2
<1>8. Stream'
  BY <1>2, <1>7 DEF Stream
<1> QED BY <1>3, <1>4, <1>5, <1>6, <1>8

LEMMA PeerDataFlow ==
    ASSUME FlowInv, TcpInv, PeerData
    PROVE  FlowInv'
<1>1. /\ peer.st \in {"ESTABLISHED", "CLOSE_WAIT"} /\ peer' = [peer EXCEPT !.snd = @ + 1]
      /\ UNCHANGED <<pc, open, sock, port, fault, up, got, done>>
  BY DEF PeerData
<1>2. /\ peer \in Peers /\ peer.snd \in Nat /\ peer.rcv \in Nat /\ peer.fin \in Nat
      /\ down \in Seq(Segs) /\ port \in Nat /\ sock.ack_num \in Nat
  BY Plain
<1>3. /\ peer' \in Peers /\ peer'.snd = peer.snd + 1 /\ peer'.una = peer.una /\ peer'.st = peer.st
      /\ peer'.fin = peer.fin /\ peer'.rcv = peer.rcv
  BY <1>1, <1>2 DEF Peers
<1>4. peer.fin = 0 /\ peer.snd >= 1
  BY <1>1, <1>2 DEF TcpInv, PeerLife
<1>5. PICK flags \in {"ACK", "PSH|ACK"} : down' = Append(down, Segment(flags, peer.snd, peer.rcv, 1))
  BY DEF PeerData, peerSend
<1>6. flags \in Flags
  BY DEF Flags
<1>7. PICK x \in Segs : /\ x.port = port /\ x.flags = flags /\ x.seq = peer.snd /\ x.len = 1
                       /\ down' = Append(down, x)
  BY <1>2, <1>5, <1>6, SegmentFacts DEF TcpInv
<1>8. Mine(x, port, Fills)
  BY <1>7 DEF Mine, Fills
<1>9. Unsent' = Unsent
  BY <1>3 DEF Unsent
<1>10. DownFlow'
  <2> SUFFICES ASSUME open, fault = "none"
               PROVE  Numbered(down', port, Fills, sock.ack_num, peer.snd + 1, Unsent)
    BY <1>1, <1>3, <1>9 DEF DownFlow
  <2>1. Numbered(down, port, Fills, sock.ack_num, peer.snd, Unsent)
    BY DEF FlowInv, DownFlow
  <2> QED BY <1>2, <1>7, <1>8, <2>1, NumberedAdd
<1>11. Shapes'
  <2>1. \A y \in Of(down', port) : y \in Of(down, port) \/ y = x
    BY <1>2, <1>7, OfAppend
  <2>2. x.flags \notin Syns /\ x.flags \notin FinFlags /\ x.seq >= 1
    BY <1>4, <1>7 DEF Syns, FinFlags
  <2> QED BY <1>1, <1>3, <2>1, <2>2 DEF FlowInv, Shapes
<1> QED BY <1>1, <1>3, <1>4, <1>10, <1>11, PeerSendFlow

LEMMA PeerFinFlow ==
    ASSUME FlowInv, TcpInv, PeerFin
    PROVE  FlowInv'
<1>1. PICK flags \in FinFlags, len \in {0, 1} :
        /\ down' = Append(down, Segment(flags, peer.snd, peer.rcv, len))
        /\ peer' = FinPeer(peer, len)
  BY DEF PeerFin, peerSend, FinPeer
<1>2. /\ peer.st \in {"ESTABLISHED", "CLOSE_WAIT"}
      /\ UNCHANGED <<pc, open, sock, port, fault, up, got, done>>
  BY DEF PeerFin
<1>3. /\ peer \in Peers /\ peer.snd \in Nat /\ peer.rcv \in Nat /\ peer.fin \in Nat
      /\ down \in Seq(Segs) /\ port \in Nat /\ sock.ack_num \in Nat
  BY Plain
<1>4. /\ peer' \in Peers /\ peer'.fin = peer.snd + len /\ peer'.snd = peer.snd + len + 1
      /\ peer'.una = peer.una
      /\ peer'.st = IF peer.st = "CLOSE_WAIT" THEN "LAST_ACK" ELSE "FIN_SENT"
  BY <1>1, <1>3, FinPeerFacts
<1>5. peer'.rcv = peer.rcv
  BY <1>1, <1>3 DEF FinPeer, Peers
<1>6. peer.fin = 0 /\ peer.snd >= 1
  BY <1>2, <1>3 DEF TcpInv, PeerLife
<1>7. flags \in Flags
  BY DEF Flags
<1>8. PICK x \in Segs : /\ x.port = port /\ x.flags = flags /\ x.seq = peer.snd /\ x.len = len
                       /\ down' = Append(down, x)
  BY <1>1, <1>3, <1>7, SegmentFacts, SMTT(40) DEF TcpInv
<1>9. Mine(x, port, Fills)
  BY <1>8 DEF Mine, Fills
<1>10. Unsent = {} /\ Unsent' = {peer.snd + len} /\ peer'.fin >= peer.snd
  BY <1>3, <1>4, <1>6 DEF Unsent
<1>11. DownFlow'
  <2> SUFFICES ASSUME open, fault = "none"
               PROVE  Numbered(down', port, Fills, sock.ack_num, peer.snd + len + 1, {peer.snd + len})
    BY <1>2, <1>4, <1>10 DEF DownFlow
  <2>1. Numbered(down, port, Fills, sock.ack_num, peer.snd, {})
    BY <1>10 DEF FlowInv, DownFlow
  <2>2. Numbered(down', port, Fills, sock.ack_num, peer.snd + 1, {})
    BY <1>3, <1>8, <1>9, <2>1, NumberedAdd
  <2>3. down' \in Seq(Segs) /\ peer.snd + 1 \in Nat
    BY <1>3, <1>8, AppendFacts
  <2>4. {} \subseteq {peer.snd + len}
    OBVIOUS
  <2>5. CASE len = 0
    <3>1. peer.snd + len + 1 = peer.snd + 1
      BY <1>3, <2>5
    <3>2. Numbered(down', port, Fills, sock.ack_num, peer.snd + 1, {peer.snd + len})
      BY <2>2, <2>4, NumberedWiden
    <3> QED BY <3>1, <3>2
  <2>6. CASE len = 1
    <3>1. peer.snd + len + 1 = (peer.snd + 1) + 1 /\ peer.snd + 1 \in {peer.snd + len}
      BY <1>3, <2>6
    <3>2. Numbered(down', port, Fills, sock.ack_num, (peer.snd + 1) + 1, {peer.snd + len})
      BY <1>3, <2>2, <2>3, <2>4, <3>1, NumberedMore
    <3> QED BY <3>1, <3>2
  <2> QED BY <2>5, <2>6
<1>12. Shapes'
  <2>1. \A y \in Of(down', port) : y \in Of(down, port) \/ y = x
    BY <1>3, <1>8, OfAppend
  <2>2. /\ x.flags \notin Syns /\ x.seq >= 1
        /\ (x.len = 0 => x.seq = peer'.fin)
    BY <1>3, <1>4, <1>6, <1>8 DEF Syns, FinFlags
  <2>3. \A y \in Of(down, port) : y.flags \notin FinFlags
    BY <1>6 DEF TcpInv, DownLife, FromPeer
  <2> QED BY <1>2, <2>1, <2>2, <2>3 DEF FlowInv, Shapes
<1> QED BY <1>2, <1>4, <1>5, <1>10, <1>11, <1>12, PeerSendFlow

\* The peer's timer: with nothing under way only a FIN that went with data is
\* not acknowledged.
LEMMA PeerRetransmitFlow ==
    ASSUME FlowInv, TcpInv, PeerRetransmit
    PROVE  FlowInv'
<1> USE DEF FlowInv
<1> DEFINE flags == CASE peer.una = 0                       -> "SYN|ACK"
                      [] peer.una > 0 /\ peer.una = peer.fin -> "FIN|ACK"
                      [] OTHER                              -> "PSH|ACK"
           len == IF peer.una \in {0, peer.fin} THEN 0 ELSE 1
<1>1. /\ up = <<>> /\ down = <<>> /\ peer.una < peer.snd /\ fault = "none"
      /\ down' = <<Segment(flags, peer.una, peer.rcv, len)>>
      /\ UNCHANGED <<pc, open, sock, port, fault, up, peer, got, done>>
  BY DEF PeerRetransmit
<1>2. /\ peer.snd \in Nat /\ peer.rcv \in Nat /\ peer.una \in Nat /\ peer.fin \in Nat
      /\ down \in Seq(Segs) /\ port \in Nat
  BY Plain
<1>3. /\ flags \in {"SYN|ACK", "FIN|ACK", "PSH|ACK"}
      /\ flags = "SYN|ACK" => peer.una = 0 /\ len = 0
      /\ flags = "FIN|ACK" => peer.una = peer.fin /\ peer.una > 0 /\ len = 0
      /\ flags = "PSH|ACK" => peer.una # peer.fin /\ peer.una > 0 /\ len = 1
  <2>1. CASE peer.una = 0
    <3>1. flags = "SYN|ACK" /\ len = 0
      BY <1>2, <2>1
    <3> QED BY <2>1, <3>1
  <2>2. CASE peer.una # 0 /\ peer.una = peer.fin
    <3>1. flags = "FIN|ACK" /\ len = 0
      BY <1>2, <2>2
    <3> QED BY <1>2, <2>2, <3>1
  <2>3. CASE peer.una # 0 /\ peer.una # peer.fin
    <3>1. flags = "PSH|ACK" /\ len = 1
      BY <2>3
    <3> QED BY <1>2, <2>3, <3>1
  <2> QED BY <2>1, <2>2, <2>3
<1>4. len \in {0, 1}
  OBVIOUS
<1> HIDE DEF flags, len
<1>5. flags \in Flags
  BY <1>3 DEF Flags, FinFlags
<1>6. PICK x \in Segs : /\ x.port = port /\ x.flags = flags /\ x.seq = peer.una /\ x.len = len
                       /\ down' = <<x>>
  BY <1>1, <1>2, <1>4, <1>5, SegmentFacts DEF TcpInv
<1>7. down' = Append(down, x)
  BY <1>1, <1>6
<1>8. Of(down, port) = {} /\ Of(up, port) = {}
  BY <1>1 DEF Of
<1>9. Shapes'
  <2>1. \A y \in Of(down', port) : y = x
    BY <1>2, <1>7, <1>8, OfAppend
  <2>2. /\ x.flags \in Syns => x.seq = 0
        /\ (x.flags \in FinFlags /\ x.len = 0) => x.seq = peer.fin
        /\ x.len > 0 => x.seq >= 1
    BY <1>2, <1>3, <1>6 DEF Syns, FinFlags
  <2> QED BY <1>1, <2>1, <2>2 DEF Shapes
<1>10. DownFlow'
  <2> SUFFICES ASSUME open
               PROVE  Numbered(down', port, Fills, sock.ack_num, peer.snd, Unsent)
    BY <1>1 DEF DownFlow, Unsent
  <2>1. Numbered(down, port, Fills, sock.ack_num, peer.snd, Unsent)
    BY <1>1 DEF DownFlow
  <2>2. sock.ack_num = peer.una
    BY <1>8 DEF UpAcks
  <2>3. peer.una \in peer.una .. peer.snd - 1
    BY <1>1, <1>2
  <2>4. peer.una \in Unsent
    BY <1>1, <2>1, <2>2, <2>3 DEF Numbered
  <2>5. peer.fin > 0 /\ peer.una = peer.fin /\ peer.snd = peer.una + 1 /\ Unsent = {peer.fin}
    BY <2>4 DEF Unsent, TcpInv, PeerLife
  <2>6. flags = "FIN|ACK"
    BY <1>2, <1>3, <2>5
  <2>7. Mine(x, port, Fills)
    BY <1>6, <2>6 DEF Mine, Fills, FinFlags
  <2>8. Numbered(down, port, Fills, peer.una, peer.una, Unsent)
    BY <1>2, <1>8, NumberedNone
  <2> QED BY <1>2, <1>6, <1>7, <2>2, <2>5, <2>7, <2>8, NumberedAdd
<1>11. UpAcks' /\ UpFlow' /\ Opening' /\ FinTaken' /\ Stream'
  BY <1>1 DEF UpAcks, UpFlow, Opening, FinTaken, Stream, SeqTop, Joined
<1> QED BY <1>1, <1>9, <1>10, <1>11

\* A segment arrives at the peer.
PeerGets(seg) ==
    /\ up # <<>> /\ seg = Head(up) /\ up' = Tail(up) /\ fault = "none"
    /\ UNCHANGED <<irq, pc, open, sock, port, fault, arp, used, got, done>>

LEMMA PeerGetsFacts ==
    ASSUME TcpInv, NEW seg, PeerGets(seg)
    PROVE  /\ seg \in Segs /\ seg.seq \in Nat /\ seg.ack \in Nat /\ up' \in Seq(Segs)
           /\ Of(up', port) \subseteq Of(up, port)
           /\ seg.port = port => seg \in Of(up, port)
           /\ \A y \in Of(up, port) : (y = seg /\ seg.port = port) \/ y \in Of(up', port)
           /\ SeqTop' = SeqTop
<1>1. up \in Seq(Segs) /\ port \in Nat /\ up # <<>> /\ up' = Tail(up) /\ seg = Head(up)
  BY Plain DEF PeerGets
<1>2. seg \in Segs /\ up' \in Seq(Segs)
  BY <1>1, TailFacts
<1>3. seg.seq \in Nat /\ seg.ack \in Nat
  BY <1>2 DEF Segs
<1>4. Of(up', port) \subseteq Of(up, port) /\ (seg.port = port => seg \in Of(up, port))
  BY <1>1, OfTail
<1>5. \A y \in Of(up, port) : (y = seg /\ seg.port = port) \/ y \in Of(up', port)
  BY <1>1, OfSplit
<1>6. SeqTop' = SeqTop
  BY DEF PeerGets, SeqTop
<1> QED BY <1>2, <1>3, <1>4, <1>5, <1>6

\* A segment for another port, or a SYN that comes too late.
LEMMA PeerIgnoresFlow ==
    ASSUME FlowInv, TcpInv, NEW seg, PeerGets(seg),
           seg.port # port \/ (seg.flags = "SYN" /\ peer.st # "LISTEN"), UNCHANGED <<peer, down>>
    PROVE  FlowInv'
<1> USE DEF FlowInv
<1>1. UNCHANGED <<pc, open, sock, port, fault, got, done, peer, down>>
  BY DEF PeerGets
<1>2. /\ Of(up', port) \subseteq Of(up, port) /\ SeqTop' = SeqTop
      /\ \A y \in Of(up, port) : (y = seg /\ seg.port = port) \/ y \in Of(up', port)
  BY PeerGetsFacts
<1>3. DownFlow' /\ Shapes' /\ FinTaken' /\ Stream' /\ Joined' = Joined
  BY <1>1 DEF DownFlow, Unsent, Shapes, FinTaken, Stream, Joined
<1>4. UpAcks'
  BY <1>1, <1>2 DEF UpAcks
<1>5. Opening'
  BY <1>1, <1>2 DEF Opening
<1>6. Joined => Numbered(up', port, Sent, peer.rcv, SeqTop, {})
  <2>1. up \in Seq(Segs) /\ up # <<>> /\ up' = Tail(up) /\ seg = Head(up)
    BY Plain DEF PeerGets
  <2>2. ~Mine(seg, port, Sent)
    BY DEF Mine, Sent
  <2> QED BY <2>1, <2>2, NumberedSkip DEF UpFlow
<1>7. UpFlow'
  BY <1>1, <1>2, <1>3, <1>6 DEF UpFlow
<1> QED BY <1>1, <1>3, <1>4, <1>5, <1>7

\* The SYN arrives: the peer answers or refuses.
LEMMA PeerSynFlow ==
    ASSUME FlowInv, TcpInv, NEW seg, PeerGets(seg), PeerSyn(seg)
    PROVE  FlowInv'
<1> USE DEF FlowInv
<1>1. /\ seg.flags = "SYN" /\ seg.port = port /\ peer.st = "LISTEN"
      /\ UNCHANGED <<pc, open, sock, port, fault, got, done>> /\ fault = "none"
  BY DEF PeerSyn, PeerGets
<1>2. /\ Of(up', port) \subseteq Of(up, port) /\ SeqTop' = SeqTop /\ seg \in Of(up, port)
      /\ seg.seq \in Nat /\ seg.seq + 1 \in Nat /\ up' \in Seq(Segs)
  BY <1>1, PeerGetsFacts
<1>3. /\ peer \in Peers /\ down \in Seq(Segs) /\ port \in Nat /\ sock.ack_num \in Nat /\ 1 \in Nat
      /\ 0 \in Nat /\ sock.seq_num \in Nat
  BY Plain
<1>4. /\ \A s \in Of(up', port) : s.flags = "SYN"
      /\ seg.seq + 1 = sock.seq_num /\ pc = "wait_established" /\ sock.state = "SYN_SENT"
      /\ peer.una = 0
  BY <1>1, <1>2 DEF Opening
<1>5. /\ peer.snd = 0 /\ sock.ack_num = 0 /\ peer.fin = 0 /\ ~done.conn
  BY <1>1, <1>3, <1>4, Plain DEF TcpInv, PeerLife, SockLife
<1>6. \A f \in {"SYN|ACK", "RST|ACK"} : \A n \in Nat :
        \E x \in Segs : /\ x = Segment(f, 0, n, 0)
                        /\ x.port = port /\ x.flags = f /\ x.seq = 0 /\ x.len = 0
  <2>1. "SYN|ACK" \in Flags /\ "RST|ACK" \in Flags /\ 0 \in {0, 1} /\ TcpTypes
    BY DEF Flags, TcpInv
  <2> QED BY <1>3, <2>1, SegmentFacts
<1>7. CASE /\ peer' = SynPeer(peer, seg.seq + 1)
           /\ down' = Append(down, Segment("SYN|ACK", 0, seg.seq + 1, 0))
  <2>1. /\ peer' \in Peers /\ peer'.st = "SYN_RCVD" /\ peer'.snd = 1 /\ peer'.una = 0 /\ peer'.fin = 0
    BY <1>2, <1>3, <1>4, <1>5, <1>7, SynPeerFacts
  <2>2. peer'.rcv = SeqTop
    <3>1. peer'.rcv = seg.seq + 1
      BY <1>3, <1>7 DEF SynPeer, Peers
    <3> QED BY <1>4, <3>1 DEF SeqTop
  <2>3. PICK x \in Segs : /\ x.port = port /\ x.flags = "SYN|ACK" /\ x.seq = 0 /\ x.len = 0
                         /\ down' = Append(down, x)
    BY <1>2, <1>6, <1>7
  <2>4. DownFlow'
    <3> SUFFICES ASSUME open PROVE Numbered(down', port, Fills, 0, 0 + 1, Unsent)
      BY <1>1, <1>5, <2>1 DEF DownFlow, Unsent
    <3>1. Numbered(down, port, Fills, 0, 0, Unsent)
      BY <1>1, <1>5 DEF DownFlow
    <3>2. Mine(x, port, Fills)
      BY <2>3 DEF Mine, Fills, Syns
    <3> QED BY <1>3, <2>3, <3>1, <3>2, NumberedAdd
  <2>5. Shapes'
    <3>1. \A y \in Of(down', port) : y \in Of(down, port) \/ y = x
      BY <1>3, <2>3, OfAppend
    <3>2. x.flags \notin FinFlags
      BY <2>3 DEF FinFlags
    <3> QED BY <1>1, <1>5, <2>1, <2>3, <3>1, <3>2 DEF Shapes
  <2>6. UpAcks'
    BY <1>1, <1>2, <1>5, <2>1 DEF UpAcks
  <2>7. Numbered(up', port, Sent, SeqTop, SeqTop, {})
    <3>1. \A s \in Of(up', port) : s \notin Sent
      BY <1>4 DEF Sent
    <3> QED BY <1>2, <1>3, <3>1, Plain, NumberedNone
  <2>8. UpFlow'
    BY <1>1, <1>2, <1>4, <2>1, <2>2, <2>7 DEF UpFlow
  <2>9. Opening'
    BY <1>1, <1>4, <1>5, <2>1 DEF Opening
  <2>10. FinTaken' /\ Stream'
    BY <1>1, <1>4, <1>5, <2>1 DEF FinTaken, Stream
  <2> QED BY <1>1, <2>4, <2>5, <2>6, <2>8, <2>9, <2>10
<1>8. CASE UNCHANGED peer /\ down' = Append(down, Segment("RST|ACK", 0, seg.seq + 1, 0))
  <2>1. PICK x \in Segs : /\ x.port = port /\ x.flags = "RST|ACK" /\ x.seq = 0 /\ x.len = 0
                         /\ down' = Append(down, x)
    BY <1>2, <1>6, <1>8
  <2>2. x \notin Fills /\ ~Mine(x, port, Fills) /\ x.flags \notin Syns /\ x.flags \notin FinFlags
    BY <2>1 DEF Mine, Fills, Syns, FinFlags
  <2>3. DownFlow'
    <3> SUFFICES ASSUME open
                 PROVE  Numbered(down', port, Fills, sock.ack_num, peer.snd, Unsent)
      BY <1>1, <1>8 DEF DownFlow, Unsent
    <3>1. Numbered(down, port, Fills, sock.ack_num, peer.snd, Unsent)
      BY <1>1 DEF DownFlow
    <3> QED BY <1>3, <2>1, <2>2, <3>1, NumberedOther
  <2>4. Shapes'
    <3>1. \A y \in Of(down', port) : y \in Of(down, port) \/ y = x
      BY <1>3, <2>1, OfAppend
    <3> QED BY <1>1, <1>8, <2>1, <2>2, <3>1 DEF Shapes
  <2>5. UpAcks'
    BY <1>1, <1>2, <1>4, <1>5, <1>8 DEF UpAcks
  <2>6. ~Joined'
    BY <1>1, <1>4, <1>5, <1>8 DEF Joined
  <2>7. UpFlow'
    BY <1>1, <1>4, <1>8, <2>6 DEF UpFlow
  <2>8. Opening'
    BY <1>1, <1>2, <1>8 DEF Opening
  <2>9. FinTaken' /\ Stream'
    BY <1>1, <1>8 DEF FinTaken, Stream
  <2> QED BY <1>1, <2>3, <2>4, <2>5, <2>7, <2>8, <2>9
<1> QED BY <1>7, <1>8 DEF PeerSyn, SynPeer

\* What the peer has after a segment: only the next number counts.
Counted(seg, p) ==
    /\ seg \in Sent /\ seg.seq = p.rcv /\ p.st \notin {"LISTEN", "DONE"}
    /\ peer'.rcv = p.rcv + 1
    /\ \/ seg.flags = "PSH|ACK" /\ peer'.st = p.st
       \/ seg.flags = "FIN|ACK" /\ peer'.st \in {"LAST_ACK", "CLOSE_WAIT"}

NotCounted(seg, p) ==
    /\ peer'.rcv = p.rcv /\ peer'.st = p.st
    /\ seg \in Sent => ~(seg.seq = p.rcv /\ p.st \notin {"LISTEN", "DONE"})

LEMMA PeerTakesFacts ==
    ASSUME TcpInv, NEW seg, PeerGets(seg), PeerTakes(seg)
    PROVE  \E p \in Peers :
             /\ p.snd = peer.snd /\ p.rcv = peer.rcv /\ p.fin = peer.fin /\ AckTaken(peer, seg.ack, p)
             /\ peer'.snd = p.snd /\ peer'.fin = p.fin /\ peer'.una = p.una
             /\ Counted(seg, p) \/ NotCounted(seg, p)
             /\ \/ down' = down
                \/ \E x \in Segs : down' = Append(down, x) /\ x.port = port /\ x.flags = "ACK" /\ x.len = 0
<1> DEFINE p == PeerAcked(peer, seg.ack)
           inSequence == seg.seq = p.rcv /\ p.st \notin {"LISTEN", "DONE"}
<1>1. \/ seg.flags = "ACK" /\ peer' = p /\ UNCHANGED down
      \/ /\ seg.flags = "PSH|ACK" /\ inSequence /\ peer' = [p EXCEPT !.rcv = @ + 1]
         /\ down' = Append(down, Segment("ACK", p.snd, p.rcv + 1, 0))
      \/ /\ seg.flags = "FIN|ACK" /\ inSequence /\ peer' = ClosedPeer(p)
         /\ down' = Append(down, Segment("ACK", p.snd, p.rcv + 1, 0))
      \/ seg.flags # "ACK" /\ ~inSequence /\ peer' = p /\ UNCHANGED down
  BY DEF PeerTakes, ClosedPeer
<1>2. peer \in Peers /\ seg \in Segs /\ seg.ack \in Nat
  BY Plain, PeerGetsFacts
<1> HIDE DEF p
<1>3. /\ p \in Peers /\ p.snd = peer.snd /\ p.rcv = peer.rcv /\ p.fin = peer.fin
      /\ AckTaken(peer, seg.ack, p)
  BY <1>2, PeerAckedFacts DEF p
<1>4. p.snd \in Nat /\ p.rcv + 1 \in Nat
  BY <1>3 DEF Peers
<1>5. \E x \in Segs : /\ x = Segment("ACK", p.snd, p.rcv + 1, 0)
                      /\ x.port = port /\ x.flags = "ACK" /\ x.len = 0
  <2>1. "ACK" \in Flags /\ 0 \in {0, 1} /\ TcpTypes
    BY DEF Flags, TcpInv
  <2> QED BY <1>4, <2>1, SegmentFacts
<1>6. \/ down' = down
      \/ \E x \in Segs : down' = Append(down, x) /\ x.port = port /\ x.flags = "ACK" /\ x.len = 0
  BY <1>1, <1>5
<1>7. CASE seg.flags = "PSH|ACK" /\ inSequence /\ peer' = [p EXCEPT !.rcv = @ + 1]
  <2>1. /\ peer'.snd = p.snd /\ peer'.fin = p.fin /\ peer'.una = p.una /\ peer'.rcv = p.rcv + 1
        /\ peer'.st = p.st
    BY <1>3, <1>7 DEF Peers
  <2>2. Counted(seg, p)
    BY <1>2, <1>7, <2>1 DEF Counted, Sent
  <2> QED BY <1>3, <1>6, <2>1, <2>2
<1>8. CASE seg.flags = "FIN|ACK" /\ inSequence /\ peer' = ClosedPeer(p)
  <2>1. /\ peer'.snd = p.snd /\ peer'.fin = p.fin /\ peer'.una = p.una /\ peer'.rcv = p.rcv + 1
        /\ peer'.st \in {"LAST_ACK", "CLOSE_WAIT"}
    BY <1>3, <1>8, ClosedPeerFacts
  <2>2. Counted(seg, p)
    BY <1>2, <1>8, <2>1 DEF Counted, Sent
  <2> QED BY <1>3, <1>6, <2>1, <2>2
<1>9. CASE (seg.flags = "ACK" \/ ~inSequence) /\ peer' = p
  <2>1. NotCounted(seg, p)
    BY <1>9 DEF NotCounted, Sent
  <2> QED BY <1>3, <1>6, <1>9, <2>1
<1> QED BY <1>1, <1>7, <1>8, <1>9

LEMMA PeerTakesFlow ==
    ASSUME FlowInv, TcpInv, NEW seg, PeerGets(seg), PeerTakes(seg)
    PROVE  FlowInv'
<1> USE DEF FlowInv
<1>1. /\ seg.flags # "SYN" /\ seg.port = port
      /\ UNCHANGED <<pc, open, sock, port, fault, got, done>>
  BY DEF PeerTakes, PeerGets
<1>2. /\ Of(up', port) \subseteq Of(up, port) /\ SeqTop' = SeqTop /\ seg \in Of(up, port)
      /\ seg.seq \in Nat /\ seg.ack \in Nat /\ up' \in Seq(Segs)
      /\ \A y \in Of(up, port) : y = seg \/ y \in Of(up', port)
  BY <1>1, PeerGetsFacts
<1>3. PICK p \in Peers :
             /\ p.snd = peer.snd /\ p.rcv = peer.rcv /\ p.fin = peer.fin /\ AckTaken(peer, seg.ack, p)
             /\ peer'.snd = p.snd /\ peer'.fin = p.fin /\ peer'.una = p.una
             /\ Counted(seg, p) \/ NotCounted(seg, p)
             /\ \/ down' = down
                \/ \E x \in Segs : down' = Append(down, x) /\ x.port = port /\ x.flags = "ACK" /\ x.len = 0
  BY PeerTakesFacts
<1>4. /\ down \in Seq(Segs) /\ port \in Nat /\ sock.ack_num \in Nat /\ peer.una \in Nat
      /\ peer.snd \in Nat /\ peer.rcv \in Nat /\ SeqTop \in Nat /\ p.una \in Nat /\ p.st \in PeerStates
  BY <1>3, Plain DEF Peers
<1>5. peer.st # "LISTEN"
  BY <1>1, <1>2 DEF Opening
<1>6. /\ seg.ack <= sock.ack_num /\ sock.ack_num <= peer.snd /\ peer.una <= sock.ack_num
  BY <1>2 DEF UpAcks, TcpInv, PeerLife
<1>7. /\ p.una >= peer.una /\ p.una >= seg.ack /\ p.una <= sock.ack_num
      /\ p.una = peer.una \/ p.una = seg.ack
  BY <1>2, <1>3, <1>4, <1>6 DEF AckTaken
<1>8. \/ p.st = peer.st /\ (peer.st = "SYN_RCVD" => ~(p.una > 0))
      \/ peer.st = "SYN_RCVD" /\ p.st = "ESTABLISHED" /\ p.una > 0
      \/ peer.st = "LAST_ACK" /\ p.st = "DONE"
  BY <1>3 DEF AckTaken
<1>9. /\ peer'.st = p.st \/ (seg.flags = "FIN|ACK" /\ peer'.st \in {"LAST_ACK", "CLOSE_WAIT"})
  BY <1>3 DEF Counted, NotCounted
<1>10. seg.flags = "FIN|ACK" => done.fin /\ done.conn
  BY <1>2 DEF TcpInv, PeerLife, SockLife
<1>11. DownFlow' /\ Shapes'
  <2>1. Unsent' = Unsent
    BY <1>3 DEF Unsent
  <2>2. CASE down' = down
    BY <1>1, <1>3, <2>1, <2>2 DEF DownFlow, Shapes
  <2>3. ASSUME NEW x \in Segs, down' = Append(down, x), x.port = port, x.flags = "ACK", x.len = 0
        PROVE  DownFlow' /\ Shapes'
    <3>1. x.flags \notin Syns /\ x.flags \notin FinFlags /\ ~Mine(x, port, Fills)
      BY <2>3 DEF Syns, FinFlags, Mine, Fills
    <3>2. DownFlow'
      BY <1>1, <1>3, <1>4, <2>1, <2>3, <3>1, NumberedOther DEF DownFlow
    <3>3. \A y \in Of(down', port) : y \in Of(down, port) \/ y = x
      BY <1>4, <2>3, OfAppend
    <3> QED BY <1>1, <1>3, <2>3, <3>1, <3>2, <3>3 DEF Shapes
  <2> QED BY <1>3, <2>2, <2>3
<1>12. UpAcks'
  <2>1. peer'.una <= sock'.ack_num /\ \A s \in Of(up', port) : s.ack <= sock'.ack_num
    BY <1>1, <1>2, <1>3, <1>7 DEF UpAcks
  <2>2. CASE sock.ack_num = peer.una
    BY <1>1, <1>3, <1>4, <1>7, <2>1, <2>2 DEF UpAcks
  <2>3. ASSUME NEW s \in Of(up, port), s.flags # "SYN", s.ack = sock.ack_num PROVE UpAcks'
    <3>1. CASE s = seg
      <4>1. p.una = sock.ack_num
        BY <1>2, <1>4, <1>7, <2>3, <3>1
      <4> QED BY <1>1, <1>3, <2>1, <4>1 DEF UpAcks
    <3>2. CASE s \in Of(up', port)
      BY <1>1, <2>1, <2>3, <3>2 DEF UpAcks
    <3> QED BY <1>2, <3>1, <3>2
  <2> QED BY <2>2, <2>3 DEF UpAcks
<1>13. Opening'
  <2>1. peer'.st \in {"LISTEN", "SYN_RCVD"} => peer'.una = 0
    BY <1>3, <1>4, <1>5, <1>8, <1>9
  <2>2. peer'.st # "LISTEN"
    BY <1>5, <1>8, <1>9
  <2>3. (~done.conn /\ pc # "wait_established") =>
          peer'.una = peer'.snd /\ peer'.st \notin {"ESTABLISHED", "CLOSE_WAIT"}
    <3> SUFFICES ASSUME ~done.conn, pc # "wait_established"
                 PROVE  peer'.una = peer'.snd /\ peer'.st \notin {"ESTABLISHED", "CLOSE_WAIT"}
      OBVIOUS
    <3>1. peer.una = peer.snd /\ peer.st \notin {"ESTABLISHED", "CLOSE_WAIT"}
      BY DEF Opening
    <3>2. peer'.una = peer'.snd
      BY <1>3, <1>4, <1>6, <1>7, <3>1
    <3>3. peer.st # "SYN_RCVD"
      BY <3>1 DEF Opening, TcpInv, PeerLife
    <3> QED BY <1>8, <1>9, <1>10, <3>1, <3>2, <3>3
  <2>4. sock.state = "SYN_SENT" =>
         /\ pc \in {"wait_established", "connect_failed"}
         /\ peer'.st \in {"LISTEN", "SYN_RCVD", "FIN_SENT"}
         /\ peer'.st = "SYN_RCVD" => sock.ack_num = 0
         /\ peer'.st = "FIN_SENT" => peer'.una = peer'.snd
    <3> SUFFICES ASSUME sock.state = "SYN_SENT"
                 PROVE  /\ pc \in {"wait_established", "connect_failed"}
                        /\ peer'.st \in {"LISTEN", "SYN_RCVD", "FIN_SENT"}
                        /\ peer'.st = "SYN_RCVD" => sock.ack_num = 0
                        /\ peer'.st = "FIN_SENT" => peer'.una = peer'.snd
      OBVIOUS
    <3>1. ~done.conn /\ peer'.st = p.st
      BY <1>9, <1>10 DEF TcpInv, SockLife
    <3>2. CASE peer.st = "SYN_RCVD"
      <4>1. sock.ack_num = 0 /\ ~(p.una > 0)
        BY <1>4, <1>7, <3>2 DEF Opening
      <4> QED BY <1>8, <3>1, <3>2, <4>1 DEF Opening
    <3>3. CASE peer.st = "FIN_SENT"
      <4>1. peer.una = peer.snd /\ p.st = "FIN_SENT"
        BY <1>8, <3>3 DEF Opening
      <4>2. peer'.una = peer'.snd
        BY <1>3, <1>4, <1>6, <1>7, <4>1
      <4> QED BY <3>1, <4>1, <4>2 DEF Opening
    <3> QED BY <1>5, <3>2, <3>3 DEF Opening
  <2> QED BY <1>1, <2>1, <2>2, <2>3, <2>4 DEF Opening
<1>14. FinTaken' /\ Stream'
  BY <1>1, <1>3 DEF FinTaken, Stream
<1>15. Joined' => Joined
  BY <1>1, <1>8, <1>9 DEF Joined
<1>16. (Joined /\ seg \in Sent) =>
         /\ seg.seq = peer.rcv /\ peer.rcv < SeqTop
         /\ Numbered(up', port, Sent, peer.rcv + 1, SeqTop, {})
         /\ peer.st \notin {"CLOSE_WAIT", "LAST_ACK", "DONE"} /\ Counted(seg, p)
  <2> SUFFICES ASSUME Joined, seg \in Sent
               PROVE  /\ seg.seq = peer.rcv /\ peer.rcv < SeqTop
                      /\ Numbered(up', port, Sent, peer.rcv + 1, SeqTop, {})
                      /\ peer.st \notin {"CLOSE_WAIT", "LAST_ACK", "DONE"} /\ Counted(seg, p)
    OBVIOUS
  <2>1. /\ up \in Seq(Segs) /\ up # <<>> /\ up' = Tail(up) /\ seg = Head(up) /\ Mine(Head(up), port, Sent)
    BY <1>1, Plain DEF PeerGets, Mine
  <2>2. Numbered(up, port, Sent, peer.rcv, SeqTop, {})
    BY DEF UpFlow
  <2>3. /\ seg.seq = peer.rcv /\ peer.rcv < SeqTop
        /\ Numbered(up', port, Sent, peer.rcv + 1, SeqTop, {})
    BY <1>4, <2>1, <2>2, NumberedHead
  <2>4. peer.st \notin {"CLOSE_WAIT", "LAST_ACK", "DONE"}
    BY <1>4, <2>3 DEF UpFlow
  <2>5. p.st \notin {"LISTEN", "DONE"}
    BY <1>5, <1>8, <2>4
  <2> QED BY <1>3, <2>3, <2>4, <2>5 DEF NotCounted
<1>17. UpFlow'
  <2>1. Joined' => Numbered(up', port, Sent, peer'.rcv, SeqTop, {})
    <3> SUFFICES ASSUME Joined PROVE Numbered(up', port, Sent, peer'.rcv, SeqTop, {})
      BY <1>15
    <3>1. CASE seg \in Sent
      BY <1>3, <1>16, <3>1 DEF Counted
    <3>2. CASE seg \notin Sent
      <4>1. /\ up \in Seq(Segs) /\ up # <<>> /\ up' = Tail(up) /\ ~Mine(Head(up), port, Sent)
        BY <3>2, Plain DEF PeerGets, Mine
      <4>2. peer'.rcv = peer.rcv
        BY <1>3, <3>2 DEF Counted, NotCounted
      <4> QED BY <4>1, <4>2, NumberedSkip DEF UpFlow
    <3> QED BY <3>1, <3>2
  <2>2. peer'.st \in {"CLOSE_WAIT", "LAST_ACK", "DONE"} => peer'.rcv = SeqTop
    <3> SUFFICES ASSUME peer'.st \in {"CLOSE_WAIT", "LAST_ACK", "DONE"} PROVE peer'.rcv = SeqTop
      OBVIOUS
    <3>1. CASE Counted(seg, p) /\ seg.flags = "FIN|ACK"
      <4>1. Joined /\ seg \in Sent
        BY <1>10, <3>1 DEF Joined, Counted
      <4>2. seg.seq + 1 = SeqTop
        BY <1>2, <3>1 DEF UpFlow
      <4> QED BY <1>3, <3>1, <4>2 DEF Counted
    <3>2. CASE ~(Counted(seg, p) /\ seg.flags = "FIN|ACK")
      <4>1. peer'.st = p.st
        BY <1>3, <3>2 DEF Counted, NotCounted
      <4>2. peer.st \in {"CLOSE_WAIT", "LAST_ACK", "DONE"}
        BY <1>8, <4>1
      <4>3. done.conn /\ Joined
        BY <4>2 DEF TcpInv, PeerLife, SockLife, Joined
      <4>4. seg \notin Sent
        BY <1>16, <4>2, <4>3
      <4>5. peer'.rcv = peer.rcv
        BY <1>3, <4>4 DEF Counted, NotCounted
      <4> QED BY <4>2, <4>5 DEF UpFlow
    <3> QED BY <3>1, <3>2
  <2>3. \A s \in Of(up', port) : s.flags = "FIN|ACK" => s.seq + 1 = SeqTop
    BY <1>2 DEF UpFlow
  <2> QED BY <1>1, <1>2, <2>1, <2>2, <2>3 DEF UpFlow
<1> QED BY <1>1, <1>11, <1>12, <1>13, <1>14, <1>17

LEMMA PeerRecvFlow ==
    ASSUME FlowInv, TcpInv, PeerRecv
    PROVE  FlowInv'
<1> DEFINE seg == Head(up)
<1>1. PeerGets(seg)
  BY DEF PeerRecv, PeerGets
<1>2. \/ PeerSyn(seg) \/ PeerTakes(seg)
      \/ /\ seg.port # port \/ (seg.flags = "SYN" /\ peer.st # "LISTEN")
         /\ UNCHANGED <<peer, down>>
  BY DEF PeerRecv
<1> QED BY <1>1, <1>2, PeerSynFlow, PeerTakesFlow, PeerIgnoresFlow

-----------------------------------------------------------------------------
(* The theorems.                                                           *)

LEMMA FlowStep ==
    ASSUME Late = FALSE, MaxLost = 0
    PROVE  TcpInv /\ FlowInv /\ [Next]_vars => FlowInv'
<1> SUFFICES ASSUME TcpInv, FlowInv, [Next]_vars PROVE FlowInv'
  OBVIOUS
<1>1. CASE \/ SendCheck \/ RecvCheck \/ RecvAbort \/ Close \/ CloseWaitDone \/ CloseTimeout
           \/ CloseNull
  BY <1>1, IdleFlows
<1>2. CASE ArpReply \/ UNCHANGED vars
  BY <1>2, ArpFlow
<1>3. CASE Recv
  BY <1>3, RecvFlow
<1>4. CASE CloseTail
  BY <1>4, CloseTailFlow
<1>5. CASE ConnectFail \/ TimeWaitOver
  BY <1>5, ClosedFlow
<1>6. CASE ConnectDone
  BY <1>6, ConnectDoneFlow
<1>7. CASE ConnectTimeout
  BY <1>7, ConnectTimeoutFlow
<1>8. CASE SendCount
  BY <1>8, SendCountFlow
<1>9. CASE Socket
  BY <1>9, SocketFlow
<1>10. CASE Send
  BY <1>10, SendDataFlow
<1>11. CASE SendFin
  BY <1>11, SendFinFlow
<1>12. CASE Connect
  BY <1>12, ConnectFlow
<1>13. CASE Deliver
  BY <1>13, DeliverFlow
<1>14. CASE PeerRecv
  BY <1>14, PeerRecvFlow
<1>15. CASE PeerData
  BY <1>15, PeerDataFlow
<1>16. CASE PeerFin
  BY <1>16, PeerFinFlow
<1>17. CASE PeerRetransmit
  BY <1>17, PeerRetransmitFlow
<1>18. CASE Lose
  <2>1. used.lost \in Nat
    BY DEF TcpInv, TcpTypes, Counters
  <2> QED BY <1>18, <2>1 DEF Lose
<1> QED BY <1>1, <1>2, <1>3, <1>4, <1>5, <1>6, <1>7, <1>8, <1>9, <1>10, <1>11, <1>12, <1>13, <1>14,
           <1>15, <1>16, <1>17, <1>18
        DEF Next, InCall, Calls

\* On a link that loses nothing, with waits that outlast the exchange, no
\* segment makes tcp_layer_deliver() stop the machine: a SYN finds the socket in
\* SYN_SENT, and a FIN by itself in a state that expects one.
THEOREM TcpNoBug ==
    ASSUME Late = FALSE, MaxLost = 0
    PROVE  Spec => []NoBug
<1>1. FlowInv => NoBug
  BY DEF FlowInv, NoBug
<1> QED BY <1>1, TcpInit, TcpStep, FlowInit, FlowStep, PTL DEF Spec

\* Under the same conditions recv() returns the peer's data from its beginning,
\* each unit once and in order, although tcp_layer_deliver() looks at no
\* sequence number.
THEOREM TcpStream ==
    ASSUME Late = FALSE, MaxLost = 0
    PROVE  Spec => []StreamInOrder
<1>1. TcpInv /\ FlowInv => StreamInOrder
  <2> SUFFICES ASSUME TcpInv, FlowInv, sock.live
               PROVE  LET stream == got \o sock.rx_qu IN \A i \in 1 .. Len(stream) : stream[i] = i
    BY DEF StreamInOrder
  <2> DEFINE q == sock.rx_qu
             stream == got \o q
  <2>1. got \in Seq(Nat) /\ q \in Seq(Nat)
    BY Plain
  <2>2. /\ \A i \in 1 .. Len(got) : got[i] = i
        /\ \A i \in 1 .. Len(q) : q[i] = Len(got) + i
    BY DEF FlowInv, Stream
  <2> HIDE DEF q
  <2>3. /\ Len(stream) = Len(got) + Len(q)
        /\ \A i \in 1 .. Len(got) + Len(q) : stream[i] = IF i <= Len(got) THEN got[i] ELSE q[i - Len(got)]
    BY <2>1, ConcatProperties
  <2>4. Len(got) \in Nat /\ Len(q) \in Nat
    BY <2>1
  <2> SUFFICES ASSUME NEW i \in 1 .. Len(stream) PROVE stream[i] = i
    BY DEF q
  <2> HIDE DEF stream
  <2>5. i \in 1 .. Len(got) + Len(q)
    BY <2>3
  <2>6. CASE i <= Len(got)
    <3>1. i \in 1 .. Len(got)
      BY <2>4, <2>5, <2>6
    <3> QED BY <2>2, <2>3, <2>5, <2>6, <3>1
  <2>7. CASE ~(i <= Len(got))
    <3>1. i - Len(got) \in 1 .. Len(q) /\ Len(got) + (i - Len(got)) = i
      BY <2>4, <2>5, <2>7
    <3>2. stream[i] = q[i - Len(got)]
      BY <2>3, <2>5, <2>7
    <3> QED BY <2>2, <3>1, <3>2
  <2> QED BY <2>6, <2>7
<1> QED BY <1>1, TcpInit, TcpStep, FlowInit, FlowStep, PTL DEF Spec

\* Under the same conditions, whenever nothing is under way the socket's next
\* number is the one the peer waits for, and the socket has acknowledged all of
\* the peer's.
THEOREM TcpNumbers ==
    ASSUME Late = FALSE, MaxLost = 0
    PROVE  Spec => []NumbersAgree
<1>1. TcpInv /\ FlowInv => NumbersAgree
  <2> SUFFICES ASSUME TcpInv, FlowInv, open, done.conn, Quiet, pc # "sent"
               PROVE  sock.seq_num = peer.rcv /\ sock.ack_num = peer.snd
    BY DEF NumbersAgree
  <2>1. /\ sock.seq_num \in Nat /\ sock.ack_num \in Nat /\ peer.rcv \in Nat /\ peer.snd \in Nat
        /\ peer.una \in Nat
    BY Plain
  <2>2. up = <<>> /\ peer.una = peer.snd
    BY DEF Quiet
  <2>3. sock.ack_num = peer.snd
    BY <2>1, <2>2 DEF FlowInv, UpAcks, TcpInv, PeerLife
  <2>4. Numbered(up, port, Sent, peer.rcv, sock.seq_num, {})
    BY DEF FlowInv, UpFlow, Joined, SeqTop
  <2>5. peer.rcv <= sock.seq_num /\ \A n \in peer.rcv .. sock.seq_num - 1 : FALSE
    BY <2>2, <2>4 DEF Numbered
  <2>6. sock.seq_num = peer.rcv
    <3>1. peer.rcv < sock.seq_num => peer.rcv \in peer.rcv .. sock.seq_num - 1
      BY <2>1
    <3> QED BY <2>1, <2>5, <3>1
  <2> QED BY <2>3, <2>6
<1> QED BY <1>1, TcpInit, TcpStep, FlowInit, FlowStep, PTL DEF Spec
=============================================================================
