------------------------------ MODULE TcpSocket ------------------------------
(***************************************************************************)
(* The life of a stream socket: socket(), connect(), send(), recv() and    *)
(* sk_close() of lib/net/socket.c on the main line, tcp_layer_deliver() of *)
(* driver/net/core/net.c where a segment arrives, and a peer at the other  *)
(* end of a FIFO link.                                                     *)
(*                                                                         *)
(* With CONFIG_IRQ_SUPPORT a segment is delivered by the interrupt handler *)
(* between any two steps of the main line that are not under lock_irq_psr; *)
(* without it, only where the main line calls ndev_poll().  A call of the  *)
(* main line is therefore cut into steps where it unlocks, waits, or reads *)
(* sock->state again.                                                      *)
(*                                                                         *)
(* The first segment, the SYN, needs the peer's hardware address.          *)
(* connect() sends it under lock_irq_psr: with interrupts the ARP reply    *)
(* cannot arrive while gethostaddr() waits for it, and the SYN is not      *)
(* sent, although connect() carries on as if it were.                      *)
(***************************************************************************)
EXTENDS Integers, Sequences, SequencesExt

CONSTANTS
    Builds,        \* the values of CONFIG_IRQ_SUPPORT that are looked at
    Late,          \* TRUE: the 10 s waits may end while an answer is under way
    MaxPorts,      \* bound: sockets opened, each with a port of its own
    MaxConnects,   \* bound: connect() calls
    MaxSends,      \* bound: send() calls
    MaxPeerData,   \* bound: data segments of the peer
    MaxLost        \* bound: segments the link loses

ASSUME ConstantsAssumption ==
    /\ Builds \in (SUBSET BOOLEAN) \ {{}} /\ Late \in BOOLEAN
    /\ MaxPorts \in Nat /\ MaxConnects \in Nat /\ MaxSends \in Nat
    /\ MaxPeerData \in Nat /\ MaxLost \in Nat

VARIABLES
    irq,        \* CONFIG_IRQ_SUPPORT, which the build fixes
    pc,         \* where the main line is
    open,       \* g_sock_fds[fd] # NULL
    sock,       \* struct socket; .live is FALSE once free() has been called on it
    port,       \* port_alloc()'s counter, from PORT_MIN
    fault,      \* "none"; "BUG" after BUG(); "freed" after a use of a freed socket
    up, down,   \* segments under way to the peer, and from it
    arp,        \* the peer's address in g_host_list: "unknown", "asked", "known"
    peer,       \* the peer's end of the connection with the current port
    used,       \* how much of the bounds is used up
    got,        \* history: what recv() has returned on the current socket
    done        \* history: [conn, fin] connect() returned 0, FIN was sent

vars == <<irq, pc, open, sock, port, fault, up, down, arp, peer, used, got, done>>

TcpStates == {"CLOSED", "LISTEN", "SYN_SENT", "SYN_RCVD", "ESTABLISHED",
              "CLOSE_WAIT", "FIN_WAIT1", "CLOSING", "LAST_ACK", "FIN_WAIT2", "TIME_WAIT"}

FinFlags == {"FIN", "FIN|ACK", "FIN|PSH|ACK"}

\* The places where the main line is inside a loop that calls ndev_poll().
Polling == {"wait_established", "wait_closed", "wait_time_wait", "time_wait", "recv"}

\* Where an interrupt, or ndev_poll(), can take what has arrived.
CanReceive == irq \/ pc \in Polling

Segment(flags, seq, ack, len) ==
    [port |-> port, flags |-> flags, seq |-> seq, ack |-> ack, len |-> len]

-----------------------------------------------------------------------------
(* tcp_send_packet(): the segment carries the socket's numbers, which move *)
(* on by one for a SYN or a FIN and by the size for data.                  *)

\* Mutant: a FIN is not counted.
MutantFinNotCounted(flags, size) ==
    sock.seq_num + (IF flags = "SYN" THEN 1 ELSE 0)
                 + (IF flags = "PSH|ACK" THEN size ELSE 0)

seq_after(flags, size) ==
    sock.seq_num + (IF flags \in {"SYN", "FIN|ACK"} THEN 1 ELSE 0)
                 + (IF flags = "PSH|ACK" THEN size ELSE 0)

tcp_send_packet(flags, size) ==
    up' = Append(up, Segment(flags, sock.seq_num, sock.ack_num, size))

Init ==
    /\ irq \in Builds
    /\ pc = "user" /\ open = FALSE /\ port = 0
    /\ sock = [live |-> FALSE, state |-> "CLOSED", seq_num |-> 1, ack_num |-> 0,
               rx_qu |-> <<>>]
    /\ fault = "none"
    /\ up = <<>> /\ down = <<>> /\ arp = "unknown"
    /\ peer = [st |-> "LISTEN", snd |-> 0, una |-> 0, rcv |-> 0, fin |-> 0]
    /\ used = [connects |-> 0, sends |-> 0, data |-> 0, lost |-> 0]
    /\ got = <<>>
    /\ done = [conn |-> FALSE, fin |-> FALSE]

\* Some part of the network and of the peer still has something to do.
Quiet ==
    /\ up = <<>> /\ down = <<>> /\ arp # "asked"
    /\ peer.una = peer.snd
    /\ peer.st # "CLOSE_WAIT"

TimedOut == Late \/ Quiet

-----------------------------------------------------------------------------
(* The main line.                                                          *)

\* socket() and the bind() to a port of its own.
Socket ==
    /\ pc = "user" /\ fault = "none" /\ ~open /\ port < MaxPorts
    /\ open' = TRUE
    /\ port' = port + 1
    /\ sock' = [live |-> TRUE, state |-> "CLOSED", seq_num |-> 1, ack_num |-> 0,
                rx_qu |-> <<>>]
    /\ peer' = [st |-> "LISTEN", snd |-> 0, una |-> 0, rcv |-> 0, fin |-> 0]
    /\ got' = <<>>
    /\ done' = [conn |-> FALSE, fin |-> FALSE]
    /\ UNCHANGED <<irq, pc, fault, up, down, arp, used>>

\* ip_send_packet() for the SYN.  A reply to the ARP request is awaited in
\* gethostaddr(), where only ndev_poll() can take it, until a timeout or Ctrl-C.
ip_send_syn ==
    \/ /\ arp = "known" \/ ~irq
       /\ tcp_send_packet("SYN", 0)
       /\ arp' = "known"
    \/ /\ arp # "known"
       /\ arp' = "asked"
       /\ UNCHANGED up

\* arp_recv_packet() of a reply that comes later.
ArpReply ==
    /\ fault = "none" /\ arp = "asked" /\ CanReceive
    /\ arp' = "known"
    /\ UNCHANGED <<irq, pc, open, sock, port, fault, up, down, peer, used, got, done>>

\* connect(), up to the wait: a caller connects a new socket, or one whose
\* connect() has failed.
Connect ==
    /\ pc = "user" /\ fault = "none" /\ open /\ used.connects < MaxConnects
    /\ sock.state = "CLOSED" /\ ~done.conn
    /\ ip_send_syn
    /\ sock' = [sock EXCEPT !.state = "SYN_SENT", !.seq_num = seq_after("SYN", 0)]
    /\ used' = [used EXCEPT !.connects = @ + 1]
    /\ pc' = "wait_established"
    /\ UNCHANGED <<irq, open, port, fault, down, peer, got, done>>

\* tcp_wait_for_state() sees the state and connect() returns 0.
ConnectDone ==
    /\ pc = "wait_established" /\ fault = "none"
    /\ sock.state = "ESTABLISHED"
    /\ pc' = "user"
    /\ done' = [done EXCEPT !.conn = TRUE]
    /\ UNCHANGED <<irq, open, sock, port, fault, up, down, arp, peer, used, got>>

\* tcp_wait_for_state() gives up: the state was another one each time it looked.
ConnectTimeout ==
    /\ pc = "wait_established" /\ fault = "none"
    /\ sock.state # "ESTABLISHED" /\ TimedOut
    /\ pc' = "connect_failed"
    /\ UNCHANGED <<irq, open, sock, port, fault, up, down, arp, peer, used, got, done>>

\* Mutant: the error code is stored where the state belongs.
MutantStoreError ==
    /\ pc = "connect_failed" /\ fault = "none"
    /\ sock' = [sock EXCEPT !.state = "-ETIMEDOUT"]
    /\ pc' = "user"
    /\ UNCHANGED <<irq, open, port, fault, up, down, arp, peer, used, got, done>>

\* connect() marks the socket closed, whatever has arrived since the last look.
ConnectFail ==
    /\ pc = "connect_failed" /\ fault = "none"
    /\ sock' = [sock EXCEPT !.state = "CLOSED"]
    /\ pc' = "user"
    /\ UNCHANGED <<irq, open, port, fault, up, down, arp, peer, used, got, done>>

\* send(): the state is looked at, then the segment goes out without a lock.
SendCheck ==
    /\ pc = "user" /\ fault = "none" /\ open /\ used.sends < MaxSends
    /\ sock.state = "ESTABLISHED"
    /\ pc' = "send"
    /\ UNCHANGED <<irq, open, sock, port, fault, up, down, arp, peer, used, got, done>>

Send ==
    /\ pc = "send" /\ fault = "none"
    /\ tcp_send_packet("PSH|ACK", 1)
    /\ used' = [used EXCEPT !.sends = @ + 1]
    /\ pc' = "sent"
    /\ UNCHANGED <<irq, open, sock, port, fault, down, arp, peer, got, done>>

\* The last line of tcp_send_packet(), after the segment has gone out.
SendCount ==
    /\ pc = "sent" /\ fault = "none"
    /\ sock' = [sock EXCEPT !.seq_num = seq_after("PSH|ACK", 1)]
    /\ pc' = "user"
    /\ UNCHANGED <<irq, open, port, fault, up, down, arp, peer, used, got, done>>

\* recv(): -EIO unless established, else sock_recv_packet().
RecvCheck ==
    /\ pc = "user" /\ fault = "none" /\ open
    /\ sock.state = "ESTABLISHED"
    /\ pc' = "recv"
    /\ UNCHANGED <<irq, open, sock, port, fault, up, down, arp, peer, used, got, done>>

\* Mutant: the last packet is taken, rx_qu.prev for rx_qu.next.
MutantTakeLast ==
    /\ pc = "recv" /\ fault = "none"
    /\ sock.rx_qu # <<>>
    /\ got' = Append(got, Last(sock.rx_qu))
    /\ sock' = [sock EXCEPT !.rx_qu = Front(@)]
    /\ pc' = "user"
    /\ UNCHANGED <<irq, open, port, fault, up, down, arp, peer, used, done>>

\* sock_recv_packet() finds the queue not empty and takes its first packet.
Recv ==
    /\ pc = "recv" /\ fault = "none"
    /\ sock.rx_qu # <<>>
    /\ got' = Append(got, Head(sock.rx_qu))
    /\ sock' = [sock EXCEPT !.rx_qu = Tail(@)]
    /\ pc' = "user"
    /\ UNCHANGED <<irq, open, port, fault, up, down, arp, peer, used, done>>

\* sock_recv_packet() returns NULL: Ctrl-C, which is looked at before the queue,
\* or a timeout if obstruct_flags, which socket() leaves uninitialised, is 1.
RecvAbort ==
    /\ pc = "recv" /\ fault = "none"
    /\ pc' = "user"
    /\ UNCHANGED <<irq, open, sock, port, fault, up, down, arp, peer, used, got, done>>

\* sk_close(): does a FIN have to be sent?
Close ==
    /\ pc = "user" /\ fault = "none" /\ open
    /\ pc' = IF sock.state \in {"ESTABLISHED", "SYN_RCVD", "CLOSE_WAIT"}
             THEN "send_fin" ELSE "close_tail"
    /\ UNCHANGED <<irq, open, sock, port, fault, up, down, arp, peer, used, got, done>>

\* The part of sk_close() under lock_irq_psr, which reads the state again.
SendFin ==
    /\ pc = "send_fin" /\ fault = "none"
    /\ tcp_send_packet("FIN|ACK", 0)
    /\ LET last_state == IF sock.state = "CLOSE_WAIT" THEN "LAST_ACK" ELSE "FIN_WAIT1" IN
       /\ sock' = [sock EXCEPT !.state = last_state, !.seq_num = seq_after("FIN|ACK", 0)]
       /\ pc' = IF last_state = "LAST_ACK" THEN "wait_closed" ELSE "wait_time_wait"
    /\ done' = [done EXCEPT !.fin = TRUE]
    /\ UNCHANGED <<irq, open, port, fault, down, arp, peer, used, got>>

\* tcp_wait_for_state() succeeds.
CloseWaitDone ==
    /\ fault = "none"
    /\ \/ pc = "wait_closed" /\ sock.state = "CLOSED"
       \/ pc = "wait_time_wait" /\ sock.state = "TIME_WAIT"
    /\ pc' = "close_tail"
    /\ UNCHANGED <<irq, open, sock, port, fault, up, down, arp, peer, used, got, done>>

\* sk_close() returns -ETIMEDOUT: the descriptor stays taken.
CloseTimeout ==
    /\ fault = "none" /\ TimedOut
    /\ \/ pc = "wait_closed" /\ sock.state # "CLOSED"
       \/ pc = "wait_time_wait" /\ sock.state # "TIME_WAIT"
    /\ pc' = "user"
    /\ UNCHANGED <<irq, open, sock, port, fault, up, down, arp, peer, used, got, done>>

\* The end of sk_close().
CloseTail ==
    /\ pc = "close_tail" /\ fault = "none"
    /\ \/ /\ sock.state = "TIME_WAIT"
          /\ pc' = "time_wait"
          /\ UNCHANGED sock
       \/ /\ sock.state = "CLOSED"
          /\ sock' = [sock EXCEPT !.live = FALSE, !.rx_qu = <<>>]
          /\ pc' = "close_null"
       \/ /\ sock.state \notin {"TIME_WAIT", "CLOSED"}
          /\ pc' = "user"
          /\ UNCHANGED sock
    /\ UNCHANGED <<irq, open, port, fault, up, down, arp, peer, used, got, done>>

\* TIME_WAIT ends by the clock alone.
TimeWaitOver ==
    /\ pc = "time_wait" /\ fault = "none" /\ TimedOut
    /\ sock' = [sock EXCEPT !.state = "CLOSED"]
    /\ pc' = "close_tail"
    /\ UNCHANGED <<irq, open, port, fault, up, down, arp, peer, used, got, done>>

\* g_sock_fds[fd] = NULL, after the lock is released.
CloseNull ==
    /\ pc = "close_null" /\ fault = "none"
    /\ open' = FALSE
    /\ pc' = "user"
    /\ UNCHANGED <<irq, sock, port, fault, up, down, arp, peer, used, got, done>>

-----------------------------------------------------------------------------
(* tcp_layer_deliver(), for the segment that has just arrived.  None of    *)
(* its cases looks at the sequence number or at what is acknowledged.      *)

tcp_send_ack(ack_num) == up' = Append(up, Segment("ACK", sock.seq_num, ack_num, 0))

\* SYN, SYN|ACK: the acknowledgement is sent before the state is looked at.
DeliverSyn(seg) ==
    /\ seg.flags \in {"SYN", "SYN|ACK"}
    /\ tcp_send_ack(seg.seq + 1)
    /\ sock' = [sock EXCEPT !.ack_num = seg.seq + 1,
                            !.state = IF @ = "SYN_SENT" THEN "ESTABLISHED" ELSE @]
    /\ fault' = IF sock.state = "SYN_SENT" THEN "none" ELSE "BUG"

\* Mutant: a FIN with data closes the peer's side, although it is not acknowledged.
MutantFinDataCloses(seg) ==
    /\ seg.flags \in FinFlags /\ seg.len > 0
    /\ tcp_send_ack(seg.seq + seg.len)
    /\ sock' = [sock EXCEPT !.ack_num = seg.seq + seg.len, !.rx_qu = Append(@, seg.seq),
                            !.state = IF @ = "ESTABLISHED" THEN "CLOSE_WAIT" ELSE @]
    /\ UNCHANGED fault

\* Mutant: a FIN with data is acknowledged with the data, and forgotten.
MutantFinDataAcked(seg) ==
    /\ seg.flags \in FinFlags /\ seg.len > 0
    /\ tcp_send_ack(seg.seq + seg.len + 1)
    /\ sock' = [sock EXCEPT !.ack_num = seg.seq + seg.len + 1, !.rx_qu = Append(@, seg.seq)]
    /\ UNCHANGED fault

\* A FIN with data: the data is queued and acknowledged, the FIN is not.
DeliverFinData(seg) ==
    /\ seg.flags \in FinFlags /\ seg.len > 0
    /\ tcp_send_ack(seg.seq + seg.len)
    /\ sock' = [sock EXCEPT !.ack_num = seg.seq + seg.len, !.rx_qu = Append(@, seg.seq)]
    /\ UNCHANGED fault

StateAfterFin(flags) ==
    CASE sock.state = "FIN_WAIT1"   -> IF flags = "FIN" THEN "CLOSING" ELSE "TIME_WAIT"
      [] sock.state = "FIN_WAIT2"   -> "TIME_WAIT"
      [] sock.state = "ESTABLISHED" -> "CLOSE_WAIT"
      [] OTHER                      -> "BUG"

\* A FIN by itself; BUG() comes before the acknowledgement.
DeliverFin(seg) ==
    /\ seg.flags \in FinFlags /\ seg.len = 0
    /\ IF StateAfterFin(seg.flags) = "BUG"
       THEN /\ fault' = "BUG"
            /\ sock' = [sock EXCEPT !.ack_num = seg.seq + 1]
            /\ UNCHANGED up
       ELSE /\ sock' = [sock EXCEPT !.ack_num = seg.seq + 1,
                                    !.state = StateAfterFin(seg.flags)]
            /\ tcp_send_ack(seg.seq + 1)
            /\ UNCHANGED fault

\* Mutant: the case of TCPS_CLOSING is missing.
MutantNoClosing(seg) ==
    /\ seg.flags = "ACK" /\ seg.len = 0
    /\ sock' = [sock EXCEPT !.state = CASE @ = "FIN_WAIT1" -> "FIN_WAIT2"
                                        [] @ = "LAST_ACK"  -> "CLOSED"
                                        [] OTHER           -> @]
    /\ UNCHANGED <<fault, up>>

\* Mutant: the peer's FIN is not waited for.
MutantSkipFinWait2(seg) ==
    /\ seg.flags = "ACK" /\ seg.len = 0
    /\ sock' = [sock EXCEPT !.state = CASE @ \in {"FIN_WAIT1", "CLOSING"} -> "TIME_WAIT"
                                        [] @ = "LAST_ACK"                 -> "CLOSED"
                                        [] OTHER                          -> @]
    /\ UNCHANGED <<fault, up>>

\* An acknowledgement without data, of whatever was sent.
DeliverAck(seg) ==
    /\ seg.flags = "ACK" /\ seg.len = 0
    /\ sock' = [sock EXCEPT !.state = CASE @ = "FIN_WAIT1" -> "FIN_WAIT2"
                                        [] @ = "CLOSING"   -> "TIME_WAIT"
                                        [] @ = "LAST_ACK"  -> "CLOSED"
                                        [] OTHER           -> @]
    /\ UNCHANGED <<fault, up>>

\* Data, in any state.
DeliverData(seg) ==
    /\ seg.flags = "PSH|ACK" \/ (seg.flags = "ACK" /\ seg.len > 0)
    /\ tcp_send_ack(seg.seq + seg.len)
    /\ sock' = [sock EXCEPT !.ack_num = seg.seq + seg.len, !.rx_qu = Append(@, seg.seq)]
    /\ UNCHANGED fault

\* Any other combination of flags, RST among them, is ignored.
DeliverOther(seg) ==
    /\ seg.flags = "RST|ACK"
    /\ UNCHANGED <<sock, fault, up>>

\* tcp_search_socket() looks for the port in g_sock_fds[], where a socket that
\* sk_close() has freed still is for a moment.
Deliver ==
    /\ fault = "none" /\ down # <<>>
    /\ CanReceive
    /\ down' = Tail(down)
    /\ LET seg == Head(down) IN
       \/ /\ ~(open /\ seg.port = port)
          /\ UNCHANGED <<sock, fault, up>>
       \/ /\ open /\ seg.port = port /\ ~sock.live
          /\ fault' = "freed"
          /\ UNCHANGED <<sock, up>>
       \/ /\ open /\ seg.port = port /\ sock.live
          /\ \/ DeliverSyn(seg) \/ DeliverFinData(seg) \/ DeliverFin(seg)
             \/ DeliverAck(seg) \/ DeliverData(seg) \/ DeliverOther(seg)
    /\ UNCHANGED <<irq, pc, open, port, arp, peer, used, got, done>>

-----------------------------------------------------------------------------
(* The peer, a TCP that follows the rules: it counts what it sends from 0, *)
(* takes a segment only in sequence, and sends again what is not           *)
(* acknowledged.  A data segment of the peer carries one unit of data.     *)

peerSend(flags, len) == down' = Append(down, Segment(flags, peer.snd, peer.rcv, len))

\* The acknowledgement that every segment after the SYN carries.
PeerAcked(p, ack) ==
    LET una == IF ack > p.una /\ ack <= p.snd THEN ack ELSE p.una IN
    [p EXCEPT !.una = una,
              !.st = CASE @ = "SYN_RCVD" /\ una > 0                 -> "ESTABLISHED"
                       [] @ = "LAST_ACK" /\ una > p.fin             -> "DONE"
                       [] OTHER                                     -> @]

PeerSyn(seg) ==
    /\ seg.flags = "SYN" /\ seg.port = port /\ peer.st = "LISTEN"
    /\ \/ /\ peer' = [peer EXCEPT !.st = "SYN_RCVD", !.snd = 1, !.rcv = seg.seq + 1]
          /\ down' = Append(down, Segment("SYN|ACK", 0, seg.seq + 1, 0))
       \/ /\ down' = Append(down, Segment("RST|ACK", 0, seg.seq + 1, 0))
          /\ UNCHANGED peer

PeerTakes(seg) ==
    LET p == PeerAcked(peer, seg.ack)
        inSequence == seg.seq = p.rcv /\ p.st \notin {"LISTEN", "DONE"}
    IN
    /\ seg.flags # "SYN" /\ seg.port = port
    /\ \/ /\ seg.flags = "ACK"
          /\ peer' = p
          /\ UNCHANGED down
       \/ /\ seg.flags = "PSH|ACK" /\ inSequence
          /\ peer' = [p EXCEPT !.rcv = @ + 1]
          /\ down' = Append(down, Segment("ACK", p.snd, p.rcv + 1, 0))
       \/ /\ seg.flags = "FIN|ACK" /\ inSequence
          /\ peer' = [p EXCEPT !.rcv = @ + 1,
                               !.st = IF @ = "FIN_SENT" THEN "LAST_ACK" ELSE "CLOSE_WAIT"]
          /\ down' = Append(down, Segment("ACK", p.snd, p.rcv + 1, 0))
       \/ /\ seg.flags # "ACK" /\ ~inSequence
          /\ peer' = p
          /\ UNCHANGED down

PeerRecv ==
    /\ fault = "none" /\ up # <<>>
    /\ up' = Tail(up)
    /\ LET seg == Head(up) IN
       \/ PeerSyn(seg)
       \/ PeerTakes(seg)
       \/ /\ seg.port # port \/ (seg.flags = "SYN" /\ peer.st # "LISTEN")
          /\ UNCHANGED <<peer, down>>
    /\ UNCHANGED <<irq, pc, open, sock, port, fault, arp, used, got, done>>

PeerData ==
    /\ fault = "none" /\ used.data < MaxPeerData
    /\ peer.st \in {"ESTABLISHED", "CLOSE_WAIT"}
    /\ \E flags \in {"ACK", "PSH|ACK"} : peerSend(flags, 1)
    /\ peer' = [peer EXCEPT !.snd = @ + 1]
    /\ used' = [used EXCEPT !.data = @ + 1]
    /\ UNCHANGED <<irq, pc, open, sock, port, fault, up, arp, got, done>>

\* The peer closes its side, by a FIN alone or by one on its last data.
PeerFin ==
    /\ fault = "none"
    /\ peer.st \in {"ESTABLISHED", "CLOSE_WAIT"}
    /\ \E flags \in FinFlags, len \in {0, 1} :
         /\ used.data + len <= MaxPeerData
         /\ peerSend(flags, len)
         /\ peer' = [peer EXCEPT !.fin = peer.snd + len, !.snd = @ + len + 1,
                                 !.st = IF @ = "CLOSE_WAIT" THEN "LAST_ACK" ELSE "FIN_SENT"]
         /\ used' = [used EXCEPT !.data = @ + len]
    /\ UNCHANGED <<irq, pc, open, sock, port, fault, up, arp, got, done>>

\* The peer's timer: the oldest segment not acknowledged goes out again.
PeerRetransmit ==
    /\ fault = "none" /\ up = <<>> /\ down = <<>>
    /\ peer.una < peer.snd
    /\ down' = <<Segment(CASE peer.una = 0                       -> "SYN|ACK"
                           [] peer.una > 0 /\ peer.una = peer.fin -> "FIN|ACK"
                           [] OTHER                              -> "PSH|ACK",
                         peer.una, peer.rcv,
                         IF peer.una \in {0, peer.fin} THEN 0 ELSE 1)>>
    /\ UNCHANGED <<irq, pc, open, sock, port, fault, up, arp, peer, used, got, done>>

\* The link loses a segment.
Lose ==
    /\ fault = "none" /\ used.lost < MaxLost
    /\ \/ up # <<>> /\ up' = Tail(up) /\ UNCHANGED down
       \/ down # <<>> /\ down' = Tail(down) /\ UNCHANGED up
    /\ used' = [used EXCEPT !.lost = @ + 1]
    /\ UNCHANGED <<irq, pc, open, sock, port, fault, arp, peer, got, done>>

-----------------------------------------------------------------------------
\* The steps inside a call: the processor takes them.
InCall ==
    \/ ConnectDone \/ ConnectTimeout \/ ConnectFail
    \/ Send \/ SendCount \/ Recv
    \/ SendFin \/ CloseWaitDone \/ CloseTimeout \/ CloseTail \/ TimeWaitOver \/ CloseNull

\* The calls a program makes when it likes, and the user's Ctrl-C.
Calls == Socket \/ Connect \/ SendCheck \/ RecvCheck \/ RecvAbort \/ Close

Next ==
    \/ InCall \/ Calls
    \/ Deliver \/ ArpReply
    \/ PeerRecv \/ PeerData \/ PeerFin \/ PeerRetransmit \/ Lose

Spec == Init /\ [][Next]_vars

\* A call runs on, the network device is served, and the peer answers, sends
\* again, and closes its side once ours is closed.
Fairness ==
    /\ WF_vars(InCall)
    /\ WF_vars(Deliver) /\ WF_vars(ArpReply)
    /\ WF_vars(PeerRecv)
    /\ WF_vars(PeerRetransmit)
    /\ WF_vars(peer.st = "CLOSE_WAIT" /\ PeerFin)

FairSpec == Spec /\ Fairness

-----------------------------------------------------------------------------
(* Correctness.                                                            *)

\* The variables have their types.
TypeOK ==
    /\ pc \in Polling \cup {"user", "connect_failed", "send", "sent", "send_fin",
                            "close_tail", "close_null"}
    /\ open \in BOOLEAN /\ port \in 0 .. MaxPorts
    /\ sock.state \in TcpStates /\ sock.live \in BOOLEAN
    /\ sock.seq_num \in Nat /\ sock.ack_num \in Nat /\ sock.rx_qu \in Seq(Nat)
    /\ fault \in {"none", "BUG", "freed"}
    /\ arp \in {"unknown", "asked", "known"}

\* No segment makes tcp_layer_deliver() stop the machine with BUG().
NoBug == fault # "BUG"

\* What recv() has returned, and then what is queued, is the peer's data from
\* its beginning: nothing is missing, doubled or out of order.
StreamInOrder ==
    sock.live => LET stream == got \o sock.rx_qu IN
                 \A i \in 1 .. Len(stream) : stream[i] = i

\* The peer's FIN is acknowledged only by a socket that has taken note of it.
FinAckedMeansSeen ==
    (done.conn /\ peer.fin > 0 /\ peer.una > peer.fin) =>
      sock.state \in {"CLOSE_WAIT", "LAST_ACK", "CLOSING", "TIME_WAIT", "CLOSED"}

\* When nothing is under way the two ends agree on both sequence numbers.
NumbersAgree ==
    (open /\ done.conn /\ Quiet /\ pc # "sent") =>
      sock.seq_num = peer.rcv /\ sock.ack_num = peer.snd

\* A connected socket is released only after both sides have sent a FIN.
ReleasedAfterBothFins ==
    (~open /\ done.conn) => done.fin /\ peer.fin > 0

\* sk_close() of a connected socket releases its descriptor in the end: neither
\* of its waits is for a state that the exchange with the peer passes by.  (A
\* segment that an interrupt delivers between free() and the clearing of
\* g_sock_fds[fd] touches the freed socket, and ends a behaviour.)
CloseReleases == (pc = "send_fin" /\ done.conn) ~> (~open \/ fault = "freed")
=============================================================================
