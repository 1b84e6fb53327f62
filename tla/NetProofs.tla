------------------------------ MODULE NetProofs ------------------------------
(***************************************************************************)
(* Proofs about Net: the address that dhclient sets is one the server has  *)
(* acknowledged to it, and no claim before the last look is missed, for    *)
(* every number of sockets, addresses, hosts, commands and lost packets.   *)
(***************************************************************************)
EXTENDS Net, TLAPS

Addrs == Ips \cup {NoIp}
Kinds == ToBoard \cup {"discover", "request", "decline", "whohas", "request_echo"}
Msgs == [kind : Kinds, ip : Addrs, run : Nat]
Socks == [type : {"none", "stream", "dgram", "eth", "icmp"}, port : {0, 68}, dst : Addrs,
          rx : Seq(Msgs), closes : BOOLEAN, timed : BOOLEAN]
Cmds == [pc : {"idle", "offer", "ack", "probe", "set", "host", "reply"}, fd : 0 .. NSocks,
         pfd : 0 .. NSocks, i : Nat, ip : Addrs,
         late : BOOLEAN, answered : BOOLEAN, blind : BOOLEAN]
Counters == [runs : Nat, lost : Nat, noise : Nat, nak : Nat]

LanTypes ==
    /\ socks \in [1 .. NSocks -> Socks]
    /\ wire \subseteq Msgs
    /\ cmd \in Cmds /\ (cmd.pc # "idle" => cmd.fd \in 1 .. NSocks)
    /\ cmd.pc \in {"probe", "set"} => cmd.pfd \in 1 .. NSocks
    /\ used \in Counters
    /\ myip \in Addrs /\ hosts \subseteq Hosts

\* An acknowledgement is one that the server has sent, an ARP reply one of a
\* host that uses the address.
Honest(m) ==
    /\ m.kind = "ack" => <<m.run, m.ip>> \in leased
    /\ m.kind = "arp" => m.ip \in Hosts

Messages ==
    /\ \A m \in wire : Honest(m)
    /\ \A f \in 1 .. NSocks : \A i \in 1 .. Len(socks[f].rx) : Honest(socks[f].rx[i])

\* The running command has its own socket, of the right type.
OwnSockets ==
    /\ cmd.pc \in {"offer", "ack", "probe", "set"} =>
         socks[cmd.fd].type = "dgram" /\ socks[cmd.fd].port = 68
    /\ cmd.pc \in {"probe", "set"} =>
         socks[cmd.pfd].type = "eth" /\ socks[cmd.pfd].dst = cmd.ip
    /\ cmd.pc \in {"host", "reply"} =>
         socks[cmd.fd].type = "icmp" /\ socks[cmd.fd].dst = cmd.ip

\* During a probe that can see an answer, an answer is in its socket.
Probing ==
    (cmd.pc = "probe" /\ ~cmd.blind) =>
      /\ \A f \in 1 .. cmd.pfd - 1 : ~(socks[f].type = "eth" /\ socks[f].dst = cmd.ip)
      /\ cmd.answered => socks[cmd.pfd].rx # <<>>
      /\ ~cmd.answered => cmd.ip \notin hosts

Looked == cmd.pc = "set" => (cmd.answered => cmd.blind)

NetInv == LanTypes /\ Messages /\ OwnSockets /\ Probing /\ Looked

-----------------------------------------------------------------------------
(* Messages and sockets.                                                   *)

\* Every message that waits in one of the sockets s is an honest one.
GoodRx(s) == \A f \in 1 .. NSocks : \A i \in 1 .. Len(s[f].rx) : Honest(s[f].rx[i])

LEMMA MsgFacts ==
    ASSUME LanTypes, NEW k \in Kinds \ {"ack", "arp"}, NEW ip \in Addrs
    PROVE  Msg(k, ip) \in Msgs /\ Honest(Msg(k, ip))
BY DEF LanTypes, Counters, Msg, Msgs, Honest

\* An honest message stays one: the server takes back no lease.
LEMMA HonestGrows ==
    ASSUME Messages, leased \subseteq leased', socks' = socks
    PROVE  (\A m \in wire : Honest(m)') /\ GoodRx(socks)'
BY DEF Messages, Honest, GoodRx

LEMMA SockFacts ==
    ASSUME NEW s \in [1 .. NSocks -> Socks], NEW f \in 1 .. NSocks, NEW x \in Socks
    PROVE  /\ [s EXCEPT ![f] = x] \in [1 .. NSocks -> Socks]
           /\ \A g \in 1 .. NSocks : [s EXCEPT ![f] = x][g] = IF g = f THEN x ELSE s[g]
OBVIOUS

\* What a change of one field leaves of a socket.
LEMMA RxFacts ==
    ASSUME NEW x \in Socks, NEW q \in Seq(Msgs)
    PROVE  /\ [x EXCEPT !.rx = q] \in Socks /\ [x EXCEPT !.rx = q].rx = q
           /\ [x EXCEPT !.rx = q].type = x.type /\ [x EXCEPT !.rx = q].port = x.port
           /\ [x EXCEPT !.rx = q].dst = x.dst
BY DEF Socks

LEMMA PortFacts ==
    ASSUME NEW x \in Socks, NEW p \in {0, 68}
    PROVE  /\ [x EXCEPT !.port = p] \in Socks /\ [x EXCEPT !.port = p].type = x.type
           /\ [x EXCEPT !.port = p].port = p /\ [x EXCEPT !.port = p].rx = x.rx
BY DEF Socks

LEMMA DstFacts ==
    ASSUME NEW x \in Socks, NEW ip \in Addrs
    PROVE  /\ [x EXCEPT !.dst = ip] \in Socks /\ [x EXCEPT !.dst = ip].type = x.type
           /\ [x EXCEPT !.dst = ip].dst = ip /\ [x EXCEPT !.dst = ip].rx = x.rx
BY DEF Socks

LEMMA TimedFacts ==
    ASSUME NEW x \in Socks
    PROVE  /\ [x EXCEPT !.timed = TRUE] \in Socks /\ [x EXCEPT !.timed = TRUE].type = x.type
           /\ [x EXCEPT !.timed = TRUE].rx = x.rx
BY DEF Socks

LEMMA NoSockFacts == NoSock \in Socks /\ NoSock.rx = <<>> /\ NoSock.type = "none"
<1>1. <<>> \in Seq(Msgs)
  OBVIOUS
<1> QED BY <1>1 DEF NoSock, Socks, Addrs

LEMMA NewSockFacts ==
    ASSUME NEW t \in {"dgram", "eth", "icmp"}, NEW x \in Sockets(t)
    PROVE  x \in Socks /\ x.type = t /\ x.rx = <<>> /\ x.port = 0
<1>1. <<>> \in Seq(Msgs)
  OBVIOUS
<1> QED BY <1>1 DEF Sockets, Socks, Addrs

\* A packet comes into a socket: only its queue changes.
LEMMA QueueFacts ==
    ASSUME LanTypes, NEW fs \in SUBSET (1 .. NSocks), NEW m \in Msgs, Queue(fs, m)
    PROVE  /\ socks' \in [1 .. NSocks -> Socks]
           /\ \A g \in 1 .. NSocks :
                /\ socks'[g].type = socks[g].type /\ socks'[g].port = socks[g].port
                /\ socks'[g].dst = socks[g].dst
                /\ socks'[g].rx = socks[g].rx \/ socks'[g].rx = Append(socks[g].rx, m)
           /\ \A g \in 1 .. NSocks : First(fs, g) => socks'[g].rx = Append(socks[g].rx, m)
<1>1. socks \in [1 .. NSocks -> Socks]
  BY DEF LanTypes
<1>2. CASE fs = {} /\ UNCHANGED socks
  BY <1>1, <1>2 DEF First
<1>3. CASE \E f \in fs : First(fs, f) /\ socks' = [socks EXCEPT ![f].rx = Append(@, m)]
  <2>1. PICK f \in fs : First(fs, f) /\ socks' = [socks EXCEPT ![f].rx = Append(@, m)]
    BY <1>3
  <2>2. f \in 1 .. NSocks /\ socks[f] \in Socks /\ socks[f].rx \in Seq(Msgs)
    BY <1>1 DEF Socks
  <2> DEFINE q == Append(socks[f].rx, m)
             x == [socks[f] EXCEPT !.rx = q]
  <2>3. q \in Seq(Msgs)
    BY <2>2
  <2>4. socks' = [socks EXCEPT ![f] = x]
    BY <1>1, <2>1, <2>2
  <2> HIDE DEF q
  <2>5. /\ x \in Socks /\ x.rx = q /\ x.type = socks[f].type /\ x.port = socks[f].port
        /\ x.dst = socks[f].dst
    BY <2>2, <2>3, RxFacts
  <2> HIDE DEF x
  <2>6. /\ socks' \in [1 .. NSocks -> Socks]
        /\ \A g \in 1 .. NSocks : socks'[g] = IF g = f THEN x ELSE socks[g]
    BY <1>1, <2>2, <2>4, <2>5, SockFacts
  <2>7. \A g \in 1 .. NSocks : First(fs, g) => g = f
    BY <2>1, <2>2 DEF First
  <2> QED BY <2>5, <2>6, <2>7 DEF q
<1> QED BY <1>2, <1>3 DEF Queue

\* The message that arrived is in the queue like the others.
LEMMA QueueGood ==
    ASSUME LanTypes, Messages, UNCHANGED leased, NEW m \in Msgs, Honest(m),
           socks' \in [1 .. NSocks -> Socks],
           \A g \in 1 .. NSocks : socks'[g].rx = socks[g].rx \/ socks'[g].rx = Append(socks[g].rx, m)
    PROVE  GoodRx(socks)'
<1> SUFFICES ASSUME NEW f \in 1 .. NSocks, NEW i \in 1 .. Len(socks'[f].rx)
             PROVE  Honest(socks'[f].rx[i])
  BY DEF GoodRx, Honest
<1>1. socks[f].rx \in Seq(Msgs)
  BY DEF LanTypes, Socks
<1>2. CASE socks'[f].rx = socks[f].rx
  BY <1>2 DEF Messages
<1>3. CASE socks'[f].rx = Append(socks[f].rx, m)
  <2>1. /\ Len(socks'[f].rx) = Len(socks[f].rx) + 1 /\ Len(socks[f].rx) \in Nat
        /\ \A j \in 1 .. Len(socks[f].rx) : socks'[f].rx[j] = socks[f].rx[j]
        /\ socks'[f].rx[Len(socks[f].rx) + 1] = m
    BY <1>1, <1>3
  <2>2. CASE i \in 1 .. Len(socks[f].rx)
    BY <2>1, <2>2 DEF Messages
  <2>3. CASE i = Len(socks[f].rx) + 1
    BY <2>1, <2>3
  <2> QED BY <2>1, <2>2, <2>3, SMTT(40)
<1> QED BY <1>2, <1>3

\* recvfrom() takes the first message.
LEMMA TakenFacts ==
    ASSUME LanTypes, Messages, cmd.fd \in 1 .. NSocks, socks[cmd.fd].rx # <<>>
    PROVE  /\ Taken \in [1 .. NSocks -> Socks] /\ GoodRx(Taken)
           /\ Taken[cmd.fd].type = socks[cmd.fd].type /\ Taken[cmd.fd].port = socks[cmd.fd].port
           /\ Taken[cmd.fd].dst = socks[cmd.fd].dst
           /\ \A g \in 1 .. NSocks : g # cmd.fd => Taken[g] = socks[g]
           /\ Head(socks[cmd.fd].rx) \in Msgs /\ Honest(Head(socks[cmd.fd].rx))
<1> DEFINE f == cmd.fd
           q == Tail(socks[f].rx)
           x == [socks[f] EXCEPT !.rx = q]
<1>1. socks \in [1 .. NSocks -> Socks] /\ socks[f] \in Socks /\ socks[f].rx \in Seq(Msgs)
  BY DEF LanTypes, Socks
<1>2. /\ q \in Seq(Msgs) /\ Len(q) = Len(socks[f].rx) - 1 /\ Len(socks[f].rx) \in Nat \ {0}
      /\ \A i \in 1 .. Len(q) : q[i] = socks[f].rx[i + 1]
      /\ Head(socks[f].rx) = socks[f].rx[1] /\ socks[f].rx[1] \in Msgs
  BY <1>1
<1>3. \A i \in 1 .. Len(q) : i + 1 \in 1 .. Len(socks[f].rx)
  BY <1>2
<1>4. \A i \in 1 .. Len(q) : Honest(q[i])
  BY <1>2, <1>3 DEF Messages
<1>5. 1 \in 1 .. Len(socks[f].rx)
  BY <1>2
<1>6. Taken = [socks EXCEPT ![f] = x]
  BY <1>1 DEF Taken
<1> HIDE DEF q
<1>7. /\ x \in Socks /\ x.rx = q /\ x.type = socks[f].type /\ x.port = socks[f].port
      /\ x.dst = socks[f].dst
  BY <1>1, <1>2, RxFacts
<1> HIDE DEF x
<1>8. /\ Taken \in [1 .. NSocks -> Socks]
      /\ \A g \in 1 .. NSocks : Taken[g] = IF g = f THEN x ELSE socks[g]
  BY <1>1, <1>6, <1>7, SockFacts
<1>9. GoodRx(Taken)
  BY <1>4, <1>7, <1>8 DEF GoodRx, Messages
<1>10. Honest(Head(socks[f].rx))
  BY <1>2, <1>5 DEF Messages
<1> QED BY <1>2, <1>7, <1>8, <1>9, <1>10

LEMMA CloseFacts ==
    ASSUME NEW s \in [1 .. NSocks -> Socks], NEW f \in 1 .. NSocks
    PROVE  /\ sk_close(s, f) \in [1 .. NSocks -> Socks]
           /\ GoodRx(s) => GoodRx(sk_close(s, f))
<1>1. CASE s[f].closes
  <2>1. sk_close(s, f) = [s EXCEPT ![f] = NoSock]
    BY <1>1 DEF sk_close
  <2>2. /\ sk_close(s, f) \in [1 .. NSocks -> Socks]
        /\ \A g \in 1 .. NSocks : sk_close(s, f)[g] = IF g = f THEN NoSock ELSE s[g]
    BY <2>1, SockFacts, NoSockFacts
  <2>3. Len(NoSock.rx) = 0
    BY NoSockFacts
  <2> QED BY <2>2, <2>3 DEF GoodRx
<1>2. CASE ~s[f].closes
  BY <1>2 DEF sk_close
<1> QED BY <1>1, <1>2

LEMMA IdleFacts == Idle \in Cmds /\ Idle.pc = "idle"
<1>1. 0 \in 0 .. NSocks
  BY NetAssumption
<1> QED BY <1>1 DEF Idle, Cmds, Addrs

\* A command comes to its end.
LEMMA EndStep ==
    ASSUME NetInv, NEW s \in [1 .. NSocks -> Socks], GoodRx(s), NEW f \in 1 .. NSocks,
           socks' = sk_close(s, f), cmd' \in Cmds, cmd'.pc = "idle",
           wire' \subseteq Msgs, \A m \in wire' : Honest(m),
           UNCHANGED <<hosts, leased>>, used' \in Counters, myip' \in Addrs
    PROVE  NetInv'
<1>1. socks' \in [1 .. NSocks -> Socks] /\ GoodRx(sk_close(s, f))
  BY CloseFacts
<1>2. GoodRx(socks)'
  BY <1>1 DEF GoodRx, Honest
<1>3. Messages'
  BY <1>2 DEF Messages, GoodRx, Honest
<1>4. LanTypes'
  BY <1>1 DEF NetInv, LanTypes
<1>5. OwnSockets' /\ Probing' /\ Looked'
  BY DEF OwnSockets, Probing, Looked
<1> QED BY <1>3, <1>4, <1>5 DEF NetInv
-----------------------------------------------------------------------------
(* netif_rx(), the LAN, and the commands.                                  *)

\* A packet is put into a queue, or dropped.
LEMMA DeliverStep ==
    ASSUME NetInv, NEW m \in wire, Deliver(m)
    PROVE  NetInv'
<1> USE DEF NetInv
<1>1. m \in Msgs /\ Honest(m) /\ wire' = wire \ {m} /\ UNCHANGED <<myip, leased, used>>
  BY DEF Deliver, udp_layer_deliver, icmp_deliver, arp_recv_packet, Arrives, LanTypes, Messages
<1>2. \E fs \in SUBSET (1 .. NSocks) : Queue(fs, m) \/ UNCHANGED socks
  <2>1. /\ udp_search_socket \in SUBSET (1 .. NSocks)
        /\ icmp_search_socket(m.ip) \in SUBSET (1 .. NSocks)
        /\ arp_search_socket(m.ip) \in SUBSET (1 .. NSocks)
    BY DEF udp_search_socket, icmp_search_socket, arp_search_socket, OpenFds
  <2> QED BY <2>1 DEF Deliver, udp_layer_deliver, icmp_deliver, arp_recv_packet
<1>3. /\ socks' \in [1 .. NSocks -> Socks]
      /\ \A g \in 1 .. NSocks :
           /\ socks'[g].type = socks[g].type /\ socks'[g].port = socks[g].port
           /\ socks'[g].dst = socks[g].dst
           /\ socks'[g].rx = socks[g].rx \/ socks'[g].rx = Append(socks[g].rx, m)
  <2>1. CASE UNCHANGED socks
    BY <2>1 DEF LanTypes
  <2>2. CASE \E fs \in SUBSET (1 .. NSocks) : Queue(fs, m)
    BY <1>1, <2>2, QueueFacts
  <2> QED BY <1>2, <2>1, <2>2
<1>4. GoodRx(socks)'
  BY <1>1, <1>3, QueueGood
<1>5. Messages'
  BY <1>1, <1>4 DEF Messages, GoodRx, Honest
<1>6. \/ UNCHANGED <<hosts, cmd>>
      \/ /\ m.kind = "arp" /\ hosts' = hosts \cup {m.ip}
         /\ cmd' = IF cmd.pc = "probe" /\ m.ip = cmd.ip
                   THEN [cmd EXCEPT !.answered = TRUE] ELSE cmd
  BY DEF Deliver, udp_layer_deliver, icmp_deliver, arp_recv_packet
<1>7. cmd \in Cmds
  BY DEF LanTypes
<1>8. /\ cmd' \in Cmds /\ cmd'.pc = cmd.pc /\ cmd'.fd = cmd.fd /\ cmd'.pfd = cmd.pfd
      /\ cmd'.ip = cmd.ip /\ cmd'.blind = cmd.blind
      /\ cmd.pc # "probe" => cmd' = cmd
      /\ [cmd EXCEPT !.answered = TRUE].answered
  BY <1>6, <1>7 DEF Cmds
<1>9. LanTypes'
  <2>1. hosts' \subseteq Hosts
    BY <1>1, <1>6 DEF LanTypes, Honest
  <2> QED BY <1>1, <1>3, <1>8, <2>1 DEF LanTypes
<1>10. OwnSockets' /\ Looked'
  BY <1>1, <1>3, <1>8 DEF OwnSockets, Looked, LanTypes
<1>11. Probing'
  <2> SUFFICES ASSUME cmd.pc = "probe", ~cmd.blind
               PROVE  /\ \A f \in 1 .. cmd.pfd - 1 : ~(socks'[f].type = "eth" /\ socks'[f].dst = cmd.ip)
                      /\ cmd'.answered => socks'[cmd.pfd].rx # <<>>
                      /\ ~cmd'.answered => cmd.ip \notin hosts'
    BY <1>1, <1>8 DEF Probing
  <2>1. cmd.pfd \in 1 .. NSocks /\ cmd.pfd \in Int /\ NSocks \in Nat
    BY NetAssumption DEF LanTypes
  <2>2. \A f \in 1 .. cmd.pfd - 1 : f \in 1 .. NSocks
    BY <2>1
  <2>3. \A f \in 1 .. cmd.pfd - 1 : ~(socks'[f].type = "eth" /\ socks'[f].dst = cmd.ip)
    BY <1>3, <2>2 DEF Probing
  <2>4. socks[cmd.pfd].rx \in Seq(Msgs)
    BY <2>1 DEF LanTypes, Socks
  <2>5. socks[cmd.pfd].rx # <<>> => socks'[cmd.pfd].rx # <<>>
    <3>1. m \in Msgs
      BY <1>1
    <3>2. Append(socks[cmd.pfd].rx, m) # <<>>
      BY <2>4, <3>1
    <3> QED BY <1>3, <2>1, <3>2
  <2>6. CASE UNCHANGED <<hosts, cmd>>
    BY <2>3, <2>5, <2>6 DEF Probing
  <2>7. CASE m.kind = "arp" /\ m.ip # cmd.ip
    BY <1>6, <2>3, <2>5, <2>7 DEF Probing
  <2>8. CASE m.kind = "arp" /\ m.ip = cmd.ip /\ cmd' = [cmd EXCEPT !.answered = TRUE]
    <3>1. cmd'.answered
      BY <1>8, <2>8
    <3>2. CASE cmd.answered
      BY <2>3, <2>5, <3>1, <3>2 DEF Probing
    <3>3. CASE ~cmd.answered
      <4>1. m.ip \notin hosts
        BY <2>8, <3>3 DEF Probing
      <4>2. Queue(arp_search_socket(m.ip), m)
        BY <2>8, <4>1 DEF Deliver, udp_layer_deliver, icmp_deliver, arp_recv_packet
      <4>3. arp_search_socket(m.ip) \in SUBSET (1 .. NSocks)
        BY DEF arp_search_socket, OpenFds
      <4>4. First(arp_search_socket(m.ip), cmd.pfd)
        <5>1. cmd.pfd \in arp_search_socket(m.ip)
          BY <2>1, <2>8, NoSockFacts DEF OwnSockets, arp_search_socket, OpenFds
        <5>2. ASSUME NEW g \in arp_search_socket(m.ip)
              PROVE  cmd.pfd <= g
          <6>1. g \in 1 .. NSocks /\ socks[g].type = "eth" /\ socks[g].dst = cmd.ip
            BY <2>8 DEF arp_search_socket, OpenFds
          <6>2. ~(g \in 1 .. cmd.pfd - 1)
            BY <6>1 DEF Probing
          <6> QED BY <2>1, <6>1, <6>2
        <5> QED BY <5>1, <5>2 DEF First
      <4>5. socks'[cmd.pfd].rx = Append(socks[cmd.pfd].rx, m)
        BY <1>1, <2>1, <4>2, <4>3, <4>4, QueueFacts
      <4>6. socks'[cmd.pfd].rx # <<>>
        BY <1>1, <2>4, <4>5
      <4> QED BY <2>3, <3>1, <4>6
    <3> QED BY <3>2, <3>3
  <2> QED BY <1>6, <2>6, <2>7, <2>8
<1> QED BY <1>5, <1>9, <1>10, <1>11

\* The server, the hosts and the link.
LEMMA LanStep ==
    ASSUME NetInv, NEW m \in wire, Answer(m) \/ Ignored(m) \/ Lose(m)
    PROVE  NetInv'
<1> USE DEF NetInv
<1>1. m \in Msgs /\ Honest(m) /\ UNCHANGED <<socks, hosts, myip, cmd>> /\ leased \subseteq leased'
  BY DEF Answer, Ignored, Lose, LanTypes, Messages
<1>2. used' \in Counters
  <2>1. used \in Counters
    BY DEF LanTypes
  <2>2. \/ UNCHANGED used \/ used' = [used EXCEPT !.nak = @ + 1]
        \/ used' = [used EXCEPT !.lost = @ + 1]
    BY DEF Answer, Ignored, Lose
  <2> QED BY <2>1, <2>2 DEF Counters
<1>4. PICK new \in SUBSET Msgs : wire' = (wire \ {m}) \cup new /\ \A n \in new : Honest(n)'
  <2>1. CASE Ignored(m) \/ Lose(m)
    <3>1. wire' = (wire \ {m}) \cup {}
      BY <2>1 DEF Ignored, Lose
    <3>2. {} \in SUBSET Msgs /\ \A n \in {} : Honest(n)'
      OBVIOUS
    <3> QED BY <3>1, <3>2
  <2>2. CASE m.kind = "discover" /\ \E ip \in Ips :
               wire' = (wire \ {m}) \cup {[m EXCEPT !.kind = "offer", !.ip = ip]}
    <3>1. PICK ip \in Ips : wire' = (wire \ {m}) \cup {[m EXCEPT !.kind = "offer", !.ip = ip]}
      BY <2>2
    <3>2. "offer" \in Kinds /\ ip \in Addrs
      BY DEF Kinds, ToBoard, Addrs
    <3> DEFINE v == [m EXCEPT !.kind = "offer"]
               n == [m EXCEPT !.kind = "offer", !.ip = ip]
    <3>6. v \in Msgs /\ v.kind = "offer" /\ n = [v EXCEPT !.ip = ip]
      BY <1>1, <3>2 DEF Msgs
    <3> HIDE DEF v
    <3>3. n \in Msgs /\ n.kind = "offer"
      BY <3>6, <3>2 DEF Msgs
    <3> HIDE DEF n
    <3>4. Honest(n)'
      BY <3>3 DEF Honest
    <3>5. wire' = (wire \ {m}) \cup {n}
      BY <3>1 DEF n
    <3>7. {n} \in SUBSET Msgs /\ \A x \in {n} : Honest(x)'
      BY <3>3, <3>4
    <3> QED BY <3>5, <3>7
  <2>3. CASE \E k \in {"ack", "nak", "arp", "echo"} :
               /\ wire' = (wire \ {m}) \cup {[m EXCEPT !.kind = k]}
               /\ k = "ack" => <<m.run, m.ip>> \in leased'
               /\ k = "arp" => m.ip \in Hosts
    <3>1. PICK k \in {"ack", "nak", "arp", "echo"} :
               /\ wire' = (wire \ {m}) \cup {[m EXCEPT !.kind = k]}
               /\ k = "ack" => <<m.run, m.ip>> \in leased'
               /\ k = "arp" => m.ip \in Hosts
      BY <2>3
    <3>2. k \in Kinds
      BY DEF Kinds, ToBoard
    <3> DEFINE n == [m EXCEPT !.kind = k]
    <3>3. n \in Msgs /\ n.kind = k /\ n.ip = m.ip /\ n.run = m.run
      BY <1>1, <3>2 DEF Msgs
    <3> HIDE DEF n
    <3>4. Honest(n)'
      BY <3>1, <3>3 DEF Honest
    <3>5. wire' = (wire \ {m}) \cup {n}
      BY <3>1 DEF n
    <3>7. {n} \in SUBSET Msgs /\ \A x \in {n} : Honest(x)'
      BY <3>3, <3>4
    <3> QED BY <3>5, <3>7
  <2> QED BY <2>1, <2>2, <2>3 DEF Answer
<1>5. (\A n \in wire : Honest(n)') /\ GoodRx(socks)'
  BY <1>1, HonestGrows
<1>6. Messages'
  BY <1>4, <1>5 DEF Messages, GoodRx
<1>7. LanTypes'
  BY <1>1, <1>2, <1>4 DEF LanTypes
<1>8. OwnSockets' /\ Probing' /\ Looked'
  BY <1>1 DEF OwnSockets, Probing, Looked
<1> QED BY <1>6, <1>7, <1>8

LEMMA OpenFacts ==
    ASSUME NEW s \in [1 .. NSocks -> Socks], GoodRx(s), NEW f \in 1 .. NSocks,
           NEW x \in Socks, x.rx = <<>>
    PROVE  /\ [s EXCEPT ![f] = x] \in [1 .. NSocks -> Socks] /\ GoodRx([s EXCEPT ![f] = x])
           /\ [s EXCEPT ![f] = x][f] = x
<1> DEFINE t == [s EXCEPT ![f] = x]
<1>1. /\ t \in [1 .. NSocks -> Socks]
      /\ \A g \in 1 .. NSocks : t[g] = IF g = f THEN x ELSE s[g]
  BY SockFacts
<1> HIDE DEF t
<1>2. Len(x.rx) = 0
  OBVIOUS
<1>3. GoodRx(t)
  BY <1>1, <1>2 DEF GoodRx
<1> QED BY <1>1, <1>3 DEF t

LEMMA FreeFacts ==
    ASSUME LanTypes, NEW fd \in FreeFds
    PROVE  fd \in 1 .. NSocks /\ socks[fd] = NoSock
BY DEF FreeFds

LEMMA RunsFacts ==
    ASSUME LanTypes
    PROVE  [used EXCEPT !.runs = @ + 1] \in Counters /\ [used EXCEPT !.noise = @ + 1] \in Counters
<1>1. used \in Counters
  BY DEF LanTypes
<1> QED BY <1>1 DEF Counters

\* A command begins with a socket of its own.
LEMMA StartStep ==
    ASSUME NetInv, NEW fd \in FreeFds, NEW x \in Socks, x.rx = <<>>,
           socks' = [socks EXCEPT ![fd] = x],
           NEW n \in Msgs, Honest(n), wire' = wire \cup {n},
           cmd' \in Cmds, cmd'.fd = fd, cmd'.pc \in {"offer", "host", "reply"},
           cmd'.pc = "offer" => x.type = "dgram" /\ x.port = 68,
           cmd'.pc # "offer" => x.type = "icmp" /\ x.dst = cmd'.ip,
           UNCHANGED <<hosts, myip, leased>>, used' \in Counters
    PROVE  NetInv'
<1> USE DEF NetInv
<1>1. fd \in 1 .. NSocks
  BY FreeFacts
<1>2. socks \in [1 .. NSocks -> Socks] /\ GoodRx(socks)
  BY DEF LanTypes, Messages, GoodRx
<1>3. /\ socks' \in [1 .. NSocks -> Socks] /\ GoodRx([socks EXCEPT ![fd] = x])
      /\ socks'[fd] = x
  BY <1>1, <1>2, OpenFacts
<1>4. GoodRx(socks)'
  BY <1>3 DEF GoodRx, Honest
<1>5. Messages'
  BY <1>4 DEF Messages, GoodRx, Honest
<1>6. LanTypes'
  BY <1>1, <1>3 DEF LanTypes
<1>7. OwnSockets' /\ Probing' /\ Looked'
  BY <1>3 DEF OwnSockets, Probing, Looked
<1> QED BY <1>5, <1>6, <1>7

LEMMA DhcpStartStep ==
    ASSUME NetInv, DhcpStart
    PROVE  NetInv'
<1> USE DEF NetInv
<1>1. PICK fd \in FreeFds, s \in Sockets("dgram"), inet \in BOOLEAN :
        IF inet
        THEN /\ socks' = bind([socks EXCEPT ![fd] = s], fd, 68)
             /\ wire' = wire \cup {Msg("discover", NoIp)}
             /\ cmd' = [Idle EXCEPT !.pc = "offer", !.fd = fd,
                                    !.late = \E m \in wire : m.kind \in {"request", "ack"}]
        ELSE socks' = sk_close([socks EXCEPT ![fd] = s], fd) /\ UNCHANGED <<wire, cmd>>
  BY DEF DhcpStart
<1>2. used' \in Counters /\ UNCHANGED <<hosts, myip, leased>> /\ cmd.pc = "idle"
  BY RunsFacts DEF DhcpStart
<1>3. fd \in 1 .. NSocks /\ s \in Socks /\ s.type = "dgram" /\ s.rx = <<>> /\ fd \in Nat
  BY FreeFacts, NewSockFacts
<1>4. socks \in [1 .. NSocks -> Socks] /\ GoodRx(socks)
  BY DEF LanTypes, Messages, GoodRx
<1>5. CASE inet
  <2> DEFINE x == [s EXCEPT !.port = 68]
  <2>1. x \in Socks /\ x.type = "dgram" /\ x.port = 68 /\ x.rx = <<>>
    BY <1>3, PortFacts
  <2>2. socks' = [socks EXCEPT ![fd] = x]
    BY <1>1, <1>3, <1>4, <1>5 DEF bind
  <2> DEFINE b == \E m \in wire : m.kind \in {"request", "ack"}
  <2>3. cmd' = [pc |-> "offer", fd |-> fd, pfd |-> 0, i |-> 0, ip |-> NoIp,
                late |-> b, answered |-> FALSE, blind |-> FALSE]
    BY <1>1, <1>5 DEF Idle
  <2>9. b \in BOOLEAN
    OBVIOUS
  <2> HIDE DEF b
  <2>4. fd \in 0 .. NSocks /\ 0 \in 0 .. NSocks /\ NoIp \in Addrs
    BY <1>3, NetAssumption DEF Addrs
  <2>5. cmd' \in Cmds /\ cmd'.fd = fd /\ cmd'.pc = "offer"
    BY <2>3, <2>4, <2>9 DEF Cmds
  <2>6. "discover" \in Kinds \ {"ack", "arp"}
    BY DEF Kinds
  <2>7. Msg("discover", NoIp) \in Msgs /\ Honest(Msg("discover", NoIp))
    BY <2>4, <2>6, MsgFacts
  <2>8. wire' = wire \cup {Msg("discover", NoIp)}
    BY <1>1, <1>5
  <2> HIDE DEF x
  <2> QED BY <1>2, <2>1, <2>2, <2>5, <2>7, <2>8, StartStep
<1>6. CASE ~inet
  <2> DEFINE t == [socks EXCEPT ![fd] = s]
  <2>1. t \in [1 .. NSocks -> Socks] /\ GoodRx(t)
    BY <1>3, <1>4, OpenFacts
  <2>2. socks' = sk_close(t, fd) /\ UNCHANGED <<wire, cmd>>
    BY <1>1, <1>6
  <2> HIDE DEF t
  <2>3. /\ cmd' \in Cmds /\ cmd'.pc = "idle" /\ wire' \subseteq Msgs /\ \A m \in wire' : Honest(m)
        /\ myip' \in Addrs
    BY <1>2, <2>2 DEF LanTypes, Messages
  <2> QED BY <1>2, <1>3, <2>1, <2>2, <2>3, EndStep
<1> QED BY <1>5, <1>6

LEMMA PingStartStep ==
    ASSUME NetInv, NEW ip \in Ips, PingStart(ip)
    PROVE  NetInv'
<1> USE DEF NetInv
<1>1. PICK fd \in FreeFds, s \in Sockets("icmp") :
         /\ socks' = sendto([socks EXCEPT ![fd] = [s EXCEPT !.timed = TRUE]], fd, ip)
         /\ cmd' = [Idle EXCEPT !.fd = fd, !.ip = ip,
                                !.pc = IF ip \in hosts THEN "reply" ELSE "host"]
  BY DEF PingStart
<1>2. used' \in Counters /\ UNCHANGED <<hosts, myip, leased>>
  BY RunsFacts DEF PingStart
<1>3. fd \in 1 .. NSocks /\ s \in Socks /\ s.type = "icmp" /\ s.rx = <<>> /\ ip \in Addrs
  BY FreeFacts, NewSockFacts DEF Addrs
<1>4. socks \in [1 .. NSocks -> Socks]
  BY DEF LanTypes
<1> DEFINE y == [s EXCEPT !.timed = TRUE]
           x == [y EXCEPT !.dst = ip]
           k == IF ip \in hosts THEN "request_echo" ELSE "whohas"
<1>5. y \in Socks /\ y.type = "icmp" /\ y.rx = <<>>
  BY <1>3, TimedFacts
<1>6. socks' = sendto([socks EXCEPT ![fd] = y], fd, ip)
  BY <1>1
<1> HIDE DEF y
<1>7. socks' = [socks EXCEPT ![fd] = x]
  BY <1>3, <1>4, <1>5, <1>6 DEF sendto
<1>8. x \in Socks /\ x.type = "icmp" /\ x.rx = <<>> /\ x.dst = ip
  BY <1>3, <1>5, DstFacts
<1>9. cmd' = [pc |-> IF ip \in hosts THEN "reply" ELSE "host", fd |-> fd, pfd |-> 0, i |-> 0,
              ip |-> ip, late |-> FALSE, answered |-> FALSE, blind |-> FALSE]
  BY <1>1 DEF Idle
<1>10. fd \in 0 .. NSocks /\ 0 \in 0 .. NSocks
  BY <1>3, NetAssumption
<1>11. cmd' \in Cmds /\ cmd'.fd = fd /\ cmd'.pc \in {"host", "reply"} /\ cmd'.ip = ip
  BY <1>3, <1>9, <1>10 DEF Cmds
<1>12. k \in Kinds \ {"ack", "arp"}
  BY DEF Kinds
<1>13. wire' = wire \cup {Msg(k, ip)}
  BY DEF PingStart
<1> HIDE DEF x, k
<1>14. Msg(k, ip) \in Msgs /\ Honest(Msg(k, ip))
  BY <1>3, <1>12, MsgFacts
<1> QED BY <1>2, <1>7, <1>8, <1>11, <1>13, <1>14, StartStep

\* An answer is taken, and dhclient goes on.
LEMMA TakeStep ==
    ASSUME NetInv, cmd.pc \in {"offer", "ack"}, socks[cmd.fd].rx # <<>>, socks' = Taken,
           cmd' \in Cmds, cmd'.fd = cmd.fd, cmd'.pc \in {"offer", "ack"},
           wire' \subseteq Msgs, \A m \in wire' : Honest(m),
           UNCHANGED <<hosts, myip, leased, used>>
    PROVE  NetInv'
<1> USE DEF NetInv
<1>1. cmd.fd \in 1 .. NSocks
  BY DEF LanTypes
<1>2. /\ Taken \in [1 .. NSocks -> Socks] /\ GoodRx(Taken)
      /\ Taken[cmd.fd].type = socks[cmd.fd].type /\ Taken[cmd.fd].port = socks[cmd.fd].port
  BY <1>1, TakenFacts
<1>3. GoodRx(socks)'
  BY <1>2 DEF GoodRx, Honest
<1>4. Messages'
  BY <1>3 DEF Messages, GoodRx, Honest
<1>5. LanTypes'
  BY <1>1, <1>2 DEF LanTypes
<1>6. OwnSockets' /\ Probing' /\ Looked'
  BY <1>2 DEF OwnSockets, Probing, Looked
<1> QED BY <1>4, <1>5, <1>6

\* A command ends and leaves the addresses as they are.
LEMMA GiveUpStep ==
    ASSUME NetInv, NEW s \in [1 .. NSocks -> Socks], GoodRx(s), cmd.pc # "idle", GiveUp(s),
           wire' \subseteq Msgs, \A m \in wire' : Honest(m),
           UNCHANGED <<hosts, myip, leased, used>>
    PROVE  NetInv'
<1> USE DEF NetInv
<1>1. cmd.fd \in 1 .. NSocks /\ socks' = sk_close(s, cmd.fd)
  BY DEF LanTypes, GiveUp
<1>2. cmd' \in Cmds /\ cmd'.pc = "idle"
  BY IdleFacts DEF GiveUp
<1>3. used' \in Counters /\ myip' \in Addrs
  BY DEF LanTypes
<1> QED BY <1>1, <1>2, <1>3, EndStep

LEMMA OtherStep ==
    ASSUME NetInv, cmd.pc \in {"offer", "ack"}, socks[cmd.fd].rx # <<>>, Other,
           UNCHANGED <<wire, hosts, myip, leased, used>>
    PROVE  NetInv'
<1> USE DEF NetInv
<1>1. wire' \subseteq Msgs /\ \A m \in wire' : Honest(m)
  BY DEF LanTypes, Messages
<1>2. CASE GiveUp(Taken)
  <2>1. cmd.fd \in 1 .. NSocks
    BY DEF LanTypes
  <2>2. Taken \in [1 .. NSocks -> Socks] /\ GoodRx(Taken)
    BY <2>1, TakenFacts
  <2> QED BY <1>1, <1>2, <2>2, GiveUpStep
<1>3. CASE socks' = Taken /\ cmd' = [cmd EXCEPT !.i = @ + 1]
  <2>1. cmd \in Cmds
    BY DEF LanTypes
  <2>2. cmd' \in Cmds /\ cmd'.fd = cmd.fd /\ cmd'.pc = cmd.pc
    BY <1>3, <2>1 DEF Cmds
  <2> QED BY <1>1, <1>3, <2>2, TakeStep
<1> QED BY <1>2, <1>3 DEF Other

LEMMA RecvOfferStep ==
    ASSUME NetInv, RecvOffer
    PROVE  NetInv'
<1> USE DEF NetInv
<1>1. cmd.pc = "offer" /\ UNCHANGED <<hosts, myip, leased, used>>
  BY DEF RecvOffer
<1>2. PICK m \in {Head(s.rx) : s \in {t \in {socks[cmd.fd]} : t.rx # <<>>}} :
         IF m.kind = "offer"
         THEN /\ socks' = Taken
              /\ wire' = wire \cup {Msg("request", m.ip)}
              /\ cmd' = [cmd EXCEPT !.pc = "ack", !.i = 0]
         ELSE Other /\ UNCHANGED wire
  BY DEF RecvOffer
<1>3. socks[cmd.fd].rx # <<>> /\ m = Head(socks[cmd.fd].rx)
  BY <1>2
<1>4. cmd.fd \in 1 .. NSocks /\ cmd \in Cmds
  BY <1>1 DEF LanTypes
<1>5. m \in Msgs
  BY <1>3, <1>4, TakenFacts
<1>6. CASE m.kind = "offer"
  <2> DEFINE c == [cmd EXCEPT !.pc = "ack"]
  <2>1. c \in Cmds /\ c.pc = "ack" /\ c.fd = cmd.fd
    BY <1>4 DEF Cmds
  <2>2. cmd' = [c EXCEPT !.i = 0]
    BY <1>2, <1>4, <1>6 DEF Cmds
  <2> HIDE DEF c
  <2>3. cmd' \in Cmds /\ cmd'.pc = "ack" /\ cmd'.fd = cmd.fd
    BY <2>1, <2>2 DEF Cmds
  <2>4. "request" \in Kinds \ {"ack", "arp"} /\ m.ip \in Addrs
    BY <1>5 DEF Kinds, Msgs
  <2>5. Msg("request", m.ip) \in Msgs /\ Honest(Msg("request", m.ip))
    BY <2>4, MsgFacts
  <2>6. wire' = wire \cup {Msg("request", m.ip)} /\ socks' = Taken
    BY <1>2, <1>6
  <2>7. wire' \subseteq Msgs /\ \A n \in wire' : Honest(n)
    BY <2>5, <2>6 DEF LanTypes, Messages
  <2> QED BY <1>1, <1>3, <2>3, <2>6, <2>7, TakeStep
<1>7. CASE m.kind # "offer"
  BY <1>1, <1>2, <1>3, <1>7, OtherStep
<1> QED BY <1>6, <1>7

\* The probe begins: an answer would find its socket, or the probe is blind.
LEMMA ProbeStep ==
    ASSUME NetInv, cmd.pc = "ack", socks[cmd.fd].rx # <<>>, NEW ip \in Addrs,
           NEW pfd \in FreeFds, NEW x \in Socks, x.type = "eth", x.rx = <<>>, x.dst = ip,
           socks' = [Taken EXCEPT ![pfd] = x],
           wire' \subseteq Msgs, \A n \in wire' : Honest(n),
           cmd' \in Cmds, cmd'.pc = "probe", cmd'.pfd = pfd, cmd'.ip = ip, cmd'.fd = cmd.fd,
           ~cmd'.answered, cmd'.blind = Blind(ip, pfd),
           UNCHANGED <<hosts, myip, leased, used>>
    PROVE  NetInv'
<1> USE DEF NetInv
<1>1. cmd.fd \in 1 .. NSocks /\ cmd \in Cmds
  BY DEF LanTypes
<1>2. pfd \in 1 .. NSocks /\ socks[pfd] = NoSock
  BY FreeFacts
<1>3. pfd # cmd.fd
  BY <1>2, NoSockFacts DEF OwnSockets
<1>4. /\ Taken \in [1 .. NSocks -> Socks] /\ GoodRx(Taken)
      /\ Taken[cmd.fd].type = "dgram" /\ Taken[cmd.fd].port = 68
      /\ \A g \in 1 .. NSocks : g # cmd.fd => Taken[g] = socks[g]
  BY <1>1, TakenFacts DEF OwnSockets
<1>5. /\ socks' \in [1 .. NSocks -> Socks] /\ GoodRx([Taken EXCEPT ![pfd] = x])
      /\ \A g \in 1 .. NSocks : socks'[g] = IF g = pfd THEN x ELSE Taken[g]
  <2>1. [Taken EXCEPT ![pfd] = x] \in [1 .. NSocks -> Socks] /\ GoodRx([Taken EXCEPT ![pfd] = x])
    BY <1>2, <1>4, OpenFacts
  <2>2. \A g \in 1 .. NSocks : [Taken EXCEPT ![pfd] = x][g] = IF g = pfd THEN x ELSE Taken[g]
    BY <1>2, <1>4, SockFacts
  <2> QED BY <2>1, <2>2
<1>6. GoodRx(socks)'
  BY <1>5 DEF GoodRx, Honest
<1>7. Messages'
  BY <1>6 DEF Messages, GoodRx, Honest
<1>8. LanTypes'
  BY <1>1, <1>2, <1>5 DEF LanTypes
<1>9. OwnSockets'
  BY <1>1, <1>2, <1>3, <1>4, <1>5 DEF OwnSockets
<1>10. Looked'
  BY DEF Looked
<1>11. Probing'
  <2> SUFFICES ASSUME ~cmd'.blind, NEW f \in 1 .. pfd - 1,
                      socks'[f].type = "eth", socks'[f].dst = ip
               PROVE  FALSE
    BY DEF Probing, Blind
  <2>0. pfd \in 1 .. NSocks /\ NSocks \in Nat
    BY <1>2, NetAssumption
  <2>1. f \in 1 .. NSocks /\ f # pfd /\ f < pfd
    BY <2>0
  <2>2. f # cmd.fd /\ socks'[f] = socks[f]
    BY <1>4, <1>5, <2>1
  <2>3. f \in arp_search_socket(ip)
    BY <2>1, <2>2, NoSockFacts DEF arp_search_socket, OpenFds
  <2> QED BY <2>1, <2>3 DEF Blind
<1> QED BY <1>7, <1>8, <1>9, <1>10, <1>11

LEMMA RecvAckStep ==
    ASSUME NetInv, RecvAck
    PROVE  NetInv'
<1> USE DEF NetInv
<1>1. cmd.pc = "ack" /\ UNCHANGED <<hosts, myip, leased, used>>
  BY DEF RecvAck
<1>2. PICK m \in {Head(s.rx) : s \in {t \in {socks[cmd.fd]} : t.rx # <<>>}} :
         IF IsAck(m) THEN check_ip_is_user(m.ip) ELSE Other /\ UNCHANGED wire
  BY DEF RecvAck
<1>3. socks[cmd.fd].rx # <<>> /\ m = Head(socks[cmd.fd].rx)
  BY <1>2
<1>4. cmd.fd \in 1 .. NSocks
  BY <1>1 DEF LanTypes
<1>5. /\ m \in Msgs /\ Honest(m) /\ Taken \in [1 .. NSocks -> Socks] /\ GoodRx(Taken)
  BY <1>3, <1>4, TakenFacts
<1>6. CASE ~IsAck(m)
  BY <1>1, <1>2, <1>3, <1>6, OtherStep
<1>7. CASE IsAck(m)
  <2>1. m.ip \in Addrs
    BY <1>5 DEF Msgs
  <2>2. "decline" \in Kinds \ {"ack", "arp"}
    BY DEF Kinds
  <2>3. Msg("decline", m.ip) \in Msgs /\ Honest(Msg("decline", m.ip))
    BY <2>1, <2>2, MsgFacts
  <2>4. wire' = wire \cup {Msg("decline", m.ip)} =>
          wire' \subseteq Msgs /\ \A n \in wire' : Honest(n)
    BY <2>3 DEF LanTypes, Messages
  <2>5. CASE GiveUp(Taken) /\ wire' = wire \cup {Msg("decline", m.ip)}
    BY <1>1, <1>5, <2>4, <2>5, GiveUpStep
  <2>6. ASSUME NEW pfd \in FreeFds, NEW s \in Sockets("eth"),
               GiveUp([Taken EXCEPT ![pfd] = s]),
               wire' = wire \cup {Msg("decline", m.ip)}
        PROVE  NetInv'
    <3> DEFINE t == [Taken EXCEPT ![pfd] = s]
    <3>1. pfd \in 1 .. NSocks /\ s \in Socks /\ s.rx = <<>>
      BY FreeFacts, NewSockFacts
    <3>2. t \in [1 .. NSocks -> Socks] /\ GoodRx(t)
      BY <1>5, <3>1, OpenFacts
    <3>3. GiveUp(t) /\ wire' \subseteq Msgs /\ \A n \in wire' : Honest(n)
      BY <2>4, <2>6
    <3> HIDE DEF t
    <3> QED BY <1>1, <2>6, <3>2, <3>3, GiveUpStep
  <2>7. ASSUME NEW pfd \in FreeFds, NEW s \in Sockets("eth"),
               socks' = sendto([Taken EXCEPT ![pfd] = s], pfd, m.ip),
               wire' = wire \cup {Msg("whohas", m.ip)},
               cmd' = [cmd EXCEPT !.pc = "probe", !.pfd = pfd, !.ip = m.ip,
                                  !.answered = FALSE, !.blind = Blind(m.ip, pfd)]
        PROVE  NetInv'
    <3>1. cmd \in Cmds /\ m.ip \in Addrs
      BY <1>1, <2>1 DEF LanTypes
    <3>2. pfd \in 1 .. NSocks
      BY FreeFacts
    <3>3. /\ cmd' \in Cmds /\ cmd'.pc = "probe" /\ cmd'.pfd = pfd /\ cmd'.ip = m.ip
          /\ cmd'.fd = cmd.fd /\ ~cmd'.answered /\ cmd'.blind = Blind(m.ip, pfd)
      <4> DEFINE b == Blind(m.ip, pfd)
      <4>1. b \in BOOLEAN
        BY DEF Blind
      <4>2. pfd \in 0 .. NSocks
        BY <3>2
      <4>3. cmd' = [pc |-> "probe", fd |-> cmd.fd, pfd |-> pfd, i |-> cmd.i, ip |-> m.ip,
                    late |-> cmd.late, answered |-> FALSE, blind |-> b]
        BY <2>7, <3>1 DEF Cmds
      <4>4. cmd.fd \in 0 .. NSocks /\ cmd.i \in Nat /\ cmd.late \in BOOLEAN
        BY <3>1 DEF Cmds
      <4> HIDE DEF b
      <4>5. cmd' \in Cmds /\ cmd'.blind = b
        BY <3>1, <4>1, <4>2, <4>3, <4>4 DEF Cmds
      <4> QED BY <4>3, <4>5 DEF b
    <3> DEFINE x == [s EXCEPT !.dst = m.ip]
    <3>5. s \in Socks /\ s.type = "eth" /\ s.rx = <<>>
      BY NewSockFacts
    <3>6. x \in Socks /\ x.type = "eth" /\ x.rx = <<>> /\ x.dst = m.ip
      BY <3>1, <3>5, DstFacts
    <3>7. socks' = [Taken EXCEPT ![pfd] = x]
      BY <1>5, <2>7, <3>2 DEF sendto
    <3> HIDE DEF x
    <3>8. "whohas" \in Kinds \ {"ack", "arp"}
      BY DEF Kinds
    <3>9. Msg("whohas", m.ip) \in Msgs /\ Honest(Msg("whohas", m.ip))
      BY <3>1, <3>8, MsgFacts
    <3>10. wire' \subseteq Msgs /\ \A n \in wire' : Honest(n)
      BY <2>7, <3>9 DEF LanTypes, Messages
    <3> QED BY <1>1, <1>3, <2>1, <3>1, <3>3, <3>6, <3>7, <3>10, ProbeStep
  <2> QED BY <1>2, <1>7, <2>5, <2>6, <2>7 DEF check_ip_is_user
<1> QED BY <1>6, <1>7

\* The steps that only end a command, or pass a packet to the link.
LEMMA EndingStep ==
    ASSUME NetInv, RecvNothing \/ InUse \/ PingEnd
    PROVE  NetInv'
<1> USE DEF NetInv
<1>1. cmd.pc # "idle" /\ UNCHANGED <<hosts, myip, leased, used>>
  BY DEF RecvNothing, InUse, PingEnd
<1>2. socks \in [1 .. NSocks -> Socks] /\ GoodRx(socks) /\ cmd.fd \in 1 .. NSocks /\ cmd.ip \in Addrs
  BY <1>1 DEF LanTypes, Messages, GoodRx, Cmds
<1>3. wire' \subseteq Msgs /\ \A m \in wire' : Honest(m)
  <2>1. "decline" \in Kinds \ {"ack", "arp"}
    BY DEF Kinds
  <2>2. Msg("decline", cmd.ip) \in Msgs /\ Honest(Msg("decline", cmd.ip))
    BY <1>2, <2>1, MsgFacts
  <2>3. UNCHANGED wire \/ wire' = wire \cup {Msg("decline", cmd.ip)}
    BY DEF RecvNothing, InUse, PingEnd
  <2> QED BY <2>2, <2>3 DEF LanTypes, Messages
<1>4. CASE GiveUp(socks)
  BY <1>1, <1>2, <1>3, <1>4, GiveUpStep
<1>5. CASE ~qu_is_empty(cmd.fd) /\ GiveUp(Taken)
  <2>1. Taken \in [1 .. NSocks -> Socks] /\ GoodRx(Taken)
    BY <1>2, <1>5, TakenFacts DEF qu_is_empty
  <2> QED BY <1>1, <1>3, <1>5, <2>1, GiveUpStep
<1>6. GiveUp(socks) \/ (~qu_is_empty(cmd.fd) /\ GiveUp(Taken))
  BY DEF RecvNothing, InUse, PingEnd
<1> QED BY <1>4, <1>5, <1>6

\* The third look at the probe's socket finds nothing: nobody has answered.
LEMMA NotInUseStep ==
    ASSUME NetInv, NotInUse
    PROVE  NetInv'
<1> USE DEF NetInv
<1>1. /\ cmd.pc = "probe" /\ socks[cmd.pfd].rx = <<>> /\ cmd' = [cmd EXCEPT !.pc = "set"]
      /\ UNCHANGED <<socks, hosts, myip, wire, leased, used>>
  BY DEF NotInUse, qu_is_empty
<1>2. cmd \in Cmds /\ (cmd.answered => cmd.blind)
  BY <1>1 DEF LanTypes, Probing
<1>3. /\ cmd' \in Cmds /\ cmd'.pc = "set" /\ cmd'.fd = cmd.fd /\ cmd'.pfd = cmd.pfd
      /\ cmd'.ip = cmd.ip /\ cmd'.answered = cmd.answered /\ cmd'.blind = cmd.blind
  BY <1>1, <1>2 DEF Cmds
<1>4. LanTypes'
  BY <1>1, <1>3 DEF LanTypes
<1>5. Messages'
  BY <1>1 DEF Messages, Honest
<1>6. OwnSockets' /\ Probing' /\ Looked'
  BY <1>1, <1>2, <1>3 DEF OwnSockets, Probing, Looked
<1> QED BY <1>4, <1>5, <1>6

LEMMA SetIpStep ==
    ASSUME NetInv, SetIp
    PROVE  NetInv'
<1> USE DEF NetInv
<1>1. cmd.pc = "set" /\ GiveUp(socks) /\ myip' = cmd.ip /\ UNCHANGED <<hosts, wire, leased, used>>
  BY DEF SetIp
<1>2. /\ socks \in [1 .. NSocks -> Socks] /\ GoodRx(socks) /\ cmd.fd \in 1 .. NSocks
      /\ cmd.ip \in Addrs
  BY <1>1 DEF LanTypes, Messages, GoodRx, Cmds
<1>3. socks' = sk_close(socks, cmd.fd) /\ cmd' \in Cmds /\ cmd'.pc = "idle"
  BY <1>1, IdleFacts DEF GiveUp
<1>4. wire' \subseteq Msgs /\ (\A m \in wire' : Honest(m)) /\ used' \in Counters /\ myip' \in Addrs
  BY <1>1, <1>2 DEF LanTypes, Messages
<1> QED BY <1>1, <1>2, <1>3, <1>4, EndStep

LEMMA HostFoundStep ==
    ASSUME NetInv, HostFound
    PROVE  NetInv'
<1> USE DEF NetInv
<1>1. /\ cmd.pc = "host" /\ cmd' = [cmd EXCEPT !.pc = "reply"]
      /\ UNCHANGED <<socks, hosts, myip, leased, used>>
  BY DEF HostFound
<1>2. cmd \in Cmds /\ cmd.ip \in Addrs
  BY DEF LanTypes, Cmds
<1>3. /\ cmd' \in Cmds /\ cmd'.pc = "reply" /\ cmd'.fd = cmd.fd /\ cmd'.ip = cmd.ip
  BY <1>1, <1>2 DEF Cmds
<1>4. "request_echo" \in Kinds \ {"ack", "arp"}
  BY DEF Kinds
<1>5. Msg("request_echo", cmd.ip) \in Msgs /\ Honest(Msg("request_echo", cmd.ip))
  BY <1>2, <1>4, MsgFacts
<1>6. UNCHANGED wire \/ wire' = wire \cup {Msg("request_echo", cmd.ip)}
  BY DEF HostFound
<1>7. wire' \subseteq Msgs /\ \A m \in wire' : Honest(m)
  BY <1>5, <1>6 DEF LanTypes, Messages
<1>8. Messages'
  BY <1>1, <1>7 DEF Messages, Honest
<1>9. LanTypes'
  BY <1>1, <1>3, <1>7 DEF LanTypes
<1>10. OwnSockets' /\ Probing' /\ Looked'
  BY <1>1, <1>3 DEF OwnSockets, Probing, Looked
<1> QED BY <1>8, <1>9, <1>10

LEMMA NoiseStep ==
    ASSUME NetInv, Noise
    PROVE  NetInv'
<1> USE DEF NetInv
<1> DEFINE n == [kind |-> "noise", ip |-> NoIp, run |-> 0]
<1>1. n \in Msgs /\ Honest(n)
  BY DEF Msgs, Kinds, ToBoard, Addrs, Honest
<1>2. /\ wire' = wire \cup {n} /\ UNCHANGED <<socks, hosts, myip, cmd, leased>>
      /\ used' \in Counters
  BY RunsFacts DEF Noise
<1> HIDE DEF n
<1>3. wire' \subseteq Msgs /\ \A m \in wire' : Honest(m)
  BY <1>1, <1>2 DEF LanTypes, Messages
<1>4. Messages'
  BY <1>2, <1>3 DEF Messages, Honest
<1>5. LanTypes'
  BY <1>2, <1>3 DEF LanTypes
<1>6. OwnSockets' /\ Probing' /\ Looked'
  BY <1>2 DEF OwnSockets, Probing, Looked
<1> QED BY <1>4, <1>5, <1>6

LEMMA NetInit == Init => NetInv
<1> SUFFICES ASSUME Init PROVE NetInv
  OBVIOUS
<1>1. PICK n \in 0 .. MaxLeft :
        socks = [f \in 1 .. NSocks |-> IF f <= n THEN LeftOpen ELSE NoSock]
  BY DEF Init
<1> DEFINE v == [NoSock EXCEPT !.type = "stream"]
<1>2. v \in Socks /\ v.rx = <<>>
  BY NoSockFacts DEF Socks
<1>3. LeftOpen = [v EXCEPT !.closes = FALSE] /\ Len(<<>>) = 0
  BY DEF LeftOpen, NoSock
<1> HIDE DEF v
<1>4. LeftOpen \in Socks /\ LeftOpen.rx = <<>>
  BY <1>2, <1>3 DEF Socks
<1>5. \A f \in 1 .. NSocks : socks[f] \in Socks /\ socks[f].rx = <<>>
  <2> TAKE f \in 1 .. NSocks
  <2>1. socks[f] = LeftOpen \/ socks[f] = NoSock
    BY <1>1
  <2> QED BY <1>4, <2>1, NoSockFacts
<1>6. socks \in [1 .. NSocks -> Socks]
  BY <1>1, <1>5
<1>7. /\ hosts = {} /\ myip = NoIp /\ wire = {} /\ cmd = Idle /\ leased = {}
      /\ used = [runs |-> 0, lost |-> 0, noise |-> 0, nak |-> 0]
  BY DEF Init
<1>8. used \in Counters
  BY <1>7 DEF Counters
<1>9. LanTypes
  BY <1>6, <1>7, <1>8, IdleFacts DEF LanTypes, Addrs
<1>10. Messages
  BY <1>3, <1>5, <1>7 DEF Messages
<1>11. OwnSockets /\ Probing /\ Looked
  BY <1>7, IdleFacts DEF OwnSockets, Probing, Looked
<1> QED BY <1>9, <1>10, <1>11 DEF NetInv

LEMMA NetStep == NetInv /\ [Next]_vars => NetInv'
<1> SUFFICES ASSUME NetInv, [Next]_vars PROVE NetInv'
  OBVIOUS
<1>1. CASE DhcpStart
  BY <1>1, DhcpStartStep
<1>2. CASE RecvOffer
  BY <1>2, RecvOfferStep
<1>3. CASE RecvAck
  BY <1>3, RecvAckStep
<1>4. CASE RecvNothing \/ InUse \/ PingEnd
  BY <1>4, EndingStep
<1>5. CASE NotInUse
  BY <1>5, NotInUseStep
<1>11. CASE SetIp
  BY <1>11, SetIpStep
<1>6. CASE \E ip \in Ips : PingStart(ip)
  BY <1>6, PingStartStep
<1>7. CASE HostFound
  BY <1>7, HostFoundStep
<1>8. CASE Noise
  BY <1>8, NoiseStep
<1>9. CASE \E m \in wire : Deliver(m) \/ Answer(m) \/ Ignored(m) \/ Lose(m)
  BY <1>9, DeliverStep, LanStep
<1>10. CASE UNCHANGED vars
  BY <1>10 DEF vars, NetInv, LanTypes, Messages, Honest, OwnSockets, Probing, Looked
<1> QED BY <1>1, <1>2, <1>3, <1>4, <1>5, <1>6, <1>7, <1>8, <1>9, <1>10, <1>11 DEF Next

\* Every running command has a socket of its own, open and of the right type,
\* whatever sockets earlier commands have left open.
THEOREM NetTypes == Spec => []NetTypeOK
<1>1. NetInv => NetTypeOK
  BY DEF NetInv, LanTypes, OwnSockets, NetTypeOK, Cmds, Addrs
<1> QED BY <1>1, NetInit, NetStep, PTL DEF Spec

-----------------------------------------------------------------------------
(* Which run an acknowledgement belongs to.                                *)

Own(m) == m.kind \in {"request", "ack"} => m.run = used.runs

\* Requests and acknowledgements are those of the running dhclient, unless an
\* older one was under way as it began.
Fresh ==
    (cmd.pc \in {"offer", "ack"} /\ ~cmd.late) =>
      /\ \A m \in wire : Own(m)
      /\ \A i \in 1 .. Len(socks[cmd.fd].rx) : Own(socks[cmd.fd].rx[i])

Acknowledged ==
    cmd.pc \in {"probe", "set"} =>
      \E l \in leased : l[2] = cmd.ip /\ (l[1] = used.runs \/ cmd.late)

RunInv == Fresh /\ Acknowledged

\* A packet that is delivered comes from the link.
LEMMA DeliverRun ==
    ASSUME NetInv, RunInv, NEW m \in wire, Deliver(m)
    PROVE  RunInv'
<1> USE DEF NetInv, RunInv
<1>1. /\ m \in Msgs /\ wire' = wire \ {m} /\ UNCHANGED <<leased, used>>
      /\ cmd \in Cmds /\ used \in Counters
  BY DEF Deliver, udp_layer_deliver, icmp_deliver, arp_recv_packet, Arrives, LanTypes
<1>2. cmd' = cmd \/ (cmd.pc = "probe" /\ cmd' = [cmd EXCEPT !.answered = TRUE])
  BY DEF Deliver, udp_layer_deliver, icmp_deliver, arp_recv_packet
<1>3. cmd'.pc = cmd.pc /\ cmd'.fd = cmd.fd /\ cmd'.ip = cmd.ip /\ cmd'.late = cmd.late
  BY <1>1, <1>2 DEF Cmds
<1>4. Acknowledged'
  BY <1>1, <1>3 DEF Acknowledged
<1>5. \A g \in 1 .. NSocks : socks'[g].rx = socks[g].rx \/ socks'[g].rx = Append(socks[g].rx, m)
  <2>1. /\ udp_search_socket \in SUBSET (1 .. NSocks)
        /\ icmp_search_socket(m.ip) \in SUBSET (1 .. NSocks)
        /\ arp_search_socket(m.ip) \in SUBSET (1 .. NSocks)
    BY DEF udp_search_socket, icmp_search_socket, arp_search_socket, OpenFds
  <2>2. CASE UNCHANGED socks
    BY <2>2
  <2>3. CASE \E fs \in SUBSET (1 .. NSocks) : Queue(fs, m)
    BY <1>1, <2>3, QueueFacts
  <2> QED BY <2>1, <2>2, <2>3 DEF Deliver, udp_layer_deliver, icmp_deliver, arp_recv_packet
<1>6. Fresh'
  <2> SUFFICES ASSUME cmd.pc \in {"offer", "ack"}, ~cmd.late
               PROVE  /\ \A n \in wire' : Own(n)
                      /\ \A i \in 1 .. Len(socks'[cmd.fd].rx) : Own(socks'[cmd.fd].rx[i])
    BY <1>1, <1>3 DEF Fresh, Own
  <2>1. \A n \in wire : Own(n)
    BY DEF Fresh
  <2>2. cmd.fd \in 1 .. NSocks /\ socks[cmd.fd].rx \in Seq(Msgs)
    BY DEF LanTypes, Socks
  <2> DEFINE q == socks[cmd.fd].rx
  <2>3. \A i \in 1 .. Len(q) : Own(q[i])
    BY DEF Fresh
  <2>4. /\ Len(Append(q, m)) = Len(q) + 1 /\ Len(q) \in Nat
        /\ \A i \in 1 .. Len(q) : Append(q, m)[i] = q[i]
        /\ Append(q, m)[Len(q) + 1] = m
    BY <1>1, <2>2
  <2>5. \A i \in 1 .. Len(Append(q, m)) : i \in 1 .. Len(q) \/ i = Len(q) + 1
    BY <2>4
  <2>6. Own(m)
    BY <2>1
  <2>7. \A i \in 1 .. Len(Append(q, m)) : Own(Append(q, m)[i])
    <3> TAKE i \in 1 .. Len(Append(q, m))
    <3>1. CASE i \in 1 .. Len(q)
      BY <2>3, <2>4, <3>1
    <3>2. CASE i = Len(q) + 1
      BY <2>4, <2>6, <3>2
    <3> QED BY <2>5, <3>1, <3>2
  <2>8. socks'[cmd.fd].rx = q \/ socks'[cmd.fd].rx = Append(q, m)
    BY <1>5, <2>2
  <2> QED BY <1>1, <2>1, <2>3, <2>7, <2>8
<1> QED BY <1>4, <1>6

\* An answer belongs to the run of the request.
LEMMA LanRun ==
    ASSUME NetInv, RunInv, NEW m \in wire, Answer(m) \/ Ignored(m) \/ Lose(m)
    PROVE  RunInv'
<1> USE DEF NetInv, RunInv
<1>1. m \in Msgs /\ UNCHANGED <<socks, cmd>> /\ leased \subseteq leased' /\ used'.runs = used.runs
  BY DEF Answer, Ignored, Lose, LanTypes, Counters
<1>2. \A n \in wire' : n \in wire \/
        (n.run = m.run /\ (n.kind \in {"request", "ack"} => m.kind = "request"))
  <2> SUFFICES ASSUME NEW n \in wire', n \notin wire
               PROVE  n.run = m.run /\ (n.kind \in {"request", "ack"} => m.kind = "request")
    OBVIOUS
  <2>1. \/ m.kind = "discover" /\ \E ip \in Ips : n = [m EXCEPT !.kind = "offer", !.ip = ip]
        \/ m.kind = "request" /\ n = [m EXCEPT !.kind = "ack"]
        \/ n = [m EXCEPT !.kind = "nak"]
        \/ n = [m EXCEPT !.kind = "arp"]
        \/ n = [m EXCEPT !.kind = "echo"]
    BY DEF Answer, Ignored, Lose
  <2> QED BY <1>1, <2>1 DEF Msgs
<1>3. Acknowledged'
  BY <1>1 DEF Acknowledged
<1>4. Fresh'
  BY <1>1, <1>2 DEF Fresh, Own
<1> QED BY <1>3, <1>4

LEMMA DhcpStartRun ==
    ASSUME NetInv, RunInv, DhcpStart
    PROVE  RunInv'
<1> USE DEF NetInv, RunInv
<1>1. PICK fd \in FreeFds, s \in Sockets("dgram"), inet \in BOOLEAN :
        IF inet
        THEN /\ socks' = bind([socks EXCEPT ![fd] = s], fd, 68)
             /\ wire' = wire \cup {Msg("discover", NoIp)}
             /\ cmd' = [Idle EXCEPT !.pc = "offer", !.fd = fd,
                                    !.late = \E m \in wire : m.kind \in {"request", "ack"}]
        ELSE socks' = sk_close([socks EXCEPT ![fd] = s], fd) /\ UNCHANGED <<wire, cmd>>
  BY DEF DhcpStart
<1>2. CASE ~inet
  BY <1>1, <1>2 DEF DhcpStart, Fresh, Acknowledged
<1>3. CASE inet
  <2> DEFINE b == \E m \in wire : m.kind \in {"request", "ack"}
  <2>1. cmd'.pc = "offer" /\ cmd'.fd = fd /\ cmd'.late = b
    BY <1>1, <1>3 DEF Idle
  <2>2. fd \in 1 .. NSocks /\ s \in Socks /\ s.rx = <<>> /\ socks \in [1 .. NSocks -> Socks]
    BY FreeFacts, NewSockFacts DEF LanTypes
  <2>3. socks'[fd] = [s EXCEPT !.port = 68]
    BY <1>1, <1>3, <2>2 DEF bind
  <2>4. socks'[fd].rx = <<>>
    BY <2>2, <2>3, PortFacts
  <2>5. wire' = wire \cup {Msg("discover", NoIp)} /\ Msg("discover", NoIp).kind = "discover"
    BY <1>1, <1>3 DEF Msg
  <2>6. ~b => \A m \in wire' : Own(m)'
    BY <2>5 DEF Own
  <2>7. \A i \in 1 .. Len(socks'[fd].rx) : FALSE
    BY <2>4
  <2> HIDE DEF b
  <2> QED BY <2>1, <2>6, <2>7 DEF Fresh, Acknowledged
<1> QED BY <1>2, <1>3

\* recvfrom() takes one of the answers and leaves the others.
LEMMA TakenOwn ==
    ASSUME NetInv, RunInv, cmd.pc \in {"offer", "ack"}, ~cmd.late, socks[cmd.fd].rx # <<>>
    PROVE  /\ Own(Head(socks[cmd.fd].rx))
           /\ \A i \in 1 .. Len(Taken[cmd.fd].rx) : Own(Taken[cmd.fd].rx[i])
<1> DEFINE f == cmd.fd
           q == socks[f].rx
<1>1. f \in 1 .. NSocks /\ socks \in [1 .. NSocks -> Socks] /\ socks[f] \in Socks /\ q \in Seq(Msgs)
  BY DEF NetInv, LanTypes, Socks
<1>2. /\ Tail(q) \in Seq(Msgs) /\ Len(Tail(q)) = Len(q) - 1 /\ Len(q) \in Nat \ {0}
      /\ \A i \in 1 .. Len(Tail(q)) : Tail(q)[i] = q[i + 1]
      /\ Head(q) = q[1]
  BY <1>1
<1>3. Taken[f].rx = Tail(q)
  BY <1>1 DEF Taken, Socks
<1>4. \A i \in 1 .. Len(q) : Own(q[i])
  BY DEF RunInv, Fresh
<1>5. 1 \in 1 .. Len(q) /\ \A i \in 1 .. Len(Tail(q)) : i + 1 \in 1 .. Len(q)
  BY <1>2
<1> QED BY <1>2, <1>3, <1>4, <1>5

LEMMA TakeRun ==
    ASSUME NetInv, RunInv, cmd.pc \in {"offer", "ack"}, socks[cmd.fd].rx # <<>>,
           socks' = Taken, cmd'.pc \in {"offer", "ack"}, cmd'.fd = cmd.fd, cmd'.late = cmd.late,
           \A m \in wire' : m \in wire \/ m.run = used.runs, UNCHANGED <<leased, used>>
    PROVE  RunInv'
<1>1. Acknowledged'
  BY DEF Acknowledged
<1>2. CASE cmd.late
  BY <1>1, <1>2 DEF RunInv, Fresh
<1>3. CASE ~cmd.late
  <2>1. \A i \in 1 .. Len(Taken[cmd.fd].rx) : Own(Taken[cmd.fd].rx[i])
    BY <1>3, TakenOwn
  <2>2. \A m \in wire' : Own(m)
    BY <1>3 DEF RunInv, Fresh, Own
  <2> QED BY <1>1, <2>1, <2>2 DEF RunInv, Fresh, Own
<1> QED BY <1>2, <1>3

LEMMA EndRun ==
    ASSUME cmd'.pc \in {"idle", "host", "reply"}
    PROVE  RunInv'
BY DEF RunInv, Fresh, Acknowledged

LEMMA OtherRun ==
    ASSUME NetInv, RunInv, cmd.pc \in {"offer", "ack"}, socks[cmd.fd].rx # <<>>, Other,
           UNCHANGED <<wire, leased, used>>
    PROVE  RunInv'
<1>1. CASE GiveUp(Taken)
  BY <1>1, IdleFacts, EndRun DEF GiveUp
<1>2. CASE socks' = Taken /\ cmd' = [cmd EXCEPT !.i = @ + 1]
  <2>1. cmd \in Cmds
    BY DEF NetInv, LanTypes
  <2>2. cmd'.pc = cmd.pc /\ cmd'.fd = cmd.fd /\ cmd'.late = cmd.late
    BY <1>2, <2>1 DEF Cmds
  <2> QED BY <1>2, <2>2, TakeRun
<1> QED BY <1>1, <1>2 DEF Other

LEMMA RecvOfferRun ==
    ASSUME NetInv, RunInv, RecvOffer
    PROVE  RunInv'
<1>1. cmd.pc = "offer" /\ UNCHANGED <<leased, used>> /\ cmd \in Cmds
  BY DEF RecvOffer, NetInv, LanTypes
<1>2. PICK m \in {Head(s.rx) : s \in {t \in {socks[cmd.fd]} : t.rx # <<>>}} :
         IF m.kind = "offer"
         THEN /\ socks' = Taken
              /\ wire' = wire \cup {Msg("request", m.ip)}
              /\ cmd' = [cmd EXCEPT !.pc = "ack", !.i = 0]
         ELSE Other /\ UNCHANGED wire
  BY DEF RecvOffer
<1>3. socks[cmd.fd].rx # <<>>
  BY <1>2
<1>4. CASE m.kind = "offer"
  <2>1. cmd'.pc = "ack" /\ cmd'.fd = cmd.fd /\ cmd'.late = cmd.late
    BY <1>1, <1>2, <1>4 DEF Cmds
  <2>2. \A n \in wire' : n \in wire \/ n.run = used.runs
    BY <1>2, <1>4 DEF Msg
  <2> QED BY <1>1, <1>2, <1>3, <1>4, <2>1, <2>2, TakeRun
<1>5. CASE m.kind # "offer"
  BY <1>1, <1>2, <1>3, <1>5, OtherRun
<1> QED BY <1>4, <1>5

\* The acknowledgement that is taken is one of this run, or an older one was
\* under way.
LEMMA RecvAckRun ==
    ASSUME NetInv, RunInv, RecvAck
    PROVE  RunInv'
<1>1. cmd.pc = "ack" /\ UNCHANGED <<leased, used>> /\ cmd \in Cmds /\ cmd.fd \in 1 .. NSocks
  BY DEF RecvAck, NetInv, LanTypes
<1>2. PICK m \in {Head(s.rx) : s \in {t \in {socks[cmd.fd]} : t.rx # <<>>}} :
         IF IsAck(m) THEN check_ip_is_user(m.ip) ELSE Other /\ UNCHANGED wire
  BY DEF RecvAck
<1>3. socks[cmd.fd].rx # <<>> /\ m = Head(socks[cmd.fd].rx)
  BY <1>2
<1>4. CASE ~IsAck(m)
  BY <1>1, <1>2, <1>3, <1>4, OtherRun
<1>5. CASE IsAck(m) /\ cmd' = Idle
  BY <1>5, IdleFacts, EndRun
<1>6. CASE IsAck(m) /\ \E pfd \in FreeFds :
             cmd' = [cmd EXCEPT !.pc = "probe", !.pfd = pfd, !.ip = m.ip,
                                !.answered = FALSE, !.blind = Blind(m.ip, pfd)]
  <2>1. cmd'.pc = "probe" /\ cmd'.ip = m.ip /\ cmd'.late = cmd.late
    BY <1>1, <1>6 DEF Cmds
  <2>2. m.kind = "ack" /\ Honest(m)
    BY <1>1, <1>3, <1>6, TakenFacts DEF IsAck, NetInv
  <2>3. <<m.run, m.ip>> \in leased
    BY <2>2 DEF Honest
  <2>4. m.run = used.runs \/ cmd.late
    <3>1. CASE ~cmd.late
      BY <1>1, <1>3, <2>2, <3>1, TakenOwn DEF Own
    <3> QED BY <3>1
  <2>5. Acknowledged'
    BY <1>1, <2>1, <2>3, <2>4 DEF Acknowledged
  <2>6. Fresh'
    BY <2>1 DEF Fresh
  <2> QED BY <2>5, <2>6 DEF RunInv
<1> QED BY <1>2, <1>4, <1>5, <1>6 DEF check_ip_is_user, GiveUp

LEMMA RunStep == NetInv /\ RunInv /\ [Next]_vars => RunInv'
<1> SUFFICES ASSUME NetInv, RunInv, [Next]_vars PROVE RunInv'
  OBVIOUS
<1>0. cmd \in Cmds
  BY DEF NetInv, LanTypes
<1>1. CASE DhcpStart
  BY <1>1, DhcpStartRun
<1>2. CASE RecvOffer
  BY <1>2, RecvOfferRun
<1>3. CASE RecvAck
  BY <1>3, RecvAckRun
<1>4. CASE RecvNothing \/ InUse \/ SetIp \/ PingEnd
  <2>1. cmd'.pc = "idle"
    BY <1>4, IdleFacts DEF RecvNothing, InUse, SetIp, PingEnd, GiveUp
  <2> QED BY <2>1, EndRun
<1>5. CASE NotInUse
  <2>1. cmd.pc = "probe" /\ cmd'.pc = "set" /\ cmd'.ip = cmd.ip /\ cmd'.late = cmd.late
    BY <1>0, <1>5 DEF NotInUse, Cmds
  <2> QED BY <1>5, <2>1 DEF NotInUse, RunInv, Fresh, Acknowledged
<1>6. CASE \E ip \in Ips : PingStart(ip)
  <2>1. cmd'.pc \in {"host", "reply"}
    BY <1>6 DEF PingStart, Idle
  <2> QED BY <2>1, EndRun
<1>7. CASE HostFound
  <2>1. cmd'.pc = "reply"
    BY <1>0, <1>7 DEF HostFound, Cmds
  <2> QED BY <2>1, EndRun
<1>8. CASE Noise
  <2>1. UNCHANGED <<socks, cmd, leased>> /\ used'.runs = used.runs
    BY <1>8 DEF Noise, NetInv, LanTypes, Counters
  <2>2. \A m \in wire' : m \in wire \/ m.kind = "noise"
    BY <1>8 DEF Noise
  <2> QED BY <2>1, <2>2 DEF RunInv, Fresh, Acknowledged, Own
<1>9. CASE \E m \in wire : Deliver(m) \/ Answer(m) \/ Ignored(m) \/ Lose(m)
  BY <1>9, DeliverRun, LanRun
<1>10. CASE UNCHANGED vars
  BY <1>10 DEF vars, RunInv, Fresh, Acknowledged, Own
<1> QED BY <1>1, <1>2, <1>3, <1>4, <1>5, <1>6, <1>7, <1>8, <1>9, <1>10 DEF Next

\* The address that dhclient goes to set was acknowledged in answer to this
\* run, or a request of an earlier one was under way as it began; and nobody
\* had claimed it before the last look at a socket that gets the claim: for
\* every number of sockets, hosts, commands, lost packets, refusals and foreign
\* answers.
THEOREM NetAddressSafe == Spec => []AddressSafe
<1>1. NetInv /\ RunInv => AddressSafe
  BY DEF NetInv, RunInv, Looked, Acknowledged, AddressSafe
<1>2. Init => RunInv
  BY IdleFacts DEF Init, RunInv, Fresh, Acknowledged
<1> QED BY <1>1, <1>2, NetInit, NetStep, RunStep, PTL DEF Spec
=============================================================================
