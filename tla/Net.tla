-------------------------------- MODULE Net --------------------------------
(***************************************************************************)
(* Datagram and raw sockets, the host cache of ARP, the DHCP client        *)
(* (command/dhclient.c) and ping (command/ping.c) on a LAN with a DHCP     *)
(* server, other hosts, and a link that loses and delays packets.          *)
(*                                                                         *)
(* One command runs at a time; packets are delivered (netif_rx()) between  *)
(* any two of its steps.  Of a message only its kind, the address that it  *)
(* is about and the command that caused it are kept: the transaction id    *)
(* is the same in every run of dhclient (srandom(__LINE__)).               *)
(***************************************************************************)
EXTENDS Integers, Sequences, FiniteSets, FiniteSetsExt

CONSTANTS
    Ips,         \* addresses that the server may offer
    Hosts,       \* those of them that another host uses
    NSocks,      \* MAX_SOCK_NUM - 1: descriptors 1..NSocks
    MaxLeft,     \* bound: sockets that earlier commands have left open
    MaxRuns,     \* bound: commands started
    MaxLost,     \* bound: packets the link loses
    MaxNoise,    \* bound: DHCP answers to other clients
    MaxNak       \* bound: requests that the server refuses

NoIp == 0

ASSUME NetAssumption ==
    /\ IsFiniteSet(Ips) /\ NoIp \notin Ips /\ Hosts \subseteq Ips
    /\ NSocks \in Nat \ {0} /\ MaxLeft \in 0..NSocks /\ MaxRuns \in Nat
    /\ MaxLost \in Nat /\ MaxNoise \in Nat /\ MaxNak \in Nat

VARIABLES
    socks,   \* g_sock_fds
    hosts,   \* g_host_list: the addresses in it
    myip,    \* ndev->ip, as far as dhclient has set it
    wire,    \* packets on their way
    cmd,     \* the running command: where it is, and its variables
    leased,  \* what the server has acknowledged: in answer to which command,
             \* and which address
    used     \* counters for the bounds

vars == <<socks, hosts, myip, wire, cmd, leased, used>>

NoSock == [type |-> "none", port |-> 0, dst |-> NoIp, rx |-> <<>>,
           closes |-> TRUE, timed |-> FALSE]

\* No command runs.  The last three fields are not in the code, they are for
\* the properties: `late', a request of an earlier command or its answer was
\* still under way when this one began; `answered', the probed address was claimed before the last
\* look; `blind', such an answer does not come to the socket of the probe.
Idle == [pc |-> "idle", fd |-> 0, pfd |-> 0, i |-> 0, ip |-> NoIp,
         late |-> FALSE, answered |-> FALSE, blind |-> FALSE]

Msg(kind, ip) == [kind |-> kind, ip |-> ip, run |-> used.runs]
ToBoard == {"offer", "ack", "nak", "noise", "arp", "echo"}

\* A stream socket whose sk_close() has failed in an earlier command.
LeftOpen == [NoSock EXCEPT !.type = "stream", !.closes = FALSE]

Init ==
    /\ \E n \in 0..MaxLeft :
         socks = [f \in 1..NSocks |-> IF f <= n THEN LeftOpen ELSE NoSock]
    /\ hosts = {} /\ myip = NoIp /\ wire = {} /\ cmd = Idle /\ leased = {}
    /\ used = [runs |-> 0, lost |-> 0, noise |-> 0, nak |-> 0]

-----------------------------------------------------------------------------
(* Sockets *)

\* A mutant of FreeFds: whether the descriptor is taken is not looked at.
MutantFreeFds == {1}

\* The descriptor that socket() takes.
FreeFds == {f \in 1..NSocks :
              socks[f] = NoSock /\ \A g \in 1..(f - 1) : socks[g] # NoSock}

\* socket(): of a datagram or raw socket neither the state nor obstruct_flags
\* is set.  `closes': that sk_close() will find a state that lets it release
\* the socket; `timed': that recvfrom() will give up.  A
\* probe asks for neither.
Sockets(type) ==
    LET unset == IF type = "eth" THEN {FALSE} ELSE BOOLEAN
    IN  [type : {type}, port : {0}, dst : {NoIp}, rx : {<<>>},
         closes : unset, timed : unset]

\* bind() to a port, and what sendto() leaves in the socket.
bind(s, f, port) == [s EXCEPT ![f].port = port]
sendto(s, f, ip) == [s EXCEPT ![f].dst = ip]

qu_is_empty(f) == socks[f].rx = <<>>

\* sk_close(): with any other state the socket stays, with its address.
sk_close(s, f) == IF s[f].closes THEN [s EXCEPT ![f] = NoSock] ELSE s

\* The open sockets, and the first one of those a search function accepts.
OpenFds == {f \in 1..NSocks : socks[f] # NoSock}
First(fs, f) == f \in fs /\ \A g \in fs : f <= g

\* A mutant of udp_search_socket: the ports of the two ends are swapped.
mutant_udp_search_socket ==
    {f \in OpenFds : socks[f].type = "dgram" /\ socks[f].port = 67}

udp_search_socket ==
    {f \in OpenFds : socks[f].type = "dgram" /\ socks[f].port = 68}
icmp_search_socket(ip) ==
    {f \in OpenFds : socks[f].type \in {"icmp", "eth"} /\ socks[f].dst = ip}
arp_search_socket(ip) ==
    {f \in OpenFds : socks[f].type = "eth" /\ socks[f].dst = ip}

\* Without a socket for it a packet is dropped.
Queue(fs, m) ==
    \/ fs = {} /\ UNCHANGED socks
    \/ \E f \in fs : First(fs, f) /\ socks' = [socks EXCEPT ![f].rx = Append(@, m)]

-----------------------------------------------------------------------------
(* netif_rx() *)

Arrives(m) == m \in wire /\ m.kind \in ToBoard /\ wire' = wire \ {m}

udp_layer_deliver(m) ==
    /\ Arrives(m) /\ m.kind \in {"offer", "ack", "nak", "noise"}
    /\ Queue(udp_search_socket, m)
    /\ UNCHANGED <<hosts, myip, cmd, leased, used>>

icmp_deliver(m) ==
    /\ Arrives(m) /\ m.kind = "echo"
    /\ Queue(icmp_search_socket(m.ip), m)
    /\ UNCHANGED <<hosts, myip, cmd, leased, used>>

\* A reply from a host in the cache goes no further.
arp_recv_packet(m) ==
    /\ Arrives(m) /\ m.kind = "arp"
    /\ hosts' = hosts \cup {m.ip}
    /\ IF m.ip \in hosts THEN UNCHANGED socks ELSE Queue(arp_search_socket(m.ip), m)
    /\ cmd' = IF cmd.pc = "probe" /\ m.ip = cmd.ip
              THEN [cmd EXCEPT !.answered = TRUE] ELSE cmd
    /\ UNCHANGED <<myip, leased, used>>

-----------------------------------------------------------------------------
(* dhclient *)

\* Socket, bind() with a sin_family that nobody set, DHCPDISCOVER.
DhcpStart ==
    /\ cmd.pc = "idle" /\ used.runs < MaxRuns
    /\ \E fd \in FreeFds, s \in Sockets("dgram"), inet \in BOOLEAN :
         LET opened == [socks EXCEPT ![fd] = s]
         IN  IF inet
             THEN /\ socks' = bind(opened, fd, 68)
                  /\ wire' = wire \cup {Msg("discover", NoIp)}
                  /\ cmd' = [Idle EXCEPT !.pc = "offer", !.fd = fd,
                                         !.late = \E m \in wire : m.kind \in {"request", "ack"}]
             ELSE socks' = sk_close(opened, fd) /\ UNCHANGED <<wire, cmd>>
    /\ used' = [used EXCEPT !.runs = @ + 1]
    /\ UNCHANGED <<hosts, myip, leased>>

\* The label "error": the answers are no longer waited for.
GiveUp(s) == socks' = sk_close(s, cmd.fd) /\ cmd' = Idle

Taken == [socks EXCEPT ![cmd.fd].rx = Tail(@)]

\* An answer that is not the wanted one: two more are looked at.
Other ==
    IF cmd.i = 2 THEN GiveUp(Taken)
    ELSE socks' = Taken /\ cmd' = [cmd EXCEPT !.i = @ + 1]

\* A mutant of IsAck: the acknowledgement is taken for granted.
MutantIsAck(m) == m.kind \in {"ack", "offer"}
IsAck(m) == m.kind = "ack"

\* The loop with j = 0 answers the offer with DHCPREQUEST.
RecvOffer ==
    /\ cmd.pc = "offer"
    /\ \E m \in {Head(s.rx) : s \in {t \in {socks[cmd.fd]} : t.rx # <<>>}} :
         IF m.kind = "offer"
         THEN /\ socks' = Taken
              /\ wire' = wire \cup {Msg("request", m.ip)}
              /\ cmd' = [cmd EXCEPT !.pc = "ack", !.i = 0]
         ELSE Other /\ UNCHANGED wire
    /\ UNCHANGED <<hosts, myip, leased, used>>

\* An answer from ip does not come to the probe's descriptor.
Blind(ip, pfd) == ip \in hosts \/ \E f \in arp_search_socket(ip) : f < pfd

\* The first half of check_ip_is_user(): without a socket or a bound one the
\* address counts as in use.
check_ip_is_user(ip) ==
    \/ /\ FreeFds = {}
       /\ GiveUp(Taken)
       /\ wire' = wire \cup {Msg("decline", ip)}
    \/ \E pfd \in FreeFds, s \in Sockets("eth") :
         \/ /\ GiveUp([Taken EXCEPT ![pfd] = s])
            /\ wire' = wire \cup {Msg("decline", ip)}
         \/ /\ socks' = sendto([Taken EXCEPT ![pfd] = s], pfd, ip)
            /\ wire' = wire \cup {Msg("whohas", ip)}
            /\ cmd' = [cmd EXCEPT !.pc = "probe", !.pfd = pfd, !.ip = ip,
                                  !.answered = FALSE, !.blind = Blind(ip, pfd)]

\* The loop with j = 1.
RecvAck ==
    /\ cmd.pc = "ack"
    /\ \E m \in {Head(s.rx) : s \in {t \in {socks[cmd.fd]} : t.rx # <<>>}} :
         IF IsAck(m) THEN check_ip_is_user(m.ip) ELSE Other /\ UNCHANGED wire
    /\ UNCHANGED <<hosts, myip, leased, used>>

\* recvfrom() ends with nothing: on Ctrl-C, which comes before the queue, or
\* when it has a time and it is over.
RecvNothing ==
    /\ cmd.pc \in {"offer", "ack"}
    /\ GiveUp(socks)
    /\ UNCHANGED <<hosts, myip, wire, leased, used>>

TimeOut == RecvNothing /\ qu_is_empty(cmd.fd) /\ socks[cmd.fd].timed

\* The second half of check_ip_is_user().  It calls close(), not sk_close():
\* its socket stays for good.
InUse ==
    /\ cmd.pc = "probe" /\ ~qu_is_empty(cmd.pfd)
    /\ GiveUp(socks)
    /\ wire' = wire \cup {Msg("decline", cmd.ip)}
    /\ UNCHANGED <<hosts, myip, leased, used>>

\* The third look finds nothing either.
NotInUse ==
    /\ cmd.pc = "probe" /\ qu_is_empty(cmd.pfd)
    /\ cmd' = [cmd EXCEPT !.pc = "set"]
    /\ UNCHANGED <<socks, hosts, myip, wire, leased, used>>

\* The ten seconds after the third look are over: what has come to the socket
\* of the probe meanwhile is not looked at, and the address is set.
SetIp ==
    /\ cmd.pc = "set"
    /\ GiveUp(socks)
    /\ myip' = cmd.ip
    /\ UNCHANGED <<hosts, wire, leased, used>>

-----------------------------------------------------------------------------
(* ping -c 1 *)

\* ip_send_packet(): without the host in the cache gethostaddr() asks first.
PingStart(ip) ==
    /\ cmd.pc = "idle" /\ used.runs < MaxRuns
    /\ \E fd \in FreeFds, s \in Sockets("icmp") :
         /\ socks' = sendto([socks EXCEPT ![fd] = [s EXCEPT !.timed = TRUE]], fd, ip)
         /\ cmd' = [Idle EXCEPT !.fd = fd, !.ip = ip,
                                !.pc = IF ip \in hosts THEN "reply" ELSE "host"]
    /\ wire' = wire \cup {Msg(IF ip \in hosts THEN "request_echo" ELSE "whohas", ip)}
    /\ used' = [used EXCEPT !.runs = @ + 1]
    /\ UNCHANGED <<hosts, myip, leased>>

\* gethostaddr() ends: with the host, or without, and then nothing is sent.
HostFound ==
    /\ cmd.pc = "host"
    /\ cmd' = [cmd EXCEPT !.pc = "reply"]
    /\ wire' = IF cmd.ip \in hosts THEN wire \cup {Msg("request_echo", cmd.ip)} ELSE wire
    /\ UNCHANGED <<socks, hosts, myip, leased, used>>

\* The reply, or Ctrl-C or the end of the time for it.
PingEnd ==
    /\ cmd.pc = "reply"
    /\ GiveUp(socks) \/ (~qu_is_empty(cmd.fd) /\ GiveUp(Taken))
    /\ UNCHANGED <<hosts, myip, wire, leased, used>>

-----------------------------------------------------------------------------
(* The LAN *)

\* The DHCP server and the other hosts.
Answer(m) ==
    /\ m \in wire
    /\ \/ /\ m.kind = "discover"
          /\ \E ip \in Ips : wire' = (wire \ {m}) \cup {[m EXCEPT !.kind = "offer", !.ip = ip]}
          /\ UNCHANGED <<leased, used>>
       \/ /\ m.kind = "request"
          /\ wire' = (wire \ {m}) \cup {[m EXCEPT !.kind = "ack"]}
          /\ leased' = leased \cup {<<m.run, m.ip>>}
          /\ UNCHANGED used
       \/ /\ m.kind = "request" /\ used.nak < MaxNak
          /\ wire' = (wire \ {m}) \cup {[m EXCEPT !.kind = "nak"]}
          /\ used' = [used EXCEPT !.nak = @ + 1]
          /\ UNCHANGED leased
       \/ /\ m.kind \in {"whohas", "request_echo"} /\ m.ip \in Hosts
          /\ wire' = (wire \ {m}) \cup
                {[m EXCEPT !.kind = IF m.kind = "whohas" THEN "arp" ELSE "echo"]}
          /\ UNCHANGED <<leased, used>>
    /\ UNCHANGED <<socks, hosts, myip, cmd>>

\* Nobody takes a packet to an address without a host, or a DHCPDECLINE.
Ignored(m) ==
    /\ m \in wire
    /\ m.kind = "decline" \/ (m.kind \in {"whohas", "request_echo"} /\ m.ip \notin Hosts)
    /\ wire' = wire \ {m}
    /\ UNCHANGED <<socks, hosts, myip, cmd, leased, used>>

Lose(m) ==
    /\ m \in wire /\ used.lost < MaxLost
    /\ wire' = wire \ {m}
    /\ used' = [used EXCEPT !.lost = @ + 1]
    /\ UNCHANGED <<socks, hosts, myip, cmd, leased>>

\* An answer for another client, which also comes to port 68.
Noise ==
    /\ used.noise < MaxNoise
    /\ wire' = wire \cup {[kind |-> "noise", ip |-> NoIp, run |-> 0]}
    /\ used' = [used EXCEPT !.noise = @ + 1]
    /\ UNCHANGED <<socks, hosts, myip, cmd, leased>>

Deliver(m) == udp_layer_deliver(m) \/ icmp_deliver(m) \/ arp_recv_packet(m)

Next ==
    \/ DhcpStart \/ RecvOffer \/ RecvAck \/ RecvNothing \/ InUse \/ NotInUse \/ SetIp
    \/ \E ip \in Ips : PingStart(ip)
    \/ HostFound \/ PingEnd \/ Noise
    \/ \E m \in wire : Deliver(m) \/ Answer(m) \/ Ignored(m) \/ Lose(m)

Spec == Init /\ [][Next]_vars

\* The board takes the packets that arrive and the commands go on, also when
\* their time is over; the server and the hosts answer.  Nobody has to press
\* Ctrl-C.
FairSpec ==
    /\ Spec
    /\ WF_vars(RecvOffer) /\ WF_vars(RecvAck) /\ WF_vars(TimeOut)
    /\ WF_vars(InUse \/ NotInUse) /\ WF_vars(SetIp) /\ WF_vars(HostFound) /\ WF_vars(PingEnd)
    /\ WF_vars(\E m \in wire : Deliver(m)) /\ WF_vars(\E m \in wire : Answer(m))

-----------------------------------------------------------------------------
(* Properties *)

\* The running command has its own socket: it is open, of the right type, and
\* the one of a probe waits for the address in question.
NetTypeOK ==
    /\ myip \in Ips \cup {NoIp} /\ hosts \subseteq Hosts
    /\ cmd.pc \in {"idle", "offer", "ack", "probe", "set", "host", "reply"}
    /\ cmd.pc \in {"offer", "ack", "probe", "set"} =>
         socks[cmd.fd].type = "dgram" /\ socks[cmd.fd].port = 68
    /\ cmd.pc \in {"probe", "set"} =>
         socks[cmd.pfd].type = "eth" /\ socks[cmd.pfd].dst = cmd.ip
    /\ cmd.pc \in {"host", "reply"} =>
         socks[cmd.fd].type = "icmp" /\ socks[cmd.fd].dst = cmd.ip

\* When dhclient goes to set an address, the server has acknowledged it in
\* answer to this very run, whatever refusals, losses and foreign answers came
\* in between.  Only when a request of an earlier run, or its answer, was still
\* under way as this run began may it be the address of that one, for the
\* transaction id is the same.  And no host had claimed the address before the last look,
\* unless that host was in the cache already or an older socket takes its
\* answer.  A claim after the last look is not among the promises: nobody
\* reads it, although ten seconds pass before the address is set.
AddressSafe ==
    cmd.pc = "set" =>
        /\ \E l \in leased : l[2] = cmd.ip /\ (l[1] = used.runs \/ cmd.late)
        /\ cmd.answered => cmd.blind

\* An older socket on port 68, which sk_close() has left open, gets the
\* answers.
Stolen == \E f \in 1..(cmd.fd - 1) : socks[f].type = "dgram" /\ socks[f].port = 68

\* dhclient comes to an end, with or without an address.  There is one
\* exception: recvfrom() was given no time (obstruct_flags is not set), and a
\* packet was lost, the server refused the request or an older socket takes
\* the answers.  Then it waits for ever, for the loop counts answers, not time.
DhcpEnds ==
    cmd.pc = "offer" ~>
        \/ cmd.pc = "idle"
        \/ /\ ~socks[cmd.fd].timed
           /\ used.lost > 0 \/ used.nak > 0 \/ Stolen
=============================================================================
