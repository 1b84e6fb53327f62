------------------------------ MODULE MCTcpIrq ------------------------------
(***************************************************************************)
(* The interrupts and what they bring, for TLC: a behaviour is either one  *)
(* of a connection (TcpSocket), or one of the interrupts of network chips  *)
(* and the timer on their way to the routines (Irq), while the other half  *)
(* stands still.                                                           *)
(***************************************************************************)
EXTENDS TcpSocket

CONSTANTS Boards, Pins, MaxEvents

VARIABLES half, board, devs, want, eintpend, srcpnd, masked, todo, cur, steps, req, events, swept

I == INSTANCE Irq

ivars == <<board, devs, want, eintpend, srcpnd, masked, todo, cur, steps, req, events, swept>>
allvars == <<half, vars, ivars>>

HalfInit ==
    /\ half \in {"tcp", "irq"}
    /\ Init /\ I!Init
    /\ half = "tcp" => board = "s3c24x0"
    /\ half = "irq" => irq

TcpStep(A) == half = "tcp" /\ A /\ UNCHANGED <<half, ivars>>
IrqStep(A) == half = "irq" /\ A /\ UNCHANGED <<half, vars>>

HalfNext == TcpStep(Next) \/ IrqStep(I!Next)

\* The fairness of TcpSocket and of Irq.
HalfSpec ==
    /\ HalfInit /\ [][HalfNext]_allvars
    /\ WF_allvars(TcpStep(InCall))
    /\ WF_allvars(TcpStep(Deliver)) /\ WF_allvars(TcpStep(ArpReply))
    /\ WF_allvars(TcpStep(PeerRecv)) /\ WF_allvars(TcpStep(PeerRetransmit))
    /\ WF_allvars(TcpStep(peer.st = "CLOSE_WAIT" /\ PeerFin))
    /\ WF_allvars(IrqStep(I!Cpu))

\* Every event at a device is served, unless the acknowledgement of another pin
\* has wiped out its edge.
Served == I!Served
=============================================================================
