--------------------------------- MODULE Irq ---------------------------------
(***************************************************************************)
(* Interrupt dispatch: core/irq.c with the controllers of the S3C24x0      *)
(* (s3c24x0_irq.c), of the AT91SAM926x and of the S3C6410, from the        *)
(* exception vector to the service routines, while devices go on to ask.   *)
(*                                                                         *)
(* On the S3C24x0 a device at an external pin asks with a rising edge (as  *)
(* s3c2440_plat.c sets the pins of the network chips): an edge that is     *)
(* forgotten does not come back, because the device keeps its line high    *)
(* until its routine has run.  On the other two boards the devices are     *)
(* those of the chip (timer, EMAC), and their lines are levels.            *)
(* Interrupts stay disabled in the handler, so handlers do not nest.       *)
(***************************************************************************)
EXTENDS Integers, Sequences, FiniteSets

CONSTANTS
    Boards,     \* the boards: a subset of {"s3c24x0", "at91sam926x", "s3c6410"}
    Pins,       \* numbers of external pins with a device, within 4 .. 23
    MaxEvents   \* bound: events at the devices

VARIABLES
    board,
    devs,       \* the devices with a routine in irq_pin_set[irq].dev_list
    want,       \* devices with an event their routine has not seen
    eintpend,   \* EINTPEND: external pins that have had an edge
    srcpnd,     \* SRCPND: lines of the controller that have asked
    masked,     \* lines masked in INTMSK, pins masked in EINTMASK
    todo,       \* ext_pnd of s3c24x0_parse_ext_irq()
    cur,        \* the interrupt number in irq_handle(), None outside
    steps,      \* what its handler still does
    req,        \* req of s3c24x0_ext_ack()
    events,     \* how much of MaxEvents is used up
    swept       \* history: pins whose edge the acknowledgement of another
                \* pin has wiped out

irqvars == <<board, devs, want, eintpend, srcpnd, masked, todo, cur, steps, req, events, swept>>

None == 0
Timer == 1
EINT_4TO7 == 2
EINT_8TO23 == 3
Devices == {Timer} \cup Pins

ParentOf(pin) == IF pin <= 7 THEN EINT_4TO7 ELSE EINT_8TO23
PinsOf(line) == {p \in Pins : ParentOf(p) = line}

\* A line of the controller stays on as long as one of its pins is pending.
Latch(src, pend, mask) ==
    src \cup {l \in {EINT_4TO7, EINT_8TO23} : (pend \cap PinsOf(l)) \ mask # {}}

-----------------------------------------------------------------------------
(* The handlers of core/irq.c, as the order of what they do *)

irq_handle_level == <<"mack", "isr", "umask">>
vectorirq_handle_level == <<"mask", "isr", "ack", "umask">>

\* Mutant: the acknowledgement comes last, as in the handler for levels.
irq_handle_edge_late == <<"isr", "ack">>

irq_handle_edge == <<"ack", "isr">>

\* The handler that the boards' *_interrupt_init() set.
HandlerOf(irq) ==
    CASE board = "s3c24x0" /\ irq \in Devices -> irq_handle_edge
      [] board = "s3c24x0" /\ irq \notin Devices -> <<"parse">>
      [] board = "at91sam926x" -> irq_handle_level
      [] board = "s3c6410" -> vectorirq_handle_level

\* *_interrupt_init(): only the lines of the pins are let through.
Init ==
    /\ board \in Boards
    /\ devs = {} /\ want = {} /\ eintpend = {} /\ srcpnd = {} /\ masked = Devices
    /\ todo = {} /\ cur = None /\ steps = <<>> /\ req = {} /\ events = 0 /\ swept = {}

\* irq_register_isr(), between two interrupts: the routine is entered into the
\* list, then the pin is let through.
irq_register_isr(d) ==
    /\ cur = None /\ d \notin devs
    /\ devs' = devs \cup {d}
    /\ masked' = masked \ {d}
    /\ srcpnd' = Latch(srcpnd, eintpend, masked')
    /\ UNCHANGED <<board, want, eintpend, todo, cur, steps, req, events, swept>>

\* An event at a device.  A pin that is masked, or high already, has no edge.
Event(d) ==
    /\ events < MaxEvents
    /\ d \in devs /\ d \notin want
    /\ want' = want \cup {d}
    /\ events' = events + 1
    /\ eintpend' = IF board = "s3c24x0" /\ d \in Pins THEN eintpend \cup {d} ELSE eintpend
    /\ srcpnd' = IF board = "s3c24x0"
                 THEN Latch(IF d = Timer THEN srcpnd \cup {Timer} ELSE srcpnd, eintpend', masked)
                 ELSE srcpnd
    /\ UNCHANGED <<board, devs, masked, todo, cur, steps, req, swept>>

\* The lines that ask: on two of the boards the devices' own levels.
Asking == (IF board = "s3c24x0" THEN srcpnd ELSE want) \ masked

\* handle_irq of head.S: read_irq_num() and irq_handle().  The order of the
\* lines that ask at the same time is the controller's.
handle_irq ==
    /\ cur = None
    /\ \E irq \in Asking : cur' = irq /\ steps' = HandlerOf(irq)
    /\ UNCHANGED <<board, devs, want, eintpend, srcpnd, masked, todo, req, events, swept>>

\* What a step leaves of the handler: after the last one the next pin of the
\* snapshot, lowest first, is handled, or the interrupt is over.
Continue(rest, pins) ==
    IF rest # <<>> THEN steps' = rest /\ cur' = cur /\ todo' = pins
    ELSE IF pins = {} THEN steps' = <<>> /\ cur' = None /\ todo' = {}
    ELSE LET p == CHOOSE p \in pins : \A q \in pins : p <= q
         IN  steps' = HandlerOf(p) /\ cur' = p /\ todo' = pins \ {p}

Doing(step) == cur # None /\ Head(steps) = step

s3c24x0_parse_ext_irq ==
    /\ Doing("parse")
    /\ Continue(<<>>, eintpend \cap PinsOf(cur))
    /\ UNCHANGED <<board, devs, want, eintpend, srcpnd, masked, req, events, swept>>

\* s3c24x0_irq_ack(): SRCPND and INTPND.
s3c24x0_irq_ack ==
    /\ Doing("ack") /\ board = "s3c24x0" /\ cur = Timer
    /\ srcpnd' = srcpnd \ {Timer}
    /\ Continue(Tail(steps), todo)
    /\ UNCHANGED <<board, devs, want, eintpend, masked, req, events, swept>>

\* s3c24x0_ext_ack() reads EINTPEND ...
ExtAckRead ==
    /\ Doing("ack") /\ board = "s3c24x0" /\ cur \in Pins
    /\ req' = eintpend
    /\ steps' = <<"clear">> \o Tail(steps)
    /\ UNCHANGED <<board, devs, want, eintpend, srcpnd, masked, todo, cur, events, swept>>

\* ... and writes all of it back, which clears the bits of every pin it has
\* read; the line of the controller is acknowledged if one of its pins was on.
s3c24x0_ext_ack ==
    /\ Doing("clear")
    /\ eintpend' = eintpend \ req
    /\ LET left == IF req \cap PinsOf(ParentOf(cur)) # {} THEN srcpnd \ {ParentOf(cur)} ELSE srcpnd
       IN  srcpnd' = Latch(left, eintpend', masked)
    /\ swept' = swept \cup ((req \ {cur}) \ todo)
    /\ req' = {}
    /\ Continue(Tail(steps), todo)
    /\ UNCHANGED <<board, devs, want, masked, events>>

\* The acknowledgement of a level does nothing to it.
AckLevel ==
    /\ Doing("ack") /\ board = "s3c6410"
    /\ Continue(Tail(steps), todo)
    /\ UNCHANGED <<board, devs, want, eintpend, srcpnd, masked, req, events, swept>>

MaskLine ==
    /\ Doing("mask") \/ Doing("mack")
    /\ masked' = masked \cup {cur}
    /\ Continue(Tail(steps), todo)
    /\ UNCHANGED <<board, devs, want, eintpend, srcpnd, req, events, swept>>

UnmaskLine ==
    /\ Doing("umask")
    /\ masked' = masked \ {cur}
    /\ Continue(Tail(steps), todo)
    /\ UNCHANGED <<board, devs, want, eintpend, srcpnd, req, events, swept>>

\* handle_dev_irq_list(): the routine takes all that the device has.
handle_dev_irq_list ==
    /\ Doing("isr")
    /\ want' = want \ {cur}
    /\ Continue(Tail(steps), todo)
    /\ UNCHANGED <<board, devs, eintpend, srcpnd, masked, req, events, swept>>

Cpu ==
    \/ handle_irq \/ s3c24x0_parse_ext_irq \/ s3c24x0_irq_ack \/ ExtAckRead \/ s3c24x0_ext_ack
    \/ AckLevel \/ MaskLine \/ UnmaskLine \/ handle_dev_irq_list

Next == (\E d \in Devices : irq_register_isr(d) \/ Event(d)) \/ Cpu

\* The processor goes on.
FairSpec == Init /\ [][Next]_irqvars /\ WF_irqvars(Cpu)

-----------------------------------------------------------------------------
(* Property *)

\* Every event at a device is served, whatever else asks meanwhile, as long as
\* no acknowledgement has wiped out the edge of another pin (after which that
\* pin is silent, and its line may ask for ever with nothing to handle).
Served == \A d \in Devices : (d \in want) ~> (d \notin want \/ swept # {})
=============================================================================
