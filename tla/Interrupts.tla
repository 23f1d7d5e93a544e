----------------------------- MODULE Interrupts ----------------------------
(***************************************************************************)
(* The interrupt controllers, their driver sys/pic.rs and the table of     *)
(* handlers in sys/idt.rs, from boot on.  The master has the lines 0 to 7, *)
(* of which 2 is the slave's, the slave 8 to 15.                           *)
(*                                                                         *)
(* The gates are interrupt gates: a handler runs with interrupts off and   *)
(* none is interrupted by another.  `mask` and `unmask` read the mask and  *)
(* write it with interrupts on, but no handler changes it in between.      *)
(***************************************************************************)
EXTENDS Integers, Sequences, FiniteSetsExt

CONSTANT Devices  \* Lines with a device, of those that drivers are for

Irqs == 0 .. 15

PIT_IRQ == 0
KBD_IRQ == 1
PIC_IRQ == 2
COM_IRQ == 4
SND_IRQ == 5
RTC_IRQ == 8
PIC_OFFSET == 32

(* The keyboard's handler is set whatever is there (keyboard.rs 394).        *)
ASSUME InterruptsAssumption ==
  /\ Devices \subseteq {PIT_IRQ, KBD_IRQ, COM_IRQ, SND_IRQ, RTC_IRQ}
  /\ KBD_IRQ \in Devices

VARIABLES
  boot,        \* How far sys init is
  enabled,     \* The processor takes interrupts
  offset,      \* The vector of the master's first line
  imr,         \* Masked lines
  requests,    \* Lines that ask for service
  service,     \* Lines in service, by the controllers
  handlers,    \* Lines with a handler of their own in IRQ_HANDLERS
  vectored,    \* The vector the processor is at, or NoVector
  asked        \* Lines that asked since the controllers were last at rest

irqVars == <<boot, enabled, offset, imr, requests, service, handlers, vectored, asked>>

NoVector == -1

BiosOffset == 8

InterruptsInit ==
  /\ boot = 1 /\ enabled = FALSE
  /\ offset = BiosOffset /\ imr \in {{}, Irqs} /\ requests \in SUBSET (Devices \cap {PIT_IRQ, KBD_IRQ})
  /\ service = {} /\ handlers = {}
  /\ vectored = NoVector /\ asked = requests

-----------------------------------------------------------------------------
(* pic.rs *)

vector(irq) == PIC_OFFSET + irq

unmask(irq) == imr' = imr \ {irq}
mask(irq) == imr' = imr \cup {irq}

(* The end of interrupt of one controller, that of its first line in service. *)
Ended(lines) == IF lines = {} THEN {} ELSE lines \ {Min(lines)}
Master == {i \in service : i < 8}
Slave == service \ Master

(* Mutant: the master is not told of the slave's lines. *)
eoi_one(irq) == service' = IF irq >= 8 THEN Master \cup Ended(Slave) ELSE Ended(Master) \cup Slave

eoi(irq) == service' = Ended(Master) \cup (IF irq >= 8 THEN Ended(Slave) ELSE Slave)

(* remap clears the masks, which init sets again but for the slave's line;   *)
(* the controllers forget what was asked of them before.                     *)
pic_init ==
  /\ offset' = PIC_OFFSET /\ imr' = Irqs \ {PIC_IRQ} /\ service' = {} /\ requests' = {}
  /\ UNCHANGED <<enabled, handlers>>

-----------------------------------------------------------------------------
(* idt.rs *)

(* set_irq_handler, with interrupts off, by the driver that finds its device *)
set_irq_handler(irq) ==
  /\ irq \in Devices
  /\ handlers' = handlers \cup {irq}
  /\ unmask(irq)
  /\ UNCHANGED <<enabled, offset, requests, service>>

EnableInterrupts == enabled' = TRUE /\ UNCHANGED <<offset, imr, requests, service, handlers>>

(* The drivers in the order of lib.rs.  mem::init keeps the keyboard off     *)
(* while there is no heap.                                                   *)
MemBegins == mask(KBD_IRQ) /\ UNCHANGED <<enabled, offset, requests, service, handlers>>
MemEnds == unmask(KBD_IRQ) /\ UNCHANGED <<enabled, offset, requests, service, handlers>>

Absent(irq) == irq \notin Devices /\ UNCHANGED <<enabled, offset, imr, requests, service, handlers>>

DriverInit(irq) == set_irq_handler(irq) \/ Absent(irq)

Booted == 10

Boot ==
  /\ boot < Booted /\ vectored = NoVector
  /\ boot' = boot + 1
  /\ \/ boot = 1 /\ pic_init
     \/ boot = 2 /\ EnableInterrupts
     \/ boot = 3 /\ DriverInit(COM_IRQ)
     \/ boot = 4 /\ DriverInit(KBD_IRQ)
     \/ boot = 5 /\ DriverInit(PIT_IRQ)
     \/ boot = 6 /\ DriverInit(RTC_IRQ)
     \/ boot = 7 /\ MemBegins
     \/ boot = 8 /\ MemEnds
     \/ boot = 9 /\ DriverInit(SND_IRQ)
  /\ UNCHANGED <<vectored, asked>>

-----------------------------------------------------------------------------
(* The hardware.  Handlers are short and devices slow: none asks a second    *)
(* time before the controllers were at rest.                                 *)

AtRest == requests \subseteq imr /\ vectored = NoVector

Asks(i) ==
  /\ AtRest \/ i \notin asked
  /\ asked' = (IF AtRest THEN {} ELSE asked) \cup {i}

Raise ==
  \E i \in Devices :
     /\ i \notin requests /\ Asks(i)
     /\ requests' = requests \cup {i}
     /\ UNCHANGED <<boot, enabled, offset, imr, service, handlers, vectored>>

Line(i) == IF i < 8 THEN i ELSE PIC_IRQ

(* Neither masked nor behind a line in service, on either controller *)
Passes(i) ==
  /\ i \notin imr /\ Line(i) \notin imr
  /\ \A j \in Master : Line(i) < j
  /\ i >= 8 => \A j \in Slave : i < j

MostUrgent(i) ==
  \A j \in requests : Passes(j) => Line(i) < Line(j) \/ (Line(i) = Line(j) /\ i <= j)

Acknowledge(i) ==
  /\ enabled /\ vectored = NoVector
  /\ i \in requests /\ Passes(i) /\ MostUrgent(i)
  /\ requests' = requests \ {i}
  /\ service' = service \cup {i, Line(i)}
  /\ vectored' = offset + i
  /\ UNCHANGED <<boot, enabled, offset, imr, handlers, asked>>

(* A request that is gone when the processor asks for its vector: it gets    *)
(* the last line's, which is not put in service.                             *)
Spurious ==
  /\ enabled /\ vectored = NoVector
  /\ \E i \in {7, 15} :
       /\ Asks(i)
       /\ \A j \in Master : Line(i) < j
       /\ i = 15 => PIC_IRQ \notin imr
       /\ service' = service \cup ({Line(i)} \ {7})
       /\ vectored' = offset + i
  /\ UNCHANGED <<boot, enabled, offset, imr, requests, handlers>>

(* irq_handler!, by the entry of the table that the vector selects.          *)
irq_handler ==
  /\ vectored # NoVector
  /\ \E irq \in Irqs : vectored = vector(irq) /\ eoi(irq)
  /\ vectored' = NoVector
  /\ UNCHANGED <<boot, enabled, offset, imr, requests, handlers, asked>>

Processor == irq_handler \/ \E i \in Irqs : Acknowledge(i)

InterruptsNext == Boot \/ Raise \/ Spurious \/ Processor

(* The processor runs. *)
InterruptsFairness == WF_irqVars(Processor)

InterruptsSpec == InterruptsInit /\ [][InterruptsNext]_irqVars /\ InterruptsFairness

-----------------------------------------------------------------------------
(* No interrupt is lost or left hanging, from the first one that is allowed  *)
(* on: the processor is at a vector of the table of the lines, and when it   *)
(* is at none of them no line is in service at either controller, which      *)
(* would keep those behind it waiting.                                       *)
NoneHangs ==
  IF vectored = NoVector THEN service = {} ELSE \E i \in Irqs : vectored = vector(i)

(* A line that is open is a line whose driver is there, so that              *)
(* default_handler runs for spurious ones only.                              *)
OpenIsHandled == enabled => Irqs \ imr \subseteq handlers \cup {PIC_IRQ}

(* A request to a driver is answered once the machine is up, one that was    *)
(* made while boot had the line masked included, on either controller.       *)
EachAnswered ==
  \A i \in Devices : (boot = Booted /\ i \in requests) ~> (i \notin requests)

InterruptsServed == [](NoneHangs /\ OpenIsHandled) /\ EachAnswered
=============================================================================
