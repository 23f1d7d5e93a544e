----------------------------- MODULE MCBootNet -----------------------------
(* What is worked out at boot or when a disk is formatted, the frame         *)
(* allocator that is the outcome of it, the interrupt controllers, the       *)
(* cards' rings, each direction on its own, and the sockets above the        *)
(* protocol stack, which is external.                                        *)
(* They share no state, so each is walked on its own while the others rest:  *)
(* `part` says which.                                                        *)
(*                                                                           *)
(* Six frames are enough for a hint with holes on both sides of it.          *)
(* Memory maps: pages of two bytes and two frames to a byte of the bitmap,   *)
(* which is a page or more from four frames on; three regions one after the  *)
(* other, with and without a hole, at addresses that are not aligned.        *)
(* Disks: four bits to a bitmap block, as many reserved blocks as the code   *)
(* has (those of two bitmap blocks and two more), and every size of up to    *)
(* eleven bitmap blocks, the ones too small for the reserved blocks, where   *)
(* the subtraction wraps, included.                                          *)
EXTENDS Frames, FrameMap, SuperBlock, Calendar, Nic, Sockets, Interrupts

CONSTANT Bounds  \* Where a region of memory may begin or end

VARIABLE part

vars == <<part, framesVars, frameMapVars, dataAreaVars, calendarVars, nicVars, socketVars, irqVars>>

Regions ==
  {[addr |-> at[1], size |-> at[2] - at[1], usable |-> u] :
     at \in {range \in Bounds \X Bounds : range[1] < range[2]}, u \in BOOLEAN}

SortedMaps ==
  {m \in [1 .. 3 -> Regions] :
     \A i \in 1 .. 2 : m[i].addr + m[i].size <= m[i + 1].addr}

AllSizes == 0 .. 63

(* The part that rests: any map, and a disk of which the loop makes nothing. *)
Rests == [memory_map |-> CHOOSE m \in SortedMaps : TRUE, n |-> BitmapArea + 1]

MCInit ==
  /\ part \in {"frames", "map", "disk", "calendar", "irqs", "send", "receive", "sockets"}
  /\ Init /\ CalendarInit
  /\ FrameMapInit /\ (part # "map" => memory_map = Rests.memory_map)
  /\ DataAreaInit /\ (part # "disk" => n = Rests.n)
  /\ InterruptsInit /\ (part # "irqs" => imr = {} /\ requests = {})
  /\ NicInit /\ (part \notin {"send", "receive"} => card = "PCNET")
  /\ SocketsInit /\ (part # "sockets" => ~net /\ sock.proto = "tcp")

OfBoot(step) == step /\ UNCHANGED <<part, nicVars, socketVars, irqVars>>
OfDisk(step) ==
  part = "disk" /\ OfBoot(step) /\ UNCHANGED <<framesVars, frameMapVars, calendarVars>>
OfNet(step) ==
  step /\ UNCHANGED <<part, framesVars, frameMapVars, dataAreaVars, calendarVars, irqVars>>
OfNic(way, step) == part = way /\ OfNet(step) /\ UNCHANGED socketVars
OfSockets(step) == part = "sockets" /\ OfNet(step) /\ UNCHANGED nicVars

OfIrqs(step) ==
  /\ part = "irqs" /\ step
  /\ UNCHANGED <<part, framesVars, frameMapVars, dataAreaVars, calendarVars>>
  /\ UNCHANGED <<nicVars, socketVars>>

MCNext ==
  \/ /\ part = "frames"
     /\ OfBoot(Next) /\ UNCHANGED <<frameMapVars, dataAreaVars, calendarVars>>
  \/ /\ part = "map"
     /\ OfBoot(FrameMapNext) /\ UNCHANGED <<framesVars, dataAreaVars, calendarVars>>
  \/ OfDisk(DataAreaNext)
  \/ /\ part = "calendar"
     /\ OfBoot(NextDay) /\ UNCHANGED <<framesVars, frameMapVars, dataAreaVars>>
  \/ OfNic("send", Sending) \/ OfNic("receive", Receiving)
  \/ OfSockets(SocketsNext)
  \/ OfIrqs(InterruptsNext)

MCSpec ==
  /\ MCInit /\ [][MCNext]_vars
  /\ WF_vars(OfDisk(DataAreaTurn))
  /\ WF_vars(OfNic("receive", receive_packet))
  /\ WF_vars(OfNic("send", Transmit)) /\ WF_vars(OfNic("send", Send))
  /\ WF_vars(OfNic("send", Transmitted))
  /\ WF_vars(OfIrqs(Processor))
  /\ WF_vars(OfSockets(Turn)) /\ WF_vars(OfSockets(NoNet)) /\ WF_vars(OfSockets(TimeOut))
=============================================================================
