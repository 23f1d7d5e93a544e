----------------------------- MODULE FramePool ------------------------------
(***************************************************************************)
(* What the kernel is promised of its allocator of physical frames         *)
(* (sys/mem/bitmap.rs): a pool that hands out its lowest free frame, and   *)
(* refuses only when every frame is out.                                   *)
(***************************************************************************)
EXTENDS Naturals

CONSTANTS
  Frames,  \* The frames of the pool
  None     \* The answer of a pool that has none left

VARIABLES
  out,     \* The frames handed out and not given back
  got      \* The last answer

vars == <<out, got>>

Init == out = {} /\ got = None

Lowest(free) == CHOOSE f \in free : \A g \in free : f <= g

Allocate ==
  LET free == Frames \ out IN
  IF free = {} THEN got' = None /\ UNCHANGED out
  ELSE got' = Lowest(free) /\ out' = out \cup {got'}

(* A frame that is not out, or not of the pool, is left alone. *)
Deallocate(f) == out' = out \ {f} /\ UNCHANGED got

Next == Allocate \/ \E f \in Frames : Deallocate(f)

Spec == Init /\ [][Next]_vars
=============================================================================
