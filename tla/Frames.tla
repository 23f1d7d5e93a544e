------------------------------- MODULE Frames -------------------------------
(***************************************************************************)
(* BitmapFrameAllocator of sys/mem/bitmap.rs: one bit per usable frame and *)
(* next_free_index, where the next search starts.  A frame is its index;   *)
(* the usable regions and the numbering of their frames are in FrameMap.   *)
(* FramesCount itself stands for a frame of no usable region, for which    *)
(* frame_to_index answers None.  A call is one step: the allocator is      *)
(* behind a mutex, and no interrupt handler takes it.                      *)
(***************************************************************************)
EXTENDS Naturals

CONSTANTS
  FramesCount,  \* frames_count
  None          \* allocate_frame's None

VARIABLES
  bitmap,           \* The indices whose bit is set
  next_free_index,
  got               \* The last answer of allocate_frame

framesVars == <<bitmap, next_free_index, got>>

Index == 0 .. FramesCount - 1

ASSUME FramesAssumption == FramesCount \in Nat /\ None \notin Index

TypeOK ==
  /\ bitmap \in SUBSET Index
  /\ next_free_index \in 0 .. FramesCount
  /\ got \in Index \cup {None}

Init == bitmap = {} /\ next_free_index = 0 /\ got = None

(* Mutant: the search does not go round. *)
ProbeOnwards(i) == next_free_index + i

(* The i-th index of the search. *)
Probe(i) == (next_free_index + i) % FramesCount

(* Mutant: the bit is not looked at. *)
FoundAnyhow(i) == i = 0

(* The search stops there. *)
FoundAt(i) ==
  /\ Probe(i) \notin bitmap
  /\ \A j \in Index : j < i => Probe(j) \in bitmap

Allocated(i) ==
  /\ FoundAt(i)
  /\ bitmap' = bitmap \cup {Probe(i)}
  /\ next_free_index' = Probe(i) + 1
  /\ got' = Probe(i)

NoFreeFrame ==
  /\ \A i \in Index : Probe(i) \in bitmap
  /\ got' = None
  /\ UNCHANGED <<bitmap, next_free_index>>

allocate_frame == (\E i \in Index : Allocated(i)) \/ NoFreeFrame

Lesser(a, b) == IF a < b THEN a ELSE b

(* Mutant: the hint is not lowered. *)
deallocate_frame_keeps_hint(f) ==
  /\ bitmap' = bitmap \ {f}
  /\ UNCHANGED <<next_free_index, got>>

(* Mutant: the hint is lowered for a frame that is free already. *)
deallocate_frame_unchecked(f) ==
  /\ bitmap' = bitmap \ {f}
  /\ next_free_index' = f
  /\ UNCHANGED got

(* A double free and a frame of no region are ignored. *)
deallocate_frame(f) ==
  /\ IF f \in Index /\ f \in bitmap
     THEN /\ bitmap' = bitmap \ {f}
          /\ next_free_index' = Lesser(next_free_index, f)
     ELSE UNCHANGED <<bitmap, next_free_index>>
  /\ UNCHANGED got

Next == allocate_frame \/ \E f \in 0 .. FramesCount : deallocate_frame(f)

Spec == Init /\ [][Next]_framesVars

(***************************************************************************)
(* Properties                                                              *)
(***************************************************************************)

(* Every frame below the hint is in use: the search, which starts there    *)
(* (bitmap.rs:201), misses no free frame before it.                        *)
HintLow == \A f \in Index : f < next_free_index => f \in bitmap

(* The bitmap and its hint are a pool that hands out its lowest free frame *)
(* and refuses only when there is none.                                    *)
Pool == INSTANCE FramePool WITH Frames <- Index, out <- bitmap
ImplementsFramePool == Pool!Spec
=============================================================================
