------------------------------ MODULE FrameMap ------------------------------
(***************************************************************************)
(* BitmapFrameAllocator::init of sys/mem/bitmap.rs: from the memory map of *)
(* the boot loader to the usable regions, the place of the bitmap among    *)
(* them, and the numbering of their frames that every other call uses.     *)
(* One turn of the loop over the regions is one step.                      *)
(***************************************************************************)
EXTENDS Naturals, Sequences

CONSTANTS
  PageSize,     \* 4096
  BitsPerByte,  \* 8: frames to a byte of the bitmap
  Maps,         \* The memory maps considered: sequences of Region
  Nothing          \* bitmap_addr, index_to_frame and frame_to_index: None

ASSUME PageAssumption == PageSize \in Nat \ {0} /\ BitsPerByte \in Nat \ {0}

Region == [addr : Nat, size : Nat, usable : BOOLEAN]

(* Boot loaders pass the usable regions in the order of their addresses, and *)
(* apart; the kernel keeps the order (multiboot.rs:45-96).                   *)
ASSUME MapsAssumption ==
  /\ Nothing \notin Nat
  /\ \A m \in Maps :
       /\ m \in Seq(Region)
       /\ \A i, j \in 1 .. Len(m) :
            i < j /\ m[i].usable /\ m[j].usable => m[i].addr + m[i].size <= m[j].addr

VARIABLES
  memory_map,
  next,            \* The turn of the loop: how many regions were looked at
  bitmap_addr,
  usable_regions,  \* Sequence of [first_frame, frame_count]
  stage               \* "loop", "ready" or "panic"

frameMapVars == <<memory_map, next, bitmap_addr, usable_regions, stage>>

align_down(addr) == (addr \div PageSize) * PageSize
align_up(addr) == align_down(addr + PageSize - 1)

(* Sum of f over the first n elements of a sequence. *)
SumTo(f(_), s, n) ==
  LET sum[k \in 0 .. n] == IF k = 0 THEN 0 ELSE sum[k - 1] + f(s[k]) IN sum[n]

FramesUpTo(region) == IF region.usable THEN region.size \div PageSize ELSE 0

(* Mutant: the bytes of the bitmap rounded down. *)
bitmap_size_down ==
  SumTo(FramesUpTo, memory_map, Len(memory_map)) \div BitsPerByte

bitmap_size ==
  (SumTo(FramesUpTo, memory_map, Len(memory_map)) + BitsPerByte - 1) \div BitsPerByte

FrameMapInit ==
  /\ memory_map \in Maps
  /\ next = 0 /\ bitmap_addr = Nothing /\ usable_regions = <<>> /\ stage = "loop"

(* UsableRegion::new of a range of whole pages. *)
UsableRegion(start, end) ==
  [first_frame |-> start \div PageSize,
   frame_count |-> (end - 1) \div PageSize - start \div PageSize + 1]

aligned_start(region) == align_up(region.addr)

(* Mutant: the end of a region aligned outward. *)
aligned_end_outward(region) == align_up(region.addr + region.size)

aligned_end(region) == align_down(region.addr + region.size)

(* Mutant: the frames of the bitmap are not taken out. *)
UsableStartBitmap(region, addr) == aligned_start(region)

(* Mutant: the page after the bitmap goes with it. *)
UsableStartPageMore(region, addr) ==
  IF addr = aligned_start(region) THEN align_down(addr + bitmap_size) + PageSize
  ELSE aligned_start(region)

(* Where what is usable of the region begins, if the bitmap is at addr. *)
UsableStart(region, addr) ==
  IF addr = aligned_start(region) THEN align_up(addr + bitmap_size) ELSE aligned_start(region)

Ignore(region) ==
  /\ ~region.usable \/ aligned_end(region) <= aligned_start(region)
  /\ UNCHANGED <<bitmap_addr, usable_regions>>

Consider(region) ==
  LET start == aligned_start(region)
      end   == aligned_end(region)
      addr  == IF bitmap_addr = Nothing /\ end - start >= bitmap_size
               THEN start ELSE bitmap_addr
      from  == UsableStart(region, addr)
  IN /\ region.usable /\ end > start
     /\ bitmap_addr' = addr
     /\ usable_regions' = IF from >= end THEN usable_regions
                          ELSE Append(usable_regions, UsableRegion(from, end))

RegionTurn ==
  /\ stage = "loop" /\ next < Len(memory_map)
  /\ next' = next + 1
  /\ LET region == memory_map[next + 1] IN Ignore(region) \/ Consider(region)
  /\ UNCHANGED <<memory_map, stage>>

RegionsDone ==
  /\ stage = "loop" /\ next = Len(memory_map)
  /\ stage' = IF bitmap_addr = Nothing THEN "panic" ELSE "ready"
  /\ UNCHANGED <<memory_map, next, bitmap_addr, usable_regions>>

FrameMapNext == RegionTurn \/ RegionsDone

FrameMapSpec == FrameMapInit /\ [][FrameMapNext]_frameMapVars

FrameCount(r) == r.frame_count
Base(i) == SumTo(FrameCount, usable_regions, i - 1)
frames_count == SumTo(FrameCount, usable_regions, Len(usable_regions))

(* Region i holds the frames numbered from Base(i) on. *)
index_to_frame(index) ==
  LET holding == {i \in 1 .. Len(usable_regions) :
                    Base(i) <= index /\ index < Base(i) + usable_regions[i].frame_count}
  IN IF holding = {} THEN Nothing
     ELSE LET i == CHOOSE i \in holding : TRUE
          IN usable_regions[i].first_frame + (index - Base(i))

(* The regions that hold a frame; frame_to_index takes the first. *)
Holding(frame) ==
  {i \in 1 .. Len(usable_regions) :
     /\ usable_regions[i].first_frame <= frame
     /\ frame <= usable_regions[i].first_frame + usable_regions[i].frame_count - 1}

First(is) == CHOOSE i \in is : \A j \in is : i <= j

(* Mutant: the regions before are not counted. *)
frame_to_index_local(frame) ==
  IF Holding(frame) = {} THEN Nothing
  ELSE frame - usable_regions[First(Holding(frame))].first_frame

frame_to_index(frame) ==
  IF Holding(frame) = {} THEN Nothing
  ELSE LET i == First(Holding(frame))
       IN Base(i) + (frame - usable_regions[i].first_frame)

(***************************************************************************)
(* Properties                                                              *)
(***************************************************************************)

(* The bytes of frame f lie in usable memory. *)
InUsableMemory(f) ==
  \E i \in 1 .. Len(memory_map) :
    LET r == memory_map[i] IN
      /\ r.usable
      /\ r.addr <= f * PageSize /\ (f + 1) * PageSize <= r.addr + r.size

(* Frame f holds a byte of the bitmap. *)
UnderBitmap(f) ==
  /\ bitmap_addr # Nothing
  /\ f * PageSize < bitmap_addr + bitmap_size
  /\ bitmap_addr < (f + 1) * PageSize

Numbered == {index_to_frame(k) : k \in 0 .. frames_count - 1}

(* What is handed out as a frame is a whole frame of usable memory, and    *)
(* not one the bitmap itself is in (bitmap.rs:101-133).                    *)
OnlyUsable == \A f \in Numbered : InUsableMemory(f) /\ ~UnderBitmap(f)

(* Once the map is read, no whole frame of usable memory is lost but to    *)
(* the bitmap (bitmap.rs:96-145).                                          *)
NoneLost ==
  stage = "ready" =>
    LET last == memory_map[Len(memory_map)] IN
    \A f \in 0 .. (last.addr + last.size) \div PageSize :
      InUsableMemory(f) => f \in Numbered \/ UnderBitmap(f)

(* "An upper bound on the number of usable frames" (bitmap.rs:74): each    *)
(* has its bit.                                                            *)
BitmapHolds == frames_count <= bitmap_size * BitsPerByte

(* index_to_frame and frame_to_index are each other's inverse              *)
(* (bitmap.rs:158-189): what is given back is the bit that was set.        *)
NumberingInverts ==
  \A k \in 0 .. frames_count - 1 : frame_to_index(index_to_frame(k)) = k

(* What init makes of a memory map (bitmap.rs:71-152) and how the frames   *)
(* of it are numbered (bitmap.rs:158-189).                                 *)
MapIsRight == OnlyUsable /\ NoneLost /\ BitmapHolds /\ NumberingInverts
=============================================================================
