-------------------------- MODULE BlockAllocProofs --------------------------
(***************************************************************************)
(* Proofs about BlockAlloc, for every device, set of files and number of   *)
(* stops, up to the first time that a data block is taken for a bitmap     *)
(* block: the superblock's count accounts for the bitmap, no chain shares  *)
(* a block it should not, and the allocator stays on the device and in the *)
(* bitmap.                                                                 *)
(***************************************************************************)
EXTENDS BlockAlloc, FiniteSetTheorems, WellFoundedInduction, TLAPS

Allocating == op.pc \in {"inc", "zero", "link"}
Cutting    == op.pc \in {"cut", "cutDec"}
Freeing    == op.pc \in {"free", "freeDec"}

(* A block reached along a chain is marked in the bitmap, but for the tail *)
(* a File::write is freeing, and what a stop left of one.                  *)
HeldMarked ==
  \A f \in File : held[f] \ torn \subseteq marked \cup (IF Cutting THEN op.tail ELSE {})

(* The block being allocated is marked and reached from nowhere yet.       *)
NewIsOwn ==
  Allocating => /\ op.addr \in marked
                /\ \A f \in File : op.addr \notin held[f] \ torn

(* The tail being cut is one chain's; blocks freed after they were         *)
(* unlinked are nobody's.                                                  *)
FreedIsOwn ==
  /\ Cutting => op.tail \subseteq held[op.file] /\ op.todo \subseteq op.tail
  /\ Freeing => \A f \in File : op.todo \cap held[f] \subseteq torn

(* Blocks of the chains: what NoCrossLink rests on. *)
OwnInv == HeldMarked /\ NewIsOwn /\ FreedIsOwn /\ NoCrossLink

(* The count never passes the size of the device. *)
CountBounded == count <= BlockCount /\ (op.pc = "inc" => count < BlockCount)

LEMMA ScanBitsInt == ScanBits \in Int
  BY GeometryAssumption DEF ScanBits

(* The blocks of a bitmap, rounded up, have a bit for every data block.      *)
LEMMA RoundedUp ==
  ASSUME NEW n \in Nat, NEW s \in Nat \ {0}
  PROVE  LET bits == ((n + s - 1) \div s) * s IN bits \in Int /\ n <= bits
<1> DEFINE q == (n + s - 1) \div s
<1>1. q \in Int /\ n + s - 1 \in Int
  OBVIOUS
<1>2. n + s - 1 < s * q + s
  BY <1>1
<1>3. s * q = q * s /\ q * s \in Int
  BY <1>1
<1> QED
  BY <1>2, <1>3

LEMMA BitmapCovers == BitmapBits \in Int /\ Data \subseteq Bitmap
<1>1. BlockCount - First \in Nat
  BY GeometryAssumption
<1>2. BitmapBits \in Int /\ BlockCount - First <= BitmapBits
  BY <1>1, RoundedUp, GeometryAssumption DEF BitmapBits
<1> QED
  BY <1>2, GeometryAssumption DEF Data, Bitmap

LEMMA FirstInScan == First \in Scan
  BY GeometryAssumption, ScanBitsInt, BitmapCovers DEF Scan, Data

LEMMA ScanIsFinite == IsFiniteSet(Scan) /\ Scan \subseteq Nat
<1>1. First \in Int /\ First + BitmapBits - 1 \in Int
  BY GeometryAssumption, BitmapCovers
<1>2. IsFiniteSet(Bitmap)
  BY <1>1, FS_Interval DEF Bitmap
<1>3. Bitmap \subseteq Nat /\ Scan \subseteq Bitmap
  BY <1>1, GeometryAssumption DEF Bitmap, Scan
<1> QED
  BY <1>2, <1>3, FS_Subset

LEMMA TypeOKInit == Init => TypeOK
<1> SUFFICES ASSUME Init PROVE TypeOK
  OBVIOUS
<1>1. op \in Op
  BY FirstInScan, FileAssumption DEF Init, Idle, Op, Pc
<1>2. count \in Int /\ marked \in SUBSET Scan
  BY FirstInScan, GeometryAssumption DEF Init
<1> QED
  BY <1>1, <1>2, FirstInScan DEF Init, TypeOK

LEMMA TypeOKStep == TypeOK /\ [Next]_vars => TypeOK'
PROOF
  <1> SUFFICES ASSUME TypeOK, [Next]_vars PROVE TypeOK'
    OBVIOUS
  <1> USE FirstInScan, FileAssumption DEF TypeOK, Op, Pc, Idle
  <1>1. ASSUME NEW f \in File, Alloc(f) PROVE TypeOK'
    BY <1>1 DEF Alloc, NextFree
  <1>2. ASSUME NEW f \in File, NEW T \in SUBSET held[f], Cut(f, T) PROVE TypeOK'
    BY <1>2 DEF Cut
  <1>3. ASSUME NEW f \in File, NEW T \in SUBSET held[f], Delete(f, T) PROVE TypeOK'
    BY <1>3 DEF Delete
  <1>4. CASE NoSpace
    BY <1>4 DEF NoSpace, vars
  <1>5. CASE IncAllocCount
    BY <1>5 DEF IncAllocCount
  <1>6. CASE Zeroed
    BY <1>6 DEF Zeroed
  <1>7. CASE Link
    BY <1>7 DEF Link
  <1>8. CASE ClearBit
    <2>1. PICK a \in op.todo :
            /\ marked' = marked \ {a}
            /\ op' = [op EXCEPT !.pc = IF op.pc = "cut" THEN "cutDec" ELSE "freeDec",
                                !.todo = @ \ {a}]
      BY <1>8 DEF ClearBit
    <2>2. op' \in Op
      BY <2>1
    <2>3. again' \in Nat
      BY <1>8 DEF ClearBit
    <2> QED
      BY <1>8, <2>1, <2>2, <2>3 DEF ClearBit
  <1>9. CASE DecAllocCount
    BY <1>9 DEF DecAllocCount
  <1>10. CASE WriteLast
    BY <1>10 DEF WriteLast
  <1>11. CASE Deleted
    BY <1>11 DEF Deleted
  <1>12. CASE Crash
    BY <1>12 DEF Crash
  <1>13. CASE UNCHANGED vars
    BY <1>13 DEF vars
  <1>14. CASE AllocPastBitmap
    BY <1>14 DEF AllocPastBitmap
  <1> QED
    BY <1>1, <1>2, <1>3, <1>4, <1>5, <1>6, <1>7, <1>8, <1>9, <1>10, <1>11,
       <1>12, <1>13, <1>14 DEF Next, Step, Astray

(* TypeOK holds of every behaviour of the allocator. *)
THEOREM TypeCorrect == Spec => []TypeOK
  BY TypeOKInit, TypeOKStep, PTL DEF Spec

-----------------------------------------------------------------------------
LEMMA OwnInit == Init => OwnInv
  BY DEF Init, Idle, OwnInv, HeldMarked, NewIsOwn, FreedIsOwn, NoCrossLink,
         Allocating, Cutting, Freeing

LEMMA OwnStep == TypeOK /\ OwnInv /\ [Next]_vars => OwnInv'
PROOF
  <1> SUFFICES ASSUME TypeOK, OwnInv, [Next]_vars PROVE OwnInv'
    OBVIOUS
  <1> USE DEF TypeOK, Op, Pc, Idle, OwnInv, HeldMarked, NewIsOwn, FreedIsOwn,
              NoCrossLink, Allocating, Cutting, Freeing
  <1>1. ASSUME NEW f \in File, Alloc(f) PROVE OwnInv'
    BY <1>1 DEF Alloc, NextFree
  <1>2. ASSUME NEW f \in File, NEW T \in SUBSET held[f], Cut(f, T) PROVE OwnInv'
    BY <1>2 DEF Cut
  <1>3. ASSUME NEW f \in File, NEW T \in SUBSET held[f], Delete(f, T) PROVE OwnInv'
    BY <1>3 DEF Delete
  <1>4. CASE NoSpace
    BY <1>4 DEF NoSpace, vars
  <1>5. CASE IncAllocCount
    BY <1>5 DEF IncAllocCount
  <1>6. CASE Zeroed
    BY <1>6 DEF Zeroed
  <1>7. CASE Link
    BY <1>7 DEF Link
  <1>8. CASE ClearBit
    BY <1>8 DEF ClearBit
  <1>9. CASE DecAllocCount
    BY <1>9 DEF DecAllocCount
  <1>10. CASE WriteLast
    BY <1>10 DEF WriteLast
  <1>11. CASE Deleted
    BY <1>11 DEF Deleted
  <1>12. CASE Crash
    BY <1>12 DEF Crash
  <1>13. CASE UNCHANGED vars
    BY <1>13 DEF vars
  <1>14. CASE AllocPastBitmap
    BY <1>14 DEF AllocPastBitmap
  <1> QED
    BY <1>1, <1>2, <1>3, <1>4, <1>5, <1>6, <1>7, <1>8, <1>9, <1>10, <1>11,
       <1>12, <1>13, <1>14 DEF Next, Step, Astray

(* No two chains share a block, except one a stop left linked and free:    *)
(* whatever the allocations, truncations and deletions since.              *)
THEOREM NoCrossLinkAlways == Spec => []NoCrossLink
PROOF
  <1>1. Spec => []OwnInv
    BY OwnInit, OwnStep, TypeCorrect, PTL DEF Spec
  <1>2. OwnInv => NoCrossLink
    BY DEF OwnInv
  <1> QED
    BY <1>1, <1>2, PTL

(* The allocator never hands out a block that a chain still reaches, with  *)
(* the same exception.                                                     *)
THEOREM HandedOutOnce == Spec => NeverHandedOutTwice
PROOF
  <1> DEFINE Once == op.pc = "idle" /\ op'.pc = "inc"
                       => \A f \in File : op'.addr \notin held[f] \ torn
  <1>1. TypeOK /\ OwnInv /\ [Next]_vars => [Once]_vars
    <2> SUFFICES ASSUME TypeOK, OwnInv, [Next]_vars, op.pc = "idle", op'.pc = "inc",
                        NEW g \in File
                 PROVE  op'.addr \notin held[g] \ torn
      BY SMTT(40)
    <2>1. PICK f \in File : Alloc(f)
      BY DEF Next, Cut, Delete, NoSpace, IncAllocCount, Zeroed, Link, ClearBit,
             DecAllocCount, WriteLast, Deleted, Crash, AllocPastBitmap,
             Step, Astray, TypeOK, Op, vars
    <2>2. op'.addr \notin marked
      BY <2>1 DEF Alloc, NextFree, TypeOK, Op
    <2> QED
      BY <2>2 DEF OwnInv, HeldMarked, Cutting
  <1>2. Spec => []OwnInv
    BY OwnInit, OwnStep, TypeCorrect, PTL DEF Spec
  <1> QED
    BY <1>1, <1>2, TypeCorrect, PTL DEF Spec, NeverHandedOutTwice

-----------------------------------------------------------------------------
LEMMA MarkedFinite ==
  ASSUME TypeOK
  PROVE  IsFiniteSet(marked) /\ Cardinality(marked) \in Nat
PROOF
  BY ScanIsFinite, FS_Subset, FS_CardinalityType DEF TypeOK

LEMMA AccountedStep == TypeOK /\ Accounted /\ [Next]_vars => Accounted'
PROOF
  <1> SUFFICES ASSUME TypeOK, Accounted, [Next]_vars PROVE Accounted'
    OBVIOUS
  <1> USE DEF TypeOK, Op, Pc, Idle, Accounted
  <1>f. First \in Nat /\ IsFiniteSet(marked) /\ Cardinality(marked) \in Nat
    BY MarkedFinite, GeometryAssumption
  <1>1. ASSUME NEW f \in File, Alloc(f) PROVE Accounted'
    <2>1. PICK a \in NextFree : /\ marked' = marked \cup {a}
                               /\ op' = [op EXCEPT !.pc = "inc", !.file = f, !.addr = a]
      BY <1>1 DEF Alloc
    <2>2. Cardinality(marked') = Cardinality(marked) + 1
      BY <1>f, <2>1, FS_AddElement DEF NextFree
    <2> QED
      BY <1>1, <1>f, <2>1, <2>2 DEF Alloc
  <1>2. ASSUME NEW f \in File, NEW T \in SUBSET held[f], Cut(f, T) PROVE Accounted'
    BY <1>2, <1>f DEF Cut
  <1>3. ASSUME NEW f \in File, NEW T \in SUBSET held[f], Delete(f, T) PROVE Accounted'
    BY <1>3, <1>f DEF Delete
  <1>4. CASE NoSpace
    BY <1>4 DEF NoSpace, vars
  <1>5. CASE IncAllocCount
    BY <1>5, <1>f DEF IncAllocCount
  <1>6. CASE Zeroed
    BY <1>6, <1>f DEF Zeroed
  <1>7. CASE Link
    BY <1>7, <1>f DEF Link
  <1>8. CASE ClearBit
    <2>1. PICK a \in op.todo :
            /\ marked' = marked \ {a}
            /\ again' = IF a \in marked THEN again ELSE again + 1
            /\ op' = [op EXCEPT !.pc = IF op.pc = "cut" THEN "cutDec" ELSE "freeDec",
                                !.todo = @ \ {a}]
      BY <1>8 DEF ClearBit
    <2>2. Cardinality(marked') = IF a \in marked THEN Cardinality(marked) - 1
                                                  ELSE Cardinality(marked)
      BY <1>f, <2>1, FS_RemoveElement
    <2>3. op'.pc \in {"cutDec", "freeDec"} /\ op.pc \in {"cut", "free"}
      BY <1>8, <2>1 DEF ClearBit
    <2> QED
      BY <1>8, <1>f, <2>1, <2>2, <2>3 DEF ClearBit
  <1>9. CASE DecAllocCount
    BY <1>9, <1>f DEF DecAllocCount
  <1>10. CASE WriteLast
    BY <1>10, <1>f DEF WriteLast
  <1>11. CASE Deleted
    BY <1>11, <1>f DEF Deleted
  <1>12. CASE Crash
    BY <1>12, <1>f DEF Crash
  <1>13. CASE UNCHANGED vars
    BY <1>13 DEF vars
  <1>14. CASE AllocPastBitmap
    BY <1>14 DEF AllocPastBitmap
  <1> QED
    BY <1>1, <1>2, <1>3, <1>4, <1>5, <1>6, <1>7, <1>8, <1>9, <1>10, <1>11,
       <1>12, <1>13, <1>14 DEF Next, Step, Astray

(* The superblock's count is the bitmap's, but for the stops that came     *)
(* between the two writes and the blocks freed twice.                      *)
THEOREM AccountedAlways == Spec => []Accounted
PROOF
  <1>1. Init => Accounted
    <2> SUFFICES ASSUME Init PROVE Accounted
      OBVIOUS
    <2>1. Cardinality(marked) = 1
      BY FS_Singleton DEF Init
    <2> QED
      BY <2>1, GeometryAssumption DEF Init, Accounted, Idle
  <1> QED
    BY <1>1, AccountedStep, TypeCorrect, PTL DEF Spec

-----------------------------------------------------------------------------
LEMMA CountBoundedStep ==
  TypeOK /\ CountBounded /\ [Next]_vars => CountBounded'
PROOF
  <1> SUFFICES ASSUME TypeOK, CountBounded, [Next]_vars PROVE CountBounded'
    OBVIOUS
  <1> USE GeometryAssumption DEF TypeOK, Op, Pc, Idle, CountBounded
  <1>1. ASSUME NEW f \in File, Alloc(f) PROVE CountBounded'
    <2>1. count # BlockCount /\ count' = count
      BY <1>1 DEF Alloc, NextFree
    <2> QED
      BY <2>1
  <1>2. ASSUME NEW f \in File, NEW T \in SUBSET held[f], Cut(f, T) PROVE CountBounded'
    BY <1>2 DEF Cut
  <1>3. ASSUME NEW f \in File, NEW T \in SUBSET held[f], Delete(f, T) PROVE CountBounded'
    BY <1>3 DEF Delete
  <1>4. CASE NoSpace \/ Zeroed \/ Link \/ WriteLast \/ Deleted \/ Crash
    BY <1>4 DEF NoSpace, vars, Zeroed, Link, WriteLast, Deleted, Crash
  <1>5. CASE IncAllocCount
    BY <1>5 DEF IncAllocCount
  <1>6. CASE ClearBit
    BY <1>6 DEF ClearBit
  <1>7. CASE DecAllocCount
    BY <1>7 DEF DecAllocCount
  <1>8. CASE UNCHANGED vars \/ AllocPastBitmap
    BY <1>8 DEF vars, AllocPastBitmap
  <1> QED
    BY <1>1, <1>2, <1>3, <1>4, <1>5, <1>6, <1>7, <1>8 DEF Next, Step, Astray

(* While a data block is free, the scan does not come to the end of the      *)
(* bitmap: all that the count allows is on the device.                       *)
LEMMA RoomOnDevice ==
  ASSUME TypeOK, Accounted, CountBounded, marked \subseteq Data,
         lostInc = 0, again = 0, op.pc = "idle", count # BlockCount
  PROVE  \E d \in Data : d \notin marked
<1>1. Cardinality(marked) < BlockCount - First
  BY MarkedFinite, GeometryAssumption DEF Accounted, CountBounded, TypeOK
<1>2. IsFiniteSet(Data) /\ Cardinality(Data) = BlockCount - First
  BY FS_Interval, GeometryAssumption DEF Data
<1>3. Cardinality(marked) # Cardinality(Data)
  BY <1>1, <1>2, MarkedFinite, GeometryAssumption
<1>4. marked # Data
  BY <1>3
<1> QED
  BY <1>4

LEMMA InRangeStep ==
  TypeOK /\ Accounted /\ CountBounded /\ InRange /\ [Next]_vars => InRange'
PROOF
  <1> SUFFICES ASSUME TypeOK, Accounted, CountBounded, InRange, [Next]_vars,
                      lostInc' = 0, again' = 0
               PROVE  marked' \subseteq Data /\ ~astray'
    BY DEF InRange
  <1>0. Step \/ UNCHANGED vars
    BY DEF Next, Astray
  <1>1. lostInc = 0 /\ again = 0
    <2>1. lostInc' = lostInc \/ lostInc' = lostInc + 1
      BY <1>0, ZenonT(40) DEF Step, Alloc, Cut, Delete, NoSpace, IncAllocCount, Zeroed, Link,
             ClearBit, DecAllocCount, WriteLast, Deleted, Crash, AllocPastBitmap, vars
    <2>2. again' = again \/ again' = again + 1
      BY <1>0 DEF Step, Alloc, Cut, Delete, NoSpace, IncAllocCount, Zeroed, Link, ClearBit,
             DecAllocCount, WriteLast, Deleted, Crash, AllocPastBitmap, vars
    <2> QED
      BY SMTT(40), <2>1, <2>2 DEF TypeOK
  <1>2. marked \subseteq Data /\ ~astray
    BY <1>1 DEF InRange
  <1>3. ASSUME NEW f \in File, Alloc(f) PROVE marked' \subseteq Data /\ ~astray'
    <2>1. PICK a \in NextFree : marked' = marked \cup {a}
      BY <1>3 DEF Alloc
    <2>2. op.pc = "idle" /\ count # BlockCount /\ astray' = astray
      BY <1>3, <2>1 DEF Alloc, NextFree
    <2>4. PICK d \in Data : d \notin marked
      BY <1>1, <1>2, <2>2, RoomOnDevice
    <2>5. a <= d /\ a \in Scan
      <3>1. a \in Scan \ marked /\ \A b \in Scan \ marked : a <= b
        BY <2>1 DEF NextFree
      <3>2. CASE d \in Scan
        BY <2>4, <3>1, <3>2
      <3>3. CASE d \notin Scan
        <4>1. d \in Bitmap
          BY BitmapCovers
        <4>2. d \in Int /\ First + ScanBits \in Int /\ First + ScanBits <= d
          BY <3>3, <4>1, ScanBitsInt, GeometryAssumption DEF Scan, Data
        <4>3. a \in Int /\ a < First + ScanBits
          BY <3>1, ScanIsFinite DEF Scan
        <4> QED
          BY <3>1, <4>2, <4>3
      <3> QED
        BY <3>2, <3>3
    <2>6. a \in Data
      <3>1. a \in Nat /\ First <= a
        BY <2>5, ScanIsFinite, GeometryAssumption, BitmapCovers DEF Scan, Bitmap
      <3> QED
        BY <2>4, <2>5, <3>1, GeometryAssumption DEF Data
    <2> QED
      BY <1>2, <2>1, <2>2, <2>6
  <1>4. ~AllocPastBitmap
    <2> SUFFICES ASSUME AllocPastBitmap PROVE FALSE
      OBVIOUS
    <2>1. /\ op.pc = "idle" /\ count # BlockCount
          /\ ScanBits > BitmapBits /\ Scan \subseteq marked
      BY DEF AllocPastBitmap
    <2>2. PICK d \in Data : d \notin marked
      BY <1>1, <1>2, <2>1, RoomOnDevice
    <2>3. d \in Scan
      BY <2>1, BitmapCovers, ScanBitsInt, GeometryAssumption DEF Bitmap, Scan
    <2> QED
      BY <2>1, <2>2, <2>3
  <1>5. ASSUME ~ \E f \in File : Alloc(f) PROVE marked' \subseteq Data /\ ~astray'
    <2>1. CASE ClearBit
      BY <1>2, <2>1 DEF ClearBit
    <2>2. CASE ~ClearBit
      <3>1. marked' = marked /\ astray' = astray
        BY <1>0, <1>4, <1>5, <2>2 DEF Step, Cut, Delete, NoSpace, IncAllocCount, Zeroed, Link,
               DecAllocCount, WriteLast, Deleted, Crash, vars
      <3> QED
        BY <1>2, <3>1
    <2> QED
      BY <2>1, <2>2
  <1> QED
    BY <1>3, <1>5

(* As long as no stop lost an increment and no block was freed twice, no   *)
(* block past the end of the device is ever in use, though next_free_addr  *)
(* scans bits that stand for such blocks; and no data block is ever taken  *)
(* for a block of the bitmap, though it scans past the bitmap's end.       *)
THEOREM InRangeAlways == Spec => []InRange
PROOF
  <1>1. Init => CountBounded /\ InRange
    BY GeometryAssumption DEF Init, Idle, CountBounded, InRange, Data
  <1> QED
    BY <1>1, CountBoundedStep, InRangeStep, AccountedAlways, TypeCorrect, PTL DEF Spec

(* Bitmap, count and chains hold together for every geometry, number of    *)
(* files and number of stops, one run's check of all the above at once;    *)
(* on a device whose scan goes on past the bitmap (ScanBits > BitmapBits), *)
(* up to the first time that it finds a clear bit there: what then becomes *)
(* of the root directory and the blocks after it is not in the model. That *)
(* takes a count that a stop or a block freed twice has set back (InRange).*)
THEOREM ConsistentAlways == Spec => []Consistent
PROOF
  <1>1. TypeOK /\ Accounted /\ NoCrossLink /\ InRange => Consistent
    BY DEF Consistent
  <1> QED
    BY <1>1, TypeCorrect, AccountedAlways, NoCrossLinkAlways, InRangeAlways, PTL

-----------------------------------------------------------------------------
(* A set of addresses of the scan has a lowest one.                          *)
LEMMA LowestOfScan ==
  ASSUME NEW T \in SUBSET Scan, T # {}
  PROVE  \E a \in T : \A b \in T : a <= b
<1> DEFINE R == OpToRel(<, Nat)
<1>1. IsWellFoundedOn(R, Nat)
  BY NatLessThanWellFounded
<1>2. T \subseteq Nat
  BY ScanIsFinite
<1>3. PICK a \in T : \A b \in T : ~(<<b, a>> \in R)
  BY <1>1, <1>2, WFMin
<1>4. \A b \in T : ~(b < a)
  BY <1>2, <1>3 DEF OpToRel
<1> QED
  BY <1>2, <1>4

(* The count says full of a disk whose data blocks are all in use, and only  *)
(* then (bitmap_block.rs 43-45).                                             *)
LEMMA CountSaysFull ==
  ASSUME TypeOK, Accounted, InRange,
         op.pc = "idle", lostInc = 0, lostDec = 0, again = 0
  PROVE  /\ marked \subseteq Data
         /\ count = BlockCount <=> marked = Data
<1>1. marked \subseteq Data
  BY DEF InRange
<1>2. /\ First \in Nat /\ BlockCount \in Nat /\ First < BlockCount
      /\ First \in Int /\ BlockCount - 1 \in Int
  BY GeometryAssumption
<1>3. IsFiniteSet(Data) /\ Cardinality(Data) = BlockCount - First
  BY <1>2, FS_Interval DEF Data
<1>4. IsFiniteSet(marked) /\ Cardinality(marked) \in Nat
  BY MarkedFinite
<1>5. count = First + Cardinality(marked)
  BY <1>2, <1>4 DEF Accounted, TypeOK
<1>6. Cardinality(marked) = Cardinality(Data) => marked = Data
  BY <1>1, <1>3, FS_Subset
<1> QED
  BY <1>1, <1>2, <1>3, <1>4, <1>5, <1>6

(* The disk is said to be full exactly when it is, on every device whose     *)
(* last block is one of those that next_free_addr scans, over any stops but  *)
(* those that came between the bitmap and the count.  On the others (a size  *)
(* that is not a multiple of a bitmap block's) the end is never looked at.   *)
THEOREM FullWhenFull ==
  ASSUME Data \subseteq Scan
  PROVE  Spec => []FullIsFull
<1>1. ASSUME TypeOK, Accounted, InRange
      PROVE  FullIsFull
  <2> SUFFICES ASSUME op.pc = "idle", lostInc = 0, lostDec = 0, again = 0
               PROVE  NextFree = {} <=> Data \subseteq marked
    BY DEF FullIsFull
  <2>1. marked \subseteq Data /\ (count = BlockCount <=> marked = Data)
    BY <1>1, CountSaysFull
  <2>2. CASE count = BlockCount
    BY <2>1, <2>2 DEF NextFree
  <2>3. CASE count # BlockCount
    <3>1. ~(Data \subseteq marked)
      BY <2>1, <2>3
    <3>2. PICK a \in Scan \ marked : \A b \in Scan \ marked : a <= b
      BY <3>1, LowestOfScan
    <3> QED
      BY <2>3, <3>1, <3>2 DEF NextFree
  <2> QED
    BY <2>2, <2>3
<1> QED
  BY <1>1, TypeCorrect, AccountedAlways, InRangeAlways, PTL
=============================================================================
