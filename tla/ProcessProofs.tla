--------------------------- MODULE ProcessProofs ----------------------------
(***************************************************************************)
(* For any number of processes, frames and pages: the frame allocator is a *)
(* pool of frames; the live processes are a chain of spawns that reaches   *)
(* all of them; no frame has two owners; and a spawn that fails, or the    *)
(* end of all processes, gives back what was taken.  Then, for any memory  *)
(* map: which frames there are, and how they are numbered.  After these,   *)
(* the interrupts, the sockets and the network cards under the processes.  *)
(***************************************************************************)
EXTENDS Process, FrameMap, Interrupts, Sockets, Nic, TLAPS, WellFoundedInduction,
        SequenceTheorems

(***************************************************************************)
(* The frame allocator: its hint is low, and with it the allocator is the  *)
(* pool of FramePool.                                                      *)
(***************************************************************************)

Inv == TypeOK /\ HintLow

(* What the search can come to. *)
LEMMA ProbeInRange ==
  ASSUME TypeOK, NEW i \in Index
  PROVE  Probe(i) \in Index
BY FramesAssumption DEF TypeOK, Index, Probe

(* The search gets to a free frame f at or above the hint in f - hint      *)
(* turns, before it goes round.                                            *)
LEMMA ProbeReaches ==
  ASSUME TypeOK, NEW f \in Index, f >= next_free_index
  PROVE  /\ f - next_free_index \in Index
         /\ Probe(f - next_free_index) = f
<1>1. f - next_free_index \in Index
  BY FramesAssumption DEF TypeOK, Index
<1>2. next_free_index + (f - next_free_index) = f
  BY FramesAssumption DEF TypeOK, Index
<1>3. f % FramesCount = f
  BY FramesAssumption DEF Index
<1> QED BY <1>1, <1>2, <1>3 DEF Probe

(* With a low hint the search does not go round: it comes to the lowest    *)
(* free frame, which is where all those below are in use.                  *)
LEMMA FoundIsLowest ==
  ASSUME Inv, NEW i \in Index, FoundAt(i)
  PROVE  /\ Probe(i) \in Index \ bitmap
         /\ \A f \in Index \ bitmap : Probe(i) <= f
<1>1. Probe(i) \in Index \ bitmap
  BY ProbeInRange DEF Inv, FoundAt
<1>2. ASSUME NEW f \in Index \ bitmap
      PROVE  Probe(i) <= f
  <2>1. f >= next_free_index
    BY FramesAssumption DEF Inv, HintLow, TypeOK, Index
  <2> DEFINE k == f - next_free_index
  <2>2. k \in Index /\ Probe(k) = f
    BY <2>1, ProbeReaches DEF Inv
  <2>3. i <= k
    BY <2>2 DEF FoundAt, Index
  <2>4. next_free_index + i \in Index /\ next_free_index + i <= f
    BY <2>1, <2>3, FramesAssumption DEF Inv, TypeOK, Index
  <2>5. Probe(i) = next_free_index + i
    BY <2>4, FramesAssumption DEF Probe, Index
  <2> QED BY <2>4, <2>5
<1> QED BY <1>1, <1>2

(* No free frame escapes a search that fails. *)
LEMMA NoneMeansFull ==
  ASSUME Inv, \A i \in Index : Probe(i) \in bitmap
  PROVE  Index \ bitmap = {}
<1> SUFFICES ASSUME NEW f \in Index, f \notin bitmap PROVE FALSE
  OBVIOUS
<1>1. f >= next_free_index
  BY FramesAssumption DEF Inv, HintLow, TypeOK, Index
<1> QED BY <1>1, ProbeReaches DEF Inv

LEMMA AllocatedKeepsInv ==
  ASSUME Inv, NEW i \in Index, Allocated(i)
  PROVE  Inv'
<1>1. Probe(i) \in Index \ bitmap /\ \A f \in Index \ bitmap : Probe(i) <= f
  BY FoundIsLowest DEF Allocated
<1>2. TypeOK'
  <2>1. Probe(i) + 1 \in 0 .. FramesCount
    BY <1>1, FramesAssumption DEF Index
  <2>2. bitmap' \in SUBSET Index /\ got' \in Index \cup {None}
    BY <1>1 DEF Inv, TypeOK, Allocated
  <2> QED BY <2>1, <2>2 DEF TypeOK, Allocated, Index
<1>3. HintLow'
  BY <1>1, FramesAssumption DEF Inv, TypeOK, HintLow, Allocated, Index
<1> QED BY <1>2, <1>3 DEF Inv

LEMMA DeallocateKeepsInv ==
  ASSUME Inv, NEW f \in 0 .. FramesCount, deallocate_frame(f)
  PROVE  Inv'
<1>1. CASE f \in Index /\ f \in bitmap
  <2>1. /\ bitmap' = bitmap \ {f}
        /\ next_free_index' = Lesser(next_free_index, f)
        /\ got' = got
    BY <1>1 DEF deallocate_frame
  <2>2. /\ Lesser(next_free_index, f) \in 0 .. FramesCount
        /\ Lesser(next_free_index, f) <= next_free_index
        /\ Lesser(next_free_index, f) <= f
    BY <1>1, FramesAssumption DEF Inv, TypeOK, Lesser, Index
  <2>3. TypeOK'
    BY <2>1, <2>2 DEF Inv, TypeOK
  <2>4. HintLow'
    BY <1>1, <2>1, <2>2, FramesAssumption DEF Inv, TypeOK, HintLow, Index
  <2> QED BY <2>3, <2>4 DEF Inv
<1>2. CASE ~(f \in Index /\ f \in bitmap)
  BY <1>2 DEF deallocate_frame, Inv, TypeOK, HintLow
<1> QED BY <1>1, <1>2

(* The bitmap and the hint stay in range, and no frame below the hint is   *)
(* free.                                                                   *)
THEOREM Invariance == Spec => [](TypeOK /\ HintLow)
<1>1. Init => Inv
  BY FramesAssumption DEF Init, Inv, TypeOK, HintLow, Index
<1>2. Inv /\ [Next]_framesVars => Inv'
  <2> SUFFICES ASSUME Inv, [Next]_framesVars PROVE Inv'
    OBVIOUS
  <2>1. ASSUME NEW i \in Index, Allocated(i) PROVE Inv'
    BY <2>1, AllocatedKeepsInv
  <2>2. CASE NoFreeFrame
    BY <2>2 DEF NoFreeFrame, Inv, TypeOK, HintLow
  <2>3. ASSUME NEW f \in 0 .. FramesCount, deallocate_frame(f) PROVE Inv'
    BY <2>3, DeallocateKeepsInv
  <2>4. CASE UNCHANGED framesVars
    BY <2>4 DEF framesVars, Inv, TypeOK, HintLow
  <2> QED BY <2>1, <2>2, <2>3, <2>4 DEF Next, allocate_frame
<1> QED BY <1>1, <1>2, PTL DEF Spec, Inv

(* The allocator hands out its lowest free frame, never one that is out,   *)
(* and refuses only when every frame is.                                   *)
THEOREM Implements == Spec => ImplementsFramePool
<1>1. Init => Pool!Init
  BY DEF Init, Pool!Init
<1>2. ASSUME Inv, [Next]_framesVars
      PROVE  [Pool!Next]_(Pool!vars)
  <2>1. ASSUME NEW i \in Index, Allocated(i)
        PROVE  Pool!Allocate
    <3> DEFINE free == Index \ bitmap
    <3>1. Probe(i) \in free /\ \A f \in free : Probe(i) <= f
      BY <1>2, <2>1, FoundIsLowest DEF Allocated
    <3>2. \A g \in free : (\A f \in free : g <= f) => g = Probe(i)
      BY <3>1, FramesAssumption DEF Index
    <3>3. Pool!Lowest(free) = Probe(i)
      BY <3>1, <3>2 DEF Pool!Lowest
    <3> QED BY <2>1, <3>1, <3>3 DEF Pool!Allocate, Allocated
  <2>2. CASE NoFreeFrame
    BY <1>2, <2>2, NoneMeansFull DEF NoFreeFrame, Pool!Allocate, Pool!Next
  <2>3. ASSUME NEW f \in 0 .. FramesCount, deallocate_frame(f)
        PROVE  Pool!Next \/ UNCHANGED Pool!vars
    <3>1. CASE f \in Index /\ f \in bitmap
      BY <2>3, <3>1 DEF deallocate_frame, Pool!Next, Pool!Deallocate
    <3>2. CASE ~(f \in Index /\ f \in bitmap)
      BY <2>3, <3>2 DEF deallocate_frame, Pool!vars
    <3> QED BY <3>1, <3>2
  <2>4. CASE UNCHANGED framesVars
    BY <2>4 DEF framesVars, Pool!vars
  <2> QED
    BY <1>2, <2>1, <2>2, <2>3, <2>4 DEF Next, allocate_frame, Pool!Next
<1>3. Spec => []Inv
  BY Invariance, PTL DEF Inv
<1> QED BY <1>1, <1>2, <1>3, PTL DEF Spec, ImplementsFramePool, Pool!Spec

(***************************************************************************)
(* The chain of spawns                                                     *)
(***************************************************************************)

(* Whose memory a spawn or a fault maps, and when it holds a frame.        *)
OpOK ==
  /\ op.pc \in {"load", "loadFailed"} =>
       op.pid \in Live /\ op.pid # id /\ process_table[op.pid].parent = id
  /\ op.pc \in {"args", "fault", "faultFailed"} => op.pid = id /\ id \in Live
  /\ op.frame # None => Mapping /\ op.todo # <<>>

ChainInv == ProcessTypeOK /\ HintLow /\ OpOK /\ Nested

LEMMA ChainInit == ProcessInit => ChainInv
<1> SUFFICES ASSUME ProcessInit PROVE ChainInv
  OBVIOUS
<1> USE FramesAssumption, ProcessAssumption
<1>1. Kernel \in SUBSET Index /\ 0 \in Pid /\ KernelFrames \in 0 .. FramesCount
  BY DEF Kernel, Index, Pid
<1>2. TypeOK
  BY <1>1 DEF ProcessInit, TypeOK
<1>7. HintLow
  BY DEF ProcessInit, HintLow, Kernel, Index
<1>3. Live = {}
  BY DEF ProcessInit, Live
<1>4. op \in Op
  BY <1>1 DEF ProcessInit, Op, Pc
<1>5. ProcessTypeOK
  BY <1>1, <1>2, <1>3, <1>4 DEF ProcessInit, ProcessTypeOK
<1>6. OpOK /\ Nested
  BY <1>3 DEF ProcessInit, OpOK, Nested, Spawned
<1> QED BY <1>5, <1>6, <1>7 DEF ChainInv

(* A frame for a page or a table changes nobody's parent.                  *)
LEMMA PutKeepsChain ==
  ASSUME ProcessTypeOK, op.pid \in Live,
         NEW x \in Table \cup Page, NEW f \in Index \cup {None},
         process_table' = Put(x, f)
  PROVE  /\ process_table' \in [Pid -> Proc \cup {None}]
         /\ process_table'[0] = None
         /\ Live' = Live
         /\ \A p \in Live : process_table'[p].parent = process_table[p].parent
<1> USE FramesAssumption, ProcessAssumption
<1>1. op.pid \in Pid /\ op.pid # 0 /\ process_table[op.pid] # None
  BY DEF Live
<1>2. process_table[op.pid] \in Proc
  BY <1>1 DEF ProcessTypeOK
<1> DEFINE old == process_table[op.pid]
           mapped == [old.mapped EXCEPT ![x] = f]
           made == [old EXCEPT !.mapped = mapped]
<1>3. process_table' = [process_table EXCEPT ![op.pid] = made]
  BY DEF Put
<1>4. made \in Proc /\ made.parent = process_table[op.pid].parent /\ made # None
  <2>1. mapped \in [Table \cup Page -> Index \cup {None}]
    BY <1>2 DEF Proc
  <2> HIDE DEF mapped
  <2>2. made \in Proc /\ made.parent = old.parent
    BY <1>2, <2>1 DEF Proc
  <2> QED BY <2>2
<1>5. process_table' \in [Pid -> Proc \cup {None}] /\ process_table'[0] = None
  BY <1>1, <1>3, <1>4 DEF ProcessTypeOK
<1>6. \A p \in Pid : process_table'[p] = IF p = op.pid THEN made ELSE process_table[p]
  BY <1>1, <1>3 DEF ProcessTypeOK
<1>7. Live' = Live
  BY <1>1, <1>4, <1>6 DEF Live
<1>8. \A p \in Live : process_table'[p].parent = process_table[p].parent
  BY <1>4, <1>6 DEF Live
<1> QED BY <1>5, <1>7, <1>8

(***************************************************************************)
(* Steps that leave the table as it is, or put a frame in it               *)
(***************************************************************************)

LEMMA FramesStep ==
  ASSUME TypeOK, HintLow,
         (\E i \in Index : Allocated(i)) \/ NoFreeFrame \/ UNCHANGED framesVars
  PROVE  TypeOK' /\ HintLow'
<1>1. CASE \E i \in Index : Allocated(i)
  BY <1>1, AllocatedKeepsInv DEF Inv
<1>2. CASE NoFreeFrame
  BY <1>2 DEF NoFreeFrame, TypeOK, HintLow
<1>3. CASE UNCHANGED framesVars
  BY <1>3 DEF framesVars, TypeOK, HintLow
<1> QED BY <1>1, <1>2, <1>3

(* When neither the live processes and their parents nor the one that runs *)
(* change, nor whether one is being loaded, the chain does not.            *)
LEMMA SameChain ==
  ASSUME Nested, Live' = Live, id' = id,
         \A p \in Live : process_table'[p].parent = process_table[p].parent,
         Spawned' = Spawned
  PROVE  Nested'
<1>1. Spawned \subseteq Live
  BY DEF Spawned
<1> QED BY <1>1 DEF Nested

LEMMA TakeFrameKeeps ==
  ASSUME ChainInv, TakeFrame PROVE ChainInv'
<1> USE FramesAssumption DEF ChainInv, TakeFrame
<1>1. PICK i \in Index : Allocated(i) /\ op' = [op EXCEPT !.frame = Probe(i)]
  OBVIOUS
<1>2. Probe(i) \in Index
  BY <1>1, ProbeInRange DEF ProcessTypeOK
<1>3. op' \in Op /\ op'.pc = op.pc /\ op'.pid = op.pid /\ op'.todo = op.todo
  BY <1>1, <1>2 DEF ProcessTypeOK, Op
<1>4. TypeOK' /\ HintLow'
  BY <1>1, FramesStep DEF ProcessTypeOK
<1>5. Live' = Live
  BY DEF Live
<1>6. ProcessTypeOK'
  BY <1>3, <1>4, <1>5 DEF ProcessTypeOK
<1>7. OpOK'
  BY <1>3, <1>5 DEF OpOK, Mapping
<1>8. Nested'
  BY <1>3, <1>5, SameChain DEF Spawned
<1> QED BY <1>4, <1>6, <1>7, <1>8

(* The steps that leave the table and the process that runs as they are,   *)
(* and only say how far the call under way is.                             *)
LEMMA OpStepKeeps ==
  ASSUME ChainInv,
         UNCHANGED <<process_table, id>>,
         TypeOK' /\ HintLow',
         leaked' \in SUBSET Index,
         op' \in Op,
         OpOK',
         (op'.pc \in {"load", "loadFailed"}) = (op.pc \in {"load", "loadFailed"}),
         op.pc \in {"load", "loadFailed"} => op'.pid = op.pid
  PROVE  ChainInv'
<1> USE DEF ChainInv
<1>1. Live' = Live
  BY DEF Live
<1>2. ProcessTypeOK'
  BY <1>1 DEF ProcessTypeOK
<1>3. Spawned' = Spawned
  BY <1>1 DEF Spawned
<1>4. Nested'
  BY <1>1, <1>3, SameChain
<1> QED BY <1>2, <1>4

LEMMA NoFrameKeeps ==
  ASSUME ChainInv, NoFrame \/ MapFails PROVE ChainInv'
<1> USE FramesAssumption DEF ChainInv
<1>1. TypeOK' /\ HintLow'
  BY FramesStep DEF NoFrame, MapFails, ProcessTypeOK
<1>2. /\ Mapping /\ op'.pid = op.pid /\ op'.frame = None /\ op'.pc = AfterErr
      /\ op' \in Op /\ UNCHANGED <<process_table, id>>
  BY DEF NoFrame, MapFails, ProcessTypeOK, Op, Pc, AfterErr
<1>3. leaked' \in SUBSET Index
  BY DEF NoFrame, MapFails, ProcessTypeOK, Op
<1>4. Live' = Live
  BY <1>2 DEF Live
<1>5. OpOK'
  BY <1>2, <1>4 DEF OpOK, Mapping, AfterErr
<1>6. (op'.pc \in {"load", "loadFailed"}) = (op.pc \in {"load", "loadFailed"})
  BY <1>2 DEF Mapping, AfterErr
<1> QED BY <1>1, <1>2, <1>3, <1>5, <1>6, OpStepKeeps

LEMMA StartsAndEndsKeep ==
  ASSUME ChainInv,
         SpawnPanics \/ Mapped \/ FaultHangs \/ \E p \in Page : PageFault(p)
  PROVE  ChainInv'
<1> USE FramesAssumption DEF ChainInv
<1>1. TypeOK' /\ HintLow'
  BY FramesStep DEF SpawnPanics, Mapped, FaultHangs, PageFault, ProcessTypeOK
<1>2. /\ op.pc \notin {"load", "loadFailed"} /\ op'.pc \notin {"load", "loadFailed"}
      /\ UNCHANGED <<process_table, id, leaked>>
  BY DEF SpawnPanics, Mapped, FaultHangs, PageFault, ProcessTypeOK, Op
<1>3. Live' = Live
  BY <1>2 DEF Live
<1>4. op' \in Op /\ OpOK'
  <2>1. CASE SpawnPanics
    BY <2>1, <1>3 DEF SpawnPanics, ProcessTypeOK, Op, Pc, OpOK, Mapping
  <2>2. CASE Mapped
    BY <2>2, <1>3 DEF Mapped, ProcessTypeOK, Op, Pc, OpOK, Mapping
  <2>3. CASE FaultHangs
    BY <2>3, <1>3 DEF FaultHangs, ProcessTypeOK, Op, Pc, OpOK, Mapping
  <2>4. ASSUME NEW p \in Page, PageFault(p) PROVE op' \in Op /\ OpOK'
    <3>1. id \in Pid /\ id \in Live
      BY <2>4 DEF PageFault, ProcessTypeOK, Live
    <3>5. <<p>> \in Seq(Page)
      OBVIOUS
    <3>2. op' \in Op
      BY <2>4, <3>1, <3>5 DEF PageFault, ProcessTypeOK, Op, Pc
    <3>3. op.frame = None
      BY <2>4 DEF PageFault, OpOK, Mapping
    <3>4. OpOK'
      BY <2>4, <1>3, <3>1, <3>3 DEF PageFault, ProcessTypeOK, Op, OpOK, Mapping
    <3> QED BY <3>2, <3>4
  <2> QED BY <2>1, <2>2, <2>3, <2>4
<1> QED BY <1>1, <1>2, <1>4, OpStepKeeps DEF ProcessTypeOK

LEMMA TakeTableKeeps ==
  ASSUME ChainInv, TakeTable PROVE ChainInv'
<1> USE FramesAssumption, ProcessAssumption DEF ChainInv, TakeTable
<1>1. PICK k \in Missing(Head(op.todo)), i \in Index :
        Allocated(i) /\ process_table' = Put(TablesOf[Head(op.todo)][k], Probe(i))
  OBVIOUS
<1>2. Probe(i) \in Index
  BY <1>1, ProbeInRange DEF ProcessTypeOK
<1>3. op.pid \in Live /\ op.todo \in Seq(Page) /\ op.todo # <<>>
  BY DEF OpOK, Mapping, ProcessTypeOK, Op
<1>4. Head(op.todo) \in Page
  BY <1>3
<1>5. TablesOf[Head(op.todo)][k] \in Table
  BY <1>4 DEF Missing
<1>6. /\ process_table' \in [Pid -> Proc \cup {None}] /\ process_table'[0] = None
      /\ Live' = Live
      /\ \A p \in Live : process_table'[p].parent = process_table[p].parent
  BY <1>1, <1>2, <1>3, <1>5, PutKeepsChain
<1>7. TypeOK' /\ HintLow'
  BY <1>1, FramesStep DEF ProcessTypeOK
<1>8. ProcessTypeOK' /\ OpOK'
  BY <1>6, <1>7 DEF ProcessTypeOK, OpOK, Mapping
<1>9. Nested'
  BY <1>6, SameChain DEF Spawned
<1> QED BY <1>7, <1>8, <1>9

LEMMA MapPageKeeps ==
  ASSUME ChainInv, MapPage PROVE ChainInv'
<1> USE FramesAssumption, ProcessAssumption DEF ChainInv, MapPage
<1>1. op.pid \in Live /\ op.todo \in Seq(Page) /\ op.todo # <<>> /\ op.frame \in Index
  BY DEF OpOK, Mapping, ProcessTypeOK, Op
<1>2. Head(op.todo) \in Page /\ Tail(op.todo) \in Seq(Page)
  BY <1>1
<1>3. /\ process_table' \in [Pid -> Proc \cup {None}] /\ process_table'[0] = None
      /\ Live' = Live
      /\ \A p \in Live : process_table'[p].parent = process_table[p].parent
  BY <1>1, <1>2, PutKeepsChain
<1>4. op' \in Op /\ op'.pc = op.pc /\ op'.pid = op.pid /\ op'.frame = None
  BY <1>2 DEF ProcessTypeOK, Op
<1>5. TypeOK' /\ HintLow'
  BY FramesStep DEF ProcessTypeOK
<1>6. ProcessTypeOK' /\ OpOK'
  BY <1>3, <1>4, <1>5 DEF ProcessTypeOK, OpOK, Mapping
<1>7. Nested'
  BY <1>3, <1>4, SameChain DEF Spawned
<1> QED BY <1>5, <1>6, <1>7

(***************************************************************************)
(* Spawn, and the process that comes to run or goes                        *)
(***************************************************************************)

LEMMA LeastOf ==
  ASSUME NEW S \in SUBSET Nat, S # {}
  PROVE  \E x \in S : \A y \in S : x <= y
<1> DEFINE R == OpToRel(<, Nat)
<1>1. IsWellFoundedOn(R, Nat)
  BY NatLessThanWellFounded
<1>2. PICK x \in S : \A y \in S : ~ (<<y, x>> \in R)
  <2> HIDE DEF R
  <2> QED BY <1>1, WFMin
<1>3. ASSUME NEW y \in S PROVE x <= y
  <2>1. x \in Nat /\ y \in Nat
    OBVIOUS
  <2>2. y < x => <<y, x>> \in R
    BY <2>1 DEF OpToRel
  <2> HIDE DEF R
  <2> QED BY <1>2, <2>1, <2>2
<1> QED BY <1>3

LEMMA SlotIsFree ==
  ASSUME FreeSlot # {}
  PROVE  Slot \in Pid /\ Slot # 0 /\ process_table[Slot] = None
<1>1. FreeSlot \subseteq Nat
  BY DEF FreeSlot, Pid
<1>2. PICK p \in FreeSlot : \A q \in FreeSlot : p <= q
  BY <1>1, LeastOf
<1>3. Slot \in FreeSlot
  BY <1>2 DEF Slot
<1> QED BY <1>3 DEF FreeSlot

LEMMA SpawnKeeps ==
  ASSUME ChainInv, NEW b \in Binaries, Spawn(b) PROVE ChainInv'
<1> USE FramesAssumption, ProcessAssumption DEF ChainInv, Spawn
<1>1. PICK i \in Index :
        /\ Allocated(i)
        /\ process_table' = [process_table EXCEPT ![Slot] =
             [parent |-> id, root |-> Probe(i), mapped |-> Unmapped]]
  OBVIOUS
<1> DEFINE child == [parent |-> id, root |-> Probe(i), mapped |-> Unmapped]
<1>2. Probe(i) \in Index
  BY <1>1, ProbeInRange DEF ProcessTypeOK
<1>3. Slot \in Pid /\ Slot # 0 /\ process_table[Slot] = None
  BY SlotIsFree
<1>4. id \in Pid /\ id # Slot
  BY <1>3 DEF ProcessTypeOK, Live, Pid
<1>5. child \in Proc /\ child.parent = id /\ child # None
  BY <1>2, <1>4 DEF Proc, Unmapped
<1>6. \A p \in Pid : process_table'[p] = IF p = Slot THEN child ELSE process_table[p]
  BY <1>1, <1>3 DEF ProcessTypeOK
<1>7. process_table' \in [Pid -> Proc \cup {None}] /\ process_table'[0] = None
  BY <1>1, <1>3, <1>5 DEF ProcessTypeOK
<1>8. Live' = Live \cup {Slot} /\ Slot \notin Live
  BY <1>3, <1>5, <1>6 DEF Live
<1>9. TypeOK' /\ HintLow'
  BY <1>1, FramesStep DEF ProcessTypeOK
<1>10. op' \in Op /\ op'.pc = "load" /\ op'.pid = Slot /\ op'.frame = None
  BY <1>3 DEF ProcessTypeOK, Op, Pc, TypeOK
<1>11. ProcessTypeOK'
  BY <1>7, <1>8, <1>9, <1>10 DEF ProcessTypeOK
<1> HIDE DEF child
<1>12. OpOK'
  BY <1>3, <1>4, <1>5, <1>6, <1>8, <1>10 DEF OpOK
<1>13. Spawned' = Live /\ Spawned = Live
  BY <1>8, <1>10 DEF Spawned
<1>14. \A p \in Live : process_table'[p].parent = process_table[p].parent
  BY <1>6, <1>8 DEF Live
<1>15. process_table'[Slot].parent = id /\ id \in Live \cup {0}
  BY <1>3, <1>5, <1>6 DEF ProcessTypeOK
<1>16. Nested'
  BY <1>8, <1>13, <1>14, <1>15 DEF Nested
<1> QED BY <1>9, <1>11, <1>12, <1>16

LEMMA LoadedKeeps ==
  ASSUME ChainInv, Loaded PROVE ChainInv'
<1> USE FramesAssumption, ProcessAssumption DEF ChainInv, Loaded
<1>1. TypeOK' /\ HintLow'
  BY FramesStep DEF ProcessTypeOK
<1>2. Live' = Live
  BY DEF Live
<1>3. op.pid \in Live /\ op.pid # id /\ op.pid # 0 /\ op.frame = None
  BY DEF OpOK, Mapping, Live
<1>4. CASE op.good
  <2>1. <<ArgsPage>> \in Seq(Page)
    OBVIOUS
  <2>2. op' \in Op /\ op'.pc = "args" /\ op'.pid = op.pid /\ op'.frame = None
    BY <1>3, <1>4, <2>1 DEF ProcessTypeOK, Op, Pc
  <2>3. ProcessTypeOK' /\ OpOK'
    BY <1>1, <1>2, <1>3, <1>4, <2>2 DEF ProcessTypeOK, OpOK
  <2>4. Spawned = Live \ {op.pid} /\ Spawned' = Live
    BY <1>2, <2>2 DEF Spawned
  <2>5. Nested'
    BY <1>2, <1>3, <1>4, <2>4 DEF Nested
  <2> QED BY <1>1, <2>3, <2>5
<1>5. CASE ~op.good
  <2>1. op' \in Op /\ op'.pc = "loadFailed" /\ op'.pid = op.pid /\ op'.frame = None
    BY SMTT(40), <1>3, <1>5 DEF ProcessTypeOK, Op, Pc
  <2>2. OpOK'
    BY <1>2, <1>3, <1>5, <2>1 DEF OpOK
  <2> QED BY <1>1, <1>5, <2>1, <2>2, OpStepKeeps DEF ProcessTypeOK
<1> QED BY <1>4, <1>5

(* What free_process takes away, and what it leaves.                       *)
LEMMA FreeProcessKeeps ==
  ASSUME ChainInv, NEW p \in Live, free_process(p)
  PROVE  /\ TypeOK' /\ HintLow'
         /\ process_table' \in [Pid -> Proc \cup {None}] /\ process_table'[0] = None
         /\ Live' = Live \ {p}
         /\ \A q \in Live \ {p} : process_table'[q].parent = process_table[q].parent
<1> USE FramesAssumption, ProcessAssumption DEF ChainInv
<1>1. p \in Pid /\ p # 0 /\ process_table[p] # None /\ process_table[p] \in Proc
  BY DEF Live, ProcessTypeOK
<1>2. FramesOf(p) \in SUBSET Index /\ FramesOf(p) # {}
  BY <1>1 DEF FramesOf, Proc
<1>3. Index \subseteq Nat
  BY DEF Index
<1> DEFINE low == CHOOSE f \in FramesOf(p) : \A g \in FramesOf(p) : f <= g
<1>4. low \in FramesOf(p) /\ \A g \in FramesOf(p) : low <= g
  BY <1>2, <1>3, LeastOf
<1> HIDE DEF low
<1>5. /\ bitmap' = bitmap \ FramesOf(p)
      /\ next_free_index' = Lesser(next_free_index, low)
      /\ process_table' = [process_table EXCEPT ![p] = None]
      /\ got' = got
  BY DEF free_process, low
<1>6. low \in Index
  BY <1>2, <1>4
<1>7. /\ Lesser(next_free_index, low) \in 0 .. FramesCount
      /\ Lesser(next_free_index, low) <= next_free_index
      /\ Lesser(next_free_index, low) <= low
  BY <1>6 DEF ProcessTypeOK, TypeOK, Lesser, Index
<1>8. TypeOK'
  BY <1>5, <1>7 DEF ProcessTypeOK, TypeOK
<1>9. HintLow'
  <2> SUFFICES ASSUME NEW f \in Index, f < next_free_index' PROVE f \in bitmap'
    BY DEF HintLow
  <2>1. f < next_free_index /\ f < low
    BY <1>5, <1>6, <1>7 DEF ProcessTypeOK, TypeOK, Index
  <2>2. f \in bitmap
    BY <2>1 DEF HintLow
  <2>3. f \notin FramesOf(p)
    BY <1>4, <1>6, <2>1 DEF Index
  <2> QED BY <1>5, <2>2, <2>3
<1>10. \A q \in Pid : process_table'[q] = IF q = p THEN None ELSE process_table[q]
  BY <1>1, <1>5 DEF ProcessTypeOK
<1>11. process_table' \in [Pid -> Proc \cup {None}] /\ process_table'[0] = None
  BY <1>1, <1>5 DEF ProcessTypeOK
<1>12. Live' = Live \ {p}
  BY <1>10 DEF Live
<1>13. \A q \in Live \ {p} : process_table'[q].parent = process_table[q].parent
  BY <1>10 DEF Live
<1> QED BY <1>8, <1>9, <1>11, <1>12, <1>13

LEMMA SpawnFailsKeeps ==
  ASSUME ChainInv, SpawnFails PROVE ChainInv'
<1> USE DEF ChainInv
<1>1. op.pid \in Live /\ op.pid # id /\ op.frame = None
  BY DEF SpawnFails, OpOK, Mapping
<1>2. /\ TypeOK' /\ HintLow'
      /\ process_table' \in [Pid -> Proc \cup {None}] /\ process_table'[0] = None
      /\ Live' = Live \ {op.pid}
      /\ \A q \in Live \ {op.pid} : process_table'[q].parent = process_table[q].parent
  BY <1>1, FreeProcessKeeps DEF SpawnFails
<1>3. /\ op' \in Op /\ op'.pc = "run" /\ op'.frame = None
      /\ id' = id /\ leaked' = leaked
  BY <1>1 DEF SpawnFails, ProcessTypeOK, Op, Pc
<1>4. ProcessTypeOK'
  BY <1>1, <1>2, <1>3 DEF ProcessTypeOK
<1>5. OpOK'
  BY <1>3 DEF OpOK
<1>6. Spawned = Live \ {op.pid} /\ Spawned' = Live'
  BY <1>3 DEF Spawned, SpawnFails
<1>7. Nested'
  BY <1>2, <1>3, <1>6 DEF Nested
<1> QED BY <1>2, <1>4, <1>5, <1>7

(* Nobody that is left was spawned by the process that goes.               *)
LEMMA ExitKeeps ==
  ASSUME ChainInv, Exit PROVE ChainInv'
<1> USE DEF ChainInv
<1>1. id \in Live /\ id # 0 /\ op.frame = None
  BY DEF Exit, OpOK, Mapping, ProcessTypeOK
<1>2. /\ TypeOK' /\ HintLow'
      /\ process_table' \in [Pid -> Proc \cup {None}] /\ process_table'[0] = None
      /\ Live' = Live \ {id}
      /\ \A q \in Live \ {id} : process_table'[q].parent = process_table[q].parent
  BY <1>1, FreeProcessKeeps DEF Exit
<1>3. <<>> \in Seq(Page)
  OBVIOUS
<1>4. op' = [op EXCEPT !.pc = "run", !.todo = <<>>] /\ op \in Op
  BY DEF Exit, ProcessTypeOK
<1>5. /\ op' \in Op /\ op'.pc = "run" /\ op'.frame = None
      /\ id' = process_table[id].parent /\ leaked' = leaked
  BY <1>1, <1>3, <1>4 DEF Exit, Op, Pc
<1>6. Spawned = Live /\ Spawned' = Live'
  BY <1>5 DEF Spawned, Exit
<1>7. \A q \in Live : process_table[q].parent \in (Live \ {id}) \cup {0}
  BY <1>1, <1>6 DEF Nested
<1>8. ProcessTypeOK'
  BY <1>1, <1>2, <1>5, <1>7 DEF ProcessTypeOK
<1>9. OpOK'
  BY <1>5 DEF OpOK
<1>10. Nested'
  <2>1. \A q \in Live' : process_table'[q].parent \in Spawned' \cup {0}
    BY <1>2, <1>6, <1>7
  <2>2. \A q, r \in Live' : process_table'[q].parent = process_table'[r].parent => q = r
    BY <1>2 DEF Nested
  <2>3. \A q \in Spawned' : process_table'[q].parent # id'
    BY <1>1, <1>2, <1>5, <1>6 DEF Nested
  <2> QED BY <2>1, <2>2, <2>3 DEF Nested
<1> QED BY <1>2, <1>8, <1>9, <1>10

(***************************************************************************)
(* The theorem                                                             *)
(***************************************************************************)

LEMMA ChainStep == ChainInv /\ [ProcessNext]_vars => ChainInv'
<1> SUFFICES ASSUME ChainInv, [ProcessNext]_vars PROVE ChainInv'
  OBVIOUS
<1>1. ASSUME NEW b \in Binaries, Spawn(b) PROVE ChainInv'
  BY <1>1, SpawnKeeps
<1>2. CASE SpawnPanics \/ Mapped \/ FaultHangs \/ \E p \in Page : PageFault(p)
  BY <1>2, StartsAndEndsKeep
<1>3. CASE TakeFrame
  BY <1>3, TakeFrameKeeps
<1>4. CASE NoFrame \/ MapFails
  BY <1>4, NoFrameKeeps
<1>5. CASE TakeTable
  BY <1>5, TakeTableKeeps
<1>6. CASE MapPage
  BY <1>6, MapPageKeeps
<1>7. CASE Loaded
  BY <1>7, LoadedKeeps
<1>8. CASE SpawnFails
  BY <1>8, SpawnFailsKeeps
<1>9. CASE Exit
  BY <1>9, ExitKeeps
<1>10. CASE UNCHANGED vars
  <2>1. TypeOK' /\ HintLow'
    BY <1>10, FramesStep DEF vars, ChainInv, ProcessTypeOK
  <2>2. UNCHANGED <<process_table, id, op, leaked>>
    BY <1>10 DEF vars
  <2>3. OpOK'
    BY <2>2 DEF ChainInv, OpOK, Live, Mapping
  <2> QED BY <2>1, <2>2, <2>3, OpStepKeeps DEF ChainInv, ProcessTypeOK
<1> QED
  BY <1>1, <1>2, <1>3, <1>4, <1>5, <1>6, <1>7, <1>8, <1>9, <1>10 DEF ProcessNext

(* In every state the process table, the call under way and the frames are *)
(* of their types, the hint of the allocator is low though a whole process *)
(* is given back at once, and the live processes are a chain of spawns     *)
(* that ends in the one that runs (mod.rs:229-235).                        *)
THEOREM Chain == ProcessSpec => [](ProcessTypeOK /\ HintLow /\ Nested)
<1>1. ProcessSpec => []ChainInv
  BY ChainInit, ChainStep, PTL DEF ProcessSpec
<1>2. ChainInv => ProcessTypeOK /\ HintLow /\ Nested
  BY DEF ChainInv
<1> QED BY <1>1, <1>2, PTL

(***************************************************************************)
(* No frame has two owners, and every frame in use has one: over the chain *)
(* of spawns, which says whose memory a step maps or frees.                *)
(***************************************************************************)

Owned == UNION {FramesOf(p) : p \in Live}

OwnersInv == ChainInv /\ OneOwner /\ Accounted

LEMMA OwnersInit == ProcessInit => OneOwner /\ Accounted
<1> SUFFICES ASSUME ProcessInit PROVE OneOwner /\ Accounted
  OBVIOUS
<1>1. Live = {} /\ Hand = {} /\ leaked = {}
  BY DEF ProcessInit, Live, Hand
<1> QED BY <1>1 DEF ProcessInit, OneOwner, Accounted

(***************************************************************************)
(* A frame comes to a process                                              *)
(***************************************************************************)

LEMMA FramesAreFrames ==
  ASSUME ProcessTypeOK, NEW p \in Live
  PROVE  FramesOf(p) \in SUBSET Index
<1>1. process_table[p] \in Proc
  BY DEF ProcessTypeOK, Live
<1> QED BY <1>1 DEF FramesOf, Proc

(* What is owned is in use, so what is allocated is owned by nobody.       *)
LEMMA AllocatedIsNew ==
  ASSUME OwnersInv, NEW i \in Index, Allocated(i)
  PROVE  /\ Probe(i) \in Index
         /\ Probe(i) \notin Kernel \cup leaked \cup Hand
         /\ \A p \in Live : Probe(i) \notin FramesOf(p)
         /\ bitmap' = bitmap \cup {Probe(i)}
<1>1. Probe(i) \in Index
  BY ProbeInRange DEF OwnersInv, ChainInv, ProcessTypeOK
<1>2. Probe(i) \notin bitmap /\ bitmap' = bitmap \cup {Probe(i)}
  BY DEF Allocated, FoundAt
<1> QED BY <1>1, <1>2 DEF OwnersInv, Accounted

LEMMA RangeWithOne ==
  ASSUME NEW S, NEW g, NEW h, NEW x \in S, NEW f, NEW none,
         f # none, g[x] = none,
         \A y \in S : h[y] = IF y = x THEN f ELSE g[y]
  PROVE  {h[y] : y \in S} \ {none} = ({g[y] : y \in S} \ {none}) \cup {f}
<1>1. ASSUME NEW e \in {h[y] : y \in S} \ {none}
      PROVE  e \in ({g[y] : y \in S} \ {none}) \cup {f}
  OBVIOUS
<1>2. ASSUME NEW e \in {g[y] : y \in S} \ {none}
      PROVE  e \in {h[y] : y \in S}
  OBVIOUS
<1>3. f \in {h[y] : y \in S}
  OBVIOUS
<1> QED BY <1>1, <1>2, <1>3

LEMMA PutGives ==
  ASSUME ProcessTypeOK, op.pid \in Live,
         NEW x \in Table \cup Page, NEW f \in Index,
         process_table[op.pid].mapped[x] = None,
         process_table' = Put(x, f)
  PROVE  /\ Live' = Live
         /\ \A p \in Live \ {op.pid} : process_table'[p] = process_table[p]
         /\ process_table'[op.pid].root = process_table[op.pid].root
         /\ \A y \in Table \cup Page :
              process_table'[op.pid].mapped[y]
                = IF y = x THEN f ELSE process_table[op.pid].mapped[y]
         /\ \A p \in Live :
              FramesOf(p)' = FramesOf(p) \cup (IF p = op.pid THEN {f} ELSE {})
<1> USE FramesAssumption, ProcessAssumption
<1>1. op.pid \in Pid /\ process_table[op.pid] \in Proc
  BY DEF ProcessTypeOK, Live
<1> DEFINE old == process_table[op.pid]
           mapped == [old.mapped EXCEPT ![x] = f]
           made == [old EXCEPT !.mapped = mapped]
<1>2. Live' = Live
  BY PutKeepsChain
<1>3. process_table' = [process_table EXCEPT ![op.pid] = made]
  BY DEF Put
<1>4. /\ mapped \in [Table \cup Page -> Index \cup {None}]
      /\ \A y \in Table \cup Page : mapped[y] = IF y = x THEN f ELSE old.mapped[y]
  BY <1>1 DEF Proc
<1> HIDE DEF mapped
<1>5. made.root = old.root /\ made.mapped = mapped
  BY <1>1 DEF Proc
<1>6. \A p \in Pid : process_table'[p] = IF p = op.pid THEN made ELSE process_table[p]
  BY <1>1, <1>3 DEF ProcessTypeOK
<1> HIDE DEF made
<1>7. \A p \in Live \ {op.pid} : process_table'[p] = process_table[p]
  BY <1>6 DEF Live
<1>8. process_table'[op.pid] = made
  BY <1>1, <1>6
<1>9. f # None /\ old.mapped[x] = None
  OBVIOUS
<1>10. ASSUME NEW p \in Live
       PROVE  FramesOf(p)' = FramesOf(p) \cup (IF p = op.pid THEN {f} ELSE {})
  <2>1. CASE p = op.pid
    <3>1. process_table'[p].root = old.root /\ process_table'[p].mapped = mapped
      BY <1>5, <1>8, <2>1
    <3>2. FramesOf(p)' = {old.root} \cup ({mapped[y] : y \in Table \cup Page} \ {None})
      BY <3>1 DEF FramesOf
    <3>3. {mapped[y] : y \in Table \cup Page} \ {None}
            = ({old.mapped[y] : y \in Table \cup Page} \ {None}) \cup {f}
      BY SMTT(40), <1>4, <1>9, RangeWithOne
    <3>4. FramesOf(p) = {old.root} \cup ({old.mapped[y] : y \in Table \cup Page} \ {None})
      BY <2>1 DEF FramesOf
    <3> QED BY <2>1, <3>2, <3>3, <3>4
  <2>2. CASE p # op.pid
    <3>1. process_table'[p] = process_table[p]
      BY <1>7, <2>2
    <3>2. FramesOf(p)' = FramesOf(p)
      BY <3>1 DEF FramesOf
    <3> QED BY <2>2, <3>2
  <2> QED BY <2>1, <2>2
<1> QED BY <1>2, <1>4, <1>5, <1>7, <1>8, <1>10

(* A frame that nobody has, mapped where nothing was, has one owner.       *)
LEMMA PutKeepsOwners ==
  ASSUME ProcessTypeOK, OneOwner, op.pid \in Live,
         NEW x \in Table \cup Page, NEW f \in Index,
         process_table[op.pid].mapped[x] = None,
         process_table' = Put(x, f),
         leaked' = leaked, Hand' \subseteq Hand,
         f \notin Kernel \cup leaked \cup Hand',
         \A p \in Live : f \notin FramesOf(p)
  PROVE  OneOwner' /\ Owned' = Owned \cup {f}
<1> USE FramesAssumption
<1> DEFINE old == process_table[op.pid]
<1>1. /\ Live' = Live
      /\ \A p \in Live \ {op.pid} : process_table'[p] = process_table[p]
      /\ process_table'[op.pid].root = old.root
      /\ \A y \in Table \cup Page :
           process_table'[op.pid].mapped[y] = IF y = x THEN f ELSE old.mapped[y]
      /\ \A p \in Live :
           FramesOf(p)' = FramesOf(p) \cup (IF p = op.pid THEN {f} ELSE {})
  BY PutGives
<1>2. ASSUME NEW p \in Live, NEW q \in Live, p # q
      PROVE  FramesOf(p)' \cap FramesOf(q)' = {}
  <2>1. FramesOf(p) \cap FramesOf(q) = {} /\ f \notin FramesOf(p) \cup FramesOf(q)
    BY <1>2 DEF OneOwner
  <2>2. p # op.pid \/ q # op.pid
    BY <1>2
  <2> QED BY <1>1, <2>1, <2>2
<1>3. ASSUME NEW p \in Live
      PROVE  FramesOf(p)' \cap (Kernel \cup leaked' \cup Hand') = {}
  BY <1>1 DEF OneOwner
<1>4. f # None /\ f \notin FramesOf(op.pid)
  OBVIOUS
<1>5. /\ f # old.root
      /\ \A y \in Table \cup Page : f # old.mapped[y]
  BY <1>4 DEF FramesOf
<1>6. ASSUME NEW p \in Live
      PROVE  /\ \A y, z \in Table \cup Page :
                  y # z /\ process_table'[p].mapped[y] # None
                    => process_table'[p].mapped[y] # process_table'[p].mapped[z]
             /\ \A y \in Table \cup Page :
                  process_table'[p].root # process_table'[p].mapped[y]
  <2>1. /\ \A y, z \in Table \cup Page :
             y # z /\ process_table[p].mapped[y] # None
               => process_table[p].mapped[y] # process_table[p].mapped[z]
        /\ \A y \in Table \cup Page :
             process_table[p].root # process_table[p].mapped[y]
    BY DEF OneOwner
  <2>2. CASE p # op.pid
    BY <1>1, <2>1, <2>2
  <2>3. CASE p = op.pid
    BY <1>1, <1>5, <2>1, <2>3
  <2> QED BY <2>2, <2>3
<1>7. OneOwner'
  <2>1. Hand' \cap (Kernel \cup leaked') = {} /\ leaked' \cap Kernel = {}
    BY DEF OneOwner
  <2> QED BY <1>1, <1>2, <1>3, <1>6, <2>1 DEF OneOwner
<1>8. Owned' = Owned \cup {f}
  <2>1. Owned' = UNION {FramesOf(p)' : p \in Live}
    BY <1>1 DEF Owned
  <2> QED BY <1>1, <2>1 DEF Owned
<1> QED BY <1>7, <1>8

LEMMA TakeTableKeepsOwners ==
  ASSUME OwnersInv, TakeTable PROVE OneOwner' /\ Accounted'
<1> USE FramesAssumption, ProcessAssumption DEF OwnersInv, ChainInv, TakeTable
<1>1. PICK k \in Missing(Head(op.todo)), i \in Index :
        Allocated(i) /\ process_table' = Put(TablesOf[Head(op.todo)][k], Probe(i))
  OBVIOUS
<1> DEFINE x == TablesOf[Head(op.todo)][k]
<1>2. op.pid \in Live /\ Head(op.todo) \in Page
  BY SMTT(40) DEF OpOK, Mapping, ProcessTypeOK, Op
<1>3. x \in Table /\ process_table[op.pid].mapped[x] = None
  BY <1>2 DEF Missing
<1>4. /\ Probe(i) \in Index /\ Probe(i) \notin Kernel \cup leaked \cup Hand
      /\ \A p \in Live : Probe(i) \notin FramesOf(p)
      /\ bitmap' = bitmap \cup {Probe(i)}
  BY <1>1, AllocatedIsNew
<1>5. Hand' = Hand /\ leaked' = leaked
  BY DEF Hand
<1> HIDE DEF x
<1>6. OneOwner' /\ Owned' = Owned \cup {Probe(i)}
  BY <1>1, <1>2, <1>3, <1>4, <1>5, PutKeepsOwners DEF x
<1>7. Accounted'
  BY <1>4, <1>5, <1>6 DEF Accounted, Owned
<1> QED BY <1>6, <1>7

LEMMA MapPageKeepsOwners ==
  ASSUME OwnersInv, MapPage PROVE OneOwner' /\ Accounted'
<1> USE FramesAssumption, ProcessAssumption DEF OwnersInv, ChainInv, MapPage
<1>1. op.pid \in Live /\ Head(op.todo) \in Page /\ op.frame \in Index
  BY DEF OpOK, Mapping, ProcessTypeOK, Op
<1>2. Hand = {op.frame} /\ Hand' = {} /\ leaked' = leaked /\ bitmap' = bitmap
  BY DEF Hand, framesVars, ProcessTypeOK, Op
<1>3. /\ op.frame \notin Kernel \cup leaked \cup Hand'
      /\ \A p \in Live : op.frame \notin FramesOf(p)
  BY <1>2 DEF OneOwner
<1>4. OneOwner' /\ Owned' = Owned \cup {op.frame}
  BY <1>1, <1>2, <1>3, PutKeepsOwners
<1>5. Accounted'
  BY <1>2, <1>4 DEF Accounted, Owned
<1> QED BY <1>4, <1>5

(***************************************************************************)
(* A frame comes to the call under way, or is lost                         *)
(***************************************************************************)

(* A step that leaves the table as it is only has its own frame to answer  *)
(* for.                                                                    *)
LEMMA TableStays ==
  ASSUME OneOwner, process_table' = process_table,
         Hand' \cap (Kernel \cup leaked') = {}, leaked' \cap Kernel = {},
         \A p \in Live : FramesOf(p) \cap (leaked' \cup Hand') = {}
  PROVE  OneOwner' /\ Owned' = Owned
<1>1. Live' = Live /\ \A p \in Live : FramesOf(p)' = FramesOf(p)
  BY DEF Live, FramesOf
<1>2. OneOwner'
  BY <1>1 DEF OneOwner
<1>3. Owned' = UNION {FramesOf(p)' : p \in Live}
  BY <1>1 DEF Owned
<1> QED BY <1>1, <1>2, <1>3 DEF Owned

LEMMA TakeFrameKeepsOwners ==
  ASSUME OwnersInv, TakeFrame PROVE OneOwner' /\ Accounted'
<1> USE FramesAssumption DEF OwnersInv, ChainInv, TakeFrame
<1>1. PICK i \in Index : Allocated(i) /\ op' = [op EXCEPT !.frame = Probe(i)]
  OBVIOUS
<1>2. /\ Probe(i) \in Index /\ Probe(i) \notin Kernel \cup leaked \cup Hand
      /\ \A p \in Live : Probe(i) \notin FramesOf(p)
      /\ bitmap' = bitmap \cup {Probe(i)}
  BY <1>1, AllocatedIsNew
<1>3. op'.frame = Probe(i)
  BY <1>1 DEF ProcessTypeOK, Op
<1>4. Hand = {} /\ Hand' = {Probe(i)}
  BY <1>2, <1>3 DEF Hand
<1>5. OneOwner' /\ Owned' = Owned
  BY <1>2, <1>4, TableStays DEF OneOwner
<1>6. Accounted'
  BY <1>2, <1>4, <1>5 DEF Accounted, Owned
<1> QED BY <1>5, <1>6

LEMMA MapFailsKeepsOwners ==
  ASSUME OwnersInv, MapFails PROVE OneOwner' /\ Accounted'
<1> USE FramesAssumption DEF OwnersInv, ChainInv, MapFails
<1>1. Hand = {op.frame} /\ Hand' = {} /\ leaked' = leaked \cup {op.frame}
  BY DEF Hand, ProcessTypeOK, Op
<1>2. bitmap' = bitmap
  BY DEF NoFreeFrame, framesVars
<1>3. OneOwner' /\ Owned' = Owned
  BY <1>1, TableStays DEF OneOwner
<1>4. Accounted'
  BY <1>1, <1>2, <1>3 DEF Accounted, Owned
<1> QED BY <1>3, <1>4

(* Steps that move no frame. *)
LEMMA NoFrameMoves ==
  ASSUME OwnersInv, UNCHANGED <<bitmap, process_table, leaked>>, op'.frame = op.frame
  PROVE  OneOwner' /\ Accounted'
<1> USE DEF OwnersInv
<1>1. Hand' = Hand
  BY DEF Hand
<1>2. OneOwner' /\ Owned' = Owned
  BY <1>1, TableStays DEF OneOwner
<1>3. Accounted'
  BY <1>1, <1>2 DEF Accounted, Owned
<1> QED BY <1>2, <1>3

(***************************************************************************)
(* A process comes or goes                                                 *)
(***************************************************************************)

LEMMA SpawnKeepsOwners ==
  ASSUME OwnersInv, NEW b \in Binaries, Spawn(b) PROVE OneOwner' /\ Accounted'
<1> USE FramesAssumption, ProcessAssumption DEF OwnersInv, ChainInv, Spawn
<1>1. PICK i \in Index :
        /\ Allocated(i)
        /\ process_table' = [process_table EXCEPT ![Slot] =
             [parent |-> id, root |-> Probe(i), mapped |-> Unmapped]]
  OBVIOUS
<1> DEFINE child == [parent |-> id, root |-> Probe(i), mapped |-> Unmapped]
<1>2. /\ Probe(i) \in Index /\ Probe(i) \notin Kernel \cup leaked \cup Hand
      /\ \A p \in Live : Probe(i) \notin FramesOf(p)
      /\ bitmap' = bitmap \cup {Probe(i)}
  BY <1>1, AllocatedIsNew
<1>3. Slot \in Pid /\ Slot # 0 /\ process_table[Slot] = None
  BY SlotIsFree
<1>4. id \in Pid
  BY DEF ProcessTypeOK, Live, Pid
<1>5. child \in Proc
  BY <1>2, <1>4 DEF Proc, Unmapped
<1>6. \A p \in Pid : process_table'[p] = IF p = Slot THEN child ELSE process_table[p]
  BY <1>1, <1>3 DEF ProcessTypeOK
<1>7. child # None /\ child.root = Probe(i) /\ child.mapped = Unmapped
  BY <1>5
<1> HIDE DEF child
<1>8. Live' = Live \cup {Slot} /\ Slot \notin Live
  BY <1>3, <1>6, <1>7 DEF Live
<1>9. /\ \A p \in Live : process_table'[p] = process_table[p]
      /\ process_table'[Slot] = child
  BY <1>3, <1>6, <1>8 DEF Live
<1>10. \A x \in Table \cup Page : child.mapped[x] = None
  BY <1>7 DEF Unmapped
<1>11. ASSUME NEW p \in Live'
       PROVE  FramesOf(p)' = IF p = Slot THEN {Probe(i)} ELSE FramesOf(p)
  <2>1. CASE p = Slot
    <3>1. process_table'[p].root = Probe(i) /\ process_table'[p].mapped = Unmapped
      BY <1>7, <1>9, <2>1
    <3>2. {Unmapped[x] : x \in Table \cup Page} \ {None} = {}
      BY DEF Unmapped
    <3> QED BY ZenonT(40), <2>1, <3>1, <3>2 DEF FramesOf
  <2>2. CASE p # Slot
    <3>1. process_table'[p] = process_table[p]
      BY <1>8, <1>9, <2>2
    <3>2. FramesOf(p)' = FramesOf(p)
      BY <3>1 DEF FramesOf
    <3> QED BY <2>2, <3>2
  <2> QED BY <2>1, <2>2
<1>12. op.frame = None /\ Hand' = Hand /\ leaked' = leaked
  BY DEF OpOK, Mapping, Hand
<1>13. OneOwner'
  <2>1. ASSUME NEW p \in Live', NEW q \in Live', p # q
        PROVE  FramesOf(p)' \cap FramesOf(q)' = {}
    BY <1>2, <1>8, <1>11, <2>1 DEF OneOwner
  <2>2. ASSUME NEW p \in Live'
        PROVE  FramesOf(p)' \cap (Kernel \cup leaked' \cup Hand') = {}
    BY <1>2, <1>8, <1>11, <1>12 DEF OneOwner
  <2>3. ASSUME NEW p \in Live'
        PROVE  /\ \A y, z \in Table \cup Page :
                    y # z /\ process_table'[p].mapped[y] # None
                      => process_table'[p].mapped[y] # process_table'[p].mapped[z]
               /\ \A y \in Table \cup Page :
                    process_table'[p].root # process_table'[p].mapped[y]
    <3>1. CASE p = Slot
      <4>1. Probe(i) # None
        BY <1>2
      <4> QED BY <1>7, <1>9, <1>10, <3>1, <4>1
    <3>2. CASE p # Slot
      <4>1. p \in Live /\ process_table'[p] = process_table[p]
        BY <1>8, <1>9, <3>2
      <4> QED BY <4>1 DEF OneOwner
    <3> QED BY <3>1, <3>2
  <2>4. Hand' \cap (Kernel \cup leaked') = {} /\ leaked' \cap Kernel = {}
    BY <1>12 DEF OneOwner
  <2> QED BY <2>1, <2>2, <2>3, <2>4 DEF OneOwner
<1>14. Owned' = Owned \cup {Probe(i)}
  <2>1. Owned' = UNION {FramesOf(p)' : p \in Live'}
    BY DEF Owned
  <2> QED BY <1>8, <1>11, <2>1 DEF Owned
<1>15. Accounted'
  BY <1>2, <1>12, <1>14 DEF Accounted, Owned
<1> QED BY <1>13, <1>15

(* What free_process gives back is nobody else's, so the others keep what  *)
(* they have.                                                              *)
LEMMA FreeProcessKeepsOwners ==
  ASSUME OwnersInv, NEW p \in Live, free_process(p),
         op.frame = None, op'.frame = None, leaked' = leaked
  PROVE  OneOwner' /\ Accounted'
<1> USE DEF OwnersInv
<1>1. Live' = Live \ {p} /\ bitmap' = bitmap \ FramesOf(p)
  BY FreeProcessKeeps DEF free_process
<1>2. process_table' = [process_table EXCEPT ![p] = None] /\ p \in Pid
  BY DEF free_process, Live
<1>3. ASSUME NEW q \in Live'
      PROVE  q \in Live /\ q # p /\ process_table'[q] = process_table[q]
  BY <1>1, <1>2 DEF ChainInv, ProcessTypeOK, Live
<1>4. \A q \in Live' : FramesOf(q)' = FramesOf(q)
  BY <1>3 DEF FramesOf
<1>5. Hand = {} /\ Hand' = {}
  BY DEF Hand
<1>6. OneOwner'
  <2>1. \A q, r \in Live' : q # r => FramesOf(q)' \cap FramesOf(r)' = {}
    BY <1>3, <1>4 DEF OneOwner
  <2>2. \A q \in Live' : FramesOf(q)' \cap (Kernel \cup leaked' \cup Hand') = {}
    BY <1>3, <1>4, <1>5 DEF OneOwner
  <2>3. ASSUME NEW q \in Live'
        PROVE  /\ \A y, z \in Table \cup Page :
                    y # z /\ process_table'[q].mapped[y] # None
                      => process_table'[q].mapped[y] # process_table'[q].mapped[z]
               /\ \A y \in Table \cup Page :
                    process_table'[q].root # process_table'[q].mapped[y]
    BY <1>3 DEF OneOwner
  <2>4. leaked' \cap Kernel = {}
    BY DEF OneOwner
  <2> QED BY <1>5, <2>1, <2>2, <2>3, <2>4 DEF OneOwner
<1>7. Accounted'
  <2>1. Owned' = UNION {FramesOf(q) : q \in Live'}
    BY <1>4 DEF Owned
  <2>2. Owned = Owned' \cup FramesOf(p)
    BY <1>1, <2>1 DEF Owned
  <2>3. FramesOf(p) \cap (Kernel \cup leaked \cup Owned') = {}
    <3>1. \A q \in Live' : FramesOf(p) \cap FramesOf(q) = {}
      BY <1>3 DEF OneOwner
    <3>2. FramesOf(p) \cap Owned' = {}
      BY <2>1, <3>1
    <3> QED BY <3>2 DEF OneOwner
  <2>4. bitmap = Kernel \cup leaked \cup Owned
    BY <1>5 DEF Accounted, Owned
  <2>5. bitmap' = Kernel \cup leaked \cup Owned'
    BY <1>1, <2>2, <2>3, <2>4
  <2> QED BY <1>5, <2>5 DEF Accounted, Owned
<1> QED BY <1>6, <1>7

(* No frame has two owners (the kernel, the pages and page tables of the   *)
(* processes, the call under way), every frame in use has one or was lost  *)
(* by an error of map_to, and no frame that is free is still mapped.       *)
THEOREM Owners == ProcessSpec => []FramesOwned
<1>2. ChainInv /\ ChainInv' /\ OneOwner /\ Accounted /\ [ProcessNext]_vars
        => OneOwner' /\ Accounted'
  <2> SUFFICES ASSUME OwnersInv, ChainInv', [ProcessNext]_vars
               PROVE  OneOwner' /\ Accounted'
    BY DEF OwnersInv
  <2>1. ASSUME NEW b \in Binaries, Spawn(b) PROVE OneOwner' /\ Accounted'
    BY <2>1, SpawnKeepsOwners
  <2>2. CASE TakeFrame
    BY <2>2, TakeFrameKeepsOwners
  <2>3. CASE TakeTable
    BY <2>3, TakeTableKeepsOwners
  <2>4. CASE MapPage
    BY <2>4, MapPageKeepsOwners
  <2>5. CASE MapFails
    BY <2>5, MapFailsKeepsOwners
  <2>6. CASE \/ SpawnPanics \/ NoFrame \/ Loaded \/ Mapped \/ FaultHangs
             \/ \E p \in Page : PageFault(p)
    <3>1. UNCHANGED <<bitmap, process_table, leaked>> /\ op'.frame = op.frame
      BY <2>6 DEF SpawnPanics, NoFrame, Loaded, Mapped, FaultHangs, PageFault,
                  NoFreeFrame, framesVars, OwnersInv, ChainInv, ProcessTypeOK, Op
    <3> QED BY <3>1, NoFrameMoves
  <2>7. CASE SpawnFails
    <3>1. /\ op.pid \in Live /\ op.frame = None /\ op'.frame = None
          /\ free_process(op.pid) /\ leaked' = leaked
      BY <2>7 DEF SpawnFails, OwnersInv, ChainInv, OpOK, Mapping, ProcessTypeOK, Op
    <3> QED BY <3>1, FreeProcessKeepsOwners
  <2>8. CASE Exit
    <3>1. /\ id \in Live /\ op.frame = None /\ op'.frame = None
          /\ free_process(id) /\ leaked' = leaked
      BY <2>8 DEF Exit, OwnersInv, ChainInv, OpOK, Mapping, ProcessTypeOK, Op
    <3> QED BY <3>1, FreeProcessKeepsOwners
  <2>9. CASE UNCHANGED vars
    BY <2>9, NoFrameMoves DEF vars, framesVars
  <2> QED
    BY <2>1, <2>2, <2>3, <2>4, <2>5, <2>6, <2>7, <2>8, <2>9 DEF ProcessNext
<1>3. ProcessSpec => []ChainInv
  BY ChainInit, ChainStep, PTL DEF ProcessSpec
<1>4. ProcessInit => OneOwner /\ Accounted
  BY OwnersInit
<1>5. ProcessSpec => []OneOwner /\ []Accounted
  BY <1>2, <1>3, <1>4, PTL DEF ProcessSpec
<1>6. OneOwner /\ Accounted => FramesOwned
  BY DEF FramesOwned
<1> QED BY <1>5, <1>6, PTL

(***************************************************************************)
(* The chain reaches every process from the one that runs: each has a      *)
(* depth of its own, one more than its parent's, and the one that runs is  *)
(* the deepest.  Nested by itself would allow a ring of processes beside   *)
(* the chain, which nothing would ever end.                                *)
(***************************************************************************)

Depth(d) ==
  /\ d[0] = 0
  /\ \A p \in Spawned : d[p] = d[process_table[p].parent] + 1 /\ d[p] <= d[id]
  /\ \A p, q \in Spawned : d[p] = d[q] => p = q

Deep == \E d \in [Pid -> Nat] : Depth(d)

(* Most steps leave the spawned processes and their parents alone. *)
LEMMA SameDepths ==
  ASSUME Deep, Spawned' \subseteq Spawned, id' = id,
         \A p \in Spawned' : process_table'[p].parent = process_table[p].parent
  PROVE  Deep'
BY DEF Deep, Depth

(* The child that exec enters is one deeper than its parent. *)
LEMMA LoadedKeepsDeep ==
  ASSUME ChainInv, Deep, Loaded PROVE Deep'
<1> USE ProcessAssumption DEF ChainInv, Loaded
<1>1. /\ op.pid \in Live /\ op.pid # 0 /\ op.pid # id
      /\ process_table[op.pid].parent = id /\ Live' = Live
      /\ process_table' = process_table
  BY DEF OpOK, Live
<1>2. Spawned = Live \ {op.pid}
  BY DEF Spawned
<1>3. CASE op.good
  <2>1. PICK d \in [Pid -> Nat] : Depth(d)
    BY DEF Deep
  <2>2. id \in Pid /\ op.pid \in Pid /\ 0 \in Pid /\ Live \subseteq Pid
    BY <1>1 DEF ProcessTypeOK, Live, Pid
  <2>3. PICK e \in [Pid -> Nat] :
          \A p \in Pid : e[p] = IF p = op.pid THEN d[id] + 1 ELSE d[p]
    <3> DEFINE deeper == [d EXCEPT ![op.pid] = d[id] + 1]
    <3>1. /\ deeper \in [Pid -> Nat]
          /\ \A p \in Pid : deeper[p] = IF p = op.pid THEN d[id] + 1 ELSE d[p]
      BY <2>2
    <3> QED BY <3>1
  <2>4. Spawned' = Live /\ id' = op.pid
    <3>1. op'.pc = "args"
      BY <1>3 DEF ProcessTypeOK, Op
    <3> QED BY <1>1, <1>3, <3>1 DEF Spawned
  <2>5. \A p \in Spawned : process_table[p].parent \in Pid \ {op.pid} /\ d[p] <= d[id]
    BY <1>1, <1>2, <2>1, <2>2 DEF Nested, Depth
  <2>6. ASSUME NEW p \in Live
        PROVE  e[p] = e[process_table[p].parent] + 1 /\ e[p] <= e[op.pid]
    <3>1. CASE p = op.pid
      BY <1>1, <2>2, <2>3, <3>1
    <3>2. CASE p # op.pid
      <4>1. p \in Spawned
        BY <1>2, <3>2
      <4>2. /\ d[p] = d[process_table[p].parent] + 1 /\ d[p] <= d[id]
            /\ process_table[p].parent \in Pid \ {op.pid}
        BY <2>1, <2>5, <4>1 DEF Depth
      <4>3. /\ e[p] = d[p] /\ e[op.pid] = d[id] + 1
            /\ e[process_table[p].parent] = d[process_table[p].parent]
        BY <2>2, <2>3, <3>2, <4>2
      <4>4. d[p] \in Nat /\ d[id] \in Nat
        BY <2>1, <2>2
      <4> QED BY <4>2, <4>3, <4>4
    <3> QED BY <3>1, <3>2
  <2>7. ASSUME NEW p \in Live, NEW q \in Live, e[p] = e[q]
        PROVE  p = q
    <3>1. \A r \in Live \ {op.pid} : e[r] = d[r] /\ d[r] \in Nat /\ d[r] <= d[id]
      BY <1>2, <2>1, <2>2, <2>3, <2>5
    <3>2. e[op.pid] = d[id] + 1 /\ d[id] \in Nat
      BY <2>1, <2>2, <2>3
    <3>3. CASE p # op.pid /\ q # op.pid
      BY <1>2, <2>1, <2>7, <3>1, <3>3 DEF Depth
    <3>4. CASE p = op.pid \/ q = op.pid
      BY <2>7, <3>1, <3>2, <3>4
    <3> QED BY <3>3, <3>4
  <2>8. e[0] = 0
    BY <1>1, <2>1, <2>2, <2>3 DEF Depth
  <2>9. Depth(e)'
    BY <1>1, <2>4, <2>6, <2>7, <2>8 DEF Depth
  <2> QED BY <2>3, <2>9 DEF Deep
<1>4. CASE ~op.good
  <2>1. op'.pc = "loadFailed" /\ op'.pid = op.pid
    BY <1>4 DEF ProcessTypeOK, Op
  <2>2. Spawned' = Spawned
    BY <1>1, <1>2, <2>1 DEF Spawned
  <2> QED BY <1>1, <1>4, <2>2, SameDepths
<1> QED BY <1>3, <1>4

(* The parent that exit comes back to is the deepest of those left. *)
LEMMA ExitKeepsDeep ==
  ASSUME ChainInv, Deep, Exit PROVE Deep'
<1> USE DEF ChainInv
<1>1. id \in Live /\ id # 0
  BY DEF Exit, ProcessTypeOK
<1>2. /\ Live' = Live \ {id}
      /\ \A q \in Live \ {id} : process_table'[q].parent = process_table[q].parent
  BY <1>1, FreeProcessKeeps DEF Exit
<1>3. op'.pc = "run" /\ id' = process_table[id].parent
  BY DEF Exit, ProcessTypeOK, Op
<1>4. Spawned = Live /\ Spawned' = Live \ {id}
  BY <1>2, <1>3 DEF Spawned, Exit
<1>5. PICK d \in [Pid -> Nat] : Depth(d)
  BY DEF Deep
<1>6. id \in Pid /\ id' \in Pid /\ Live \subseteq Pid
  <2>1. 0 \in Pid /\ Live \subseteq Pid
    BY ProcessAssumption DEF Live, Pid
  <2>2. process_table[id].parent \in Live \cup {0}
    BY <1>1, <1>4 DEF Nested
  <2> QED BY <1>1, <1>3, <2>1, <2>2
<1>7. d[id] = d[id'] + 1
  BY <1>1, <1>3, <1>4, <1>5 DEF Depth
<1>8. ASSUME NEW p \in Live \ {id}
      PROVE  d[p] <= d[id']
  <2>1. d[p] # d[id] /\ d[p] <= d[id]
    BY <1>1, <1>4, <1>5 DEF Depth
  <2>2. d[p] \in Nat /\ d[id'] \in Nat
    BY <1>5, <1>6
  <2> QED BY <1>7, <2>1, <2>2
<1>9. Depth(d)'
  BY <1>2, <1>4, <1>5, <1>8 DEF Depth
<1> QED BY <1>5, <1>9 DEF Deep

LEMMA DeepStep == ChainInv /\ ChainInv' /\ Deep /\ [ProcessNext]_vars => Deep'
<1> SUFFICES ASSUME ChainInv, Deep, [ProcessNext]_vars PROVE Deep'
  OBVIOUS
<1> USE ProcessAssumption DEF ChainInv
<1>1. ASSUME NEW b \in Binaries, Spawn(b) PROVE Deep'
  <2>1. Slot \in Pid /\ Slot # 0 /\ process_table[Slot] = None
    BY <1>1, SlotIsFree DEF Spawn
  <2>2. \A p \in Pid \ {Slot} : process_table'[p] = process_table[p]
    BY <1>1, <2>1 DEF Spawn, ProcessTypeOK
  <2>3. op'.pc = "load" /\ op'.pid = Slot /\ id' = id /\ op.pc = "run"
    BY <1>1 DEF Spawn
  <2>4. Spawned' \subseteq Live /\ Spawned = Live
    BY <2>1, <2>2, <2>3 DEF Spawned, Live
  <2>5. \A p \in Spawned' : process_table'[p] = process_table[p]
    BY <2>1, <2>2, <2>4 DEF Live
  <2> QED BY <2>3, <2>4, <2>5, SameDepths
<1>2. CASE SpawnPanics \/ Mapped \/ FaultHangs \/ \E p \in Page : PageFault(p)
  <2>1. UNCHANGED <<process_table, id>> /\ Live' = Live
    BY <1>2 DEF SpawnPanics, Mapped, FaultHangs, PageFault, Live
  <2>2. op.pc \notin {"load", "loadFailed"} /\ op'.pc \notin {"load", "loadFailed"}
    BY <1>2 DEF SpawnPanics, Mapped, FaultHangs, PageFault, ProcessTypeOK, Op
  <2>3. Spawned' = Spawned
    BY <2>1, <2>2 DEF Spawned
  <2> QED BY <2>1, <2>3, SameDepths
<1>3. CASE TakeFrame \/ NoFrame \/ MapFails
  <2>1. UNCHANGED <<process_table, id>> /\ Live' = Live /\ op'.pid = op.pid
    BY <1>3 DEF TakeFrame, NoFrame, MapFails, Live, ProcessTypeOK, Op
  <2>2. op.pc \in {"load", "loadFailed"} <=> op'.pc \in {"load", "loadFailed"}
    BY <1>3 DEF TakeFrame, NoFrame, MapFails, Mapping, AfterErr, ProcessTypeOK, Op
  <2>3. Spawned' = Spawned
    BY <2>1, <2>2 DEF Spawned
  <2> QED BY <2>1, <2>3, SameDepths
<1>4. CASE TakeTable \/ MapPage
  <2>1. op.pid \in Live /\ id' = id /\ Mapping /\ Head(op.todo) \in Page
    BY <1>4 DEF TakeTable, MapPage, OpOK, Mapping, ProcessTypeOK, Op
  <2>2. PICK x \in Table \cup Page, f \in Index \cup {None} : process_table' = Put(x, f)
    <3>1. CASE TakeTable
      BY <3>1, <2>1, ProbeInRange DEF TakeTable, Missing, ProcessTypeOK
    <3>2. CASE MapPage
      BY <3>2, <2>1 DEF MapPage, ProcessTypeOK, Op
    <3> QED BY <1>4, <3>1, <3>2
  <2>3. /\ Live' = Live
        /\ \A p \in Live : process_table'[p].parent = process_table[p].parent
    BY <2>1, <2>2, PutKeepsChain
  <2>4. op'.pc = op.pc /\ op'.pid = op.pid
    BY <1>4 DEF TakeTable, MapPage, ProcessTypeOK, Op
  <2>5. Spawned' = Spawned /\ Spawned \subseteq Live
    BY <2>3, <2>4 DEF Spawned
  <2> QED BY <2>1, <2>3, <2>5, SameDepths
<1>5. CASE Loaded
  BY <1>5, LoadedKeepsDeep
<1>6. CASE SpawnFails
  <2>1. op.pid \in Live /\ id' = id /\ op'.pc = "run" /\ op.pc = "loadFailed"
    BY <1>6 DEF SpawnFails, OpOK, ProcessTypeOK, Op
  <2>2. /\ Live' = Live \ {op.pid}
        /\ \A q \in Live \ {op.pid} : process_table'[q].parent = process_table[q].parent
    BY <1>6, <2>1, FreeProcessKeeps DEF SpawnFails
  <2>3. Spawned' = Spawned /\ Spawned = Live \ {op.pid}
    BY <2>1, <2>2 DEF Spawned
  <2> QED BY <2>1, <2>2, <2>3, SameDepths
<1>7. CASE Exit
  BY <1>7, ExitKeepsDeep
<1>8. CASE UNCHANGED vars
  <2>1. UNCHANGED <<process_table, id, op>>
    BY <1>8 DEF vars
  <2>2. Spawned' = Spawned
    BY <2>1 DEF Spawned, Live
  <2> QED BY <2>1, <2>2, SameDepths
<1> QED BY <1>1, <1>2, <1>3, <1>4, <1>5, <1>6, <1>7, <1>8 DEF ProcessNext

(* When the kernel's process runs again every process it spawned, and what *)
(* those spawned, has ended, and all the frames but the kernel's are back, *)
(* except for those that an error of map_to lost (mod.rs:229-235).         *)
THEOREM GivenBack == ProcessSpec => []AllGivenBack
<1>1. ProcessInit => Deep
  <2> SUFFICES ASSUME ProcessInit PROVE Deep
    OBVIOUS
  <2>1. Spawned = {} /\ 0 \in Pid
    BY ProcessAssumption DEF ProcessInit, Spawned, Live, Pid
  <2>2. [p \in Pid |-> 0] \in [Pid -> Nat] /\ Depth([p \in Pid |-> 0])
    BY <2>1 DEF Depth
  <2> QED BY <2>2 DEF Deep
<1>2. ChainInv /\ Deep /\ FramesOwned => AllGivenBack
  <2> SUFFICES ASSUME ChainInv, Deep, FramesOwned, id = 0, op.pc = "run"
               PROVE  Live = {} /\ bitmap = Kernel \cup leaked
    BY DEF AllGivenBack
  <2>1. PICK d \in [Pid -> Nat] : Depth(d)
    BY DEF Deep
  <2>2. Spawned = Live
    BY DEF Spawned
  <2>3. Live = {}
    <3> SUFFICES ASSUME NEW p \in Live PROVE FALSE
      OBVIOUS
    <3>1. d[p] = d[process_table[p].parent] + 1 /\ d[p] <= 0
      BY <2>1, <2>2 DEF Depth
    <3>2. process_table[p].parent \in Pid
      BY <2>2 DEF ChainInv, Nested, Live, Pid, ProcessTypeOK
    <3>3. d[process_table[p].parent] \in Nat
      BY <2>1, <3>2
    <3> QED BY <3>1, <3>3
  <2>4. Hand = {}
    BY DEF ChainInv, OpOK, Mapping, Hand
  <2> QED BY <2>3, <2>4 DEF FramesOwned, Accounted
<1>3. ProcessSpec => []ChainInv
  BY ChainInit, ChainStep, PTL DEF ProcessSpec
<1>4. ProcessSpec => []Deep
  BY <1>1, <1>3, DeepStep, PTL DEF ProcessSpec
<1> QED BY <1>2, <1>3, <1>4, Owners, PTL

(***************************************************************************)
(* While a binary is loaded, the frames in use are those of before, those  *)
(* that errors of map_to lost, and those the call under way has taken, none *)
(* of which was in use before.                                             *)
(***************************************************************************)

Loading == op.pc \in {"load", "loadFailed"}
TakenNow == FramesOf(op.pid) \cup Hand
LoadTakes ==
  Loading => bitmap = op.before \cup leaked \cup TakenNow /\ TakenNow \cap op.before = {}

LEMMA SpawnTakesRoot ==
  ASSUME OwnersInv, NEW b \in Binaries, Spawn(b) PROVE LoadTakes'
<1> USE FramesAssumption, ProcessAssumption DEF OwnersInv, ChainInv, Spawn
<1>1. PICK i \in Index :
        /\ Allocated(i)
        /\ process_table' = [process_table EXCEPT ![Slot] =
             [parent |-> id, root |-> Probe(i), mapped |-> Unmapped]]
  OBVIOUS
<1>2. Slot \in Pid
  BY SlotIsFree
<1>3. /\ process_table'[Slot].root = Probe(i)
      /\ process_table'[Slot].mapped = Unmapped
  BY <1>1, <1>2 DEF ProcessTypeOK
<1>4. Probe(i) \notin bitmap /\ bitmap' = bitmap \cup {Probe(i)}
  BY <1>1 DEF Allocated, FoundAt
<1>5. op'.pid = Slot /\ op'.frame = None /\ op'.before = bitmap /\ leaked' = leaked
  OBVIOUS
<1>6. {Unmapped[x] : x \in Table \cup Page} \ {None} = {}
  BY DEF Unmapped
<1>7. TakenNow' = {Probe(i)}
  BY ZenonT(40), <1>3, <1>5, <1>6 DEF TakenNow, FramesOf, Hand
<1>8. leaked \subseteq bitmap
  BY DEF Accounted
<1> QED BY <1>4, <1>5, <1>7, <1>8 DEF LoadTakes

LEMMA LoadTakesStep ==
  OwnersInv /\ ChainInv' /\ LoadTakes /\ [ProcessNext]_vars => LoadTakes'
<1> SUFFICES ASSUME OwnersInv, LoadTakes, [ProcessNext]_vars, Loading' PROVE LoadTakes'
  BY DEF LoadTakes
<1> USE FramesAssumption, ProcessAssumption DEF OwnersInv, ChainInv
<1>1. ASSUME NEW b \in Binaries, Spawn(b) PROVE LoadTakes'
  BY <1>1, SpawnTakesRoot
<1>2. CASE SpawnPanics \/ Mapped \/ FaultHangs \/ SpawnFails \/ Exit
           \/ \E p \in Page : PageFault(p)
  <2>1. op'.pc \in {"panic", "run", "fault"}
    BY <1>2 DEF SpawnPanics, Mapped, FaultHangs, PageFault, SpawnFails, Exit,
                ProcessTypeOK, Op
  <2> QED BY <2>1 DEF Loading
<1>3. CASE TakeFrame
  <2>1. PICK i \in Index : Allocated(i) /\ op' = [op EXCEPT !.frame = Probe(i)]
    BY <1>3 DEF TakeFrame
  <2>2. Probe(i) \in Index /\ Probe(i) \notin bitmap /\ bitmap' = bitmap \cup {Probe(i)}
    BY <2>1, ProbeInRange DEF Allocated, FoundAt, ProcessTypeOK
  <2>3. /\ op'.pc = op.pc /\ op'.pid = op.pid /\ op'.before = op.before
        /\ op'.frame = Probe(i) /\ op.frame = None
        /\ process_table' = process_table /\ leaked' = leaked
    BY <1>3, <2>1 DEF TakeFrame, ProcessTypeOK, Op
  <2>4. TakenNow' = TakenNow \cup {Probe(i)}
    BY <2>2, <2>3 DEF TakenNow, FramesOf, Hand
  <2> QED BY <2>2, <2>3, <2>4 DEF LoadTakes, Loading
<1>4. CASE NoFrame \/ Loaded \/ UNCHANGED vars
  <2>1. /\ Loading /\ op'.pid = op.pid /\ op'.before = op.before
        /\ op'.frame = op.frame /\ UNCHANGED <<bitmap, process_table, leaked>>
    BY ZenonT(40), <1>4 DEF NoFrame, Loaded, vars, framesVars, NoFreeFrame, AfterErr, Mapping,
                Loading, ProcessTypeOK, Op
  <2>2. TakenNow' = TakenNow
    BY <2>1 DEF TakenNow, FramesOf, Hand
  <2> QED BY <2>1, <2>2 DEF LoadTakes
<1>5. CASE TakeTable
  <2>1. PICK k \in Missing(Head(op.todo)), i \in Index :
          Allocated(i) /\ process_table' = Put(TablesOf[Head(op.todo)][k], Probe(i))
    BY <1>5 DEF TakeTable
  <2> DEFINE x == TablesOf[Head(op.todo)][k]
  <2>2. op.pid \in Live /\ Head(op.todo) \in Page
    BY <1>5 DEF TakeTable, OpOK, Mapping, ProcessTypeOK, Op
  <2>3. x \in Table /\ process_table[op.pid].mapped[x] = None
    BY <2>2 DEF Missing
  <2>4. Probe(i) \in Index /\ Probe(i) \notin bitmap /\ bitmap' = bitmap \cup {Probe(i)}
    BY <2>1, ProbeInRange DEF Allocated, FoundAt, ProcessTypeOK
  <2>5. op' = op /\ leaked' = leaked
    BY <1>5 DEF TakeTable
  <2> HIDE DEF x
  <2>6. FramesOf(op.pid)' = FramesOf(op.pid) \cup {Probe(i)}
    <3>1. \A p \in Live :
            FramesOf(p)' = FramesOf(p) \cup (IF p = op.pid THEN {Probe(i)} ELSE {})
      BY <2>1, <2>2, <2>3, <2>4, PutGives DEF x
    <3>2. PICK p \in Live : p = op.pid
      BY <2>2
    <3>3. op'.pid = p
      BY <2>5, <3>2
    <3>4. FramesOf(op.pid)' = FramesOf(p)'
      BY <3>3, Zenon DEF FramesOf
    <3>5. FramesOf(op.pid) = FramesOf(p)
      BY <3>2
    <3> QED BY SMTT(40), <3>1, <3>2, <3>4, <3>5
  <2>7. TakenNow' = TakenNow \cup {Probe(i)}
    BY <2>5, <2>6 DEF TakenNow, Hand
  <2> QED BY <2>4, <2>5, <2>7 DEF LoadTakes, Loading
<1>6. CASE MapPage
  <2>1. op.pid \in Live /\ Head(op.todo) \in Page /\ op.frame \in Index
    BY <1>6 DEF MapPage, OpOK, Mapping, ProcessTypeOK, Op
  <2>2. /\ op'.pc = op.pc /\ op'.pid = op.pid /\ op'.before = op.before
        /\ op'.frame = None /\ leaked' = leaked /\ bitmap' = bitmap
    BY <1>6 DEF MapPage, framesVars, ProcessTypeOK, Op
  <2>3. FramesOf(op.pid)' = FramesOf(op.pid) \cup {op.frame}
    <3>1. \A p \in Live :
            FramesOf(p)' = FramesOf(p) \cup (IF p = op.pid THEN {op.frame} ELSE {})
      BY <1>6, <2>1, PutGives DEF MapPage
    <3>2. PICK p \in Live : p = op.pid
      BY <2>1
    <3>3. op'.pid = p
      BY <2>2, <3>2
    <3>4. FramesOf(op.pid)' = FramesOf(p)'
      BY <3>3, Zenon DEF FramesOf
    <3>5. FramesOf(op.pid) = FramesOf(p)
      BY <3>2
    <3> QED BY <3>1, <3>2, <3>4, <3>5
  <2>4. TakenNow' = TakenNow
    BY <2>1, <2>2, <2>3 DEF TakenNow, Hand
  <2> QED BY <2>2, <2>4 DEF LoadTakes, Loading
<1>7. CASE MapFails
  <2>1. /\ Loading /\ op'.pid = op.pid /\ op'.before = op.before
        /\ op'.frame = None /\ op.frame # None /\ leaked' = leaked \cup {op.frame}
        /\ UNCHANGED <<bitmap, process_table>>
    BY <1>7 DEF MapFails, framesVars, NoFreeFrame, AfterErr, Mapping, Loading,
                ProcessTypeOK, Op
  <2>2. TakenNow = TakenNow' \cup {op.frame}
    BY <2>1 DEF TakenNow, FramesOf, Hand
  <2> QED BY <2>1, <2>2 DEF LoadTakes
<1> QED BY <1>1, <1>2, <1>3, <1>4, <1>5, <1>6, <1>7 DEF ProcessNext

(* A binary that cannot be loaded, however many of its pages were mapped   *)
(* and whatever took the last frame, leaves the frames in use as they were *)
(* before spawn, but for those that errors of map_to lost (spawn.rs:300).  *)
THEOREM Restores == ProcessSpec => SpawnRestores
<1>1. ProcessInit => LoadTakes
  BY DEF ProcessInit, LoadTakes, Loading
<1>2. ProcessSpec => []ChainInv
  BY ChainInit, ChainStep, PTL DEF ProcessSpec
<1>3. ProcessSpec => []OwnersInv
  <2>1. ChainInv /\ FramesOwned => OwnersInv
    BY DEF FramesOwned, OwnersInv
  <2> QED BY <1>2, <2>1, Owners, PTL
<1>4. ProcessSpec => []LoadTakes
  BY <1>1, <1>2, <1>3, LoadTakesStep, PTL DEF ProcessSpec
<1>5. OwnersInv /\ LoadTakes /\ [ProcessNext]_vars
        => [op.pc = "loadFailed" /\ op'.pc = "run" => bitmap' = op.before \cup leaked']_vars
  <2> SUFFICES ASSUME OwnersInv, LoadTakes, ProcessNext, op.pc = "loadFailed",
                      op'.pc = "run"
               PROVE  bitmap' = op.before \cup leaked'
    OBVIOUS
  <2>1. SpawnFails
    BY DEF ProcessNext, Spawn, SpawnPanics, TakeFrame, NoFrame, TakeTable, MapPage,
           MapFails, Loaded, Mapped, FaultHangs, Exit, PageFault, Mapping
  <2>2. op.pid \in Live /\ op.frame = None
    BY DEF OwnersInv, ChainInv, OpOK, Mapping
  <2>3. bitmap' = bitmap \ FramesOf(op.pid) /\ leaked' = leaked
    BY <2>1 DEF SpawnFails, free_process
  <2>4. TakenNow = FramesOf(op.pid)
    BY <2>2 DEF TakenNow, Hand
  <2>5. FramesOf(op.pid) \cap leaked = {}
    BY <2>2 DEF OwnersInv, OneOwner
  <2> QED BY <2>3, <2>4, <2>5 DEF LoadTakes, Loading
<1> QED BY <1>3, <1>4, <1>5, PTL DEF ProcessSpec, SpawnRestores

(***************************************************************************)
(* What init makes of any memory map whose regions are in order and apart. *)
(* SumTo is recursive over a sequence: Sums says of a function that it has *)
(* the sums of the first elements of g, which SumTo then has too.          *)
(***************************************************************************)

Sums(h, g, n) ==
  /\ h \in [0 .. n -> Nat] /\ h[0] = 0
  /\ \A k \in 1 .. n : h[k] = h[k - 1] + g[k]

(* Induction, over a set of numbers. *)
LEMMA Upward ==
  ASSUME NEW P, 0 \in P, \A n \in Nat : n \in P => n + 1 \in P
  PROVE  Nat \subseteq P
<1> SUFFICES ASSUME Nat \ P # {} PROVE FALSE
  OBVIOUS
<1>1. PICK n \in Nat \ P : \A m \in Nat \ P : n <= m
  BY LeastOf
<1>2. n # 0 /\ n - 1 \in Nat
  BY <1>1
<1>3. n - 1 \in P
  BY <1>1, <1>2
<1>4. (n - 1) + 1 \in P
  BY <1>2, <1>3
<1> QED BY <1>1, <1>4

LEMMA SumsExist ==
  ASSUME NEW L \in Nat, NEW g, \A k \in 1 .. L : g[k] \in Nat
  PROVE  \E h : Sums(h, g, L)
<1> DEFINE P == {n \in Nat : n <= L => \E h : Sums(h, g, n)}
<1>1. 0 \in P
  <2>1. Sums([k \in 0 .. 0 |-> 0], g, 0)
    BY DEF Sums
  <2> QED BY <2>1
<1>2. ASSUME NEW n \in Nat, n \in P PROVE n + 1 \in P
  <2>1. SUFFICES ASSUME n + 1 <= L PROVE \E h : Sums(h, g, n + 1)
    OBVIOUS
  <2>2. PICK h : Sums(h, g, n)
    BY <1>2, <2>1
  <2> DEFINE f == [k \in 0 .. n + 1 |-> IF k = n + 1 THEN h[n] + g[n + 1] ELSE h[k]]
  <2>3. h[n] \in Nat /\ g[n + 1] \in Nat /\ h[0] = 0 /\ \A k \in 0 .. n : h[k] \in Nat
    BY <2>1, <2>2 DEF Sums
  <2>4. f \in [0 .. n + 1 -> Nat]
    BY <2>3
  <2>5. ASSUME NEW k \in 1 .. n + 1 PROVE f[k] = f[k - 1] + g[k]
    BY <2>2, <2>5 DEF Sums
  <2>6. f[0] = 0
    BY <2>3
  <2> QED BY <2>4, <2>5, <2>6 DEF Sums
<1>3. L \in P
  <2> HIDE DEF P
  <2> QED BY <1>1, <1>2, Upward
<1> QED BY <1>3

LEMMA SumsGrow ==
  ASSUME NEW L \in Nat, NEW g, \A k \in 1 .. L : g[k] \in Nat,
         NEW h, Sums(h, g, L), NEW i \in 0 .. L, NEW j \in 0 .. L, i <= j
  PROVE  h[i] <= h[j]
<1> DEFINE P == {d \in Nat : i + d <= L => h[i] <= h[i + d]}
<1>0. \A k \in 0 .. L : h[k] \in Nat
  BY DEF Sums
<1>1. 0 \in P
  BY <1>0
<1>2. ASSUME NEW d \in Nat, d \in P PROVE d + 1 \in P
  <2>1. SUFFICES ASSUME i + d + 1 <= L PROVE h[i] <= h[i + d + 1]
    OBVIOUS
  <2>2. h[i] <= h[i + d]
    BY <1>2, <2>1
  <2>3. i + d + 1 \in 1 .. L /\ (i + d + 1) - 1 = i + d /\ i + d \in 0 .. L
    BY <2>1
  <2>4. h[i + d + 1] = h[i + d] + g[i + d + 1]
    BY <2>3 DEF Sums
  <2>5. g[i + d + 1] \in Nat /\ h[i + d] \in Nat /\ h[i] \in Nat
    BY <1>0, <2>3
  <2> QED BY <2>2, <2>4, <2>5
<1>3. j - i \in P
  <2>1. j - i \in Nat
    OBVIOUS
  <2> HIDE DEF P
  <2> QED BY <1>1, <1>2, <2>1, Upward
<1>4. i + (j - i) = j
  OBVIOUS
<1> QED BY <1>3, <1>4

(* A recursive sum has the values that sums have. *)
LEMMA SumsOnly ==
  ASSUME NEW L \in Nat, NEW g, NEW h, Sums(h, g, L), NEW n \in 0 .. L,
         NEW F, \A k \in 0 .. n : F[k] = IF k = 0 THEN 0 ELSE F[k - 1] + g[k]
  PROVE  F[n] = h[n]
<1> DEFINE Off == {k \in 0 .. n : F[k] # h[k]}
<1> SUFFICES ASSUME Off # {} PROVE FALSE
  OBVIOUS
<1>1. PICK k \in Off : \A m \in Off : k <= m
  <2>1. Off \in SUBSET Nat
    OBVIOUS
  <2> HIDE DEF Off
  <2> QED BY <2>1, LeastOf
<1>2. k # 0
  BY <1>1 DEF Sums
<1>3. k - 1 \in 0 .. n /\ k - 1 \notin Off /\ k \in 1 .. L
  BY <1>1, <1>2
<1>4. F[k - 1] = h[k - 1]
  BY <1>3
<1>5. F[k] = F[k - 1] + g[k] /\ h[k] = h[k - 1] + g[k]
  BY <1>1, <1>2, <1>3 DEF Sums
<1> QED BY <1>1, <1>4, <1>5

Counts(s) == [k \in 1 .. Len(s) |-> s[k].frame_count]

UpperBounds(s) == [k \in 1 .. Len(s) |-> FramesUpTo(s[k])]

LEMMA CountsSum ==
  ASSUME NEW s, Len(s) \in Nat, NEW h, Sums(h, Counts(s), Len(s)), NEW n \in 0 .. Len(s)
  PROVE  SumTo(FrameCount, s, n) = h[n]
<1> DEFINE Is(f) == f = [k \in 0 .. n |-> IF k = 0 THEN 0 ELSE f[k - 1] + s[k].frame_count]
           F == CHOOSE f : Is(f)
           e == [k \in 0 .. n |-> h[k]]
<1>1. Is(e)
  <2>1. ASSUME NEW k \in 0 .. n
        PROVE  h[k] = IF k = 0 THEN 0 ELSE e[k - 1] + s[k].frame_count
    BY DEF Sums, Counts
  <2> QED BY <2>1
<1>2. Is(F)
  <2> HIDE DEF Is, e
  <2> QED BY <1>1
<1>3. \A k \in 0 .. n : F[k] = IF k = 0 THEN 0 ELSE F[k - 1] + Counts(s)[k]
  <2> HIDE DEF F
  <2> QED BY <1>2 DEF Counts
<1>4. F[n] = h[n]
  <2> HIDE DEF F
  <2> QED BY <1>3, SumsOnly
<1>5. SumTo(FrameCount, s, n) = F[n]
  BY DEF SumTo, FrameCount
<1> QED BY <1>4, <1>5

LEMMA BoundsSum ==
  ASSUME NEW s, Len(s) \in Nat, NEW h, Sums(h, UpperBounds(s), Len(s)), NEW n \in 0 .. Len(s)
  PROVE  SumTo(FramesUpTo, s, n) = h[n]
<1> DEFINE Is(f) == f = [k \in 0 .. n |-> IF k = 0 THEN 0 ELSE f[k - 1] + FramesUpTo(s[k])]
           F == CHOOSE f : Is(f)
           e == [k \in 0 .. n |-> h[k]]
<1>1. Is(e)
  <2>1. ASSUME NEW k \in 0 .. n
        PROVE  h[k] = IF k = 0 THEN 0 ELSE e[k - 1] + FramesUpTo(s[k])
    BY DEF Sums, UpperBounds
  <2> QED BY <2>1
<1>2. Is(F)
  <2> HIDE DEF Is, e
  <2> QED BY <1>1
<1>3. \A k \in 0 .. n : F[k] = IF k = 0 THEN 0 ELSE F[k - 1] + UpperBounds(s)[k]
  <2> HIDE DEF F
  <2> QED BY <1>2 DEF UpperBounds
<1>4. F[n] = h[n]
  <2> HIDE DEF F
  <2> QED BY <1>3, SumsOnly
<1>5. SumTo(FramesUpTo, s, n) = F[n]
  BY DEF SumTo
<1> QED BY <1>4, <1>5

LEMMA Divides ==
  ASSUME NEW x \in Nat, NEW d \in Nat \ {0}
  PROVE  x \div d \in Nat /\ (x \div d) * d <= x /\ x < (x \div d) * d + d
<1>1. x = d * (x \div d) + (x % d) /\ x % d \in 0 .. d - 1 /\ x \div d \in Int
  OBVIOUS
<1>2. PICK q \in Int, r \in 0 .. d - 1 : q = x \div d /\ r = x % d /\ x = d * q + r
  BY <1>1
<1>3. q >= 0
  <2> SUFFICES ASSUME q <= -1 PROVE FALSE
    BY <1>2
  <2>1. d * q <= d * (-1)
    BY <1>2
  <2>2. d * (-1) = -d
    OBVIOUS
  <2> QED BY <1>2, <2>1, <2>2
<1>4. d * q = q * d
  BY <1>2
<1> QED BY <1>2, <1>3, <1>4

LEMMA Distributes ==
  ASSUME NEW a \in Int, NEW b \in Int, NEW c \in Int
  PROVE  (a + b) * c = a * c + b * c
OBVIOUS

LEMMA Products ==
  ASSUME NEW a \in Nat, NEW b \in Nat
  PROVE  a * b \in Nat
OBVIOUS

LEMMA Scales ==
  ASSUME NEW a \in Int, NEW b \in Int, NEW c \in Nat, a <= b
  PROVE  a * c <= b * c
<1>1. PICK d \in Nat : b = a + d
  <2>1. b - a \in Nat /\ b = a + (b - a)
    OBVIOUS
  <2> QED BY <2>1
<1>2. b * c = a * c + d * c
  BY <1>1, Distributes
<1>3. d * c \in Nat /\ a * c \in Int
  OBVIOUS
<1>4. \A x \in Int, y \in Nat : x <= x + y
  OBVIOUS
<1> QED BY <1>2, <1>3, <1>4

LEMMA DividesBack ==
  ASSUME NEW a \in Nat, NEW c \in Nat \ {0}
  PROVE  (a * c) \div c = a
<1>1. a * c \in Nat
  OBVIOUS
<1>2. PICK q \in Nat : q = (a * c) \div c /\ q * c <= a * c /\ a * c < q * c + c
  BY <1>1, Divides
<1>3. q * c + c = (q + 1) * c
  BY <1>2
<1>4. ~ (q + 1 <= a)
  BY <1>2, <1>3, Scales
<1>5. a + 1 <= q => (a + 1) * c <= q * c
  BY <1>2, Scales
<1>6. (a + 1) * c = a * c + c
  OBVIOUS
<1>7. ~ (a + 1 <= q)
  BY <1>1, <1>2, <1>5, <1>6
<1> QED BY <1>2, <1>4, <1>7

LEMMA Cancels ==
  ASSUME NEW a \in Int, NEW b \in Int, NEW c \in Nat \ {0}, a * c <= b * c
  PROVE  a <= b
<1> SUFFICES ASSUME b + 1 <= a PROVE FALSE
  OBVIOUS
<1>1. (b + 1) * c <= a * c
  BY Scales
<1>2. (b + 1) * c = b * c + 1 * c
  BY Distributes
<1>3. a * c \in Int /\ b * c \in Int /\ 1 * c = c
  OBVIOUS
<1> QED BY <1>1, <1>2, <1>3

(* The pages below an address, and the first page from it on. *)
Down(x) == x \div PageSize

Up(x) == (x + PageSize - 1) \div PageSize

LEMMA DownIs ==
  ASSUME NEW x \in Nat
  PROVE  /\ Down(x) \in Nat /\ Down(x) * PageSize <= x
         /\ \A f \in Nat : f * PageSize <= x => f <= Down(x)
<1>1. PICK d \in Nat, p \in Nat :
        d = Down(x) /\ p = d * PageSize /\ p <= x /\ x < p + PageSize
  <2>1. PICK d \in Nat : d = Down(x) /\ d * PageSize <= x /\ x < d * PageSize + PageSize
    BY PageAssumption, Divides DEF Down
  <2>2. d * PageSize \in Nat
    BY PageAssumption, Products
  <2> QED BY <2>1, <2>2
<1>2. ASSUME NEW f \in Nat, f * PageSize <= x PROVE f <= d
  <2>1. (d + 1) * PageSize = p + PageSize
    BY <1>1, PageAssumption, Distributes
  <2>2. SUFFICES ASSUME d + 1 <= f PROVE FALSE
    BY <1>1
  <2>3. (d + 1) * PageSize <= f * PageSize
    BY <2>2, PageAssumption, Scales
  <2>4. PICK q \in Nat : q = f * PageSize
    BY PageAssumption, Products
  <2> QED BY <1>1, <1>2, <2>1, <2>3, <2>4, PageAssumption
<1> QED BY <1>1, <1>2

LEMMA UpIs ==
  ASSUME NEW x \in Nat
  PROVE  /\ Up(x) \in Nat /\ x <= Up(x) * PageSize
         /\ \A f \in Nat : x <= f * PageSize <=> Up(x) <= f
<1>0. PICK y \in Nat : y = x + PageSize - 1
  BY PageAssumption
<1>1. PICK d \in Nat, p \in Nat :
        d = Up(x) /\ p = d * PageSize /\ p <= y /\ y < p + PageSize
  <2>1. PICK d \in Nat : d = Up(x) /\ d * PageSize <= y /\ y < d * PageSize + PageSize
    BY <1>0, PageAssumption, Divides DEF Up
  <2>2. d * PageSize \in Nat
    BY PageAssumption, Products
  <2> QED BY <2>1, <2>2
<1>2. x <= p /\ p - PageSize < x
  BY <1>0, <1>1, PageAssumption
<1>3. ASSUME NEW f \in Nat, x <= f * PageSize PROVE d <= f
  <2>1. (f + 1) * PageSize = f * PageSize + PageSize
    BY PageAssumption, Distributes
  <2>2. SUFFICES ASSUME f + 1 <= d PROVE FALSE
    BY <1>1
  <2>3. (f + 1) * PageSize <= d * PageSize
    BY <2>2, PageAssumption, Scales
  <2>4. PICK q \in Nat : q = f * PageSize
    BY PageAssumption, Products
  <2> QED BY <1>1, <1>2, <1>3, <2>1, <2>3, <2>4, PageAssumption
<1>4. ASSUME NEW f \in Nat, d <= f PROVE x <= f * PageSize
  <2>1. d * PageSize <= f * PageSize
    BY <1>4, PageAssumption, Scales
  <2>2. PICK q \in Nat : q = f * PageSize
    BY PageAssumption, Products
  <2> QED BY <1>1, <1>2, <2>1, <2>2
<1> QED BY <1>1, <1>2, <1>3, <1>4

(* Whole pages in front do not change how the rest is rounded. *)
LEMMA UpAfter ==
  ASSUME NEW a \in Nat, NEW m \in Nat
  PROVE  Up(a * PageSize + m) = a + Up(m)
<1>1. PICK p \in Nat : p = a * PageSize
  BY PageAssumption, Products
<1>2. p + m \in Nat
  BY <1>1
<1>3. ASSUME NEW k \in Nat PROVE m <= k * PageSize <=> p + m <= (a + k) * PageSize
  <2>1. (a + k) * PageSize = p + k * PageSize
    BY <1>1, PageAssumption, Distributes
  <2>2. PICK q \in Nat : q = k * PageSize
    BY PageAssumption, Products
  <2> QED BY <1>1, <2>1, <2>2
<1>4. PICK u \in Nat, v \in Nat : u = Up(m) /\ v = Up(p + m)
  BY <1>2, UpIs
<1>5. v <= a + u
  <2>1. m <= u * PageSize
    BY <1>4, UpIs
  <2>2. p + m <= (a + u) * PageSize
    BY <1>3, <1>4, <2>1
  <2> QED BY <1>2, <1>4, <2>2, UpIs
<1>6. a <= v
  <2>1. p + m <= v * PageSize
    BY <1>2, <1>4, UpIs
  <2>2. a * PageSize <= v * PageSize
    <3>1. PICK q \in Nat : q = v * PageSize
      BY PageAssumption, Products
    <3> QED BY <1>1, <2>1, <3>1
  <2> QED BY <1>4, <2>2, PageAssumption, Cancels
<1>7. u <= v - a
  <2>1. v - a \in Nat /\ a + (v - a) = v
    BY <1>4, <1>6
  <2>2. p + m <= v * PageSize
    BY <1>2, <1>4, UpIs
  <2>3. m <= (v - a) * PageSize
    BY <1>3, <2>1, <2>2
  <2> QED BY <1>4, <2>1, <2>3, UpIs
<1>8. v = a + u
  BY <1>4, <1>5, <1>6, <1>7
<1> QED BY <1>1, <1>4, <1>8

LEMMA UsableRegionIs ==
  ASSUME NEW f \in Nat, NEW e \in Nat, f < e
  PROVE  UsableRegion(f * PageSize, e * PageSize) = [first_frame |-> f, frame_count |-> e - f]
<1>1. (f * PageSize) \div PageSize = f
  BY PageAssumption, DividesBack
<1>2. PICK x \in Nat : x = e * PageSize - 1
  <2>1. PICK p \in Nat : p = e * PageSize
    BY PageAssumption, Products
  <2>2. p >= 1
    <3>1. 1 * PageSize <= e * PageSize
      BY PageAssumption, Scales
    <3>2. 1 * PageSize = PageSize
      BY PageAssumption
    <3> QED BY <2>1, <3>1, <3>2, PageAssumption
  <2>3. p - 1 \in Nat
    BY <2>1, <2>2
  <2> QED BY <2>1, <2>3
<1>3. x \div PageSize = e - 1
  <2>1. PICK p \in Nat, q \in Nat :
          p = e * PageSize /\ q = (e - 1) * PageSize /\ p = q + PageSize /\ x = p - 1
    <3>1. e - 1 \in Nat /\ e = (e - 1) + 1
      OBVIOUS
    <3>2. e * PageSize \in Nat /\ (e - 1) * PageSize \in Nat
      BY <3>1, PageAssumption, Products
    <3>3. ((e - 1) + 1) * PageSize = (e - 1) * PageSize + 1 * PageSize
      BY <3>1, PageAssumption, Distributes
    <3>4. 1 * PageSize = PageSize
      BY PageAssumption
    <3>5. e * PageSize = (e - 1) * PageSize + PageSize
      BY <3>1, <3>3, <3>4
    <3> QED BY <1>2, <3>2, <3>5
  <2>2. e - 1 <= Down(x)
    <3>1. q <= x
      BY <2>1, PageAssumption
    <3>2. e - 1 \in Nat
      OBVIOUS
    <3> QED BY <1>2, <2>1, <3>1, <3>2, DownIs
  <2>3. Down(x) < e
    <3>1. PICK d \in Nat, r \in Nat : d = Down(x) /\ r = d * PageSize /\ r <= x
      BY <1>2, DownIs, PageAssumption, Products
    <3>2. SUFFICES ASSUME e <= d PROVE FALSE
      BY <3>1
    <3>3. e * PageSize <= d * PageSize
      BY <3>2, PageAssumption, Scales
    <3> QED BY <2>1, <3>1, <3>3
  <2>4. Down(x) \in Nat
    BY <1>2, DownIs
  <2>5. Down(x) = e - 1
    BY <2>2, <2>3, <2>4
  <2> QED BY <2>5 DEF Down
<1>4. (e - 1) - f + 1 = e - f
  OBVIOUS
<1>5. (e * PageSize - 1) \div PageSize = e - 1
  BY <1>2, <1>3
<1> QED BY <1>1, <1>4, <1>5 DEF UsableRegion

LEMMA BytesHold ==
  ASSUME NEW t \in Nat
  PROVE  LET m == (t + BitsPerByte - 1) \div BitsPerByte
         IN  m \in Nat /\ t <= m * BitsPerByte
<1>1. PICK y \in Nat : y = t + BitsPerByte - 1
  BY PageAssumption
<1>2. PICK m \in Nat : m = y \div BitsPerByte /\ m * BitsPerByte <= y
                       /\ y < m * BitsPerByte + BitsPerByte
  BY <1>1, PageAssumption, Divides
<1>3. PICK p \in Nat : p = m * BitsPerByte
  BY PageAssumption, Products
<1>4. t <= p
  BY <1>1, <1>2, <1>3, PageAssumption
<1> QED BY <1>1, <1>2, <1>3, <1>4

(* The whole pages of a region, and where what is usable of them begins if  *)
(* the bitmap is at addr.                                                   *)
StartPage(r) == Up(r.addr)

EndPage(r) == Down(r.addr + r.size)

BeginsAt(r, addr, size) ==
  IF addr = StartPage(r) * PageSize THEN StartPage(r) + Up(size) ELSE StartPage(r)

(* u is what init makes of region r. *)
MadeOf(u, r, addr, size) ==
  /\ r.usable /\ BeginsAt(r, addr, size) < EndPage(r)
  /\ u = [first_frame |-> BeginsAt(r, addr, size), frame_count |-> EndPage(r) - BeginsAt(r, addr, size)]

Hosts(r, addr, size) ==
  /\ r.usable /\ StartPage(r) < EndPage(r) /\ addr = StartPage(r) * PageSize
  /\ addr + size <= EndPage(r) * PageSize

UsableRegions == [first_frame : Nat, frame_count : Nat \ {0}]

Apart(s) ==
  \A k, l \in 1 .. Len(s) : k < l => s[k].first_frame + s[k].frame_count <= s[l].first_frame

MapTyped ==
  /\ memory_map \in Maps /\ next \in 0 .. Len(memory_map)
  /\ usable_regions \in Seq(UsableRegions)

MapRead ==
  stage = "ready" => next = Len(memory_map) /\ bitmap_addr # Nothing

BitmapPlaced ==
  bitmap_addr = Nothing \/ \E j \in 1 .. next : Hosts(memory_map[j], bitmap_addr, bitmap_size)

AllMade ==
  /\ \A k \in 1 .. Len(usable_regions) : \E i \in 1 .. next :
       MadeOf(usable_regions[k], memory_map[i], bitmap_addr, bitmap_size)
  /\ \A i \in 1 .. next :
       /\ memory_map[i].usable
       /\ BeginsAt(memory_map[i], bitmap_addr, bitmap_size) < EndPage(memory_map[i])
       => \E k \in 1 .. Len(usable_regions) :
           MadeOf(usable_regions[k], memory_map[i], bitmap_addr, bitmap_size)

CountBelow == frames_count <= SumTo(FramesUpTo, memory_map, next)

MapInv == MapTyped /\ MapRead /\ BitmapPlaced /\ AllMade /\ Apart(usable_regions) /\ CountBelow

LEMMA MapIs ==
  ASSUME NEW m \in Maps
  PROVE  /\ m \in Seq(Region) /\ Len(m) \in Nat
         /\ \A i \in 1 .. Len(m) : m[i] \in Region
         /\ \A i, j \in 1 .. Len(m) :
              i < j /\ m[i].usable /\ m[j].usable => m[i].addr + m[i].size <= m[j].addr
<1>1. m \in Seq(Region)
  BY MapsAssumption
<1>2. Len(m) \in Nat /\ \A i \in 1 .. Len(m) : m[i] \in Region
  BY <1>1
<1> QED BY <1>1, <1>2, MapsAssumption

LEMMA PagesAre ==
  ASSUME NEW r \in Region
  PROVE  /\ StartPage(r) \in Nat /\ EndPage(r) \in Nat
         /\ aligned_start(r) = StartPage(r) * PageSize
         /\ aligned_end(r) = EndPage(r) * PageSize
         /\ r.addr <= StartPage(r) * PageSize
         /\ EndPage(r) * PageSize <= r.addr + r.size
<1>1. r.addr \in Nat /\ r.addr + r.size \in Nat
  BY DEF Region
<1>2. aligned_start(r) = StartPage(r) * PageSize /\ aligned_end(r) = EndPage(r) * PageSize
  BY DEF aligned_start, aligned_end, align_up, align_down, StartPage, EndPage, Up, Down
<1> QED BY <1>1, <1>2, UpIs, DownIs DEF StartPage, EndPage

(* A frame is whole in a region if its number is between the region's pages. *)
LEMMA InPages ==
  ASSUME NEW r \in Region, NEW f \in Nat
  PROVE  /\ r.addr <= f * PageSize <=> StartPage(r) <= f
         /\ (f + 1) * PageSize <= r.addr + r.size <=> f < EndPage(r)
<1>1. r.addr \in Nat /\ r.addr + r.size \in Nat /\ f + 1 \in Nat
  BY DEF Region
<1>2. r.addr <= f * PageSize <=> StartPage(r) <= f
  BY <1>1, UpIs DEF StartPage
<1>3. (f + 1) * PageSize <= r.addr + r.size => f + 1 <= EndPage(r)
  BY <1>1, DownIs DEF EndPage
<1>4. ASSUME f + 1 <= EndPage(r) PROVE (f + 1) * PageSize <= r.addr + r.size
  <2>1. PICK e \in Nat : e = EndPage(r) /\ e * PageSize <= r.addr + r.size
    BY PagesAre
  <2>2. (f + 1) * PageSize <= e * PageSize
    BY <1>4, <2>1, PageAssumption, Scales
  <2>3. PICK p \in Nat, q \in Nat : p = (f + 1) * PageSize /\ q = e * PageSize
    BY <1>1, PageAssumption, Products
  <2>4. PICK z \in Nat : z = r.addr + r.size
    BY <1>1
  <2> QED BY <2>1, <2>2, <2>3, <2>4
<1>5. f + 1 <= EndPage(r) <=> f < EndPage(r)
  BY PagesAre
<1> QED BY <1>2, <1>3, <1>4, <1>5

(* The pages of a region are behind those of the regions before it. *)
LEMMA PagesApart ==
  ASSUME NEW m \in Maps, NEW i \in 1 .. Len(m), NEW j \in 1 .. Len(m), i < j,
         m[i].usable, m[j].usable
  PROVE  EndPage(m[i]) <= StartPage(m[j])
<1>1. m[i] \in Region /\ m[j] \in Region /\ m[i].addr + m[i].size <= m[j].addr
  BY MapIs
<1>2. PICK e \in Nat, s \in Nat, p \in Nat, q \in Nat :
        /\ e = EndPage(m[i]) /\ p = e * PageSize /\ p <= m[i].addr + m[i].size
        /\ s = StartPage(m[j]) /\ q = s * PageSize /\ m[j].addr <= q
  BY <1>1, PagesAre, PageAssumption, Products
<1>3. m[i].addr + m[i].size \in Nat /\ m[j].addr \in Nat
  BY <1>1 DEF Region
<1>4. p <= q
  BY <1>1, <1>2, <1>3
<1> QED BY <1>2, <1>4, PageAssumption, Cancels

(* The bound of the frames, and with it the size of the bitmap. *)
LEMMA UpperBoundsTyped ==
  ASSUME NEW m \in Maps
  PROVE  /\ \A k \in 1 .. Len(m) : UpperBounds(m)[k] \in Nat
         /\ \E h : /\ Sums(h, UpperBounds(m), Len(m))
                   /\ \A n \in 0 .. Len(m) : SumTo(FramesUpTo, m, n) = h[n]
<1>1. ASSUME NEW k \in 1 .. Len(m) PROVE FramesUpTo(m[k]) \in Nat
  <2>1. m[k] \in Region
    BY MapIs
  <2>2. m[k].size \in Nat
    BY <2>1 DEF Region
  <2>3. m[k].size \div PageSize \in Nat
    BY <2>2, DownIs DEF Down
  <2> QED BY <2>3 DEF FramesUpTo
<1>2. \A k \in 1 .. Len(m) : UpperBounds(m)[k] \in Nat
  BY <1>1 DEF UpperBounds
<1>3. Len(m) \in Nat
  BY MapIs
<1>4. PICK h : Sums(h, UpperBounds(m), Len(m))
  BY <1>2, <1>3, SumsExist
<1>5. \A n \in 0 .. Len(m) : SumTo(FramesUpTo, m, n) = h[n]
  BY <1>3, <1>4, BoundsSum
<1> QED BY <1>2, <1>4, <1>5

LEMMA BitmapSize ==
  ASSUME memory_map \in Maps
  PROVE  /\ bitmap_size \in Nat
         /\ SumTo(FramesUpTo, memory_map, Len(memory_map)) <= bitmap_size * BitsPerByte
<1>1. PICK t \in Nat : t = SumTo(FramesUpTo, memory_map, Len(memory_map))
  <2>1. PICK h : /\ Sums(h, UpperBounds(memory_map), Len(memory_map))
                 /\ \A n \in 0 .. Len(memory_map) : SumTo(FramesUpTo, memory_map, n) = h[n]
    BY UpperBoundsTyped
  <2>2. Len(memory_map) \in 0 .. Len(memory_map)
    BY MapIs
  <2> QED BY <2>1, <2>2 DEF Sums
<1>2. bitmap_size = (t + BitsPerByte - 1) \div BitsPerByte
  BY <1>1 DEF bitmap_size
<1> QED BY <1>1, <1>2, BytesHold

(* The frames counted so far, as sums. *)
LEMMA FramesTyped ==
  ASSUME NEW s \in Seq(UsableRegions)
  PROVE  /\ Len(s) \in Nat /\ \A k \in 1 .. Len(s) : s[k] \in UsableRegions
         /\ \A k \in 1 .. Len(s) : Counts(s)[k] \in Nat /\ Counts(s)[k] = s[k].frame_count
         /\ \E h : /\ Sums(h, Counts(s), Len(s))
                   /\ \A n \in 0 .. Len(s) : SumTo(FrameCount, s, n) = h[n]
<1>1. Len(s) \in Nat /\ \A k \in 1 .. Len(s) : s[k] \in UsableRegions
  OBVIOUS
<1>2. \A k \in 1 .. Len(s) : Counts(s)[k] \in Nat /\ Counts(s)[k] = s[k].frame_count
  BY <1>1 DEF UsableRegions, Counts
<1>3. PICK h : Sums(h, Counts(s), Len(s))
  BY <1>1, <1>2, SumsExist
<1>4. \A n \in 0 .. Len(s) : SumTo(FrameCount, s, n) = h[n]
  BY <1>1, <1>3, CountsSum
<1> QED BY <1>1, <1>2, <1>3, <1>4

LEMMA OneMoreCounts ==
  ASSUME NEW s \in Seq(UsableRegions), NEW u \in UsableRegions
  PROVE  /\ SumTo(FrameCount, s, Len(s)) \in Nat
         /\ SumTo(FrameCount, Append(s, u), Len(Append(s, u)))
              = SumTo(FrameCount, s, Len(s)) + u.frame_count
<1>1. PICK t \in Seq(UsableRegions) : t = Append(s, u)
  <2>1. Append(s, u) \in Seq(UsableRegions)
    OBVIOUS
  <2> QED BY <2>1
<1>2. PICK l \in Nat : l = Len(s)
  OBVIOUS
<1>3. Len(t) = l + 1 /\ t[l + 1] = u /\ \A k \in 1 .. l : t[k] = s[k]
  BY <1>1, <1>2
<1>4. PICK h : /\ Sums(h, Counts(t), l + 1)
               /\ \A n \in 0 .. l + 1 : SumTo(FrameCount, t, n) = h[n]
  <2>1. \E h : /\ Sums(h, Counts(t), Len(t))
              /\ \A n \in 0 .. Len(t) : SumTo(FrameCount, t, n) = h[n]
    BY FramesTyped, Zenon
  <2>2. Len(t) = l + 1
    BY <1>3
  <2> QED BY <2>1, <2>2, Zenon
<1> DEFINE e == [k \in 0 .. l |-> h[k]]
<1>5. Sums(e, Counts(s), l)
  <2>1. e \in [0 .. l -> Nat] /\ e[0] = 0
    BY <1>4 DEF Sums
  <2>2. ASSUME NEW k \in 1 .. l PROVE e[k] = e[k - 1] + Counts(s)[k]
    <3>1. k \in 1 .. l + 1 /\ k - 1 \in 0 .. l /\ k \in 0 .. l
      OBVIOUS
    <3>2. h[k] = h[k - 1] + Counts(t)[k]
      BY <1>4, <3>1 DEF Sums
    <3>3. Counts(t)[k] = Counts(s)[k]
      BY <1>2, <1>3, <3>1 DEF Counts
    <3> QED BY <3>1, <3>2, <3>3
  <2> HIDE DEF e
  <2> QED BY <2>1, <2>2 DEF Sums
<1>6. SumTo(FrameCount, s, l) = e[l]
  <2>1. l \in 0 .. l /\ Len(s) \in Nat
    BY <1>2
  <2> HIDE DEF e
  <2> QED BY <1>2, <1>5, <2>1, CountsSum
<1>7. e[l] = h[l] /\ h[l] \in Nat
  BY <1>4 DEF Sums
<1>8. h[l + 1] = h[l] + u.frame_count
  <2>1. l + 1 \in 1 .. l + 1 /\ (l + 1) - 1 = l
    OBVIOUS
  <2>2. h[l + 1] = h[l] + Counts(t)[l + 1]
    BY <1>4, <2>1 DEF Sums
  <2>3. Counts(t)[l + 1] = t[l + 1].frame_count
    BY <1>3, <2>1 DEF Counts
  <2> QED BY <1>3, <2>2, <2>3
<1>9. SumTo(FrameCount, t, l + 1) = h[l + 1]
  BY <1>4
<1> QED BY <1>1, <1>2, <1>3, <1>6, <1>7, <1>8, <1>9

LEMMA BeginIs ==
  ASSUME memory_map \in Maps, NEW r \in Region, NEW addr
  PROVE  /\ BeginsAt(r, addr, bitmap_size) \in Nat /\ StartPage(r) <= BeginsAt(r, addr, bitmap_size)
         /\ UsableStart(r, addr) = BeginsAt(r, addr, bitmap_size) * PageSize
<1>1. PICK s \in Nat, b \in Nat, u \in Nat :
        s = StartPage(r) /\ b = bitmap_size /\ u = Up(b) /\ aligned_start(r) = s * PageSize
  BY BitmapSize, PagesAre, UpIs
<1>2. CASE addr = s * PageSize
  <2>1. align_up(addr + b) = Up(addr + b) * PageSize
    BY DEF align_up, align_down, Up
  <2>2. Up(addr + b) = s + u
    BY <1>1, <1>2, UpAfter
  <2>3. BeginsAt(r, addr, bitmap_size) = s + u
    BY <1>1, <1>2 DEF BeginsAt
  <2>4. UsableStart(r, addr) = align_up(addr + b)
    BY <1>1, <1>2 DEF UsableStart
  <2> QED BY <1>1, <2>1, <2>2, <2>3, <2>4
<1>3. CASE addr # s * PageSize
  BY <1>1, <1>3 DEF BeginsAt, UsableStart
<1> QED BY <1>2, <1>3

LEMMA MapStarts == FrameMapInit => MapInv
<1> SUFFICES ASSUME FrameMapInit PROVE MapInv
  OBVIOUS
<1>1. memory_map \in Maps /\ next = 0 /\ bitmap_addr = Nothing /\ usable_regions = <<>>
      /\ stage = "loop"
  BY DEF FrameMapInit
<1>2. Len(memory_map) \in Nat
  BY <1>1, MapIs
<1>3. <<>> \in Seq(UsableRegions) /\ Len(<<>>) = 0
  OBVIOUS
<1>4. MapTyped /\ MapRead /\ BitmapPlaced
  BY <1>1, <1>2, <1>3 DEF MapTyped, MapRead, BitmapPlaced
<1>5. AllMade /\ Apart(usable_regions)
  BY <1>1, <1>3 DEF AllMade, Apart
<1>6. CountBelow
  <2>0. PICK s \in Seq(UsableRegions) : s = <<>> /\ Len(s) = 0
    BY <1>3
  <2>1. PICK h : /\ Sums(h, Counts(s), Len(s))
                 /\ \A n \in 0 .. Len(s) : SumTo(FrameCount, s, n) = h[n]
    BY FramesTyped
  <2>1a. SumTo(FrameCount, s, 0) = 0
    BY <2>0, <2>1 DEF Sums
  <2>2. PICK g : /\ Sums(g, UpperBounds(memory_map), Len(memory_map))
                 /\ SumTo(FramesUpTo, memory_map, 0) = g[0]
    BY <1>1, <1>2, UpperBoundsTyped
  <2>3. SumTo(FramesUpTo, memory_map, 0) \in Nat
    BY <1>2, <2>2 DEF Sums
  <2> QED BY <1>1, <2>0, <2>1a, <2>3 DEF CountBelow, frames_count, Sums
<1> QED BY <1>4, <1>5, <1>6 DEF MapInv

(* Placing the bitmap in a region changes nothing of the regions before it. *)
LEMMA BeforeUnmoved ==
  ASSUME MapTyped, next < Len(memory_map), NEW i \in 1 .. next, NEW addr,
         addr = bitmap_addr
         \/ /\ bitmap_addr = Nothing /\ memory_map[next + 1].usable
            /\ addr = StartPage(memory_map[next + 1]) * PageSize
  PROVE  LET r == memory_map[i]
         IN  /\ r.usable =>
                  (BeginsAt(r, addr, bitmap_size) < EndPage(r)
                     <=> BeginsAt(r, bitmap_addr, bitmap_size) < EndPage(r))
             /\ \A u : MadeOf(u, r, addr, bitmap_size) <=> MadeOf(u, r, bitmap_addr, bitmap_size)
<1>1. PICK r \in Region : r = memory_map[i]
  BY MapIs DEF MapTyped
<1>2. CASE addr = bitmap_addr
  BY <1>2
<1>2a. CASE ~r.usable
  BY <1>1, <1>2a DEF MadeOf
<1>3. CASE /\ bitmap_addr = Nothing /\ memory_map[next + 1].usable /\ r.usable
           /\ addr = StartPage(memory_map[next + 1]) * PageSize
  <2>1. PICK s \in Nat, e \in Nat : s = StartPage(r) /\ e = EndPage(r)
    BY PagesAre
  <2>2. memory_map \in Maps /\ i \in 1 .. Len(memory_map) /\ next + 1 \in 1 .. Len(memory_map)
        /\ i < next + 1
    BY MapIs DEF MapTyped
  <2>3. memory_map[next + 1] \in Region
    BY <2>2, MapIs
  <2>4. PICK t \in Nat : t = StartPage(memory_map[next + 1])
    BY <2>3, PagesAre
  <2>5. e <= t
    BY <1>1, <1>3, <2>1, <2>2, <2>4, PagesApart
  <2>6. s * PageSize \in Nat
    BY <2>1, PageAssumption, Products
  <2>7. bitmap_addr # s * PageSize
    BY <1>3, <2>6, MapsAssumption
  <2>8. BeginsAt(r, bitmap_addr, bitmap_size) = s
    BY <2>1, <2>7 DEF BeginsAt
  <2>9. CASE addr = s * PageSize
    <3>1. t * PageSize <= s * PageSize
      BY <1>3, <2>4, <2>6, <2>9
    <3>2. t <= s
      BY <2>1, <2>4, <3>1, PageAssumption, Cancels
    <3>3. BeginsAt(r, addr, bitmap_size) \in Nat /\ s <= BeginsAt(r, addr, bitmap_size)
      BY <2>1, <2>2, BeginIs
    <3>4. ~ (BeginsAt(r, addr, bitmap_size) < e) /\ ~ (s < e)
      BY <2>1, <2>4, <2>5, <3>2, <3>3
    <3> QED BY <1>1, <2>1, <2>8, <3>4 DEF MadeOf
  <2>10. CASE addr # s * PageSize
    <3>1. BeginsAt(r, addr, bitmap_size) = s
      BY <2>1, <2>10 DEF BeginsAt
    <3> QED BY <1>1, <2>1, <2>8, <3>1 DEF MadeOf
  <2> QED BY <2>9, <2>10
<1> QED BY <1>2, <1>2a, <1>3

(* The bound grows by the pages of the region that is looked at. *)
LEMMA BoundGrows ==
  ASSUME MapTyped, next < Len(memory_map)
  PROVE  LET r == memory_map[next + 1]
         IN  /\ SumTo(FramesUpTo, memory_map, next) \in Nat
             /\ SumTo(FramesUpTo, memory_map, next + 1)
                  = SumTo(FramesUpTo, memory_map, next) + FramesUpTo(r)
             /\ FramesUpTo(r) \in Nat
             /\ r.usable /\ StartPage(r) < EndPage(r)
                  => EndPage(r) - StartPage(r) <= FramesUpTo(r)
<1>1. PICK m \in Maps, n \in Nat :
        m = memory_map /\ n = next /\ n + 1 \in 1 .. Len(m) /\ n \in 0 .. Len(m)
        /\ n + 1 \in 0 .. Len(m)
  BY MapIs DEF MapTyped
<1>2. PICK h : /\ Sums(h, UpperBounds(m), Len(m))
               /\ \A k \in 0 .. Len(m) : SumTo(FramesUpTo, m, k) = h[k]
  BY UpperBoundsTyped
<1>3. UpperBounds(m)[n + 1] \in Nat
  BY <1>1, UpperBoundsTyped
<1>4. UpperBounds(m)[n + 1] = FramesUpTo(m[n + 1])
  BY <1>1 DEF UpperBounds
<1>5. h[n] \in Nat /\ h[n + 1] = h[n] + UpperBounds(m)[n + 1]
  <2>1. (n + 1) - 1 = n
    OBVIOUS
  <2> QED BY <1>1, <1>2, <2>1 DEF Sums
<1>6. PICK r \in Region : r = m[n + 1]
  BY <1>1, MapIs
<1>7. ASSUME r.usable, StartPage(r) < EndPage(r) PROVE EndPage(r) - StartPage(r) <= FramesUpTo(r)
  <2>1. PICK s \in Nat, e \in Nat, p \in Nat, q \in Nat :
          /\ s = StartPage(r) /\ p = s * PageSize /\ r.addr <= p
          /\ e = EndPage(r) /\ q = e * PageSize /\ q <= r.addr + r.size
    BY PagesAre, PageAssumption, Products
  <2>2. PICK d \in Nat : d = e - s /\ e = d + s
    <3>1. e - s \in Nat /\ e = (e - s) + s
      BY <1>7, <2>1
    <3> QED BY <3>1
  <2>3. q = d * PageSize + p
    BY <2>1, <2>2, PageAssumption, Distributes
  <2>4. PICK z \in Nat : z = d * PageSize
    BY PageAssumption, Products
  <2>5. r.size \in Nat /\ r.addr \in Nat
    BY DEF Region
  <2>6. z <= r.size
    BY <2>1, <2>3, <2>4, <2>5
  <2>7. d <= Down(r.size)
    BY <2>4, <2>5, <2>6, DownIs
  <2>8. FramesUpTo(r) = Down(r.size)
    BY <1>7 DEF FramesUpTo, Down
  <2> QED BY <2>1, <2>2, <2>7, <2>8
<1> QED BY <1>1, <1>2, <1>3, <1>4, <1>5, <1>6, <1>7

LEMMA TurnMakes ==
  ASSUME MapTyped, BitmapPlaced, RegionTurn
  PROVE  LET r == memory_map[next + 1]
             a == bitmap_addr'
             b == BeginsAt(r, a, bitmap_size)
             e == EndPage(r)
         IN  /\ \/ a = bitmap_addr
                \/ bitmap_addr = Nothing /\ a = StartPage(r) * PageSize
                   /\ Hosts(r, a, bitmap_size)
             /\ \/ usable_regions' = usable_regions /\ ~ (r.usable /\ b < e)
                \/ /\ r.usable /\ b < e
                   /\ usable_regions' = Append(usable_regions,
                                               [first_frame |-> b, frame_count |-> e - b])
<1>1. PICK r \in Region : r = memory_map[next + 1]
  <2>1. memory_map \in Maps /\ next + 1 \in 1 .. Len(memory_map)
    BY MapIs DEF MapTyped, RegionTurn
  <2> QED BY <2>1, MapIs
<1>2. PICK a : a = bitmap_addr'
  OBVIOUS
<1>3. memory_map \in Maps
  BY DEF MapTyped
<1>4. PICK s \in Nat, e \in Nat, b \in Nat, size \in Nat :
        /\ s = StartPage(r) /\ aligned_start(r) = s * PageSize
        /\ e = EndPage(r) /\ aligned_end(r) = e * PageSize
        /\ b = BeginsAt(r, a, bitmap_size) /\ s <= b /\ UsableStart(r, a) = b * PageSize
        /\ size = bitmap_size
  BY <1>3, PagesAre, BeginIs, BitmapSize
<1>5. PICK p \in Nat, q \in Nat, z \in Nat :
        p = s * PageSize /\ q = e * PageSize /\ z = b * PageSize
  BY PageAssumption, Products
<1>6. /\ q <= p <=> e <= s
      /\ q <= z <=> e <= b
  BY <1>5, PageAssumption, Scales, Cancels
<1>7. CASE Ignore(r)
  <2>1. a = bitmap_addr /\ usable_regions' = usable_regions
    BY <1>2, <1>7 DEF Ignore
  <2>2. ~ (r.usable /\ b < e)
    BY <1>4, <1>5, <1>6, <1>7 DEF Ignore
  <2> QED BY <1>1, <1>2, <1>4, <2>1, <2>2
<1>8. CASE Consider(r)
  <2>1. r.usable /\ q > p
    BY <1>4, <1>5, <1>8 DEF Consider
  <2>2. a = IF bitmap_addr = Nothing /\ q - p >= size THEN p ELSE bitmap_addr
    BY <1>2, <1>4, <1>5, <1>8 DEF Consider
  <2>3. usable_regions' = IF z >= q THEN usable_regions
                          ELSE Append(usable_regions, UsableRegion(z, q))
    <3>1. bitmap_addr' = IF bitmap_addr = Nothing
                            /\ aligned_end(r) - aligned_start(r) >= bitmap_size
                         THEN aligned_start(r) ELSE bitmap_addr
      BY <1>8, Zenon DEF Consider
    <3>2. usable_regions' = IF UsableStart(r, bitmap_addr') >= aligned_end(r) THEN usable_regions
                            ELSE Append(usable_regions,
                                        UsableRegion(UsableStart(r, bitmap_addr'), aligned_end(r)))
      BY <1>8, <3>1 DEF Consider
    <3> QED BY <1>2, <1>4, <1>5, <3>2
  <2>4. \/ a = bitmap_addr
        \/ bitmap_addr = Nothing /\ a = StartPage(r) * PageSize /\ Hosts(r, a, bitmap_size)
    <3>1. CASE bitmap_addr = Nothing /\ q - p >= size
      <4>1. a = p /\ s < e /\ p + size <= q
        BY <1>4, <1>6, <2>1, <2>2, <3>1
      <4>2. Hosts(r, a, bitmap_size)
        BY <1>4, <1>5, <2>1, <4>1 DEF Hosts
      <4> QED BY <1>4, <1>5, <3>1, <4>1, <4>2
    <3>2. CASE ~ (bitmap_addr = Nothing /\ q - p >= size)
      BY <2>2, <3>2
    <3> QED BY <3>1, <3>2
  <2>5. CASE z >= q
    <3>1. ~ (b < e)
      BY <1>4, <1>5, <1>6, <2>5
    <3> QED BY <1>1, <1>2, <1>4, <2>3, <2>4, <2>5, <3>1
  <2>6. CASE ~ (z >= q)
    <3>1. b < e
      BY <1>4, <1>5, <1>6, <2>6
    <3>2. UsableRegion(z, q) = [first_frame |-> b, frame_count |-> e - b]
      BY <1>4, <1>5, <3>1, UsableRegionIs
    <3> QED BY <1>1, <1>2, <1>4, <2>1, <2>3, <2>4, <2>6, <3>1, <3>2
  <2> QED BY <2>5, <2>6
<1>9. Ignore(r) \/ Consider(r)
  BY <1>1 DEF RegionTurn
<1> QED BY <1>7, <1>8, <1>9

LEMMA TurnKeeps == MapInv /\ RegionTurn => MapInv'
<1> SUFFICES ASSUME MapInv, RegionTurn PROVE MapInv'
  OBVIOUS
<1>0. MapTyped /\ MapRead /\ BitmapPlaced /\ AllMade /\ Apart(usable_regions) /\ CountBelow
  BY DEF MapInv
<1>1. /\ memory_map' = memory_map /\ stage' = stage /\ stage = "loop"
      /\ next' = next + 1 /\ next < Len(memory_map)
  BY DEF RegionTurn
<1>2. bitmap_size' = bitmap_size
  BY <1>1 DEF bitmap_size
<1>3a. PICK was : was = bitmap_addr
  OBVIOUS
<1>3. PICK m \in Maps, n \in Nat, old \in Seq(UsableRegions), size \in Nat :
        /\ m = memory_map /\ n = next /\ n + 1 \in 1 .. Len(m) /\ old = usable_regions
        /\ size = bitmap_size /\ was = bitmap_addr
  <2>1. memory_map \in Maps /\ next \in Nat /\ next + 1 \in 1 .. Len(memory_map)
    BY <1>0, <1>1, MapIs DEF MapTyped
  <2> QED BY <1>0, <1>3a, <2>1, BitmapSize DEF MapTyped
<1>4. PICK a, made : a = bitmap_addr' /\ made = usable_regions'
  OBVIOUS
<1>5. PICK r \in Region : r = m[n + 1]
  BY <1>3, MapIs
<1>6. PICK s \in Nat, e \in Nat, b \in Nat :
        s = StartPage(r) /\ e = EndPage(r) /\ b = BeginsAt(r, a, size) /\ s <= b
  BY <1>3, PagesAre, BeginIs
<1>7. /\ \/ a = was
         \/ was = Nothing /\ a = s * PageSize /\ Hosts(r, a, size)
      /\ \/ made = old /\ ~ (r.usable /\ b < e)
         \/ /\ r.usable /\ b < e
            /\ made = Append(old, [first_frame |-> b, frame_count |-> e - b])
  BY <1>0, <1>3, <1>4, <1>5, <1>6, TurnMakes
<1>8. ASSUME NEW i \in 1 .. n
      PROVE  /\ m[i].usable => (BeginsAt(m[i], a, size) < EndPage(m[i])
                                   <=> BeginsAt(m[i], was, size) < EndPage(m[i]))
             /\ \A u : MadeOf(u, m[i], a, size) <=> MadeOf(u, m[i], was, size)
  <2>1. \/ a = was
        \/ was = Nothing /\ a = s * PageSize /\ r.usable
    BY <1>7 DEF Hosts
  <2> QED BY <1>0, <1>1, <1>3, <1>5, <1>6, <2>1, BeforeUnmoved
<1>9. PICK u \in UsableRegions :
        \/ made = old /\ ~ (r.usable /\ b < e)
        \/ /\ r.usable /\ b < e /\ made = Append(old, u)
           /\ u = [first_frame |-> b, frame_count |-> e - b]
  <2>1. CASE made = old /\ ~ (r.usable /\ b < e)
    <3>1. [first_frame |-> 0, frame_count |-> 1] \in UsableRegions
      BY DEF UsableRegions
    <3> QED BY <2>1, <3>1
  <2>2. CASE b < e
    <3>1. e - b \in Nat \ {0}
      BY <2>2
    <3>2. [first_frame |-> b, frame_count |-> e - b] \in UsableRegions
      BY <3>1 DEF UsableRegions
    <3> QED BY <1>7, <3>2
  <2> QED BY <1>7, <2>1, <2>2
<1>10. PICK l \in Nat : l = Len(old)
  OBVIOUS
<1>11. ASSUME made = old, ~ (r.usable /\ b < e)
       PROVE  AllMade' /\ Apart(usable_regions)' /\ CountBelow' /\ made \in Seq(UsableRegions)
  <2>1. AllMade'
    <3>1. ASSUME NEW k \in 1 .. Len(made) PROVE \E i \in 1 .. n + 1 : MadeOf(made[k], m[i], a, size)
      <4>1. PICK i \in 1 .. n : MadeOf(old[k], m[i], was, size)
        BY <1>0, <1>3, <1>11 DEF AllMade
      <4>2. MadeOf(old[k], m[i], a, size)
        BY <1>8, <4>1
      <4>3. made[k] = old[k] /\ i \in 1 .. n + 1
        BY <1>11
      <4>4. MadeOf(made[k], m[i], a, size)
        BY <4>2, <4>3
      <4> QED BY <4>3, <4>4
    <3>2. ASSUME NEW i \in 1 .. n + 1, m[i].usable, BeginsAt(m[i], a, size) < EndPage(m[i])
          PROVE  \E k \in 1 .. Len(made) : MadeOf(made[k], m[i], a, size)
      <4>1. i \in 1 .. n
        BY <1>5, <1>6, <1>11, <3>2
      <4>2. PICK k \in 1 .. Len(old) : MadeOf(old[k], m[i], was, size)
        BY <1>0, <1>3, <1>8, <3>2, <4>1 DEF AllMade
      <4> QED BY <1>8, <1>11, <4>1, <4>2
    <3> QED BY <1>1, <1>2, <1>3, <1>4, <3>1, <3>2 DEF AllMade
  <2>2. Apart(usable_regions)'
    BY <1>0, <1>3, <1>4, <1>11 DEF Apart
  <2>3. CountBelow'
    <3>1. frames_count' = frames_count /\ frames_count \in Nat
      <4>1. SumTo(FrameCount, old, Len(old)) \in Nat
        BY <1>9, OneMoreCounts
      <4> QED BY <1>3, <1>4, <1>11, <4>1 DEF frames_count
    <3>2. PICK x \in Nat, y \in Nat :
            x = SumTo(FramesUpTo, m, n) /\ x + y = SumTo(FramesUpTo, m, n + 1)
      BY <1>0, <1>1, <1>3, BoundGrows
    <3>3. frames_count <= x
      BY <1>0, <1>3, <3>2 DEF CountBelow
    <3> QED BY <1>1, <1>3, <3>1, <3>2, <3>3 DEF CountBelow
  <2>4. made \in Seq(UsableRegions)
    BY <1>11
  <2> QED BY <2>1, <2>2, <2>3, <2>4
<1>12. ASSUME r.usable, b < e, made = Append(old, u),
              u = [first_frame |-> b, frame_count |-> e - b]
       PROVE  AllMade' /\ Apart(usable_regions)' /\ CountBelow' /\ made \in Seq(UsableRegions)
  <2>0. Len(made) = l + 1 /\ made[l + 1] = u /\ (\A k \in 1 .. l : made[k] = old[k])
        /\ made \in Seq(UsableRegions)
    BY <1>10, <1>12
  <2>1. AllMade'
    <3>0. MadeOf(u, m[n + 1], a, size)
      BY <1>5, <1>6, <1>12 DEF MadeOf
    <3>1. ASSUME NEW k \in 1 .. l + 1 PROVE \E i \in 1 .. n + 1 : MadeOf(made[k], m[i], a, size)
      <4>1. CASE k = l + 1
        BY <2>0, <3>0, <4>1
      <4>2. CASE k # l + 1
        <5>1. k \in 1 .. l
          BY <4>2
        <5>2. PICK i \in 1 .. n : MadeOf(old[k], m[i], was, size)
          BY <1>0, <1>3, <1>10, <5>1 DEF AllMade
        <5>3. MadeOf(old[k], m[i], a, size)
          BY <1>8, <5>2
        <5>4. made[k] = old[k] /\ i \in 1 .. n + 1
          BY <2>0, <5>1
        <5>5. MadeOf(made[k], m[i], a, size)
          BY <5>3, <5>4
        <5> QED BY <5>4, <5>5
      <4> QED BY <4>1, <4>2
    <3>2. ASSUME NEW i \in 1 .. n + 1, m[i].usable, BeginsAt(m[i], a, size) < EndPage(m[i])
          PROVE  \E k \in 1 .. l + 1 : MadeOf(made[k], m[i], a, size)
      <4>1. CASE i = n + 1
        BY <2>0, <3>0, <4>1
      <4>2. CASE i # n + 1
        <5>1. i \in 1 .. n
          BY <4>2
        <5>2. PICK k \in 1 .. l : MadeOf(old[k], m[i], was, size)
          BY <1>0, <1>3, <1>8, <1>10, <3>2, <5>1 DEF AllMade
        <5>3. MadeOf(old[k], m[i], a, size)
          BY <1>8, <5>1, <5>2
        <5>4. made[k] = old[k] /\ k \in 1 .. l + 1
          BY <2>0
        <5>5. MadeOf(made[k], m[i], a, size)
          BY <5>3, <5>4
        <5> QED BY <5>4, <5>5
      <4> QED BY <4>1, <4>2
    <3> QED BY <1>1, <1>2, <1>3, <1>4, <2>0, <3>1, <3>2 DEF AllMade
  <2>2. Apart(made)
    <3>1. SUFFICES ASSUME NEW k \in 1 .. l + 1, NEW j \in 1 .. l + 1, k < j
                   PROVE  made[k].first_frame + made[k].frame_count <= made[j].first_frame
      BY <2>0 DEF Apart
    <3>2. CASE j = l + 1
      <4>1. k \in 1 .. l
        BY <3>1, <3>2
      <4>2. PICK i \in 1 .. n : MadeOf(old[k], m[i], was, size)
        BY <1>0, <1>3, <1>10, <4>1 DEF AllMade
      <4>3. i \in 1 .. Len(m) /\ i < n + 1
        BY <1>3, MapIs
      <4>4. PICK x \in Nat, y \in Nat : x = BeginsAt(m[i], was, size) /\ y = EndPage(m[i])
        BY <1>3, <4>3, MapIs, BeginIs, PagesAre
      <4>5. y <= s
        BY <1>3, <1>5, <1>6, <1>12, <4>2, <4>3, <4>4, PagesApart DEF MadeOf
      <4>6. made[k].first_frame = x /\ made[k].frame_count = y - x
        BY <2>0, <4>1, <4>2, <4>4 DEF MadeOf
      <4>7. made[j].first_frame = b
        BY <1>12, <2>0, <3>2
      <4> QED BY <1>6, <4>4, <4>5, <4>6, <4>7
    <3>3. CASE j # l + 1
      <4>1. k \in 1 .. l /\ j \in 1 .. l
        BY <3>1, <3>3
      <4> QED BY <1>0, <1>3, <1>10, <2>0, <3>1, <4>1 DEF Apart
    <3> QED BY <3>2, <3>3
  <2>3. CountBelow'
    <3>1. PICK c \in Nat : c = SumTo(FrameCount, old, Len(old))
                           /\ SumTo(FrameCount, made, Len(made)) = c + u.frame_count
      BY <1>9, <1>12, OneMoreCounts
    <3>2. PICK x \in Nat, y \in Nat :
            /\ x = SumTo(FramesUpTo, m, n) /\ x + y = SumTo(FramesUpTo, m, n + 1)
            /\ r.usable /\ s < e => e - s <= y
      BY <1>0, <1>1, <1>3, <1>5, <1>6, BoundGrows
    <3>3. c <= x
      BY <1>0, <1>3, <3>1, <3>2 DEF CountBelow, frames_count
    <3>4. e - s <= y /\ u.frame_count = e - b
      BY <1>6, <1>12, <3>2
    <3>5. c + (e - b) <= x + y
      BY <1>6, <3>3, <3>4
    <3>6. frames_count' = c + (e - b)
      BY <1>4, <3>1, <3>4 DEF frames_count
    <3> QED BY <1>1, <1>3, <3>2, <3>5, <3>6 DEF CountBelow
  <2> QED BY <1>4, <2>0, <2>1, <2>2, <2>3
<1>13. AllMade' /\ Apart(usable_regions)' /\ CountBelow' /\ made \in Seq(UsableRegions)
  BY <1>9, <1>11, <1>12
<1>14. MapTyped'
  BY <1>0, <1>1, <1>3, <1>4, <1>13 DEF MapTyped
<1>15. MapRead'
  BY <1>1 DEF MapRead
<1>16. BitmapPlaced'
  <2>1. a = Nothing \/ \E j \in 1 .. n + 1 : Hosts(m[j], a, size)
    <3>1. CASE a = was
      <4>1. was = Nothing \/ \E j \in 1 .. n : Hosts(m[j], was, size)
        BY <1>0, <1>3 DEF BitmapPlaced
      <4> QED BY <3>1, <4>1
    <3>2. CASE Hosts(r, a, size)
      BY <1>5, <3>2
    <3> QED BY <1>7, <3>1, <3>2
  <2> QED BY <1>1, <1>2, <1>3, <1>4, <2>1 DEF BitmapPlaced
<1> QED BY <1>13, <1>14, <1>15, <1>16 DEF MapInv

LEMMA MapStep == MapInv /\ [FrameMapNext]_frameMapVars => MapInv'
<1>1. ASSUME MapInv, UNCHANGED frameMapVars PROVE MapInv'
  BY <1>1 DEF frameMapVars, MapInv, MapTyped, MapRead, BitmapPlaced, AllMade, Apart, CountBelow,
              frames_count, bitmap_size
<1>2. ASSUME MapInv, RegionsDone PROVE MapInv'
  <2>1. UNCHANGED <<memory_map, next, bitmap_addr, usable_regions>>
        /\ next = Len(memory_map) /\ stage' = IF bitmap_addr = Nothing THEN "panic" ELSE "ready"
    BY <1>2 DEF RegionsDone
  <2>2. MapRead'
    BY <2>1 DEF MapRead
  <2> QED BY <1>2, <2>1, <2>2 DEF MapInv, MapTyped, BitmapPlaced, AllMade, Apart, CountBelow,
                                  frames_count, bitmap_size
<1> QED BY <1>1, <1>2, TurnKeeps DEF FrameMapNext

(* Region i has the numbers from Base(i) on. *)
LEMMA BasesAre ==
  ASSUME usable_regions \in Seq(UsableRegions)
  PROVE  \E h : /\ h \in [0 .. Len(usable_regions) -> Nat] /\ h[0] = 0
                /\ frames_count = h[Len(usable_regions)]
                /\ \A i \in 1 .. Len(usable_regions) :
                     Base(i) = h[i - 1] /\ h[i] = h[i - 1] + usable_regions[i].frame_count
                /\ \A i, j \in 0 .. Len(usable_regions) : i <= j => h[i] <= h[j]
<1>1. PICK s \in Seq(UsableRegions), l \in Nat : s = usable_regions /\ l = Len(s)
  OBVIOUS
<1>2. PICK h : Sums(h, Counts(s), l) /\ \A n \in 0 .. l : SumTo(FrameCount, s, n) = h[n]
  BY <1>1, FramesTyped
<1>3. \A k \in 1 .. l : Counts(s)[k] \in Nat /\ Counts(s)[k] = s[k].frame_count
  BY <1>1, FramesTyped
<1>4. frames_count = h[l]
  BY <1>1, <1>2 DEF frames_count
<1>5. ASSUME NEW i \in 1 .. l PROVE Base(i) = h[i - 1] /\ h[i] = h[i - 1] + s[i].frame_count
  BY <1>1, <1>2, <1>3 DEF Base, Sums
<1>6. \A i, j \in 0 .. l : i <= j => h[i] <= h[j]
  BY <1>1, <1>2, <1>3, SumsGrow
<1> QED BY <1>1, <1>2, <1>4, <1>5, <1>6 DEF Sums

LEMMA RegionTyped ==
  ASSUME usable_regions \in Seq(UsableRegions), NEW i \in 1 .. Len(usable_regions)
  PROVE  /\ usable_regions[i].first_frame \in Nat /\ usable_regions[i].frame_count \in Nat \ {0}
         /\ Base(i) \in Nat
<1>1. usable_regions[i] \in UsableRegions
  OBVIOUS
<1>2. PICK h : /\ h \in [0 .. Len(usable_regions) -> Nat]
               /\ \A k \in 1 .. Len(usable_regions) : Base(k) = h[k - 1]
  BY BasesAre
<1>3. i - 1 \in 0 .. Len(usable_regions)
  OBVIOUS
<1> QED BY <1>1, <1>2, <1>3 DEF UsableRegions

(* k is a number of a frame of region i. *)
NumberIn(k, i) ==
  i \in 1 .. Len(usable_regions) /\ Base(i) <= k /\ k < Base(i) + usable_regions[i].frame_count

LEMMA FrameOfNumber ==
  ASSUME usable_regions \in Seq(UsableRegions), NEW k \in Nat, NEW i, NumberIn(k, i)
  PROVE  /\ k < frames_count
         /\ index_to_frame(k) = usable_regions[i].first_frame + (k - Base(i))
<1>1. PICK l \in Nat : l = Len(usable_regions)
  OBVIOUS
<1>2. PICK h : /\ h \in [0 .. l -> Nat] /\ frames_count = h[l]
               /\ \A j \in 1 .. l : Base(j) = h[j - 1]
                                    /\ h[j] = h[j - 1] + usable_regions[j].frame_count
               /\ \A x, y \in 0 .. l : x <= y => h[x] <= h[y]
  BY <1>1, BasesAre
<1>3. i \in 1 .. l /\ h[i - 1] <= k /\ k < h[i]
  BY <1>1, <1>2 DEF NumberIn
<1>4. h[i] \in Nat /\ h[l] \in Nat /\ h[i] <= h[l]
  BY <1>1, <1>2, <1>3
<1>5. ASSUME NEW j, NumberIn(k, j) PROVE j = i
  <2>1. j \in 1 .. l /\ h[j - 1] <= k /\ k < h[j]
    BY <1>1, <1>2, <1>5 DEF NumberIn
  <2>2. h[j] \in Nat /\ h[j - 1] \in Nat /\ h[i - 1] \in Nat
    BY <1>2, <1>3, <2>1
  <2>3. ~ (i < j)
    <3>1. SUFFICES ASSUME i < j PROVE FALSE
      OBVIOUS
    <3>2. h[i] <= h[j - 1]
      BY <1>2, <1>3, <2>1, <3>1
    <3> QED BY <1>3, <1>4, <2>1, <2>2, <3>2
  <2>4. ~ (j < i)
    <3>1. SUFFICES ASSUME j < i PROVE FALSE
      OBVIOUS
    <3>2. h[j] <= h[i - 1]
      BY <1>2, <1>3, <2>1, <3>1
    <3> QED BY <1>3, <2>1, <2>2, <3>2
  <2> QED BY <1>3, <2>1, <2>3, <2>4
<1> DEFINE H == {j \in 1 .. Len(usable_regions) :
                   Base(j) <= k /\ k < Base(j) + usable_regions[j].frame_count}
<1>6. H = {i}
  <2>1. \A j : j \in H <=> NumberIn(k, j)
    BY DEF NumberIn
  <2> HIDE DEF H
  <2> QED BY <1>5, <2>1
<1>7. (CHOOSE j \in H : TRUE) = i
  <2> HIDE DEF H
  <2> QED BY <1>6
<1>8. index_to_frame(k) = IF H = {} THEN Nothing
                          ELSE LET j == CHOOSE j \in H : TRUE
                               IN  usable_regions[j].first_frame + (k - Base(j))
  BY DEF index_to_frame
<1>9. index_to_frame(k) = usable_regions[i].first_frame + (k - Base(i))
  <2> HIDE DEF H
  <2> QED BY <1>6, <1>7, <1>8
<1> QED BY <1>2, <1>3, <1>4, <1>9

LEMMA NumberIsIn ==
  ASSUME usable_regions \in Seq(UsableRegions), NEW k \in Nat, k < frames_count
  PROVE  \E i : NumberIn(k, i)
<1>1. PICK l \in Nat : l = Len(usable_regions)
  OBVIOUS
<1>2. PICK h : /\ h \in [0 .. l -> Nat] /\ h[0] = 0 /\ frames_count = h[l]
               /\ \A j \in 1 .. l : Base(j) = h[j - 1]
                                    /\ h[j] = h[j - 1] + usable_regions[j].frame_count
  BY <1>1, BasesAre
<1> DEFINE Above == {j \in 0 .. l : k < h[j]}
<1>3. PICK i \in Above : \A j \in Above : i <= j
  <2>1. Above \in SUBSET Nat /\ l \in Above
    BY <1>2
  <2> HIDE DEF Above
  <2> QED BY <2>1, LeastOf
<1>4. i # 0 /\ i \in 1 .. l
  BY <1>2, <1>3
<1>5. i - 1 \in 0 .. l /\ i - 1 \notin Above
  BY <1>3, <1>4
<1>6. h[i - 1] <= k
  BY <1>2, <1>5
<1>7. NumberIn(k, i)
  BY <1>1, <1>2, <1>3, <1>4, <1>6 DEF NumberIn
<1> QED BY <1>7

LEMMA Inverts ==
  ASSUME usable_regions \in Seq(UsableRegions), Apart(usable_regions)
  PROVE  NumberingInverts
<1>1. SUFFICES ASSUME NEW k \in 0 .. frames_count - 1
               PROVE  frame_to_index(index_to_frame(k)) = k
  BY DEF NumberingInverts
<1>2. frames_count \in Nat
  <2>1. PICK h : /\ h \in [0 .. Len(usable_regions) -> Nat]
                 /\ frames_count = h[Len(usable_regions)]
    BY BasesAre
  <2> QED BY <2>1
<1>3. k \in Nat /\ k < frames_count
  BY <1>2
<1>4. PICK i : NumberIn(k, i)
  BY <1>3, NumberIsIn
<1>5. PICK f \in Nat, c \in Nat, b \in Nat :
        /\ i \in 1 .. Len(usable_regions)
        /\ f = usable_regions[i].first_frame /\ c = usable_regions[i].frame_count
        /\ b = Base(i) /\ b <= k /\ k < b + c
  BY <1>4, RegionTyped DEF NumberIn
<1>6. PICK g \in Nat : g = f + (k - b) /\ g = index_to_frame(k)
  <2>1. f + (k - b) \in Nat
    BY <1>3, <1>5
  <2> QED BY <1>3, <1>4, <1>5, <2>1, FrameOfNumber
<1>6a. f <= g /\ g <= f + c - 1
  <2>1. k \in Nat /\ b <= k /\ k < b + c /\ g = f + (k - b)
    BY <1>3, <1>5, <1>6, Zenon
  <2> QED BY <2>1
<1>7. i \in Holding(g)
  <2>1. f <= g /\ g <= f + c - 1
    BY <1>6a
  <2> QED BY <1>5, <2>1 DEF Holding
<1>8. ASSUME NEW j \in Holding(g) PROVE j = i
  <2>1. PICK x \in Nat, y \in Nat :
          /\ j \in 1 .. Len(usable_regions)
          /\ x = usable_regions[j].first_frame /\ y = usable_regions[j].frame_count
          /\ x <= g /\ g <= x + y - 1
    BY <1>8, RegionTyped DEF Holding
  <2>2. ~ (j < i)
    <3>1. j < i => x + y <= f
      BY <1>5, <2>1 DEF Apart
    <3>2. x <= g /\ g <= x + y - 1
      BY <2>1, Zenon
    <3> QED BY <1>6a, <3>1, <3>2
  <2>3. ~ (i < j)
    <3>1. i < j => f + c <= x
      BY <1>5, <2>1 DEF Apart
    <3>2. x <= g /\ g <= x + y - 1
      BY <2>1, Zenon
    <3> QED BY <1>6a, <3>1, <3>2
  <2> QED BY <1>5, <2>1, <2>2, <2>3
<1>9. Holding(g) = {i}
  BY <1>7, <1>8
<1>10. First({i}) = i
  BY <1>5 DEF First
<1>11. frame_to_index(g) = b + (g - f)
  BY <1>5, <1>9, <1>10 DEF frame_to_index
<1> QED BY <1>3, <1>5, <1>6, <1>11

(* A frame with a number is one of the pages of a region of the map. *)
LEMMA NumberedIn ==
  ASSUME MapInv, NEW f \in Numbered
  PROVE  \E i \in 1 .. next :
           LET r == memory_map[i]
           IN  /\ f \in Nat /\ r.usable
               /\ BeginsAt(r, bitmap_addr, bitmap_size) <= f /\ f < EndPage(r)
<1>1. usable_regions \in Seq(UsableRegions) /\ memory_map \in Maps /\ next \in 0 .. Len(memory_map)
      /\ AllMade
  BY DEF MapInv, MapTyped
<1>2. PICK k \in 0 .. frames_count - 1 : f = index_to_frame(k)
  BY DEF Numbered
<1>3. frames_count \in Nat
  <2>1. PICK h : /\ h \in [0 .. Len(usable_regions) -> Nat]
                 /\ frames_count = h[Len(usable_regions)]
    BY <1>1, BasesAre
  <2> QED BY <1>1, <2>1
<1>4. k \in Nat /\ k < frames_count
  BY <1>3
<1>5. PICK j : NumberIn(k, j)
  BY <1>1, <1>4, NumberIsIn
<1>6. PICK x \in Nat, c \in Nat, b \in Nat :
        /\ j \in 1 .. Len(usable_regions)
        /\ x = usable_regions[j].first_frame /\ c = usable_regions[j].frame_count
        /\ b = Base(j) /\ b <= k /\ k < b + c
  BY <1>1, <1>5, RegionTyped DEF NumberIn
<1>7. f = x + (k - b)
  BY <1>1, <1>2, <1>4, <1>5, <1>6, FrameOfNumber
<1>8. PICK i \in 1 .. next :
        MadeOf(usable_regions[j], memory_map[i], bitmap_addr, bitmap_size)
  BY <1>1, <1>6 DEF AllMade
<1>9. memory_map[i] \in Region
  BY <1>1, MapIs
<1>10. PICK y \in Nat, z \in Nat :
         y = BeginsAt(memory_map[i], bitmap_addr, bitmap_size) /\ z = EndPage(memory_map[i])
  BY <1>1, <1>9, BeginIs, PagesAre
<1>11. memory_map[i].usable /\ x = y /\ c = z - y
  BY <1>6, <1>8, <1>10 DEF MadeOf
<1>12. f \in Nat /\ y <= f /\ f < z
  <2>1. k \in Nat /\ b <= k /\ k < b + c /\ f = x + (k - b) /\ x = y /\ c = z - y
    BY <1>4, <1>6, <1>7, <1>11, Zenon
  <2> QED BY <2>1
<1> QED BY <1>10, <1>11, <1>12

(* A page is behind the bitmap from page s on, or holds some of it. *)
LEMMA BehindBitmap ==
  ASSUME NEW s \in Nat, NEW f \in Nat, NEW size \in Nat, s <= f
  PROVE  /\ s + Up(size) <= f <=> s * PageSize + size <= f * PageSize
         /\ s * PageSize < (f + 1) * PageSize
<1>1. PICK d \in Nat : d = f - s /\ f = d + s
  <2>1. f - s \in Nat /\ f = (f - s) + s
    OBVIOUS
  <2> QED BY <2>1
<1>2. PICK p \in Nat, q \in Nat, g \in Nat, u \in Nat :
        p = s * PageSize /\ q = f * PageSize /\ g = d * PageSize /\ u = Up(size)
  BY PageAssumption, Products, UpIs
<1>3. q = g + p
  BY <1>1, <1>2, PageAssumption, Distributes
<1>4. size <= g <=> u <= d
  BY <1>2, UpIs
<1>5. s + u <= f <=> p + size <= q
  BY <1>1, <1>2, <1>3, <1>4
<1>6. (f + 1) * PageSize = q + PageSize
  BY <1>2, PageAssumption, Distributes
<1>7. p < q + PageSize
  BY <1>2, <1>3, PageAssumption
<1> QED BY <1>2, <1>5, <1>6, <1>7

LEMMA UsableOnly == MapInv => OnlyUsable
<1> SUFFICES ASSUME MapInv, NEW f \in Numbered PROVE InUsableMemory(f) /\ ~UnderBitmap(f)
  BY DEF OnlyUsable
<1>1. memory_map \in Maps /\ next \in 0 .. Len(memory_map) /\ BitmapPlaced
  BY DEF MapInv, MapTyped
<1>2. PICK i \in 1 .. next :
        /\ f \in Nat /\ memory_map[i].usable
        /\ BeginsAt(memory_map[i], bitmap_addr, bitmap_size) <= f /\ f < EndPage(memory_map[i])
  BY NumberedIn
<1>3. PICK l \in Nat, size \in Nat : l = Len(memory_map) /\ i \in 1 .. l /\ size = bitmap_size
  BY <1>1, MapIs, BitmapSize
<1>4. PICK r \in Region : r = memory_map[i]
  BY <1>1, <1>3, MapIs
<1>5. PICK s \in Nat, e \in Nat, b \in Nat :
        /\ s = StartPage(r) /\ e = EndPage(r) /\ b = BeginsAt(r, bitmap_addr, size) /\ s <= b
        /\ b <= f /\ f < e
  BY <1>1, <1>2, <1>3, <1>4, PagesAre, BeginIs
<1>6. InUsableMemory(f)
  <2>1. s <= f /\ f < e
    BY <1>2, <1>5
  <2>2. r.addr <= f * PageSize /\ (f + 1) * PageSize <= r.addr + r.size
    BY <1>2, <1>5, <2>1, InPages
  <2> QED BY <1>2, <1>3, <1>4, <2>2 DEF InUsableMemory
<1>7. ASSUME UnderBitmap(f) PROVE FALSE
  <2>1. PICK j \in 1 .. next : Hosts(memory_map[j], bitmap_addr, bitmap_size)
    BY <1>1, <1>7 DEF BitmapPlaced, UnderBitmap
  <2>2. j \in 1 .. l /\ j \in 1 .. Len(memory_map)
    BY <1>1, <1>3
  <2>3. PICK w \in Region : w = memory_map[j] /\ w.usable
    BY <1>1, <2>1, <2>2, MapIs DEF Hosts
  <2>4. PICK x \in Nat, y \in Nat, p \in Nat, q \in Nat :
          /\ x = StartPage(w) /\ p = x * PageSize /\ bitmap_addr = p
          /\ y = EndPage(w) /\ q = y * PageSize /\ p + size <= q
    <3>1. StartPage(w) \in Nat /\ EndPage(w) \in Nat
      BY PagesAre
    <3>2. StartPage(w) * PageSize \in Nat /\ EndPage(w) * PageSize \in Nat
      BY <3>1, PageAssumption, Products
    <3>3. bitmap_addr = StartPage(w) * PageSize
          /\ StartPage(w) * PageSize + size <= EndPage(w) * PageSize
      BY <1>3, <2>1, <2>3 DEF Hosts
    <3> QED BY <3>1, <3>2, <3>3
  <2>5. PICK g \in Nat, h \in Nat :
          g = f * PageSize /\ h = (f + 1) * PageSize /\ g < p + size /\ p < h
    <3>1. f * PageSize \in Nat /\ (f + 1) * PageSize \in Nat
      BY <1>2, PageAssumption, Products
    <3> QED BY <1>3, <1>7, <2>4, <3>1 DEF UnderBitmap
  <2>6. CASE s = x
    <3>1. b = s + Up(size)
      BY <1>5, <2>4, <2>6 DEF BeginsAt
    <3>2. s * PageSize + size <= f * PageSize
      BY <1>2, <1>5, <3>1, BehindBitmap
    <3> QED BY <2>4, <2>5, <2>6, <3>2
  <2>7. CASE s # x
    <3>1. i # j
      BY <1>4, <1>5, <2>3, <2>4, <2>7
    <3>2. CASE i < j
      <4>1. e <= x
        BY <1>1, <1>2, <1>3, <1>4, <1>5, <2>2, <2>3, <2>4, <3>2, PagesApart
      <4>2. f + 1 <= x
        BY <1>2, <1>5, <4>1
      <4>3. h <= p
        BY <1>2, <2>4, <2>5, <4>2, PageAssumption, Scales
      <4> QED BY <2>4, <2>5, <4>3
    <3>3. CASE j < i
      <4>1. y <= s
        BY <1>1, <1>2, <1>3, <1>4, <1>5, <2>2, <2>3, <2>4, <3>3, PagesApart
      <4>2. y <= f
        BY <1>2, <1>5, <4>1
      <4>3. q <= g
        BY <1>2, <2>4, <2>5, <4>2, PageAssumption, Scales
      <4> QED BY <1>3, <2>4, <2>5, <4>3
    <3> QED BY <1>3, <2>2, <3>1, <3>2, <3>3
  <2> QED BY <2>6, <2>7
<1> QED BY <1>6, <1>7

LEMMA AllNumbered == MapInv => NoneLost
<1> SUFFICES ASSUME MapInv, stage = "ready", NEW f \in Nat, InUsableMemory(f)
             PROVE  f \in Numbered \/ UnderBitmap(f)
  BY DEF NoneLost
<1>1. /\ memory_map \in Maps /\ next = Len(memory_map) /\ bitmap_addr # Nothing
      /\ AllMade /\ usable_regions \in Seq(UsableRegions)
  BY DEF MapInv, MapTyped, MapRead
<1>2. PICK i \in 1 .. Len(memory_map) :
        /\ memory_map[i].usable /\ memory_map[i].addr <= f * PageSize
        /\ (f + 1) * PageSize <= memory_map[i].addr + memory_map[i].size
  BY DEF InUsableMemory
<1>3. PICK r \in Region : r = memory_map[i]
  BY <1>1, MapIs
<1>4. PICK s \in Nat, e \in Nat, b \in Nat, size \in Nat :
        /\ s = StartPage(r) /\ e = EndPage(r) /\ b = BeginsAt(r, bitmap_addr, size)
        /\ size = bitmap_size
  BY <1>1, PagesAre, BeginIs, BitmapSize
<1>5. s <= f /\ f < e
  BY <1>2, <1>3, <1>4, InPages
<1>6. CASE f < b
  <2>1. bitmap_addr = s * PageSize /\ b = s + Up(size)
    BY <1>4, <1>5, <1>6 DEF BeginsAt
  <2>2. PICK p \in Nat, g \in Nat, h \in Nat :
          p = s * PageSize /\ g = f * PageSize /\ h = (f + 1) * PageSize
    <3>1. f + 1 \in Nat
      OBVIOUS
    <3> QED BY <3>1, PageAssumption, Products
  <2>3. ~ (p + size <= g) /\ p < h
    <3>1. ~ (b <= f)
      BY <1>4, <1>6
    <3> QED BY <1>4, <1>5, <2>1, <2>2, <3>1, BehindBitmap
  <2>4. UnderBitmap(f)
    <3>1. g < p + size /\ p < h
      BY <1>4, <2>2, <2>3
    <3>2. bitmap_addr = p /\ bitmap_size = size /\ f * PageSize = g /\ (f + 1) * PageSize = h
      BY <1>4, <2>1, <2>2, Zenon
    <3> QED BY <1>1, <3>1, <3>2 DEF UnderBitmap
  <2> QED BY <2>4
<1>7. CASE b <= f
  <2>1. PICK k \in 1 .. Len(usable_regions) :
          MadeOf(usable_regions[k], r, bitmap_addr, size)
    <3>1. i \in 1 .. next /\ b < e
      BY <1>1, <1>4, <1>5, <1>7
    <3> QED BY <1>1, <1>2, <1>3, <1>4, <3>1 DEF AllMade
  <2>2. usable_regions[k].first_frame = b /\ usable_regions[k].frame_count = e - b
    BY <1>4, <2>1 DEF MadeOf
  <2>3. PICK a \in Nat : a = Base(k)
    BY <1>1, RegionTyped
  <2>4. PICK n \in Nat : n = a + (f - b) /\ a <= n /\ n < a + (e - b) /\ b + (n - a) = f
    <3>1. a + (f - b) \in Nat /\ a <= a + (f - b) /\ a + (f - b) < a + (e - b)
          /\ b + ((a + (f - b)) - a) = f
      BY <1>4, <1>5, <1>7, <2>3
    <3> QED BY <3>1
  <2>5. NumberIn(n, k)
    BY <2>2, <2>3, <2>4 DEF NumberIn
  <2>6. n < frames_count /\ index_to_frame(n) = f
    BY <1>1, <2>2, <2>3, <2>4, <2>5, FrameOfNumber
  <2>7. frames_count \in Nat
    <3>1. PICK h : /\ h \in [0 .. Len(usable_regions) -> Nat]
                   /\ frames_count = h[Len(usable_regions)]
      BY <1>1, BasesAre
    <3> QED BY <1>1, <3>1
  <2>8. n \in 0 .. frames_count - 1
    BY <2>6, <2>7
  <2> QED BY <2>6, <2>8 DEF Numbered
<1> QED BY <1>4, <1>6, <1>7

LEMMA BitForEach == MapInv => BitmapHolds
<1> SUFFICES ASSUME MapInv PROVE frames_count <= bitmap_size * BitsPerByte
  BY DEF BitmapHolds
<1>1. /\ memory_map \in Maps /\ next \in 0 .. Len(memory_map) /\ CountBelow
      /\ usable_regions \in Seq(UsableRegions)
  BY DEF MapInv, MapTyped
<1>2. PICK m \in Maps, l \in Nat : m = memory_map /\ l = Len(m)
  BY <1>1, MapIs
<1>3. PICK h : /\ Sums(h, UpperBounds(m), l)
               /\ \A n \in 0 .. l : SumTo(FramesUpTo, m, n) = h[n]
  BY <1>2, UpperBoundsTyped
<1>4. \A k \in 1 .. l : UpperBounds(m)[k] \in Nat
  BY <1>2, UpperBoundsTyped
<1>5. next \in 0 .. l /\ l \in 0 .. l /\ next <= l
  BY <1>1, <1>2
<1>6. h[next] <= h[l]
  BY <1>3, <1>4, <1>5, SumsGrow
<1>7. PICK x \in Nat, y \in Nat : x = h[next] /\ y = h[l]
  BY <1>3, <1>5 DEF Sums
<1>8. PICK c \in Nat : c = frames_count
  <2>1. PICK g : /\ g \in [0 .. Len(usable_regions) -> Nat]
                 /\ frames_count = g[Len(usable_regions)]
    BY <1>1, BasesAre
  <2> QED BY <1>1, <2>1
<1>9. c <= x
  BY <1>1, <1>2, <1>3, <1>5, <1>7, <1>8 DEF CountBelow
<1>10. PICK z \in Nat : z = bitmap_size * BitsPerByte
  BY <1>1, BitmapSize, PageAssumption, Products
<1>11. y <= z
  BY <1>1, <1>2, <1>3, <1>5, <1>7, <1>10, BitmapSize
<1> QED BY <1>6, <1>7, <1>8, <1>9, <1>10, <1>11

LEMMA MapRight == MapInv => MapIsRight
<1> SUFFICES ASSUME MapInv PROVE MapIsRight
  OBVIOUS
<1>1. usable_regions \in Seq(UsableRegions) /\ Apart(usable_regions)
  BY DEF MapInv, MapTyped
<1> QED BY <1>1, UsableOnly, AllNumbered, BitForEach, Inverts DEF MapIsRight

(* Whatever map the boot loader passes, what is handed out as a frame is a   *)
(* whole frame of usable memory beside the bitmap, none of them is lost,     *)
(* each has its bit, and the numbering of the frames goes both ways          *)
(* (bitmap.rs).                                                              *)
THEOREM AlwaysRight == FrameMapSpec => []MapIsRight
BY MapStarts, MapStep, MapRight, PTL DEF FrameMapSpec

-----------------------------------------------------------------------------
(***************************************************************************)
(* No interrupt hangs.  While the processor is at a vector, the lines in   *)
(* service are the one the vector is of and the one it came through, or,   *)
(* after a spurious request, the slave's line at the master alone: the end *)
(* of interrupt takes away just these.                                     *)
(***************************************************************************)

(* What a vector leaves in service. *)
InService(i) ==
  \/ i \in Devices /\ service = {i, Line(i)}
  \/ i = 7 /\ service = {}
  \/ i = 15 /\ service = {PIC_IRQ}

IrqInv ==
  /\ boot \in 1 .. Booted
  /\ enabled \in BOOLEAN /\ (enabled => boot > 2) /\ (boot > 1 => offset = PIC_OFFSET)
  /\ requests \subseteq Devices /\ imr \subseteq Irqs
  /\ IF vectored = NoVector THEN service = {}
     ELSE enabled /\ \E i \in Irqs : vectored = vector(i) /\ InService(i)
  /\ boot > 1 => Irqs \ imr \subseteq handlers \cup {PIC_IRQ}
  /\ boot > 4 => KBD_IRQ \in handlers

LEMMA IrqStarts == InterruptsInit => IrqInv
  <1> SUFFICES ASSUME InterruptsInit PROVE IrqInv
    OBVIOUS
  <1>1. imr \subseteq Irqs /\ requests \subseteq Devices
    BY DEF InterruptsInit
  <1>2. boot = 1 /\ vectored = NoVector /\ service = {}
    BY DEF InterruptsInit
  <1>3. boot \in 1 .. Booted /\ ~(boot > 1) /\ ~(boot > 4)
    BY <1>2 DEF Booted
  <1>4. enabled = FALSE
    BY DEF InterruptsInit
  <1>5. ~enabled /\ enabled \in BOOLEAN
    BY <1>4, Zenon
  <1> QED
    BY <1>1, <1>2, <1>3, <1>5, Zenon DEF IrqInv

(* The first line in service of a controller that has one. *)
LEMMA OneEnds == \A i \in Int : Ended({i}) = {}
  <1> SUFFICES ASSUME NEW i \in Int PROVE Ended({i}) = {}
    OBVIOUS
  <1>1. Min({i}) = i
    BY DEF Min
  <1> QED
    BY <1>1 DEF Ended

(* The end of interrupt leaves nothing in service. *)
LEMMA AllEnds ==
  ASSUME NEW i \in Irqs, InService(i), eoi(i)
  PROVE  service' = {}
  <1>1. Ended({}) = {}
    BY DEF Ended
  <1>2. CASE i \in Devices /\ service = {i, Line(i)}
    <2>1. i \in {0, 1, 4, 5, 8}
      BY <1>2, InterruptsAssumption DEF PIT_IRQ, KBD_IRQ, COM_IRQ, SND_IRQ, RTC_IRQ
    <2>2. CASE i = 8
      <3>1. Master = {2} /\ Slave = {8}
        BY <1>2, <2>2 DEF Master, Slave, Line, PIC_IRQ
      <3> QED
        BY <2>2, <3>1, OneEnds DEF eoi
    <2>3. CASE i < 8
      <3>1. Master = {i} /\ Slave = {}
        BY <1>2, <2>3, <2>1 DEF Master, Slave, Line
      <3> QED
        BY <2>1, <2>3, <3>1, <1>1, OneEnds DEF eoi
    <2> QED
      BY <2>1, <2>2, <2>3
  <1>3. CASE i = 7 /\ service = {}
    <2>1. Master = {} /\ Slave = {}
      BY <1>3 DEF Master, Slave
    <2> QED
      BY <1>1, <1>3, <2>1 DEF eoi
  <1>4. CASE i = 15 /\ service = {PIC_IRQ}
    <2>1. Master = {2} /\ Slave = {}
      BY <1>4 DEF Master, Slave, PIC_IRQ
    <2> QED
      BY <1>1, <1>4, <2>1, OneEnds DEF eoi
  <1> QED
    BY <1>2, <1>3, <1>4 DEF InService

(* Boot opens a line only after its handler is set. *)
LEMMA BootKeeps ==
  ASSUME IrqInv, Boot
  PROVE  IrqInv'
  <1> USE DEF PIT_IRQ, KBD_IRQ, PIC_IRQ, COM_IRQ, SND_IRQ, RTC_IRQ, Irqs, Booted
  <1>1. boot \in 1 .. 9 /\ boot' = boot + 1 /\ vectored = NoVector /\ vectored' = NoVector
        /\ service = {}
    BY DEF Boot, IrqInv
  <1>2. CASE boot = 1 /\ pic_init
    BY <1>1, <1>2 DEF pic_init, IrqInv
  <1>3. CASE boot = 2 /\ EnableInterrupts
    BY <1>1, <1>3 DEF EnableInterrupts, IrqInv
  <1>4. ASSUME NEW i \in Irqs, boot > 2, DriverInit(i), boot = 4 => i = KBD_IRQ
        PROVE  IrqInv'
    <2>1. CASE set_irq_handler(i)
      BY <1>1, <1>4, <2>1 DEF set_irq_handler, unmask, IrqInv
    <2>2. CASE Absent(i)
      BY <1>1, <1>4, <2>2, InterruptsAssumption DEF Absent, IrqInv
    <2> QED
      BY <1>4, <2>1, <2>2 DEF DriverInit
  <1>5. CASE boot = 7 /\ MemBegins
    BY <1>1, <1>5 DEF MemBegins, mask, IrqInv
  <1>6. CASE boot = 8 /\ MemEnds
    BY <1>1, <1>6 DEF MemEnds, unmask, IrqInv
  <1>7. CASE boot = 3 /\ DriverInit(COM_IRQ)
    BY <1>4, <1>7
  <1>8. CASE boot = 4 /\ DriverInit(KBD_IRQ)
    BY <1>4, <1>8
  <1>9. CASE boot = 5 /\ DriverInit(PIT_IRQ)
    BY <1>4, <1>9
  <1>10. CASE boot = 6 /\ DriverInit(RTC_IRQ)
    BY <1>4, <1>10
  <1>11. CASE boot = 9 /\ DriverInit(SND_IRQ)
    BY <1>4, <1>11
  <1> QED
    BY <1>2, <1>3, <1>5, <1>6, <1>7, <1>8, <1>9, <1>10, <1>11 DEF Boot

LEMMA IrqKeeps ==
  ASSUME IrqInv, [InterruptsNext]_irqVars
  PROVE  IrqInv'
  <1>1. CASE Boot
    BY <1>1, BootKeeps
  <1>2. CASE Raise
    BY <1>2 DEF Raise, IrqInv, InService, vector
  <1>3. CASE Spurious
    <2>1. PICK i \in {7, 15} : /\ service' = service \cup ({Line(i)} \ {7})
                               /\ vectored' = offset + i
      BY <1>3 DEF Spurious
    <2>2. service = {} /\ offset = 32 /\ boot > 2 /\ enabled
          /\ UNCHANGED <<boot, enabled, offset, imr, requests, handlers>>
      BY <1>3 DEF Spurious, IrqInv, PIC_OFFSET, Booted
    <2>3. vectored' = vector(i) /\ vectored' # NoVector /\ i \in Irqs
      BY <2>1, <2>2 DEF vector, NoVector, Irqs, PIC_OFFSET
    <2>4. InService(i)'
      BY <2>1, <2>2 DEF InService, Line, PIC_IRQ
    <2> QED
      BY <2>2, <2>3, <2>4 DEF IrqInv, vector, InService
  <1>4. ASSUME NEW i \in Irqs, Acknowledge(i) PROVE IrqInv'
    <2>1. /\ service = {} /\ offset = 32 /\ enabled /\ i \in Devices
          /\ requests' \subseteq Devices /\ service' = {i, Line(i)} /\ vectored' = 32 + i
          /\ UNCHANGED <<boot, enabled, offset, imr, handlers>>
      BY <1>4 DEF Acknowledge, IrqInv, PIC_OFFSET, Booted
    <2>2. vectored' = vector(i) /\ vectored' # NoVector
      BY <2>1 DEF vector, NoVector, Irqs, PIC_OFFSET
    <2>3. InService(i)'
      BY <2>1 DEF InService, Line, PIC_IRQ
    <2> QED
      BY <2>1, <2>2, <2>3 DEF IrqInv, vector, InService
  <1>5. CASE irq_handler
    <2>1. PICK irq \in Irqs : vectored = vector(irq) /\ eoi(irq)
      BY <1>5 DEF irq_handler
    <2>2. PICK i \in Irqs : vectored = vector(i) /\ InService(i)
      BY <1>5 DEF irq_handler, IrqInv
    <2>3. i = irq
      BY <2>1, <2>2 DEF vector, Irqs, PIC_OFFSET
    <2>4. service' = {}
      BY <2>1, <2>2, <2>3, AllEnds
    <2> QED
      BY <1>5, <2>4 DEF irq_handler, IrqInv
  <1>6. CASE UNCHANGED irqVars
    BY <1>6 DEF irqVars, IrqInv, InService, vector
  <1> QED
    BY <1>1, <1>2, <1>3, <1>4, <1>5, <1>6 DEF InterruptsNext, Processor

(***************************************************************************)
(* For any devices, and any order of their requests and of spurious ones,  *)
(* from boot on: no line is left in service while the processor is at none *)
(* of the vectors, and a line that is open has a handler (pic.rs 56-114,   *)
(* idt.rs 138-158 and 277-284, lib.rs 35-62).                              *)
(***************************************************************************)
THEOREM NeverHangs == InterruptsSpec => [](NoneHangs /\ OpenIsHandled)
  <1>1. IrqInv => NoneHangs /\ OpenIsHandled
    BY DEF IrqInv, NoneHangs, OpenIsHandled, Booted
  <1> QED
    BY <1>1, IrqStarts, IrqKeeps, PTL DEF InterruptsSpec

-----------------------------------------------------------------------------
(***************************************************************************)
(* What the answers of a socket's calls say is so.  Between its turns a    *)
(* call has made good what its flag says.                                  *)
(***************************************************************************)

States ==
  {"Closed", "Listen", "SynSent", "SynReceived", "Established", "CloseWait", "FinWait", "Open"}

Peers == Addr \cup {NoPeer}

Socket ==
  [proto : {"tcp", "udp"}, state : States, peer : Peers, remote : Peers,
   rx : 0 .. BufferSize, tx : 0 .. BufferSize]

Calls ==
  [op : {"connect", "listen", "accept", "read", "write", "close"}, addr : Peers,
   len : Nat, done : BOOLEAN, late : BOOLEAN, queued : Nat, from : States]

(* connect has sent its request, write has queued something, close has       *)
(* closed; or they have not.                                                 *)
FlagHolds(c, k) ==
  /\ c.op = "connect" => c.addr \in Addr
  /\ c.op = "connect" /\ k.proto = "tcp" /\ c.from = "Closed" =>
       IF c.done THEN k.state = "SynSent" /\ k.peer = c.addr ELSE k.state = "Closed"
  /\ c.op \in {"read", "write"} => c.len > 0
  /\ c.op = "write" => IF c.done THEN c.queued > 0 ELSE c.queued = 0
  /\ c.op = "close" /\ c.done => k.state \in {"Closed", "FinWait"}

SocketInv ==
  /\ sock \in Socket
  /\ call = Idle \/ (call \in Calls /\ FlagHolds(call, sock))

(* Where a poll can take a socket. *)
LEMMA PollKeeps ==
  ASSUME NEW k \in Socket, NEW p \in Polled(k)
  PROVE  /\ p \in Socket /\ p.state \in Moves(k.state)
         /\ p.proto = k.proto /\ p.remote = k.remote
         /\ k.peer # NoPeer /\ p.state \notin {"Closed", "Listen", "Open"} => p.peer = k.peer
  <1>1. Moves(k.state) \subseteq States
    BY DEF Moves, Socket, States
  <1>2. p \in Socket
    BY <1>1, SocketsAssumption DEF Polled, Socket, Peers
  <1> QED
    BY <1>2 DEF Polled


LEMMA SocketStarts == SocketsInit => SocketInv
  <1> SUFFICES ASSUME SocketsInit PROVE SocketInv
    OBVIOUS
  <1> QED
    BY SocketsAssumption DEF SocketsInit, SocketInv, new, Socket, States, Peers

LEMMA BeginKeeps ==
  ASSUME SocketInv, Begin
  PROVE  SocketInv'
  <1>1. sock \in Socket /\ sock' = sock
    BY DEF SocketInv, Begin, Call
  <1>2. sock'.state \in States /\ sock.state \in States
    BY <1>1 DEF Socket
  <1>3. ASSUME NEW what \in {"connect", "listen", "accept", "read", "write", "close"},
               NEW addr \in Peers, NEW len \in Nat, Call(what, addr, len),
               what = "connect" => addr \in Addr, what \in {"read", "write"} => len > 0
        PROVE  call' \in Calls /\ FlagHolds(call', sock')
    <2> DEFINE c == [op |-> what, addr |-> addr, len |-> len, done |-> FALSE, late |-> FALSE,
                     queued |-> 0, from |-> sock.state]
    <2>1. call' = c
      BY <1>3 DEF Call
    <2>2. c \in Calls
      BY <1>2, <1>3 DEF Calls
    <2>3. FlagHolds(c, sock)
      BY <1>3 DEF FlagHolds
    <2> QED
      BY <2>1, <2>2, <2>3, <1>1
  <1>4. Lengths \subseteq Nat \ {0}
    BY SocketsAssumption
  <1>5. CASE \E addr \in Addr : Call("connect", addr, 0)
    BY <1>5, <1>3, <1>1 DEF Peers, SocketInv
  <1>6. CASE \E what \in {"listen", "accept"} : sock.proto = "tcp" /\ Call(what, NoPeer, 0)
    BY <1>6, <1>3, <1>1 DEF Peers, SocketInv
  <1>7. CASE \E what \in {"read", "write"}, len \in Lengths : Call(what, NoPeer, len)
    <2> PICK what \in {"read", "write"}, len \in Lengths : Call(what, NoPeer, len)
      BY <1>7
    <2>1. len \in Nat /\ len > 0
      BY <1>4
    <2> QED
      BY <2>1, <1>3, <1>1 DEF Peers, SocketInv
  <1>8. CASE Call("close", NoPeer, 0)
    BY <1>8, <1>3, <1>1 DEF Peers, SocketInv
  <1> QED
    BY <1>5, <1>6, <1>7, <1>8 DEF Begin

LEMMA TimeOutKeeps ==
  ASSUME SocketInv, TimeOut
  PROVE  SocketInv'
  <1>1. call \in Calls /\ FlagHolds(call, sock) /\ sock \in Socket /\ sock' = sock
    BY DEF SocketInv, TimeOut
  <1> DEFINE c == [call EXCEPT !.late = TRUE]
  <1>2. call' = c
    BY DEF TimeOut
  <1>3. c \in Calls
    BY <1>1 DEF Calls
  <1>4. FlagHolds(c, sock)
    BY <1>1 DEF FlagHolds, Calls
  <1> QED
    BY <1>1, <1>2, <1>3, <1>4 DEF SocketInv

(***************************************************************************)
(* A turn, of each of the calls: it leaves the socket a socket, and either *)
(* answers or goes on with a flag that holds.                              *)
(***************************************************************************)
Goes == sock' \in Socket /\ (call' = Idle \/ (call' \in Calls /\ FlagHolds(call', sock')))

(* What the property says of an answer.                                      *)
SaidSo ==
  LET yes == answer'.ok
  IN  CASE call.op = "connect" ->
             (yes /\ call.from = "Closed") =>
                IF sock.proto = "tcp"
                THEN /\ sock'.peer = call.addr
                     /\ sock'.state = "Established" \/ can_recv(sock')
                ELSE sock'.remote = call.addr /\ sock'.state = "Open"
        [] call.op = "read" ->
             (yes /\ call.len # 1 /\ answer'.n = 0) => ~may_recv(sock')
        [] call.op = "write" ->
             IF yes THEN call.queued > 0 ELSE call.queued = 0 \/ call.late
        [] call.op = "accept" -> yes => sock'.peer # NoPeer
        [] call.op = "close" -> sock'.state \in {"Closed", "FinWait"}
        [] OTHER -> TRUE

Asked(k) == call \in Calls /\ FlagHolds(call, sock) /\ sock \in Socket /\ k \in Polled(sock)

(* The flag is as true of the polled socket, but for a connection on its way. *)
LEMMA AskedStays ==
  ASSUME NEW k, Asked(k)
  PROVE  /\ k \in Socket /\ k.proto = sock.proto /\ k.remote = sock.remote
         /\ call.op # "connect" => FlagHolds(call, k)
         /\ call.op = "connect" /\ k.proto = "tcp" /\ call.from = "Closed" =>
              IF call.done
              THEN /\ k.state \in {"SynSent", "Established", "CloseWait", "Closed"}
                   /\ k.state # "Closed" => k.peer = call.addr
              ELSE k.state = "Closed"
  <1>1. /\ k \in Socket /\ k.state \in Moves(sock.state)
        /\ k.proto = sock.proto /\ k.remote = sock.remote
        /\ sock.peer # NoPeer /\ k.state \notin {"Closed", "Listen", "Open"} =>
             k.peer = sock.peer
    BY PollKeeps DEF Asked
  <1>2. call \in Calls /\ FlagHolds(call, sock)
    BY DEF Asked
  <1>3. sock.state = "Closed" => k.state = "Closed"
    BY <1>1 DEF Moves
  <1>4. sock.state = "FinWait" => k.state \in {"FinWait", "Closed"}
    BY <1>1 DEF Moves
  <1>5. sock.state = "SynSent" =>
          k.state \in {"SynSent", "Established", "CloseWait", "Closed"}
    BY <1>1 DEF Moves
  <1>6. call.op # "connect" => FlagHolds(call, k)
    BY <1>2, <1>3, <1>4 DEF FlagHolds
  <1>7. ASSUME call.op = "connect", k.proto = "tcp", call.from = "Closed"
        PROVE  IF call.done
               THEN /\ k.state \in {"SynSent", "Established", "CloseWait", "Closed"}
                    /\ k.state # "Closed" => k.peer = call.addr
               ELSE k.state = "Closed"
    <2>1. call.addr \in Addr /\ call.addr # NoPeer
      BY <1>2, <1>7, SocketsAssumption DEF FlagHolds, NoPeer
    <2>2. IF call.done THEN sock.state = "SynSent" /\ sock.peer = call.addr
          ELSE sock.state = "Closed"
      BY <1>1, <1>2, <1>7 DEF FlagHolds
    <2> QED
      BY <2>1, <2>2, <1>1, <1>3, <1>5
  <1> QED
    BY <1>1, <1>6, <1>7


LEMMA ConnectGoes ==
  ASSUME NEW k, Asked(k), Connect(k)
  PROVE  Goes /\ (call' = Idle => SaidSo)
  <1>1. /\ k \in Socket /\ k.proto = sock.proto
        /\ call.op = "connect" /\ k.proto = "tcp" /\ call.from = "Closed" =>
              IF call.done
              THEN /\ k.state \in {"SynSent", "Established", "CloseWait", "Closed"}
                   /\ k.state # "Closed" => k.peer = call.addr
              ELSE k.state = "Closed"
    BY AskedStays
  <1>2. call \in Calls /\ FlagHolds(call, sock) /\ call.op = "connect" /\ call.addr \in Addr
    BY DEF Asked, Connect, FlagHolds
  <1>3. call # Idle
    BY <1>2 DEF Idle
  <1>4. CASE k.proto = "tcp" /\ k.state = "Closed"
    <2>1. CASE call' = Idle /\ answer' = Err /\ sock' = k
      BY <1>1, <1>2, <2>1 DEF Goes, SaidSo, Err
    <2>2. CASE ~call.done /\ Again([k EXCEPT !.state = "SynSent", !.peer = call.addr, !.rx = 0, !.tx = 0],
                                   Flagged)
      <3> DEFINE w == [k EXCEPT !.state = "SynSent", !.peer = call.addr, !.rx = 0, !.tx = 0]
                 c == [call EXCEPT !.done = TRUE]
      <3>1. sock' = w /\ call' = c
        BY <2>2 DEF Again, Flagged
      <3>2. w \in Socket /\ w.state = "SynSent" /\ w.peer = call.addr
        <4>1. 0 \in 0 .. BufferSize
          BY SocketsAssumption
        <4>2. call.addr \in Peers /\ "SynSent" \in States
          BY <1>2 DEF Peers, States
        <4> QED
          BY <1>1, <4>1, <4>2 DEF Socket
      <3>3. c \in Calls /\ c.done /\ c.addr = call.addr /\ c.op = "connect"
        BY <1>2 DEF Calls
      <3>4. FlagHolds(c, w)
        BY <3>2, <3>3, <1>2 DEF FlagHolds
      <3>5. c # Idle
        BY <3>3 DEF Idle
      <3> HIDE DEF w, c
      <3> QED
        BY <3>1, <3>2, <3>3, <3>4, <3>5 DEF Goes
    <2> QED
      BY <1>4, <2>1, <2>2 DEF Connect, ConnectTcp, Answer
  <1>5. CASE k.proto = "tcp" /\ k.state = "SynSent"
    <2>1. sock' = k /\ call' = call
      BY <1>5 DEF Connect, ConnectTcp, Again
    <2>2. FlagHolds(call, k)
      BY <1>1, <1>2, <1>5 DEF FlagHolds
    <2> QED
      BY <2>1, <2>2, <1>1, <1>2, <1>3 DEF Goes
  <1>6. CASE k.proto = "tcp" /\ k.state \notin {"Closed", "SynSent"}
    <2>1. /\ call' = Idle /\ sock' = k
          /\ answer'.ok => k.state = "Established" \/ can_recv(k)
      <3>1. CASE k.state = "Established"
        BY <1>6, <3>1 DEF Connect, ConnectTcp, Answer
      <3>2. CASE k.state # "Established"
        BY <1>6, <3>2 DEF Connect, ConnectTcp, Answer, Err
      <3> QED
        BY <3>1, <3>2
    <2>2. call.from = "Closed" => k.peer = call.addr
      BY <1>1, <1>2, <1>6
    <2>3. SaidSo
      BY <2>1, <2>2, <1>1, <1>2, <1>6 DEF SaidSo
    <2> QED
      BY <2>1, <2>3, <1>1 DEF Goes
  <1>7. CASE k.proto # "tcp" /\ k.state = "Closed"
    <2> DEFINE w == [k EXCEPT !.state = "Open", !.remote = call.addr]
    <2>1. sock' = w /\ call' = Idle
      BY <1>7 DEF Connect, ConnectUdp, Answer
    <2>2. w \in Socket /\ w.state = "Open" /\ w.remote = call.addr
      BY <1>1, <1>2 DEF Socket, States, Peers
    <2> HIDE DEF w
    <2> QED
      BY <2>1, <2>2, <1>1, <1>2, <1>7 DEF Goes, SaidSo
  <1>8. CASE k.proto # "tcp" /\ k.state # "Closed"
    <2>1. sock' = k /\ call' = call
      BY <1>8 DEF Connect, ConnectUdp, Again
    <2>2. FlagHolds(call, k)
      BY <1>2, <1>8 DEF FlagHolds
    <2> QED
      BY <2>1, <2>2, <1>1, <1>2, <1>3 DEF Goes
  <1> QED
    BY <1>4, <1>5, <1>6, <1>7, <1>8

LEMMA ListenGoes ==
  ASSUME NEW k, Asked(k), Listen(k)
  PROVE  Goes /\ (call' = Idle => SaidSo)
  <1>1. k \in Socket
    BY AskedStays
  <1>2. SaidSo
    BY DEF Listen, SaidSo
  <1> DEFINE w == [k EXCEPT !.state = "Listen", !.rx = 0, !.tx = 0]
  <1>3. call' = Idle /\ (sock' = k \/ sock' = w)
    BY DEF Listen, Answer
  <1>4. w \in Socket
    <2>1. 0 \in 0 .. BufferSize /\ "Listen" \in States
      BY SocketsAssumption DEF States
    <2> QED
      BY <1>1, <2>1 DEF Socket
  <1> HIDE DEF w
  <1> QED
    BY <1>1, <1>2, <1>3, <1>4 DEF Goes

LEMMA AcceptGoes ==
  ASSUME NEW k, Asked(k), Accept(k)
  PROVE  Goes /\ (call' = Idle => SaidSo)
  <1>1. k \in Socket /\ (call.op # "connect" => FlagHolds(call, k))
    BY AskedStays
  <1>2. call \in Calls /\ call.op = "accept" /\ call # Idle
    BY DEF Asked, Accept, Idle
  <1>3. CASE k.peer # NoPeer
    BY <1>1, <1>2, <1>3 DEF Accept, Answer, Goes, SaidSo
  <1>4. CASE k.peer = NoPeer
    BY <1>1, <1>2, <1>4 DEF Accept, Again, Goes
  <1> QED
    BY <1>3, <1>4

LEMMA ReadGoes ==
  ASSUME NEW k, Asked(k), Read(k)
  PROVE  Goes /\ (call' = Idle => SaidSo)
  <1>1. k \in Socket /\ (call.op # "connect" => FlagHolds(call, k))
    BY AskedStays
  <1>2. call \in Calls /\ call.op = "read" /\ call # Idle
    BY DEF Asked, Read, Idle
  <1>3. call.len \in Nat /\ call.len > 0
    BY <1>2 DEF Asked, FlagHolds, Calls
  <1>4. k.rx \in 0 .. BufferSize /\ BufferSize \in Nat /\ 0 \in 0 .. BufferSize
    BY <1>1, SocketsAssumption DEF Socket
  <1>5. CASE call.len = 1
    BY <1>1, <1>2, <1>5 DEF Read, Answer, Goes, SaidSo
  <1>6. CASE call.len # 1 /\ can_recv(k)
    <2> DEFINE w == [k EXCEPT !.rx = Received(k)]
               e == [k EXCEPT !.rx = 0]
    <2>1. Received(k) \in 0 .. BufferSize /\ Least(k.rx, call.len) > 0
      BY <1>3, <1>4, <1>6 DEF Received, Least, can_recv
    <2>2. w \in Socket /\ e \in Socket
      BY <1>1, <1>4, <2>1 DEF Socket
    <2>3. /\ call' = Idle
          /\ \/ sock' = w /\ answer' = Ok(Least(k.rx, call.len))
             \/ sock' = e /\ answer' = Err
      BY <1>6 DEF Read, Answer
    <2> HIDE DEF w, e
    <2>4. answer'.ok /\ answer'.n = 0 => FALSE
      BY <2>1, <2>3 DEF Ok, Err
    <2> QED
      BY <2>2, <2>3, <2>4, <1>2 DEF Goes, SaidSo
  <1>7. CASE call.len # 1 /\ ~can_recv(k) /\ k.proto = "tcp" /\ ~may_recv(k)
    BY <1>1, <1>2, <1>7 DEF Read, Answer, Goes, SaidSo
  <1>8. CASE call.len # 1 /\ ~can_recv(k) /\ ~(k.proto = "tcp" /\ ~may_recv(k))
    BY <1>1, <1>2, <1>8 DEF Read, Again, Goes
  <1> QED
    BY <1>5, <1>6, <1>7, <1>8

LEMMA WriteGoes ==
  ASSUME NEW k, Asked(k), Write(k)
  PROVE  Goes /\ (call' = Idle => SaidSo)
  <1>1. k \in Socket /\ (call.op # "connect" => FlagHolds(call, k))
    BY AskedStays
  <1>2. call \in Calls /\ call.op = "write" /\ call # Idle
    BY DEF Asked, Write, Idle
  <1>3. call.len \in Nat /\ call.len > 0
    BY <1>2 DEF Asked, FlagHolds, Calls
  <1>4. k.tx \in 0 .. BufferSize /\ BufferSize \in Nat
    BY <1>1, SocketsAssumption DEF Socket
  <1>5. IF call.done THEN call.queued > 0 ELSE call.queued = 0
    BY <1>2 DEF Asked, FlagHolds
  <1>6. ASSUME NEW n \in Nat, n > 0, k.tx + n <= BufferSize, Queue(k, n)
        PROVE  Goes /\ call' # Idle
    <2> DEFINE w == [k EXCEPT !.tx = @ + n]
               c == [call EXCEPT !.done = TRUE, !.queued = n]
    <2>1. sock' = w /\ call' = c
      BY <1>6 DEF Queue, Again
    <2>2. w \in Socket
      BY <1>1, <1>4, <1>6 DEF Socket
    <2>3. c \in Calls /\ c.op = "write" /\ c.done /\ c.queued = n /\ c.len = call.len
      BY <1>2, <1>6 DEF Calls
    <2> HIDE DEF w, c
    <2>4. FlagHolds(c, w)
      BY <2>3, <1>3, <1>6 DEF FlagHolds
    <2>5. c # Idle
      BY <2>3 DEF Idle
    <2> QED
      BY <2>1, <2>2, <2>3, <2>4, <2>5 DEF Goes
  <1>7. CASE call.done
    <2>1. call' = Idle /\ sock' = k /\ answer' = Ok(call.len)
      BY <1>7 DEF Write, Answer
    <2>2. answer'.ok
      BY <2>1 DEF Ok
    <2> QED
      BY <2>1, <2>2, <1>1, <1>2, <1>5, <1>7 DEF Goes, SaidSo
  <1>8. CASE ~call.done /\ ~can_send(k)
    BY <1>1, <1>2, <1>8 DEF Write, Again, Goes
  <1>9. CASE ~call.done /\ can_send(k) /\ k.proto = "tcp"
    <2>1. Queue(k, Least(call.len, BufferSize - k.tx))
      BY <1>9 DEF Write
    <2>2. k.tx < BufferSize
      BY <1>9 DEF can_send
    <2>3. LET n == Least(call.len, BufferSize - k.tx)
          IN  n \in Nat /\ n > 0 /\ k.tx + n <= BufferSize
      BY <1>3, <1>4, <2>2 DEF Least
    <2> QED
      BY <2>1, <2>3, <1>6
  <1>10. CASE ~call.done /\ can_send(k) /\ k.proto # "tcp"
    <2>1. CASE k.remote # NoPeer /\ call.len <= BufferSize - k.tx
      <3>1. Queue(k, call.len) /\ k.tx + call.len <= BufferSize
        BY <1>3, <1>4, <1>10, <2>1 DEF Write
      <3> QED
        BY <3>1, <1>3, <1>6
    <2>2. CASE ~(k.remote # NoPeer /\ call.len <= BufferSize - k.tx)
      <3>1. call' = Idle /\ sock' = k /\ answer' = Err
        BY <1>10, <2>2 DEF Write, Answer
      <3>2. call.queued = 0
        BY <1>5, <1>10
      <3>3. ~answer'.ok
        BY <3>1 DEF Err
      <3> QED
        BY <3>1, <3>2, <3>3, <1>1, <1>2 DEF Goes, SaidSo
    <2> QED
      BY <2>1, <2>2
  <1> QED
    BY <1>7, <1>8, <1>9, <1>10

LEMMA CloseGoes ==
  ASSUME NEW k, Asked(k), Close(k)
  PROVE  Goes /\ (call' = Idle => SaidSo)
  <1>1. k \in Socket /\ (call.op # "connect" => FlagHolds(call, k))
    BY AskedStays
  <1>2. call \in Calls /\ call.op = "close"
    BY DEF Asked, Close
  <1>3. CASE call.done
    <2>1. call' = Idle /\ sock' = k
      BY <1>3 DEF Close, Answer
    <2>2. k.state \in {"Closed", "FinWait"}
      BY <1>1, <1>2, <1>3 DEF FlagHolds
    <2> QED
      BY <2>1, <2>2, <1>1, <1>2 DEF Goes, SaidSo
  <1>4. CASE ~call.done
    <2> DEFINE w == [k EXCEPT !.state = ClosedFrom(@)]
               f == [w EXCEPT !.peer = NoPeer]
               c == [call EXCEPT !.done = TRUE]
    <2>1. call' = c /\ (sock' = w \/ sock' = f)
      BY <1>4 DEF Close, Again, Flagged, Forgotten
    <2>2. ClosedFrom(k.state) \in {"Closed", "FinWait"}
      BY DEF ClosedFrom
    <2>3. w \in Socket /\ w.state \in {"Closed", "FinWait"}
      BY <1>1, <2>2 DEF Socket, States
    <2>4. f \in Socket /\ f.state \in {"Closed", "FinWait"}
      <3> HIDE DEF w
      <3> QED
        BY <2>3 DEF Socket, Peers
    <2>5. c \in Calls /\ c.op = "close"
      BY <1>2 DEF Calls
    <2> HIDE DEF w, f, c
    <2>6. FlagHolds(c, w) /\ FlagHolds(c, f) /\ c # Idle
      BY <2>3, <2>4, <2>5 DEF FlagHolds, Idle
    <2> QED
      BY <2>1, <2>3, <2>4, <2>5, <2>6 DEF Goes
  <1> QED
    BY <1>3, <1>4

LEMMA TurnGoes ==
  ASSUME SocketInv, Turn
  PROVE  Goes /\ (call' = Idle => SaidSo)
  <1>1. call \in Calls /\ FlagHolds(call, sock) /\ sock \in Socket
    BY DEF SocketInv, Turn
  <1>2. CASE Expired /\ Answer(sock, Err)
    <2>1. call' = Idle /\ sock' = sock /\ ~answer'.ok
      BY <1>2 DEF Answer, Err
    <2>2. call.op # "close" /\ call.late
      BY <1>2 DEF Expired
    <2> QED
      BY <2>1, <2>2, <1>1 DEF Goes, SaidSo
  <1>3. ASSUME NEW k \in Polled(sock),
               Connect(k) \/ Listen(k) \/ Accept(k) \/ Read(k) \/ Write(k) \/ Close(k)
        PROVE  Goes /\ (call' = Idle => SaidSo)
    <2>1. Asked(k)
      BY <1>1 DEF Asked
    <2> QED
      BY <1>3, <2>1, ConnectGoes, ListenGoes, AcceptGoes, ReadGoes, WriteGoes, CloseGoes
  <1> QED
    BY <1>2, <1>3 DEF Turn

LEMMA SocketKeeps == SocketInv /\ [SocketsNext]_socketVars => SocketInv'
  <1> SUFFICES ASSUME SocketInv, [SocketsNext]_socketVars PROVE SocketInv'
    OBVIOUS
  <1>1. CASE Begin
    BY <1>1, BeginKeeps
  <1>2. CASE TimeOut
    BY <1>2, TimeOutKeeps
  <1>3. CASE Turn
    BY <1>3, TurnGoes DEF Goes, SocketInv
  <1>4. CASE NoNet
    <2>1. call \in Calls /\ FlagHolds(call, sock) /\ sock \in Socket
      BY <1>4 DEF SocketInv, NoNet
    <2> DEFINE w == [sock EXCEPT !.remote = call.addr]
    <2>2. call' = Idle /\ (sock' = sock \/ sock' = w)
      BY <1>4 DEF NoNet, Answer
    <2>3. w \in Socket
      BY <2>1 DEF Socket, Calls
    <2> HIDE DEF w
    <2> QED
      BY <2>1, <2>2, <2>3 DEF SocketInv
  <1>5. CASE OthersPoll
    <2>1. call' = Idle /\ sock' \in Polled(sock) /\ sock \in Socket
      BY <1>5 DEF OthersPoll, SocketInv
    <2> QED
      BY <2>1, PollKeeps DEF SocketInv
  <1>6. CASE UNCHANGED socketVars
    BY <1>6 DEF SocketInv, socketVars
  <1> QED
    BY <1>1, <1>2, <1>3, <1>4, <1>5, <1>6 DEF SocketsNext

(* What the answers of the socket calls say is so, for buffers of every size *)
(* and programs' buffers of every length, whatever the other end does and    *)
(* however late it does it (tcp.rs 57-240, udp.rs 62-192).                   *)
THEOREM AnswersAlwaysTrue == SocketsSafely => AnswersTrue
  <1> DEFINE Answered == call # Idle /\ call' = Idle /\ net
  <1>1. SocketInv /\ [SocketsNext]_socketVars => [Answered => SaidSo]_socketVars
    <2> SUFFICES ASSUME SocketInv, SocketsNext, Answered PROVE SaidSo
      OBVIOUS
    <2>1. Turn
      <3>1. ~Begin
        BY DEF Begin, Call
      <3>2. ~TimeOut
        <4> SUFFICES ASSUME TimeOut PROVE FALSE
          OBVIOUS
        <4>1. call' \in Calls
          BY TimeOutKeeps DEF SocketInv, TimeOut, Calls
        <4> QED
          BY <4>1 DEF Calls, Idle
      <3> QED
        BY <3>1, <3>2 DEF SocketsNext, NoNet, OthersPoll
    <2> QED
      BY <2>1, TurnGoes
  <1>2. SocketsSafely => [][Answered => SaidSo]_socketVars
    BY <1>1, SocketStarts, SocketKeeps, PTL DEF SocketsSafely
  <1> QED
    BY <1>2 DEF AnswersTrue, SaidSo

-----------------------------------------------------------------------------
(***************************************************************************)
(* Places in a ring of d: x % d, for x that counts what went round.        *)
(***************************************************************************)
LEMMA RingPlace ==
  ASSUME NEW x \in Nat, NEW d \in Nat \ {0}
  PROVE  \E q \in Nat, r \in 0 .. d - 1 : x = d * q + r /\ x % d = r
  <1>1. x = d * (x \div d) + (x % d) /\ x % d \in 0 .. d - 1 /\ x \div d \in Int
    BY Z3
  <1>2. PICK q \in Int, r \in 0 .. d - 1 : q = x \div d /\ r = x % d /\ x = d * q + r
    BY <1>1
  <1>3. q >= 0
    <2> SUFFICES ASSUME q <= -1 PROVE FALSE
      OBVIOUS
    <2>1. d * q <= d * (-1)
      BY Z3
    <2> QED
      BY <2>1, <1>2
  <1>4. q \in Nat
    BY <1>3
  <1> QED
    BY <1>2, <1>4, Zenon

LEMMA NoMultiple ==
  ASSUME NEW d \in Nat \ {0}, NEW m \in Int, d * m < d, -d < d * m
  PROVE  m = 0
  <1>1. ASSUME m >= 1 PROVE FALSE
    <2>1. d * m >= d * 1
      BY <1>1, Z3
    <2> QED
      BY <2>1
  <1>2. ASSUME m <= -1 PROVE FALSE
    <2>1. d * m <= d * (-1)
      BY <1>2, Z3
    <2> QED
      BY <2>1
  <1> QED
    BY <1>1, <1>2

LEMMA PlaceIs ==
  ASSUME NEW d \in Nat \ {0}, NEW q \in Nat, NEW r \in 0 .. d - 1
  PROVE  (d * q + r) % d = r
  <1>1. d * q \in Nat
    BY Z3
  <1>2. d * q + r \in Nat
    BY <1>1
  <1>3. PICK p \in Nat, s \in 0 .. d - 1 : d * q + r = d * p + s /\ (d * q + r) % d = s
    BY <1>2, RingPlace
  <1>4. d * (q - p) = d * q - d * p
    BY Z3
  <1>5. d * p \in Nat
    BY Z3
  <1>6. d * (q - p) = s - r
    BY <1>1, <1>3, <1>4, <1>5
  <1>7. q - p = 0
    BY <1>6, NoMultiple
  <1>8. d * p = d * q
    BY <1>7
  <1> QED
    BY <1>1, <1>3, <1>5, <1>8

(* Two counts less than a round apart have different places. *)
LEMMA PlacesApart ==
  ASSUME NEW x \in Nat, NEW y \in Nat, NEW d \in Nat \ {0}, x < y, y < x + d
  PROVE  x % d # y % d
  <1> SUFFICES ASSUME x % d = y % d PROVE FALSE
    OBVIOUS
  <1>1. PICK q \in Nat, r \in 0 .. d - 1 : x = d * q + r /\ x % d = r
    BY RingPlace
  <1>2. PICK p \in Nat, s \in 0 .. d - 1 : y = d * p + s /\ y % d = s
    BY RingPlace
  <1>3. d * (p - q) = d * p - d * q /\ d * p \in Nat /\ d * q \in Nat
    BY Z3
  <1>4. d * (p - q) = y - x
    BY <1>1, <1>2, <1>3
  <1>5. p - q = 0
    BY <1>4, NoMultiple
  <1>6. d * p = d * q
    BY <1>5
  <1> QED
    BY <1>1, <1>2, <1>3, <1>6

(* Going on from a place is going on from the count. *)
LEMMA PlaceAfter ==
  ASSUME NEW x \in Nat, NEW n \in Nat, NEW d \in Nat \ {0}
  PROVE  x % d \in 0 .. d - 1 /\ ((x % d) + n) % d = (x + n) % d
  <1>1. PICK q \in Nat, r \in 0 .. d - 1 : x = d * q + r /\ x % d = r
    BY RingPlace
  <1>2. r + n \in Nat
    OBVIOUS
  <1>3. PICK p \in Nat, s \in 0 .. d - 1 : r + n = d * p + s /\ (r + n) % d = s
    BY <1>2, RingPlace
  <1>4. d * (q + p) = d * q + d * p /\ d * p \in Nat /\ d * q \in Nat
    BY Z3
  <1>5. x + n = d * (q + p) + s
    BY <1>1, <1>3, <1>4
  <1>6. (x + n) % d = s
    <2>1. q + p \in Nat
      OBVIOUS
    <2> QED
      BY <1>5, <2>1, PlaceIs
  <1> QED
    BY <1>1, <1>3, <1>6

LEMMA RoundAgain ==
  ASSUME NEW x \in Nat, NEW d \in Nat \ {0}
  PROVE  (x + d) % d = x % d
  <1>1. PICK q \in Nat, r \in 0 .. d - 1 : x = d * q + r /\ x % d = r
    BY RingPlace
  <1>2. d * (q + 1) = d * q + d
    BY Z3
  <1>3. x + d = d * (q + 1) + r
    BY <1>1, <1>2
  <1> QED
    BY <1>1, <1>3, PlaceIs

LEMMA SmallPlace ==
  ASSUME NEW d \in Nat \ {0}, NEW x \in 0 .. d - 1
  PROVE  x % d = x
  <1>1. x = d * 0 + x
    OBVIOUS
  <1> QED
    BY <1>1, PlaceIs

(* The distance between two counts, told from their places.                  *)
LEMMA Distance ==
  ASSUME NEW x \in Nat, NEW y \in Nat, NEW d \in Nat \ {0}, x <= y, y < x + d
  PROVE  ((y % d) - (x % d) + d) % d = y - x
  <1>1. PICK q \in Nat, r \in 0 .. d - 1 : x = d * q + r /\ x % d = r
    BY RingPlace
  <1>2. PICK p \in Nat, s \in 0 .. d - 1 : y = d * p + s /\ y % d = s
    BY RingPlace
  <1>3. s - r + d \in Nat
    OBVIOUS
  <1>4. PICK u \in Nat, t \in 0 .. d - 1 : s - r + d = d * u + t /\ (s - r + d) % d = t
    BY <1>3, RingPlace
  <1>5. d * (p - q + u - 1) = d * p - d * q + d * u - d
    BY Z3
  <1>6. d * p \in Nat /\ d * q \in Nat /\ d * u \in Nat
    BY Z3
  <1>7. d * (p - q + u - 1) = (y - x) - t
    BY <1>1, <1>2, <1>4, <1>5, <1>6
  <1>8. p - q + u - 1 = 0
    <2>1. d * (p - q + u - 1) < d /\ -d < d * (p - q + u - 1)
      BY <1>7
    <2>2. p - q + u - 1 \in Int
      OBVIOUS
    <2> QED
      BY <2>1, <2>2, NoMultiple
  <1>9. d * (p - q + u - 1) = 0
    BY <1>8
  <1> QED
    BY <1>1, <1>2, <1>4, <1>7, <1>9


(***************************************************************************)
(* The drivers of the network cards.  The g packets that were handed over  *)
(* and the w that were sent tell where the driver and the card are in the  *)
(* ring, and so do the a that arrived and the r that were handed up.       *)
(***************************************************************************)
TxPlaces == 0 .. TxCount - 1
RxPlaces == 0 .. RxCount - 1

PcnetDsc ==
  [txId : TxPlaces, txBuf : [TxPlaces -> Nat], txNext : TxPlaces, txCards : [TxPlaces -> BOOLEAN],
   rxId : RxPlaces, rxNext : RxPlaces, rxBuf : [RxPlaces -> Nat], rxCards : [RxPlaces -> BOOLEAN]]

E1000Dsc ==
  [txId : TxPlaces, txBuf : [TxPlaces -> Nat], txNext : TxPlaces, tail : TxPlaces,
   rxId : RxPlaces, rxNext : RxPlaces, rxTail : RxPlaces, rxBuf : [RxPlaces -> Nat],
   done : [RxPlaces -> BOOLEAN], lsc : BOOLEAN, up : BOOLEAN, faults : Nat]

Rtl8139Dsc ==
  [txId : TxPlaces, txBuf : [TxPlaces -> Nat], txNext : TxPlaces, sending : BOOLEAN,
   capr : 0 .. Wrap, cba : 0 .. RingLen - 1,
   ring : [0 .. RingLen + LastSize - 1 -> Nat \X Nat \X BOOLEAN],
   copy : (0 .. RingLen - 1) \X Nat, faults : Nat]

(* Each packet that waits is in the buffer of its turn. *)
Waits(d, g, w) == \A j \in w .. g - 1 : d.txBuf[j % TxCount] = j + 1

(* f is 1 while a buffer is filled and not yet the card's. *)
PcnetSends(d, g, w, f) ==
  /\ w + f <= g /\ d.txId = (g - f) % TxCount /\ d.txNext = w % TxCount
  /\ Waits(d, g, w)
  /\ \A j \in w .. w + TxCount - 1 : d.txCards[j % TxCount] <=> j < g - f

E1000Sends(d, g, w, f) ==
  /\ w + f <= g /\ d.txId = (g + TxCount - 1) % TxCount /\ d.txNext = w % TxCount
  /\ d.tail = (g - f) % TxCount
  /\ Waits(d, g, w)

Rtl8139Sends(d, g, w, t) ==
  /\ d.txId = (g + TxCount - 1) % TxCount
  /\ Waits(d, g, w)
  /\ g = IF t = "filled" \/ d.sending THEN w + 1 ELSE w
  /\ d.sending => t = "started" /\ d.txNext = d.txId

LEMMA TxPositive == TxCount \in Nat \ {0} /\ RxCount \in Nat \ {0} /\ RxCount > 1
  BY NicAssumption

(* The next buffer of a driver that raises tx_id first. *)
LEMMA RaisedId ==
  ASSUME NEW g \in Nat
  PROVE  /\ (((g + TxCount - 1) % TxCount) + 1) % TxCount = g % TxCount
         /\ g > 0 => (g + TxCount - 1) % TxCount = (g - 1) % TxCount
  <1>1. TxCount \in Nat \ {0} /\ g + TxCount - 1 \in Nat
    BY TxPositive
  <1>2. (((g + TxCount - 1) % TxCount) + 1) % TxCount = (g + TxCount - 1 + 1) % TxCount
    BY <1>1, PlaceAfter
  <1>3. g + TxCount - 1 + 1 = g + TxCount
    BY <1>1
  <1>4. (g + TxCount) % TxCount = g % TxCount
    BY <1>1, RoundAgain
  <1>5. ASSUME g > 0 PROVE (g + TxCount - 1) % TxCount = (g - 1) % TxCount
    <2>1. g - 1 \in Nat /\ (g - 1) + TxCount = g + TxCount - 1
      BY <1>1, <1>5
    <2> QED
      BY <1>1, <2>1, RoundAgain
  <1> QED
    BY <1>2, <1>3, <1>4, <1>5

LEMMA PlaceInTx == ASSUME NEW j \in Nat PROVE j % TxCount \in TxPlaces
  BY TxPositive, PlaceAfter DEF TxPlaces

LEMMA PlaceInRx == ASSUME NEW j \in Nat PROVE j % RxCount \in RxPlaces
  BY TxPositive, PlaceAfter DEF RxPlaces

(* A packet more waits, in the buffer of its turn.                           *)
LEMMA OneMoreWaits ==
  ASSUME NEW d, NEW e, NEW g \in Nat, NEW w \in Nat, Waits(d, g, w), w <= g,
         g + 1 - w < TxCount, d.txBuf \in [TxPlaces -> Nat],
         e.txBuf = [d.txBuf EXCEPT ![g % TxCount] = g + 1]
  PROVE  Waits(e, g + 1, w)
  <1>1. TxCount \in Nat \ {0}
    BY TxPositive
  <1> SUFFICES ASSUME NEW j \in w .. (g + 1) - 1
               PROVE  e.txBuf[j % TxCount] = j + 1
    BY DEF Waits
  <1>2. j \in Nat /\ j % TxCount \in TxPlaces /\ g % TxCount \in TxPlaces
    BY PlaceInTx
  <1>3. CASE j = g
    BY <1>2, <1>3
  <1>4. CASE j < g
    <2>1. g < j + TxCount
      BY <1>1
    <2>2. j % TxCount # g % TxCount
      BY <1>1, <1>2, <1>4, <2>1, PlacesApart
    <2>3. d.txBuf[j % TxCount] = j + 1
      BY <1>2, <1>4 DEF Waits
    <2> QED
      BY <1>2, <2>2, <2>3
  <1> QED
    BY <1>2, <1>3, <1>4

LEMMA FirstWaits ==
  ASSUME NEW d, NEW g \in Nat, NEW w \in Nat, Waits(d, g, w), w < g
  PROVE  d.txBuf[w % TxCount] = w + 1 /\ Waits(d, g, w + 1)
  BY DEF Waits

LEMMA NextPlace ==
  ASSUME NEW w \in Nat
  PROVE  ((w % TxCount) + 1) % TxCount = (w + 1) % TxCount
  BY TxPositive, PlaceAfter

-----------------------------------------------------------------------------
(* The PCNET. *)
LEMMA PcnetFills ==
  ASSUME NEW d \in PcnetDsc, NEW g \in Nat, NEW w \in Nat, PcnetSends(d, g, w, 0),
         g + 1 - w < TxCount, NEW e,
         e = [d EXCEPT !.txId = d.txId, !.txBuf[d.txId] = g + 1]
  PROVE  PcnetSends(e, g + 1, w, 1)
  <1>1. d.txId = g % TxCount /\ w <= g
    BY DEF PcnetSends
  <1>2. /\ e.txId = d.txId /\ e.txNext = d.txNext /\ e.txCards = d.txCards
        /\ e.txBuf = [d.txBuf EXCEPT ![d.txId] = g + 1]
    BY DEF PcnetDsc
  <1>3. Waits(e, g + 1, w)
    BY <1>1, <1>2, OneMoreWaits DEF PcnetSends, PcnetDsc
  <1>4. (g + 1) - 1 = g /\ g - 0 = g /\ w + 1 <= g + 1
    BY <1>1
  <1> QED
    BY <1>1, <1>2, <1>3, <1>4 DEF PcnetSends

LEMMA PcnetTransmits ==
  ASSUME NEW d \in PcnetDsc, NEW g \in Nat, NEW w \in Nat, PcnetSends(d, g, w, 1),
         g - w < TxCount, NEW e,
         e = [d EXCEPT !.txCards[d.txId] = TRUE, !.txId = (@ + 1) % TxCount]
  PROVE  PcnetSends(e, g, w, 0)
  <1>1. TxCount \in Nat \ {0}
    BY TxPositive
  <1>2. d.txId = (g - 1) % TxCount /\ w + 1 <= g /\ g - 1 \in Nat
    BY DEF PcnetSends
  <1>3. /\ e.txId = (d.txId + 1) % TxCount /\ e.txNext = d.txNext /\ e.txBuf = d.txBuf
        /\ e.txCards = [d.txCards EXCEPT ![d.txId] = TRUE]
    BY DEF PcnetDsc
  <1>4. e.txId = (g - 0) % TxCount
    <2>1. (g - 1) + 1 = g - 0
      OBVIOUS
    <2> QED
      BY <1>2, <1>3, <2>1, NextPlace
  <1>5. ASSUME NEW j \in w .. w + TxCount - 1
        PROVE  e.txCards[j % TxCount] <=> j < g - 0
    <2>1. j \in Nat /\ j % TxCount \in TxPlaces
      BY <1>1, PlaceInTx
    <2>2. d.txCards \in [TxPlaces -> BOOLEAN]
      BY DEF PcnetDsc
    <2>3. CASE j = g - 1
      <3>1. e.txCards[j % TxCount]
        BY <1>2, <1>3, <2>1, <2>2, <2>3
      <3> QED
        BY <3>1, <2>3
    <2>4. CASE j # g - 1
      <3>1. j % TxCount # (g - 1) % TxCount
        <4>1. CASE j < g - 1
          <5>1. g - 1 < j + TxCount
            BY <1>1
          <5> QED
            BY <1>1, <1>2, <2>1, <4>1, <5>1, PlacesApart
        <4>2. CASE g - 1 < j
          <5>1. j < (g - 1) + TxCount
            BY <1>1, <1>2
          <5> QED
            BY <1>1, <1>2, <2>1, <4>2, <5>1, PlacesApart
        <4> QED
          BY <2>1, <2>4, <4>1, <4>2, <1>2
      <3>2. e.txCards[j % TxCount] = d.txCards[j % TxCount]
        BY <1>2, <1>3, <2>1, <2>2, <3>1
      <3>3. d.txCards[j % TxCount] <=> j < g - 1
        BY DEF PcnetSends
      <3>4. j < g - 1 <=> j < g - 0
        BY <2>1, <2>4
      <3> QED
        BY <3>2, <3>3, <3>4, Zenon
    <2> QED
      BY <2>3, <2>4
  <1>6. w + 0 <= g /\ Waits(e, g, w)
    BY <1>2, <1>3 DEF PcnetSends, Waits
  <1> QED
    BY <1>3, <1>4, <1>5, <1>6 DEF PcnetSends

(* The card sends a packet and gives the buffer back.                        *)
PcnetGives(d, e) ==
  /\ d.txCards[d.txNext]
  /\ e = [d EXCEPT !.txCards[d.txNext] = FALSE, !.txNext = (@ + 1) % TxCount]

LEMMA PcnetSendsOne ==
  ASSUME NEW d \in PcnetDsc, NEW g \in Nat, NEW w \in Nat, NEW f \in {0, 1},
         PcnetSends(d, g, w, f), NEW e, PcnetGives(d, e), g - w < TxCount
  PROVE  d.txBuf[d.txNext] = w + 1 /\ w < g /\ PcnetSends(e, g, w + 1, f)
  <1>1. TxCount \in Nat \ {0} /\ g - f \in Int
    BY TxPositive
  <1>2. d.txNext = w % TxCount /\ w + f <= g
    BY DEF PcnetSends
  <1>3. /\ e.txId = d.txId /\ e.txNext = (d.txNext + 1) % TxCount /\ e.txBuf = d.txBuf
        /\ e.txCards = [d.txCards EXCEPT ![d.txNext] = FALSE]
    BY DEF PcnetDsc, PcnetGives
  <1>4. w < g - f
    <2>1. w \in w .. w + TxCount - 1
      BY <1>1
    <2>2. d.txCards[w % TxCount]
      BY <1>2 DEF PcnetGives
    <2> QED
      BY <2>1, <2>2 DEF PcnetSends
  <1>5. w < g /\ (w + 1) + f <= g
    BY <1>1, <1>4
  <1>6. d.txBuf[w % TxCount] = w + 1 /\ Waits(d, g, w + 1)
    BY <1>5, FirstWaits DEF PcnetSends
  <1>7. e.txNext = (w + 1) % TxCount
    BY <1>2, <1>3, NextPlace
  <1>8. ASSUME NEW j \in w + 1 .. (w + 1) + TxCount - 1
        PROVE  e.txCards[j % TxCount] <=> j < g - f
    <2>1. j \in Nat /\ j % TxCount \in TxPlaces
      BY <1>1, PlaceInTx
    <2>2. d.txCards \in [TxPlaces -> BOOLEAN]
      BY DEF PcnetDsc
    <2>3. CASE j = w + TxCount
      <3>1. j % TxCount = w % TxCount
        BY <1>1, <2>3, RoundAgain
      <3>2. ~e.txCards[j % TxCount]
        BY <1>2, <1>3, <2>1, <2>2, <3>1
      <3>3. ~(j < g - f)
        BY <2>3, <1>1
      <3> QED
        BY <3>2, <3>3
    <2>4. CASE j # w + TxCount
      <3>1. j \in w .. w + TxCount - 1 /\ w < j /\ j < w + TxCount
        BY <1>1, <2>4
      <3>2. j % TxCount # w % TxCount
        BY <1>1, <2>1, <3>1, PlacesApart
      <3>3. e.txCards[j % TxCount] = d.txCards[j % TxCount]
        BY <1>2, <1>3, <2>1, <2>2, <3>2
      <3>4. d.txCards[j % TxCount] <=> j < g - f
        BY <3>1 DEF PcnetSends
      <3> QED
        BY <3>3, <3>4, Zenon
    <2> QED
      BY <2>3, <2>4
  <1>9. Waits(e, g, w + 1)
    BY <1>3, <1>6 DEF Waits
  <1> QED
    BY <1>2, <1>3, <1>5, <1>6, <1>7, <1>8, <1>9 DEF PcnetSends

-----------------------------------------------------------------------------
(* The E1000. *)
LEMMA E1000Fills ==
  ASSUME NEW d \in E1000Dsc, NEW g \in Nat, NEW w \in Nat, E1000Sends(d, g, w, 0),
         g + 1 - w < TxCount, NEW e, NEW n, n = (d.txId + 1) % TxCount,
         e = [d EXCEPT !.txId = n, !.txBuf[n] = g + 1]
  PROVE  E1000Sends(e, g + 1, w, 1)
  <1>1. n = g % TxCount /\ w <= g
    BY RaisedId DEF E1000Sends
  <1>2. /\ e.txId = n /\ e.txNext = d.txNext /\ e.tail = d.tail
        /\ e.txBuf = [d.txBuf EXCEPT ![n] = g + 1]
    BY DEF E1000Dsc
  <1>3. Waits(e, g + 1, w)
    BY <1>1, <1>2, OneMoreWaits DEF E1000Sends, E1000Dsc
  <1>4. (g + 1) - 1 = g /\ g - 0 = g /\ w + 1 <= g + 1
    BY <1>1
  <1>5. e.txId = ((g + 1) + TxCount - 1) % TxCount
    <2>1. (g + 1) + TxCount - 1 = g + TxCount
      BY TxPositive
    <2> QED
      BY <1>1, <1>2, <2>1, TxPositive, RoundAgain
  <1> QED
    BY <1>1, <1>2, <1>3, <1>4, <1>5 DEF E1000Sends

LEMMA E1000Transmits ==
  ASSUME NEW d \in E1000Dsc, NEW g \in Nat, NEW w \in Nat, E1000Sends(d, g, w, 1), NEW e,
         e = [d EXCEPT !.tail = TxTail(d.txId)]
  PROVE  E1000Sends(e, g, w, 0)
  <1>1. /\ e.txId = d.txId /\ e.txNext = d.txNext /\ e.tail = (d.txId + 1) % TxCount
        /\ e.txBuf = d.txBuf
    BY DEF E1000Dsc, TxTail
  <1>2. e.tail = g % TxCount
    BY <1>1, RaisedId DEF E1000Sends
  <1>3. g - 0 = g /\ w + 0 <= g
    BY DEF E1000Sends
  <1>4. Waits(e, g, w)
    BY <1>1 DEF Waits, E1000Sends
  <1> QED
    BY <1>1, <1>2, <1>3, <1>4 DEF E1000Sends

LEMMA E1000SendsOne ==
  ASSUME NEW d \in E1000Dsc, NEW g \in Nat, NEW w \in Nat, NEW f \in {0, 1},
         E1000Sends(d, g, w, f), d.txNext # d.tail, NEW e,
         e = [d EXCEPT !.txNext = (@ + 1) % TxCount]
  PROVE  d.txBuf[d.txNext] = w + 1 /\ w < g /\ E1000Sends(e, g, w + 1, f)
  <1>1. d.txNext = w % TxCount /\ d.tail = (g - f) % TxCount /\ w + f <= g
    BY DEF E1000Sends
  <1>2. w # g - f
    BY <1>1
  <1>3. w < g /\ (w + 1) + f <= g
    BY <1>1, <1>2
  <1>4. d.txBuf[w % TxCount] = w + 1 /\ Waits(d, g, w + 1)
    BY <1>3, FirstWaits DEF E1000Sends
  <1>5. /\ e.txId = d.txId /\ e.txNext = (d.txNext + 1) % TxCount /\ e.tail = d.tail
        /\ e.txBuf = d.txBuf
    BY DEF E1000Dsc
  <1>6. e.txNext = (w + 1) % TxCount
    BY <1>1, <1>5, NextPlace
  <1>7. Waits(e, g, w + 1)
    BY <1>4, <1>5 DEF Waits
  <1> QED
    BY <1>1, <1>3, <1>4, <1>5, <1>6, <1>7 DEF E1000Sends

-----------------------------------------------------------------------------
(* The RTL8139, which has one packet at a time. *)
LEMMA Rtl8139Fills ==
  ASSUME NEW d \in Rtl8139Dsc, NEW g \in Nat, NEW w \in Nat, Rtl8139Sends(d, g, w, "idle"),
         g + 1 - w < TxCount, NEW e, NEW n, n = (d.txId + 1) % TxCount,
         e = [d EXCEPT !.txId = n, !.txBuf[n] = g + 1]
  PROVE  Rtl8139Sends(e, g + 1, w, "filled")
  <1>1. n = g % TxCount /\ ~d.sending /\ w = g
    BY RaisedId DEF Rtl8139Sends
  <1>2. /\ e.txId = n /\ e.txNext = d.txNext /\ e.sending = d.sending
        /\ e.txBuf = [d.txBuf EXCEPT ![n] = g + 1]
    BY DEF Rtl8139Dsc
  <1>3. Waits(e, g + 1, w)
    <2>1. Waits(d, g, w) /\ w <= g /\ d.txBuf \in [TxPlaces -> Nat]
      BY <1>1 DEF Rtl8139Sends, Rtl8139Dsc
    <2>2. e.txBuf = [d.txBuf EXCEPT ![g % TxCount] = g + 1]
      BY <1>1, <1>2
    <2> QED
      BY <2>1, <2>2, OneMoreWaits
  <1>4. e.txId = ((g + 1) + TxCount - 1) % TxCount
    <2>1. (g + 1) + TxCount - 1 = g + TxCount
      BY TxPositive
    <2> QED
      BY <1>1, <1>2, <2>1, TxPositive, RoundAgain
  <1>5. ~e.sending
    BY <1>1, <1>2, Zenon
  <1> QED
    BY <1>1, <1>3, <1>4, <1>5 DEF Rtl8139Sends

LEMMA Rtl8139Transmits ==
  ASSUME NEW d \in Rtl8139Dsc, NEW g \in Nat, NEW w \in Nat, Rtl8139Sends(d, g, w, "filled"),
         NEW e, e = [d EXCEPT !.sending = TRUE, !.txNext = d.txId]
  PROVE  Rtl8139Sends(e, g, w, "started")
  <1>1. e.txId = d.txId /\ e.txNext = d.txId /\ e.sending /\ e.txBuf = d.txBuf
    BY DEF Rtl8139Dsc
  <1>2. Waits(e, g, w)
    BY <1>1 DEF Waits, Rtl8139Sends
  <1>3. g = w + 1
    BY DEF Rtl8139Sends
  <1> QED
    BY <1>1, <1>2, <1>3 DEF Rtl8139Sends

LEMMA Rtl8139SendsOne ==
  ASSUME NEW d \in Rtl8139Dsc, NEW g \in Nat, NEW w \in Nat, NEW t, Rtl8139Sends(d, g, w, t),
         d.sending, NEW e, e = [d EXCEPT !.sending = FALSE]
  PROVE  d.txBuf[d.txNext] = w + 1 /\ w < g /\ Rtl8139Sends(e, g, w + 1, t)
  <1>1. t = "started" /\ d.txNext = d.txId /\ g = w + 1
    BY DEF Rtl8139Sends
  <1>2. d.txId = w % TxCount
    BY <1>1, RaisedId DEF Rtl8139Sends
  <1>3. d.txBuf[w % TxCount] = w + 1 /\ Waits(d, g, w + 1)
    <2>1. Waits(d, g, w) /\ w < g
      BY <1>1 DEF Rtl8139Sends
    <2> QED
      BY <2>1, FirstWaits
  <1>4. e.txId = d.txId /\ ~e.sending /\ e.txBuf = d.txBuf
    BY DEF Rtl8139Dsc
  <1>5. Waits(e, g, w + 1)
    BY <1>3, <1>4 DEF Waits
  <1> QED
    BY <1>1, <1>2, <1>3, <1>4, <1>5 DEF Rtl8139Sends


-----------------------------------------------------------------------------
(* What has arrived at the PCNET and the E1000 is in the buffer of its turn, *)
(* and a buffer is the driver's while a packet in it waits.                  *)
Holds(d, a, r) == \A j \in r .. a - 1 : d.rxBuf[j % RxCount] = j + 1

PcnetReceives(d, a, r) ==
  /\ r <= a /\ a <= r + RxCount /\ d.rxNext = a % RxCount /\ d.rxId = r % RxCount
  /\ Holds(d, a, r)
  /\ \A j \in r .. r + RxCount - 1 : d.rxCards[j % RxCount] <=> j >= a

E1000Receives(d, a, r) ==
  /\ r <= a /\ a <= r + RxCount - 1 /\ d.rxNext = a % RxCount /\ d.rxId = r % RxCount
  /\ d.rxTail = (r + RxCount - 1) % RxCount
  /\ Holds(d, a, r)
  /\ \A j \in r .. r + RxCount - 1 : d.done[j % RxCount] <=> j < a

LEMMA NextRxPlace ==
  ASSUME NEW w \in Nat
  PROVE  ((w % RxCount) + 1) % RxCount = (w + 1) % RxCount
  BY TxPositive, PlaceAfter

(* Places of two turns of one round. *)
LEMMA RxApart ==
  ASSUME NEW j \in Nat, NEW k \in Nat, j # k, j < k + RxCount, k < j + RxCount
  PROVE  j % RxCount # k % RxCount
  <1>1. RxCount \in Nat \ {0}
    BY TxPositive
  <1>2. CASE j < k
    BY <1>1, <1>2, PlacesApart
  <1>3. CASE k < j
    BY <1>1, <1>3, PlacesApart
  <1> QED
    BY <1>2, <1>3

LEMMA OneMoreHeld ==
  ASSUME NEW d, NEW e, NEW a \in Nat, NEW r \in Nat, Holds(d, a, r), r <= a, a < r + RxCount,
         d.rxBuf \in [RxPlaces -> Nat], e.rxBuf = [d.rxBuf EXCEPT ![a % RxCount] = a + 1]
  PROVE  Holds(e, a + 1, r)
  <1>1. RxCount \in Nat \ {0}
    BY TxPositive
  <1> SUFFICES ASSUME NEW j \in r .. (a + 1) - 1
               PROVE  e.rxBuf[j % RxCount] = j + 1
    BY DEF Holds
  <1>2. j \in Nat /\ j % RxCount \in RxPlaces /\ a % RxCount \in RxPlaces
    BY PlaceInRx
  <1>3. CASE j = a
    BY <1>2, <1>3
  <1>4. CASE j # a
    <2>1. j < a + RxCount /\ a < j + RxCount
      BY <1>1
    <2>2. j % RxCount # a % RxCount
      BY <1>2, <1>4, <2>1, RxApart
    <2>3. d.rxBuf[j % RxCount] = j + 1
      BY <1>2, <1>4 DEF Holds
    <2> QED
      BY <1>2, <2>2, <2>3
  <1> QED
    BY <1>3, <1>4

(* The card takes a packet in, and the driver reads one. *)
PcnetFillsIn(d, e, v) ==
  /\ d.rxCards[d.rxNext]
  /\ e = [d EXCEPT !.rxBuf[d.rxNext] = v, !.rxCards[d.rxNext] = FALSE,
                   !.rxNext = (@ + 1) % RxCount]

LEMMA PcnetTakes ==
  ASSUME NEW d \in PcnetDsc, NEW a \in Nat, NEW r \in Nat, PcnetReceives(d, a, r),
         NEW e, PcnetFillsIn(d, e, a + 1)
  PROVE  PcnetReceives(e, a + 1, r)
  <1> USE DEF PcnetFillsIn
  <1>1. RxCount \in Nat \ {0}
    BY TxPositive
  <1>2. d.rxNext = a % RxCount /\ d.rxId = r % RxCount /\ r <= a /\ a <= r + RxCount
    BY DEF PcnetReceives
  <1>3. a < r + RxCount
    <2> SUFFICES ASSUME a = r + RxCount PROVE FALSE
      BY <1>1, <1>2
    <2>1. a % RxCount = r % RxCount
      BY <1>1, RoundAgain
    <2>2. r \in r .. r + RxCount - 1 /\ ~(r >= a)
      BY <1>1
    <2>3. ~d.rxCards[r % RxCount]
      BY <2>2 DEF PcnetReceives
    <2> QED
      BY <1>2, <2>1, <2>3
  <1>4. /\ e.rxId = d.rxId /\ e.rxNext = (d.rxNext + 1) % RxCount
        /\ e.rxBuf = [d.rxBuf EXCEPT ![d.rxNext] = a + 1]
        /\ e.rxCards = [d.rxCards EXCEPT ![d.rxNext] = FALSE]
    BY DEF PcnetDsc
  <1>5. Holds(e, a + 1, r)
    <2>1. Holds(d, a, r) /\ d.rxBuf \in [RxPlaces -> Nat]
      BY DEF PcnetReceives, PcnetDsc
    <2>2. e.rxBuf = [d.rxBuf EXCEPT ![a % RxCount] = a + 1]
      BY <1>2, <1>4
    <2> QED
      BY <1>2, <1>3, <2>1, <2>2, OneMoreHeld
  <1>6. e.rxNext = (a + 1) % RxCount
    BY <1>2, <1>4, NextRxPlace
  <1>7. ASSUME NEW j \in r .. r + RxCount - 1
        PROVE  e.rxCards[j % RxCount] <=> j >= a + 1
    <2>1. j \in Nat /\ j % RxCount \in RxPlaces
      BY <1>1, PlaceInRx
    <2>2. d.rxCards \in [RxPlaces -> BOOLEAN]
      BY DEF PcnetDsc
    <2>3. CASE j = a
      <3>1. ~e.rxCards[j % RxCount]
        BY <1>2, <1>4, <2>1, <2>2, <2>3
      <3> QED
        BY <3>1, <2>3
    <2>4. CASE j # a
      <3>1. j < a + RxCount /\ a < j + RxCount
        BY <1>1, <1>2, <1>3
      <3>2. j % RxCount # a % RxCount
        BY <2>1, <2>4, <3>1, RxApart
      <3>3. e.rxCards[j % RxCount] = d.rxCards[j % RxCount]
        BY <1>2, <1>4, <2>1, <2>2, <3>2
      <3>4. d.rxCards[j % RxCount] <=> j >= a
        BY DEF PcnetReceives
      <3>5. j >= a <=> j >= a + 1
        BY <2>1, <2>4
      <3> QED
        BY <3>3, <3>4, <3>5, Zenon
    <2> QED
      BY <2>3, <2>4
  <1>8. r <= a + 1 /\ a + 1 <= r + RxCount
    BY <1>1, <1>2, <1>3
  <1> QED
    BY <1>2, <1>4, <1>5, <1>6, <1>7, <1>8 DEF PcnetReceives

(* What the driver does to a buffer it reads. *)
PcnetIsRead(d, e) ==
  /\ ~d.rxCards[d.rxId]
  /\ e = [d EXCEPT !.rxCards[d.rxId] = TRUE, !.rxId = (@ + 1) % RxCount]

LEMMA PcnetHandsUp ==
  ASSUME NEW d \in PcnetDsc, NEW a \in Nat, NEW r \in Nat, PcnetReceives(d, a, r),
         NEW e, PcnetIsRead(d, e)
  PROVE  d.rxBuf[d.rxId] = r + 1 /\ r < a /\ PcnetReceives(e, a, r + 1)
  <1> USE DEF PcnetIsRead
  <1>1. RxCount \in Nat \ {0}
    BY TxPositive
  <1>2. d.rxNext = a % RxCount /\ d.rxId = r % RxCount /\ r <= a /\ a <= r + RxCount
    BY DEF PcnetReceives
  <1>3. r < a
    <2>1. r \in r .. r + RxCount - 1
      BY <1>1
    <2>2. ~(r >= a)
      BY <1>2, <2>1 DEF PcnetReceives
    <2> QED
      BY <1>2, <2>2
  <1>4. d.rxBuf[r % RxCount] = r + 1 /\ Holds(d, a, r + 1)
    BY <1>3 DEF PcnetReceives, Holds
  <1>5. /\ e.rxId = (d.rxId + 1) % RxCount /\ e.rxNext = d.rxNext /\ e.rxBuf = d.rxBuf
        /\ e.rxCards = [d.rxCards EXCEPT ![d.rxId] = TRUE]
    BY DEF PcnetDsc
  <1>6. e.rxId = (r + 1) % RxCount
    BY <1>2, <1>5, NextRxPlace
  <1>7. ASSUME NEW j \in r + 1 .. (r + 1) + RxCount - 1
        PROVE  e.rxCards[j % RxCount] <=> j >= a
    <2>1. j \in Nat /\ j % RxCount \in RxPlaces
      BY <1>1, PlaceInRx
    <2>2. d.rxCards \in [RxPlaces -> BOOLEAN]
      BY DEF PcnetDsc
    <2>3. CASE j = r + RxCount
      <3>1. j % RxCount = r % RxCount
        BY <1>1, <2>3, RoundAgain
      <3>2. e.rxCards[j % RxCount]
        BY <1>2, <1>5, <2>1, <2>2, <3>1
      <3>3. j >= a
        BY <2>3, <1>2
      <3> QED
        BY <3>2, <3>3
    <2>4. CASE j # r + RxCount
      <3>1. j \in r .. r + RxCount - 1 /\ j # r /\ j < r + RxCount /\ r < j + RxCount
        BY <1>1, <2>4
      <3>2. j % RxCount # r % RxCount
        BY <2>1, <3>1, RxApart
      <3>3. e.rxCards[j % RxCount] = d.rxCards[j % RxCount]
        BY <1>2, <1>5, <2>1, <2>2, <3>2
      <3>4. d.rxCards[j % RxCount] <=> j >= a
        BY <3>1 DEF PcnetReceives
      <3> QED
        BY <3>3, <3>4, Zenon
    <2> QED
      BY <2>3, <2>4
  <1>8. r + 1 <= a /\ a <= (r + 1) + RxCount
    BY <1>1, <1>2, <1>3
  <1>9. Holds(e, a, r + 1)
    BY <1>4, <1>5 DEF Holds
  <1> QED
    BY <1>2, <1>3, <1>4, <1>5, <1>6, <1>7, <1>8, <1>9 DEF PcnetReceives


E1000FillsIn(d, e, v) ==
  /\ d.rxNext # d.rxTail
  /\ e = [d EXCEPT !.rxBuf[d.rxNext] = v, !.done[d.rxNext] = TRUE,
                   !.rxNext = (@ + 1) % RxCount]

LEMMA E1000Takes ==
  ASSUME NEW d \in E1000Dsc, NEW a \in Nat, NEW r \in Nat, E1000Receives(d, a, r),
         NEW e, E1000FillsIn(d, e, a + 1)
  PROVE  E1000Receives(e, a + 1, r)
  <1> USE DEF E1000FillsIn
  <1>1. RxCount \in Nat \ {0}
    BY TxPositive
  <1>2. /\ d.rxNext = a % RxCount /\ d.rxId = r % RxCount /\ r <= a /\ a <= r + RxCount - 1
        /\ d.rxTail = (r + RxCount - 1) % RxCount
    BY DEF E1000Receives
  <1>3. a + 1 <= r + RxCount - 1
    <2>1. a # r + RxCount - 1
      BY <1>2
    <2> QED
      BY <1>1, <1>2, <2>1
  <1>4. /\ e.rxId = d.rxId /\ e.rxNext = (d.rxNext + 1) % RxCount /\ e.rxTail = d.rxTail
        /\ e.rxBuf = [d.rxBuf EXCEPT ![d.rxNext] = a + 1]
        /\ e.done = [d.done EXCEPT ![d.rxNext] = TRUE]
    BY DEF E1000Dsc
  <1>5. Holds(e, a + 1, r)
    <2>1. Holds(d, a, r) /\ d.rxBuf \in [RxPlaces -> Nat] /\ a < r + RxCount
      BY <1>1, <1>3 DEF E1000Receives, E1000Dsc
    <2>2. e.rxBuf = [d.rxBuf EXCEPT ![a % RxCount] = a + 1]
      BY <1>2, <1>4
    <2> QED
      BY <1>2, <2>1, <2>2, OneMoreHeld
  <1>6. e.rxNext = (a + 1) % RxCount
    BY <1>2, <1>4, NextRxPlace
  <1>7. ASSUME NEW j \in r .. r + RxCount - 1
        PROVE  e.done[j % RxCount] <=> j < a + 1
    <2>1. j \in Nat /\ j % RxCount \in RxPlaces
      BY <1>1, PlaceInRx
    <2>2. d.done \in [RxPlaces -> BOOLEAN]
      BY DEF E1000Dsc
    <2>3. CASE j = a
      <3>1. e.done[j % RxCount]
        BY <1>2, <1>4, <2>1, <2>2, <2>3
      <3> QED
        BY <3>1, <2>3
    <2>4. CASE j # a
      <3>1. j < a + RxCount /\ a < j + RxCount
        BY <1>1, <1>2
      <3>2. j % RxCount # a % RxCount
        BY <2>1, <2>4, <3>1, RxApart
      <3>3. e.done[j % RxCount] = d.done[j % RxCount]
        BY <1>2, <1>4, <2>1, <2>2, <3>2
      <3>4. d.done[j % RxCount] <=> j < a
        BY DEF E1000Receives
      <3>5. j < a <=> j < a + 1
        BY <2>1, <2>4
      <3> QED
        BY <3>3, <3>4, <3>5, Zenon
    <2> QED
      BY <2>3, <2>4
  <1>8. r <= a + 1
    BY <1>2
  <1> QED
    BY <1>2, <1>3, <1>4, <1>5, <1>6, <1>7, <1>8 DEF E1000Receives


E1000IsRead(d, e) ==
  /\ d.done[d.rxId]
  /\ e = [d EXCEPT !.done[d.rxId] = FALSE, !.rxTail = RxTail(d.rxId),
                   !.rxId = (@ + 1) % RxCount, !.lsc = FALSE]

LEMMA E1000HandsUp ==
  ASSUME NEW d \in E1000Dsc, NEW a \in Nat, NEW r \in Nat, E1000Receives(d, a, r),
         NEW e, E1000IsRead(d, e)
  PROVE  d.rxBuf[d.rxId] = r + 1 /\ r < a /\ E1000Receives(e, a, r + 1)
  <1> USE DEF E1000IsRead
  <1>1. RxCount \in Nat \ {0}
    BY TxPositive
  <1>2. d.rxNext = a % RxCount /\ d.rxId = r % RxCount /\ r <= a /\ a <= r + RxCount - 1
    BY DEF E1000Receives
  <1>3. r < a
    <2>1. r \in r .. r + RxCount - 1
      BY <1>1
    <2> QED
      BY <1>2, <2>1 DEF E1000Receives
  <1>4. d.rxBuf[r % RxCount] = r + 1 /\ Holds(d, a, r + 1)
    BY <1>3 DEF E1000Receives, Holds
  <1>5. /\ e.rxId = (d.rxId + 1) % RxCount /\ e.rxNext = d.rxNext /\ e.rxBuf = d.rxBuf
        /\ e.rxTail = d.rxId
        /\ e.done = [d.done EXCEPT ![d.rxId] = FALSE]
    BY DEF E1000Dsc, RxTail
  <1>6. e.rxId = (r + 1) % RxCount
    BY <1>2, <1>5, NextRxPlace
  <1>7. e.rxTail = ((r + 1) + RxCount - 1) % RxCount
    <2>1. (r + 1) + RxCount - 1 = r + RxCount
      BY <1>1
    <2> QED
      BY <1>1, <1>2, <1>5, <2>1, RoundAgain
  <1>8. ASSUME NEW j \in r + 1 .. (r + 1) + RxCount - 1
        PROVE  e.done[j % RxCount] <=> j < a
    <2>1. j \in Nat /\ j % RxCount \in RxPlaces
      BY <1>1, PlaceInRx
    <2>2. d.done \in [RxPlaces -> BOOLEAN]
      BY DEF E1000Dsc
    <2>3. CASE j = r + RxCount
      <3>1. j % RxCount = r % RxCount
        BY <1>1, <2>3, RoundAgain
      <3>2. ~e.done[j % RxCount]
        BY <1>2, <1>5, <2>1, <2>2, <3>1
      <3>3. ~(j < a)
        BY <2>3, <1>1, <1>2
      <3> QED
        BY <3>2, <3>3
    <2>4. CASE j # r + RxCount
      <3>1. j \in r .. r + RxCount - 1 /\ j # r /\ j < r + RxCount /\ r < j + RxCount
        BY <1>1, <2>4
      <3>2. j % RxCount # r % RxCount
        BY <2>1, <3>1, RxApart
      <3>3. e.done[j % RxCount] = d.done[j % RxCount]
        BY <1>2, <1>5, <2>1, <2>2, <3>2
      <3>4. d.done[j % RxCount] <=> j < a
        BY <3>1 DEF E1000Receives
      <3> QED
        BY <3>3, <3>4, Zenon
    <2> QED
      BY <2>3, <2>4
  <1>9. r + 1 <= a /\ a <= (r + 1) + RxCount - 1
    BY <1>1, <1>2, <1>3
  <1>10. Holds(e, a, r + 1)
    BY <1>4, <1>5 DEF Holds
  <1> QED
    BY <1>2, <1>3, <1>4, <1>5, <1>6, <1>7, <1>8, <1>9, <1>10 DEF E1000Receives


-----------------------------------------------------------------------------
(* The receive ring of the RTL8139.  Packets m to n - 1 are in it: packet i  *)
(* begins at at[i], counted in words since the start, is the num[i]-th, and  *)
(* good[i] tells whether the card found it so.  The driver reads at at[m],   *)
(* the card writes at at[n].                                                 *)
At(d) == (d.capr + RingPad) % Wrap

Laid(d, at, num, good, m, n, a, r) ==
  /\ m <= n /\ at[n] < at[m] + RingLen
  /\ At(d) = at[m] % RingLen /\ d.cba = at[n] % RingLen
  /\ num[m] = (IF d.copy = <<0, 0>> THEN r + 1 ELSE r + 2) /\ num[n] = a + 1
  /\ \A i, j \in m .. n : i <= j => at[i] <= at[j] /\ num[i] <= num[j]
  /\ \A i \in m .. n - 1 :
       /\ at[i + 1] - at[i] \in PacketSizes
       /\ num[i + 1] = IF good[i] THEN num[i] + 1 ELSE num[i]
       /\ \A x \in 0 .. at[i + 1] - at[i] - 1 :
            d.ring[(at[i] % RingLen) + x] = <<num[i], at[i + 1] - at[i], good[i]>>

(* What is copied is all there. *)
CopyWaits(d, r) ==
  d.copy # <<0, 0>> =>
    /\ d.copy[2] \in PacketSizes
    /\ \A x \in d.copy[1] .. d.copy[1] + d.copy[2] - 1 : d.ring[x] = <<r + 1, d.copy[2], TRUE>>

Rtl8139Receives(d, a, r) ==
  /\ CopyWaits(d, r)
  /\ \E at \in [Nat -> Nat], num \in [Nat -> Nat], good \in [Nat -> BOOLEAN], m, n \in Nat :
       Laid(d, at, num, good, m, n, a, r)

LEMMA RingIs ==
  /\ RingLen \in Nat \ {0} /\ RingPad \in Nat /\ Wrap \in Nat \ {0}
  /\ RingPad < RingLen /\ RingLen < Wrap
  /\ \A s \in PacketSizes : s \in Nat /\ s > 0 /\ s < RingLen
  BY NicAssumption

LEMMA Largest == PacketSizes # {} /\ LastSize \in Nat /\ \A s \in PacketSizes : s <= LastSize
  <1>1. \E s \in PacketSizes : \A r \in PacketSizes : r <= s
    BY NicAssumption
  <1>2. LastSize \in PacketSizes /\ \A r \in PacketSizes : r <= LastSize
    BY <1>1 DEF LastSize
  <1> QED
    BY <1>2, RingIs

(* The place the driver sets is the one it finds again. *)
LEMMA PlaceFound ==
  ASSUME NEW o \in Nat
  PROVE  /\ Place(o) \in 0 .. Wrap - 1
         /\ (Place(o) + RingPad) % Wrap = o % RingLen /\ o % RingLen \in 0 .. RingLen - 1
  <1> DEFINE x == o % RingLen
  <1>1. x \in 0 .. RingLen - 1
    BY RingIs, PlaceAfter
  <1>2. Place(o) = (x - RingPad + Wrap) % Wrap
    BY DEF Place
  <1> HIDE DEF x
  <1>3. x - RingPad + Wrap \in Nat
    BY <1>1, RingIs
  <1>4. /\ ((x - RingPad + Wrap) % Wrap) \in 0 .. Wrap - 1
        /\ (((x - RingPad + Wrap) % Wrap) + RingPad) % Wrap = (x - RingPad + Wrap + RingPad) % Wrap
    BY <1>3, RingIs, PlaceAfter
  <1>5. x - RingPad + Wrap + RingPad = x + Wrap
    BY <1>1, RingIs
  <1>6. (x + Wrap) % Wrap = x % Wrap
    <2>1. x \in Nat /\ Wrap \in Nat \ {0}
      BY <1>1, RingIs
    <2> QED
      BY <2>1, RoundAgain
  <1>7. x % Wrap = x
    <2>1. x \in 0 .. Wrap - 1
      BY <1>1, RingIs
    <2> QED
      BY <2>1, RingIs, SmallPlace
  <1>8. (Place(o) + RingPad) % Wrap = x
    BY <1>2, <1>4, <1>5, <1>6, <1>7
  <1> QED
    BY <1>1, <1>2, <1>4, <1>8 DEF x

(* What the driver has not given back. *)
LEMMA UsedIs ==
  ASSUME NEW x \in Nat, NEW y \in Nat, x <= y, y < x + RingLen
  PROVE  /\ ((y % RingLen) - ((x % RingLen) % RingLen) + RingLen) % RingLen = y - x
  <1>1. x % RingLen \in 0 .. RingLen - 1
    BY RingIs, PlaceAfter
  <1>2. (x % RingLen) % RingLen = x % RingLen
    BY <1>1, RingIs, SmallPlace
  <1>3. ((y % RingLen) - (x % RingLen) + RingLen) % RingLen = y - x
    BY RingIs, Distance
  <1> QED
    BY <1>2, <1>3

(* Packets that follow one another within a round have no word in common.    *)
LEMMA NoWordShared ==
  ASSUME NEW u \in Nat, NEW s \in Nat, NEW v \in Nat, NEW t \in Nat, u + s <= v,
         v + t <= u + RingLen,
         NEW x \in 0 .. s - 1, NEW y \in 0 .. t - 1
  PROVE  (u % RingLen) + x # (v % RingLen) + y
  <1> SUFFICES ASSUME (u % RingLen) + x = (v % RingLen) + y PROVE FALSE
    OBVIOUS
  <1> DEFINE d == RingLen
  <1>0. d \in Nat \ {0}
    BY RingIs
  <1>1. PICK q \in Nat, i \in 0 .. d - 1 : u = d * q + i /\ u % d = i
    BY <1>0, RingPlace
  <1>2. PICK p \in Nat, j \in 0 .. d - 1 : v = d * p + j /\ v % d = j
    BY <1>0, RingPlace
  <1>3. i + x = j + y
    BY <1>1, <1>2
  <1> HIDE DEF d
  <1>4. d * (p - q) = d * p - d * q /\ d * p \in Nat /\ d * q \in Nat
    BY <1>0, Z3
  <1>5. d * (p - q) = (v + y) - (u + x)
    BY <1>0, <1>1, <1>2, <1>3, <1>4
  <1>6. 0 < (v + y) - (u + x) /\ (v + y) - (u + x) < d
    BY RingIs DEF d
  <1>7. p - q = 0
    <2>1. d * (p - q) < d /\ -d < d * (p - q)
      BY <1>0, <1>5, <1>6
    <2>2. p - q \in Int
      OBVIOUS
    <2> QED
      BY <1>0, <2>1, <2>2, NoMultiple
  <1>8. d * (p - q) = 0
    BY <1>0, <1>7
  <1> QED
    BY <1>5, <1>6, <1>8


LEMMA UsedHere ==
  ASSUME NEW at \in [Nat -> Nat], NEW num, NEW good, NEW m \in Nat, NEW n \in Nat, NEW a, NEW r,
         Laid(dsc, at, num, good, m, n, a, r)
  PROVE  /\ at[m] \in Nat /\ at[n] \in Nat /\ at[m] <= at[n] /\ at[n] < at[m] + RingLen
         /\ Used = at[n] - at[m]
         /\ ReadAt = at[m] % RingLen /\ ReadAt \in 0 .. RingLen - 1
         /\ dsc.cba = at[n] % RingLen /\ dsc.cba \in 0 .. RingLen - 1
  <1>1. at[m] \in Nat /\ at[n] \in Nat /\ m <= n
    BY DEF Laid
  <1>2. at[m] <= at[n]
    <2>1. m \in m .. n /\ n \in m .. n
      BY <1>1
    <2> QED
      BY <1>1, <2>1 DEF Laid
  <1>3. /\ at[n] < at[m] + RingLen /\ ReadAt = at[m] % RingLen /\ dsc.cba = at[n] % RingLen
    BY DEF Laid, At, ReadAt
  <1>4. Used = ((at[n] % RingLen) - ((at[m] % RingLen) % RingLen) + RingLen) % RingLen
    BY <1>3 DEF Used
  <1>5. Used = at[n] - at[m]
    BY <1>1, <1>2, <1>3, <1>4, UsedIs
  <1>6. at[m] % RingLen \in 0 .. RingLen - 1 /\ at[n] % RingLen \in 0 .. RingLen - 1
    BY <1>1, RingIs, PlaceAfter
  <1> QED
    BY <1>1, <1>2, <1>3, <1>5, <1>6

(* The card takes a packet in, and does not write over the one being copied. *)
LEMMA Rtl8139Takes ==
  ASSUME dsc \in Rtl8139Dsc, NEW a \in Nat, NEW r \in Nat, Rtl8139Receives(dsc, a, r),
         NEW size \in PacketSizes, NEW ok \in BOOLEAN, Used + size < RingLen,
         Taken(size) \cap Copied = {}, NEW e, e = Written(size, a + 1, ok)
  PROVE  Rtl8139Receives(e, IF ok THEN a + 1 ELSE a, r)
  <1> DEFINE b == IF ok THEN a + 1 ELSE a
  <1>1. PICK at \in [Nat -> Nat], num \in [Nat -> Nat], good \in [Nat -> BOOLEAN],
             m \in Nat, n \in Nat : Laid(dsc, at, num, good, m, n, a, r)
    BY DEF Rtl8139Receives
  <1>2. /\ at[m] \in Nat /\ at[n] \in Nat /\ at[m] <= at[n] /\ at[n] < at[m] + RingLen
        /\ Used = at[n] - at[m]
        /\ dsc.cba = at[n] % RingLen /\ dsc.cba \in 0 .. RingLen - 1
    BY <1>1, UsedHere
  <1>3. size \in Nat /\ size > 0 /\ size <= LastSize /\ LastSize \in Nat /\ RingLen \in Nat \ {0}
    BY Largest, RingIs
  <1>4. at[n] + size < at[m] + RingLen
    BY <1>2, <1>3, RingIs
  <1>5. /\ e.cba = (dsc.cba + size) % RingLen /\ e.capr = dsc.capr /\ e.copy = dsc.copy
        /\ e.ring = [i \in DOMAIN dsc.ring |->
                       IF i \in Taken(size) THEN <<a + 1, size, ok>> ELSE dsc.ring[i]]
    BY DEF Written, Rtl8139Dsc
  <1>6. DOMAIN dsc.ring = 0 .. RingLen + LastSize - 1
    BY DEF Rtl8139Dsc
  <1>0. PICK c \in 0 .. RingLen - 1 : c = dsc.cba
    BY <1>2
  <1>7. Taken(size) = c .. c + size - 1 /\ Taken(size) \subseteq DOMAIN dsc.ring
    <2>1. Taken(size) = c .. c + size - 1
      BY <1>0 DEF Taken
    <2>2. ASSUME NEW i \in c .. c + size - 1
          PROVE  i \in 0 .. RingLen + LastSize - 1
      BY <1>3
    <2> QED
      BY <1>6, <2>1, <2>2
  <1> DEFINE at2 == [at EXCEPT ![n + 1] = at[n] + size]
             num2 == [num EXCEPT ![n + 1] = b + 1]
             good2 == [good EXCEPT ![n] = ok]
  <1>8. n + 1 \in Nat /\ m <= n /\ b \in Nat
    BY <1>1 DEF Laid
  <1>9. at2 \in [Nat -> Nat] /\ num2 \in [Nat -> Nat] /\ good2 \in [Nat -> BOOLEAN]
    BY <1>2, <1>3, <1>8
  <1>10. /\ at2[n + 1] = at[n] + size /\ \A i \in m .. n : at2[i] = at[i]
         /\ num2[n + 1] = b + 1 /\ \A i \in m .. n : num2[i] = num[i]
         /\ \A i \in m .. n - 1 : good2[i] = good[i]
         /\ good2[n] = ok
    BY <1>8
  <1> HIDE DEF at2, num2, good2
  <1>11. num[n] = a + 1 /\ \A i, j \in m .. n : i <= j => at[i] <= at[j] /\ num[i] <= num[j]
    BY <1>1 DEF Laid
  <1>12. ASSUME NEW i \in m .. n + 1, NEW j \in m .. n + 1, i <= j
         PROVE  at2[i] <= at2[j] /\ num2[i] <= num2[j]
    <2>1. CASE j <= n
      <3>1. i \in m .. n /\ j \in m .. n
        BY <1>8, <1>12, <2>1
      <3> QED
        BY <3>1, <1>10, <1>11, <1>12
    <2>2. CASE j = n + 1 /\ i = n + 1
      BY <1>9, <2>2
    <2>3. CASE j = n + 1 /\ i # n + 1
      <3>1. i \in m .. n /\ n \in m .. n /\ i <= n /\ i \in Nat
        BY <1>8, <2>3
      <3>2. at[i] <= at[n] /\ num[i] <= num[n]
        BY <3>1, <1>11
      <3>3. at[i] \in Nat /\ num[i] \in Nat
        BY <3>1
      <3>4. at2[i] = at[i] /\ num2[i] = num[i]
        BY <3>1, <1>10
      <3>5. at2[j] = at[n] + size
        BY <2>3, <1>10
      <3>6. num2[j] = b + 1
        BY <2>3, <1>10
      <3>7. num2[i] <= num2[j]
        BY <3>2, <3>3, <3>4, <3>6, <1>11
      <3> QED
        BY <3>2, <3>3, <3>4, <3>5, <3>7, <1>2, <1>3
    <2> QED
      BY <1>8, <2>1, <2>2, <2>3
  <1>13. ASSUME NEW i \in m .. n - 1, NEW x \in 0 .. at[i + 1] - at[i] - 1
         PROVE  e.ring[(at[i] % RingLen) + x] = dsc.ring[(at[i] % RingLen) + x]
    <2>1. /\ i \in Nat /\ i \in m .. n /\ i + 1 \in m .. n /\ n \in m .. n /\ m \in m .. n
          /\ m <= i /\ i + 1 <= n
      BY <1>8
    <2>2. at[i] \in Nat /\ at[i + 1] \in Nat /\ at[m] <= at[i] /\ at[i + 1] <= at[n]
      BY <2>1, <1>11
    <2>3. at[i + 1] - at[i] \in PacketSizes
      BY <1>1 DEF Laid
    <2>4. at[i + 1] - at[i] \in Nat /\ at[i + 1] - at[i] <= LastSize
      BY <2>3, Largest, RingIs
    <2>5. PICK s \in Nat : s = at[i + 1] - at[i]
      BY <2>4
    <2>6. at[i] + s <= at[n] /\ at[n] + size <= at[i] + RingLen /\ x \in 0 .. s - 1
      BY <2>2, <2>5, <1>2, <1>3, <1>4
    <2>7. ASSUME NEW y \in 0 .. size - 1
          PROVE  (at[i] % RingLen) + x # (at[n] % RingLen) + y
      <3>1. PICK u \in Nat, v \in Nat : u = at[i] /\ v = at[n]
        BY <2>2, <1>2
      <3>2. u + s <= v /\ v + size <= u + RingLen /\ x \in 0 .. s - 1 /\ size \in Nat
        BY <2>6, <3>1, <1>3
      <3>3. (u % RingLen) + x # (v % RingLen) + y
        BY <3>2, NoWordShared
      <3> QED
        BY <3>1, <3>3
    <2>8. at[i] % RingLen \in 0 .. RingLen - 1
      BY <2>2, RingIs, PlaceAfter
    <2>9. PICK p \in 0 .. RingLen - 1 : p = at[i] % RingLen
      BY <2>8
    <2>10. p + x \in DOMAIN dsc.ring
      BY <2>4, <2>5, <2>6, <1>3, <1>6
    <2>11. p + x \notin Taken(size)
      <3> SUFFICES ASSUME p + x \in Taken(size) PROVE FALSE
        OBVIOUS
      <3>1. p + x \in c .. c + size - 1 /\ x \in Nat
        BY <1>7, <2>6
      <3>2. PICK y \in 0 .. size - 1 : p + x = c + y
        <4>1. p + x - c \in 0 .. size - 1 /\ p + x = c + (p + x - c)
          BY <3>1, <1>3
        <4> QED
          BY <4>1
      <3> QED
        BY <3>2, <2>7, <2>9, <1>0, <1>2
    <2> QED
      BY <1>5, <2>9, <2>10, <2>11
  <1>14. ASSUME NEW x \in 0 .. size - 1
         PROVE  e.ring[(at[n] % RingLen) + x] = <<a + 1, size, ok>>
    <2>1. c + x \in c .. c + size - 1
      BY <1>3
    <2> QED
      BY <2>1, <1>0, <1>2, <1>5, <1>7
  <1>15. ASSUME NEW i \in m .. (n + 1) - 1
         PROVE  /\ at2[i + 1] - at2[i] \in PacketSizes
                /\ num2[i + 1] = IF good2[i] THEN num2[i] + 1 ELSE num2[i]
                /\ \A x \in 0 .. at2[i + 1] - at2[i] - 1 :
                     e.ring[(at2[i] % RingLen) + x] =
                       <<num2[i], at2[i + 1] - at2[i], good2[i]>>
    <2>1. CASE i \in m .. n - 1
      <3>1. i \in m .. n /\ i + 1 \in m .. n
        BY <1>8, <2>1
      <3>2. at2[i] = at[i] /\ at2[i + 1] = at[i + 1] /\ num2[i] = num[i]
            /\ num2[i + 1] = num[i + 1] /\ good2[i] = good[i]
        BY <3>1, <2>1, <1>10
      <3>3. /\ at[i + 1] - at[i] \in PacketSizes
            /\ num[i + 1] = IF good[i] THEN num[i] + 1 ELSE num[i]
            /\ \A x \in 0 .. at[i + 1] - at[i] - 1 :
                 dsc.ring[(at[i] % RingLen) + x] = <<num[i], at[i + 1] - at[i], good[i]>>
        BY <2>1, <1>1 DEF Laid
      <3>4. \A x \in 0 .. at[i + 1] - at[i] - 1 :
              e.ring[(at[i] % RingLen) + x] = <<num[i], at[i + 1] - at[i], good[i]>>
        BY <3>3, <2>1, <1>13
      <3> QED
        BY <3>2, <3>3, <3>4
    <2>2. CASE i = n
      <3>1. n \in m .. n
        BY <1>8
      <3>2. at2[i] = at[n] /\ num2[i] = a + 1 /\ good2[i] = ok
        BY <2>2, <3>1, <1>10, <1>11
      <3>3. at2[i + 1] = at[n] + size /\ num2[i + 1] = b + 1
        BY <2>2, <1>10
      <3>4. at2[i + 1] - at2[i] = size
        BY <3>2, <3>3, <1>2, <1>3
      <3>5. num2[i + 1] = IF good2[i] THEN num2[i] + 1 ELSE num2[i]
        BY <3>2, <3>3
      <3> QED
        BY <3>2, <3>4, <3>5, <1>14
    <2> QED
      BY <1>8, <2>1, <2>2
  <1>16. e.cba = at2[n + 1] % RingLen
    <2>1. ((at[n] % RingLen) + size) % RingLen = (at[n] + size) % RingLen
      BY <1>2, <1>3, PlaceAfter
    <2> QED
      BY <2>1, <1>2, <1>5, <1>10
  <1>17. At(e) = at2[m] % RingLen /\ num2[m] = (IF e.copy = <<0, 0>> THEN r + 1 ELSE r + 2)
    <2>1. m \in m .. n
      BY <1>8
    <2> QED
      BY <2>1, <1>1, <1>5, <1>10 DEF Laid, At
  <1>18. m <= n + 1 /\ at2[n + 1] < at2[m] + RingLen
    <2>1. m \in m .. n
      BY <1>8
    <2> QED
      BY <2>1, <1>4, <1>8, <1>10
  <1>19. Laid(e, at2, num2, good2, m, n + 1, b, r)
    BY <1>10, <1>12, <1>15, <1>16, <1>17, <1>18 DEF Laid
  <1>20. CopyWaits(e, r)
    <2> SUFFICES ASSUME e.copy # <<0, 0>>
                 PROVE  /\ e.copy[2] \in PacketSizes
                        /\ \A x \in e.copy[1] .. e.copy[1] + e.copy[2] - 1 :
                             e.ring[x] = <<r + 1, e.copy[2], TRUE>>
      BY DEF CopyWaits
    <2>1. /\ dsc.copy[2] \in PacketSizes
          /\ \A x \in dsc.copy[1] .. dsc.copy[1] + dsc.copy[2] - 1 :
               dsc.ring[x] = <<r + 1, dsc.copy[2], TRUE>>
      BY <1>5 DEF Rtl8139Receives, CopyWaits
    <2>2. dsc.copy[1] \in 0 .. RingLen - 1
      BY DEF Rtl8139Dsc
    <2>3. dsc.copy[2] \in Nat /\ dsc.copy[2] <= LastSize
      BY <2>1, Largest, RingIs
    <2>4. Copied \subseteq DOMAIN dsc.ring
      <3>1. PICK p \in 0 .. RingLen - 1, s \in Nat : p = dsc.copy[1] /\ s = dsc.copy[2]
        BY <2>2, <2>3
      <3>2. ASSUME NEW x \in p .. p + s - 1
            PROVE  x \in 0 .. RingLen + LastSize - 1
        BY <2>3, <3>1, <1>3
      <3> QED
        BY <3>1, <3>2, <1>6 DEF Copied
    <2>5. \A x \in Copied : e.ring[x] = dsc.ring[x]
      BY <2>4, <1>5
    <2> QED
      BY <2>1, <2>5, <1>5 DEF Copied
  <1> QED
    BY <1>8, <1>9, <1>19, <1>20 DEF Rtl8139Receives


(* No more is handed up than has arrived.                                    *)
LEMMA Rtl8139Behind ==
  ASSUME NEW d, NEW a \in Nat, NEW r \in Nat, Rtl8139Receives(d, a, r)
  PROVE  r <= a /\ (d.copy # <<0, 0>> => r < a)
  <1>1. PICK at \in [Nat -> Nat], num \in [Nat -> Nat], good \in [Nat -> BOOLEAN],
             m \in Nat, n \in Nat : Laid(d, at, num, good, m, n, a, r)
    BY DEF Rtl8139Receives
  <1>2. m <= n /\ num[m] = (IF d.copy = <<0, 0>> THEN r + 1 ELSE r + 2) /\ num[n] = a + 1
    BY <1>1 DEF Laid
  <1>3. m \in m .. n /\ n \in m .. n
    BY <1>2
  <1>4. num[m] <= num[n]
    BY <1>1, <1>2, <1>3 DEF Laid
  <1> QED
    BY <1>2, <1>4

(* A packet of s words is where the driver reads. *)
FirstIs(s, at, num, good, m) ==
  /\ at[m + 1] = at[m] + s /\ dsc.ring[ReadAt] = <<num[m], s, good[m]>>
  /\ \A x \in 0 .. s - 1 : dsc.ring[ReadAt + x] = <<num[m], s, good[m]>>

(* The first packet of the ring is the next one. *)
LEMMA FirstLaid ==
  ASSUME dsc \in Rtl8139Dsc, NEW a \in Nat, NEW r \in Nat,
         NEW at \in [Nat -> Nat], NEW num \in [Nat -> Nat], NEW good \in [Nat -> BOOLEAN],
         NEW m \in Nat, NEW n \in Nat, Laid(dsc, at, num, good, m, n, a, r), Used # 0
  PROVE  /\ m < n /\ m + 1 <= n
         /\ \E s \in PacketSizes : FirstIs(s, at, num, good, m)
  <1>1. /\ at[m] \in Nat /\ at[n] \in Nat /\ Used = at[n] - at[m]
        /\ ReadAt = at[m] % RingLen /\ ReadAt \in 0 .. RingLen - 1
    BY UsedHere
  <1>2. m <= n
    BY DEF Laid
  <1>3. m # n
    BY <1>1
  <1>4. m < n /\ m + 1 <= n /\ m \in m .. n - 1
    BY <1>2, <1>3
  <1>5. /\ at[m + 1] - at[m] \in PacketSizes
        /\ \A x \in 0 .. at[m + 1] - at[m] - 1 :
             dsc.ring[(at[m] % RingLen) + x] = <<num[m], at[m + 1] - at[m], good[m]>>
    BY <1>4 DEF Laid
  <1>6. PICK s \in PacketSizes : s = at[m + 1] - at[m]
    BY <1>5
  <1>7. s \in Nat /\ s > 0 /\ at[m + 1] \in Nat
    BY RingIs
  <1>8. at[m + 1] = at[m] + s
    BY <1>1, <1>6, <1>7
  <1>9. \A x \in 0 .. s - 1 : dsc.ring[ReadAt + x] = <<num[m], s, good[m]>>
    BY <1>1, <1>5, <1>6
  <1>10. dsc.ring[ReadAt] = <<num[m], s, good[m]>>
    <2>1. 0 \in 0 .. s - 1 /\ ReadAt + 0 = ReadAt
      BY <1>1, <1>7
    <2> QED
      BY <1>9, <2>1
  <1> QED
    BY <1>4, <1>8, <1>9, <1>10 DEF FirstIs

(* The place is moved past the packet before it is copied.                   *)
LEMMA Rtl8139Advances ==
  ASSUME dsc \in Rtl8139Dsc, NEW a \in Nat, NEW r \in Nat, Rtl8139Receives(dsc, a, r),
         dsc.copy = <<0, 0>>, Used # 0, dsc.ring[ReadAt][3],
         NEW e, e = [dsc EXCEPT !.copy = <<ReadAt, dsc.ring[ReadAt][2]>>,
                                !.capr = Place(ReadAt + dsc.ring[ReadAt][2])]
  PROVE  Rtl8139Receives(e, a, r)
  <1>1. PICK at \in [Nat -> Nat], num \in [Nat -> Nat], good \in [Nat -> BOOLEAN],
             m \in Nat, n \in Nat : Laid(dsc, at, num, good, m, n, a, r)
    BY DEF Rtl8139Receives
  <1>2. m < n /\ m + 1 <= n
    BY <1>1, FirstLaid
  <1>2a. PICK s \in PacketSizes : FirstIs(s, at, num, good, m)
    BY <1>1, FirstLaid
  <1>3. /\ at[m + 1] = at[m] + s /\ dsc.ring[ReadAt] = <<num[m], s, good[m]>>
        /\ \A x \in 0 .. s - 1 : dsc.ring[ReadAt + x] = <<num[m], s, good[m]>>
    BY <1>2a, Zenon DEF FirstIs
  <1>4. /\ at[m] \in Nat /\ ReadAt = at[m] % RingLen /\ ReadAt \in 0 .. RingLen - 1
        /\ at[n] < at[m] + RingLen
    BY <1>1, UsedHere
  <1>5. s \in Nat /\ s > 0
    BY RingIs
  <1>6. dsc.ring[ReadAt][2] = s
    BY <1>3
  <1>6a. good[m]
    <2>1. dsc.ring[ReadAt][3] = good[m]
      BY <1>3
    <2> QED
      BY <2>1, Zenon
  <1>7. num[m] = r + 1 /\ num[m + 1] = r + 2
    <2>1. num[m] = r + 1
      BY <1>1 DEF Laid
    <2>2. m \in m .. n - 1
      BY <1>2
    <2>3. num[m + 1] = num[m] + 1
      BY <1>1, <1>6a, <2>2 DEF Laid
    <2> QED
      BY <2>1, <2>3
  <1>8. /\ e.copy = <<ReadAt, s>> /\ e.capr = Place(ReadAt + s) /\ e.cba = dsc.cba
        /\ e.ring = dsc.ring
    BY <1>6 DEF Rtl8139Dsc
  <1>9. e.copy # <<0, 0>>
    BY <1>5, <1>8
  <1>10. At(e) = at[m + 1] % RingLen
    <2>1. ReadAt + s \in Nat
      BY <1>4, <1>5
    <2>2. At(e) = (ReadAt + s) % RingLen
      BY <2>1, <1>8, PlaceFound DEF At
    <2>3. (ReadAt + s) % RingLen = (at[m] + s) % RingLen
      BY <1>4, <1>5, RingIs, PlaceAfter
    <2> QED
      BY <2>2, <2>3, <1>3
  <1>11. at[n] < at[m + 1] + RingLen
    BY <1>3, <1>4, <1>5, RingIs
  <1>12. Laid(e, at, num, good, m + 1, n, a, r)
    <2>1. /\ e.cba = at[n] % RingLen /\ num[n] = a + 1
          /\ \A i, j \in m .. n : i <= j => at[i] <= at[j] /\ num[i] <= num[j]
      BY <1>1, <1>8 DEF Laid
    <2>2. \A i \in m .. n - 1 :
            /\ at[i + 1] - at[i] \in PacketSizes
            /\ num[i + 1] = IF good[i] THEN num[i] + 1 ELSE num[i]
            /\ \A x \in 0 .. at[i + 1] - at[i] - 1 :
                 e.ring[(at[i] % RingLen) + x] = <<num[i], at[i + 1] - at[i], good[i]>>
      <3> SUFFICES ASSUME NEW i \in m .. n - 1
                   PROVE  /\ at[i + 1] - at[i] \in PacketSizes
                          /\ num[i + 1] = IF good[i] THEN num[i] + 1 ELSE num[i]
                          /\ \A x \in 0 .. at[i + 1] - at[i] - 1 :
                               e.ring[(at[i] % RingLen) + x] =
                                 <<num[i], at[i + 1] - at[i], good[i]>>
        OBVIOUS
      <3>1. /\ at[i + 1] - at[i] \in PacketSizes
            /\ num[i + 1] = IF good[i] THEN num[i] + 1 ELSE num[i]
            /\ \A x \in 0 .. at[i + 1] - at[i] - 1 :
                 dsc.ring[(at[i] % RingLen) + x] = <<num[i], at[i + 1] - at[i], good[i]>>
        BY <1>1 DEF Laid
      <3> QED
        BY <3>1, <1>8
    <2>3. (m + 1) .. n \subseteq m .. n /\ (m + 1) .. n - 1 \subseteq m .. n - 1
      OBVIOUS
    <2>4. num[m + 1] = IF e.copy = <<0, 0>> THEN r + 1 ELSE r + 2
      BY <1>7, <1>9
    <2> QED
      BY <2>1, <2>2, <2>3, <2>4, <1>2, <1>10, <1>11 DEF Laid
  <1>13. CopyWaits(e, r)
    <2>1. e.copy[1] = ReadAt /\ e.copy[2] = s
      BY <1>8
    <2>2. ASSUME NEW x \in ReadAt .. ReadAt + s - 1
          PROVE  e.ring[x] = <<r + 1, s, TRUE>>
      <3>1. PICK p \in 0 .. RingLen - 1 : p = ReadAt
        BY <1>4
      <3>2. x - p \in 0 .. s - 1 /\ x = p + (x - p)
        BY <1>5, <2>2, <3>1
      <3>3. dsc.ring[x] = <<num[m], s, good[m]>>
        BY <3>1, <3>2, <1>3
      <3>4. good[m] = TRUE
        BY <1>6a
      <3> QED
        BY <3>3, <3>4, <1>7, <1>8
    <2> QED
      BY <2>1, <2>2 DEF CopyWaits
  <1>14. m + 1 \in Nat
    OBVIOUS
  <1> QED
    BY <1>12, <1>13, <1>14 DEF Rtl8139Receives

(* All there is is passed over. *)
LEMMA Rtl8139Drops ==
  ASSUME dsc \in Rtl8139Dsc, NEW a \in Nat, NEW r \in Nat, Rtl8139Receives(dsc, a, r),
         dsc.copy = <<0, 0>>, NEW e, e = [dsc EXCEPT !.capr = Place(dsc.cba)]
  PROVE  Rtl8139Receives(e, r, r)
  <1>1. PICK at \in [Nat -> Nat], num \in [Nat -> Nat], good \in [Nat -> BOOLEAN],
             m \in Nat, n \in Nat : Laid(dsc, at, num, good, m, n, a, r)
    BY DEF Rtl8139Receives
  <1>2. /\ at[n] \in Nat /\ dsc.cba = at[n] % RingLen /\ dsc.cba \in 0 .. RingLen - 1
    BY <1>1, UsedHere
  <1>3. e.capr = Place(dsc.cba) /\ e.cba = dsc.cba /\ e.ring = dsc.ring /\ e.copy = dsc.copy
    BY DEF Rtl8139Dsc
  <1>4. At(e) = at[n] % RingLen
    <2>1. dsc.cba \in Nat
      BY <1>2
    <2>2. At(e) = dsc.cba % RingLen
      BY <2>1, <1>3, PlaceFound DEF At
    <2>3. dsc.cba % RingLen = dsc.cba
      BY <1>2, RingIs, SmallPlace
    <2> QED
      BY <2>2, <2>3, <1>2
  <1> DEFINE num2 == [num EXCEPT ![n] = r + 1]
  <1>5. num2 \in [Nat -> Nat] /\ num2[n] = r + 1
    OBVIOUS
  <1> HIDE DEF num2
  <1>6. Laid(e, at, num2, good, n, n, r, r)
    <2>1. \A i \in n .. n : i = n
      OBVIOUS
    <2>2. n .. n - 1 = {}
      OBVIOUS
    <2>3. at[n] <= at[n] /\ num2[n] <= num2[n] /\ at[n] < at[n] + RingLen /\ n <= n
      BY <1>2, <1>5, RingIs
    <2> QED
      BY <2>1, <2>2, <2>3, <1>2, <1>3, <1>4, <1>5 DEF Laid
  <1>7. CopyWaits(e, r)
    BY <1>3 DEF CopyWaits
  <1> QED
    BY <1>5, <1>6, <1>7 DEF Rtl8139Receives

(* The packet is copied, and is the one that was there.                      *)
LEMMA Rtl8139Copies ==
  ASSUME dsc \in Rtl8139Dsc, NEW a \in Nat, NEW r \in Nat, Rtl8139Receives(dsc, a, r),
         dsc.copy # <<0, 0>>, NEW e, e = [dsc EXCEPT !.copy = <<0, 0>>]
  PROVE  /\ \A i \in Copied : dsc.ring[i] = dsc.ring[dsc.copy[1]]
         /\ dsc.ring[dsc.copy[1]][1] = r + 1
         /\ Rtl8139Receives(e, a, r + 1)
  <1>1. PICK at \in [Nat -> Nat], num \in [Nat -> Nat], good \in [Nat -> BOOLEAN],
             m \in Nat, n \in Nat : Laid(dsc, at, num, good, m, n, a, r)
    BY DEF Rtl8139Receives
  <1>2. /\ dsc.copy[2] \in PacketSizes
        /\ \A x \in dsc.copy[1] .. dsc.copy[1] + dsc.copy[2] - 1 :
             dsc.ring[x] = <<r + 1, dsc.copy[2], TRUE>>
    BY DEF Rtl8139Receives, CopyWaits
  <1>3. dsc.copy[2] \in Nat /\ dsc.copy[2] > 0 /\ dsc.copy[1] \in 0 .. RingLen - 1
    BY <1>2, RingIs DEF Rtl8139Dsc
  <1>4. dsc.copy[1] \in dsc.copy[1] .. dsc.copy[1] + dsc.copy[2] - 1
    BY <1>3
  <1>5. dsc.ring[dsc.copy[1]] = <<r + 1, dsc.copy[2], TRUE>>
    BY <1>2, <1>4
  <1>6. e.copy = <<0, 0>> /\ e.capr = dsc.capr /\ e.cba = dsc.cba /\ e.ring = dsc.ring
    BY DEF Rtl8139Dsc
  <1>7. num[m] = (r + 1) + 1
    BY <1>1 DEF Laid
  <1>8. Laid(e, at, num, good, m, n, a, r + 1)
    BY <1>1, <1>6, <1>7 DEF Laid, At
  <1>9. CopyWaits(e, r + 1)
    BY <1>6 DEF CopyWaits
  <1>10. \A i \in Copied : dsc.ring[i] = dsc.ring[dsc.copy[1]]
    BY <1>2, <1>5 DEF Copied
  <1>11. dsc.ring[dsc.copy[1]][1] = r + 1
    BY <1>5
  <1> QED
    BY <1>8, <1>9, <1>10, <1>11, Zenon DEF Rtl8139Receives


-----------------------------------------------------------------------------
(* The three of them. *)
InTurn(s) == \A i \in 1 .. Len(s) : s[i] = i

Filled(t) == IF t = "filled" THEN 1 ELSE 0

CardSends(d, g, w, t) ==
  /\ card = "PCNET" => PcnetSends(d, g, w, Filled(t))
  /\ card = "E1000" => E1000Sends(d, g, w, Filled(t))
  /\ card = "RTL8139" => Rtl8139Sends(d, g, w, t)

CardReceives(d, a, r) ==
  /\ card = "PCNET" => PcnetReceives(d, a, r)
  /\ card = "E1000" => E1000Receives(d, a, r)
  /\ card = "RTL8139" => Rtl8139Receives(d, a, r)

DscIs(d) ==
  \/ card = "PCNET" /\ d \in PcnetDsc
  \/ card = "E1000" /\ d \in E1000Dsc
  \/ card = "RTL8139" /\ d \in Rtl8139Dsc /\ At(d) \in 0 .. RingLen - 1

CardTypes ==
  /\ tx \in {"idle", "filled", "started"} /\ (tx = "started" => card = "RTL8139")
  /\ DscIs(dsc)

NicTypes ==
  /\ given \in Seq(Nat) /\ wire \in Seq(Nat) /\ arrived \in Seq(Nat) /\ received \in Seq(Nat)
  /\ most \in Nat
  /\ CardTypes

SendInv ==
  /\ InTurn(given) /\ Len(given) - Len(wire) <= most
  /\ most < TxCount => InTurn(wire) /\ CardSends(dsc, Len(given), Len(wire), tx)

ReceiveInv ==
  ~harmed =>
    /\ InTurn(arrived) /\ InTurn(received)
    /\ CardReceives(dsc, Len(arrived), Len(received))

NicInv == NicTypes /\ SendInv /\ ReceiveInv

LEMMA OneMore ==
  ASSUME NEW s \in Seq(Nat), NEW v \in Nat
  PROVE  /\ Append(s, v) \in Seq(Nat) /\ Len(Append(s, v)) = Len(s) + 1 /\ Len(s) \in Nat
         /\ InTurn(s) /\ v = Len(s) + 1 => InTurn(Append(s, v))
  <1>1. /\ Append(s, v) \in Seq(Nat) /\ Len(Append(s, v)) = Len(s) + 1 /\ Len(s) \in Nat
        /\ \A i \in 1 .. Len(s) : Append(s, v)[i] = s[i]
        /\ Append(s, v)[Len(s) + 1] = v
    OBVIOUS
  <1> QED
    BY <1>1 DEF InTurn

LEMMA NumberedPrefix ==
  ASSUME NEW s \in Seq(Nat), NEW t \in Seq(Nat), InTurn(s), InTurn(t), Len(s) <= Len(t)
  PROVE  IsPrefix(s, t)
  <1>1. Len(s) \in Nat /\ Len(t) \in Nat
    BY LenProperties
  <1>2. SubSeq(s, 1, Len(s)) = s
    BY SubSeqFull
  <1>3. \A i \in 1 .. Len(s) : t[i] \in Nat /\ t[i] = i /\ s[i] = i
    BY <1>1, ElementOfSeq DEF InTurn
  <1>4. /\ SubSeq(t, 1, Len(s)) \in Seq(Nat)
        /\ Len(SubSeq(t, 1, Len(s))) = Len(s)
        /\ \A i \in 1 .. Len(s) : SubSeq(t, 1, Len(s))[i] = t[i]
    BY <1>1, <1>3, SubSeqProperties
  <1>5. s = SubSeq(t, 1, Len(s))
    BY <1>3, <1>4, SeqEqual
  <1> QED
    BY <1>2, <1>5 DEF IsPrefix

(* What one direction does not touch. *)
SameTx(d, e) ==
  /\ e.txId = d.txId /\ e.txNext = d.txNext /\ e.txBuf = d.txBuf
  /\ card = "PCNET" => e.txCards = d.txCards
  /\ card = "E1000" => e.tail = d.tail
  /\ card = "RTL8139" => e.sending = d.sending

SameRx(d, e) ==
  /\ card = "PCNET" =>
       e.rxId = d.rxId /\ e.rxNext = d.rxNext /\ e.rxBuf = d.rxBuf /\ e.rxCards = d.rxCards
  /\ card = "E1000" =>
       /\ e.rxId = d.rxId /\ e.rxNext = d.rxNext /\ e.rxTail = d.rxTail
       /\ e.rxBuf = d.rxBuf /\ e.done = d.done
  /\ card = "RTL8139" =>
       e.capr = d.capr /\ e.cba = d.cba /\ e.ring = d.ring /\ e.copy = d.copy

LEMMA SendsSame ==
  ASSUME NEW d, NEW e, SameTx(d, e), NEW g, NEW w, NEW t, CardSends(d, g, w, t)
  PROVE  CardSends(e, g, w, t)
  <1>1. ASSUME card = "PCNET" PROVE PcnetSends(e, g, w, Filled(t))
    BY <1>1 DEF CardSends, SameTx, PcnetSends, Waits
  <1>2. ASSUME card = "E1000" PROVE E1000Sends(e, g, w, Filled(t))
    BY <1>2 DEF CardSends, SameTx, E1000Sends, Waits
  <1>3. ASSUME card = "RTL8139" PROVE Rtl8139Sends(e, g, w, t)
    BY <1>3 DEF CardSends, SameTx, Rtl8139Sends, Waits
  <1> QED
    BY <1>1, <1>2, <1>3 DEF CardSends

LEMMA ReceivesSame ==
  ASSUME NEW d, NEW e, SameRx(d, e), NEW a, NEW r, CardReceives(d, a, r)
  PROVE  CardReceives(e, a, r)
  <1>1. ASSUME card = "PCNET" PROVE PcnetReceives(e, a, r)
    BY <1>1 DEF CardReceives, SameRx, PcnetReceives, Holds
  <1>2. ASSUME card = "E1000" PROVE E1000Receives(e, a, r)
    BY <1>2 DEF CardReceives, SameRx, E1000Receives, Holds
  <1>3. ASSUME card = "RTL8139" PROVE Rtl8139Receives(e, a, r)
    <2>1. e.capr = d.capr /\ e.cba = d.cba /\ e.ring = d.ring /\ e.copy = d.copy
      BY <1>3 DEF SameRx
    <2>2. PICK at \in [Nat -> Nat], num \in [Nat -> Nat], good \in [Nat -> BOOLEAN],
               m \in Nat, n \in Nat : Laid(d, at, num, good, m, n, a, r)
      BY <1>3 DEF CardReceives, Rtl8139Receives
    <2>3. Laid(e, at, num, good, m, n, a, r)
      BY <2>1, <2>2, Zenon DEF Laid, At
    <2>4. CopyWaits(e, r)
      BY <2>1, <1>3 DEF CardReceives, Rtl8139Receives, CopyWaits
    <2> QED
      BY <2>3, <2>4 DEF Rtl8139Receives
  <1> QED
    BY <1>1, <1>2, <1>3 DEF CardReceives

(* The packets of one direction leave the other's in order. *)
LEMMA StillReceives ==
  ASSUME ReceiveInv, UNCHANGED <<card, arrived, received, harmed>>, SameRx(dsc, dsc')
  PROVE  ReceiveInv'
  <1> SUFFICES ASSUME ~harmed'
               PROVE  /\ InTurn(arrived) /\ InTurn(received)
                      /\ CardReceives(dsc', Len(arrived), Len(received))
    BY DEF ReceiveInv, CardReceives
  <1>1. InTurn(arrived) /\ InTurn(received)
        /\ CardReceives(dsc, Len(arrived), Len(received))
    BY DEF ReceiveInv
  <1> QED
    BY <1>1, ReceivesSame

LEMMA StillSends ==
  ASSUME SendInv, UNCHANGED <<card, given, wire, most, tx>>, SameTx(dsc, dsc')
  PROVE  SendInv'
  <1>1. InTurn(given) /\ Len(given) - Len(wire) <= most
    BY DEF SendInv
  <1>2. ASSUME most < TxCount
        PROVE  InTurn(wire) /\ CardSends(dsc', Len(given), Len(wire), tx)
    BY <1>2, SendsSame DEF SendInv
  <1> QED
    BY <1>1, <1>2 DEF SendInv, CardSends


LEMMA NicStarts == NicInit => NicInv
  <1> SUFFICES ASSUME NicInit PROVE NicInv
    OBVIOUS
  <1>1. given = <<>> /\ wire = <<>> /\ arrived = <<>> /\ received = <<>> /\ most = 0
        /\ tx = "idle" /\ harmed = FALSE
    BY DEF NicInit
  <1>2. Len(given) = 0 /\ Len(wire) = 0 /\ Len(arrived) = 0 /\ Len(received) = 0
        /\ given \in Seq(Nat)
    BY <1>1
  <1>3. InTurn(given) /\ InTurn(wire) /\ InTurn(arrived) /\ InTurn(received)
    BY <1>1, <1>2 DEF InTurn
  <1>4. TxCount \in Nat \ {0} /\ RxCount \in Nat /\ RxCount > 1
    BY TxPositive
  <1>5. 0 \in TxPlaces /\ 0 \in RxPlaces /\ TxCount - 1 \in TxPlaces /\ RxCount - 1 \in RxPlaces
    BY <1>4 DEF TxPlaces, RxPlaces
  <1>6. 0 % TxCount = 0 /\ (0 + TxCount - 1) % TxCount = TxCount - 1
    <2>1. 0 \in 0 .. TxCount - 1 /\ TxCount - 1 \in 0 .. TxCount - 1 /\ 0 + TxCount - 1 = TxCount - 1
      BY <1>4
    <2> QED
      BY <1>4, <2>1, SmallPlace
  <1>7. 0 % RxCount = 0 /\ (0 + RxCount - 1) % RxCount = RxCount - 1
    <2>1. 0 \in 0 .. RxCount - 1 /\ RxCount - 1 \in 0 .. RxCount - 1 /\ 0 + RxCount - 1 = RxCount - 1
      BY <1>4
    <2> QED
      BY <1>4, <2>1, SmallPlace
  <1>8. Bufs(TxCount) \in [TxPlaces -> Nat] /\ Bufs(RxCount) \in [RxPlaces -> Nat]
    BY DEF Bufs, TxPlaces, RxPlaces, Empty
  <1>9. Filled(tx) = 0 /\ TxCount > 0
    BY <1>1, <1>4 DEF Filled
  <1>10. CASE card = "PCNET" /\ dsc = PcnetInit
    <2>1. dsc \in PcnetDsc
      BY <1>5, <1>8, <1>10 DEF PcnetDsc, PcnetInit, TxPlaces, RxPlaces
    <2>2. PcnetSends(dsc, 0, 0, 0)
      <3>1. ASSUME NEW j \in 0 .. 0 + TxCount - 1
            PROVE  ~dsc.txCards[j % TxCount]
        <4>1. j \in Nat /\ j % TxCount \in TxPlaces
          BY <1>4, PlaceInTx
        <4>2. dsc.txCards = [i \in TxPlaces |-> FALSE]
          BY <1>10 DEF PcnetInit, TxPlaces
        <4> QED
          BY <4>1, <4>2
      <3>2. \A j \in 0 .. 0 + TxCount - 1 : dsc.txCards[j % TxCount] <=> j < 0 - 0
        BY <3>1
      <3>3. dsc.txId = 0 /\ dsc.txNext = 0
        BY <1>10 DEF PcnetInit
      <3>4. Waits(dsc, 0, 0)
        BY DEF Waits
      <3>5. 0 - 0 = 0 /\ 0 + 0 <= 0
        OBVIOUS
      <3> QED
        BY <3>2, <3>3, <3>4, <3>5, <1>6 DEF PcnetSends
    <2>3. PcnetReceives(dsc, 0, 0)
      <3>1. ASSUME NEW j \in 0 .. 0 + RxCount - 1
            PROVE  dsc.rxCards[j % RxCount] /\ j >= 0
        <4>1. j \in Nat /\ j % RxCount \in RxPlaces
          BY <1>4, PlaceInRx
        <4>2. dsc.rxCards = [i \in RxPlaces |-> TRUE]
          BY <1>10 DEF PcnetInit, RxPlaces
        <4> QED
          BY <4>1, <4>2
      <3>2. \A j \in 0 .. 0 + RxCount - 1 : dsc.rxCards[j % RxCount] <=> j >= 0
        BY <3>1
      <3>3. dsc.rxId = 0 /\ dsc.rxNext = 0
        BY <1>10 DEF PcnetInit
      <3>4. Holds(dsc, 0, 0)
        BY DEF Holds
      <3>5. 0 <= 0 /\ 0 <= 0 + RxCount
        BY <1>4
      <3> QED
        BY <3>2, <3>3, <3>4, <3>5, <1>7 DEF PcnetReceives
    <2> QED
      BY <1>1, <1>2, <1>3, <1>9, <1>10, <2>1, <2>2, <2>3
      DEF NicInv, NicTypes, CardTypes, DscIs, SendInv, ReceiveInv, CardSends, CardReceives
  <1>11. CASE card = "E1000" /\ dsc = E1000Init
    <2>1. dsc \in E1000Dsc
      BY <1>5, <1>8, <1>11 DEF E1000Dsc, E1000Init, TxPlaces, RxPlaces
    <2>2. E1000Sends(dsc, 0, 0, 0)
      <3>1. dsc.txId = TxCount - 1 /\ dsc.txNext = 0 /\ dsc.tail = 0
        BY <1>11 DEF E1000Init
      <3>2. Waits(dsc, 0, 0)
        BY DEF Waits
      <3>3. 0 - 0 = 0 /\ 0 + 0 <= 0
        OBVIOUS
      <3> QED
        BY <3>1, <3>2, <3>3, <1>6 DEF E1000Sends
    <2>3. E1000Receives(dsc, 0, 0)
      <3>1. ASSUME NEW j \in 0 .. 0 + RxCount - 1
            PROVE  ~dsc.done[j % RxCount] /\ ~(j < 0)
        <4>1. j \in Nat /\ j % RxCount \in RxPlaces
          BY <1>4, PlaceInRx
        <4>2. dsc.done = [i \in RxPlaces |-> FALSE]
          BY <1>11 DEF E1000Init, RxPlaces
        <4> QED
          BY <4>1, <4>2
      <3>2. \A j \in 0 .. 0 + RxCount - 1 : dsc.done[j % RxCount] <=> j < 0
        BY <3>1
      <3>3. dsc.rxId = 0 /\ dsc.rxNext = 0 /\ dsc.rxTail = RxCount - 1
        BY <1>11 DEF E1000Init
      <3>4. Holds(dsc, 0, 0)
        BY DEF Holds
      <3>5. 0 <= 0 /\ 0 <= 0 + RxCount - 1
        BY <1>4
      <3> QED
        BY <3>2, <3>3, <3>4, <3>5, <1>7 DEF E1000Receives
    <2> QED
      BY <1>1, <1>2, <1>3, <1>9, <1>11, <2>1, <2>2, <2>3
      DEF NicInv, NicTypes, CardTypes, DscIs, SendInv, ReceiveInv, CardSends, CardReceives
  <1>12. CASE card = "RTL8139" /\ dsc = Rtl8139Init
    <2>1. /\ dsc.txId = TxCount - 1 /\ dsc.txNext = 0 /\ dsc.sending = FALSE
          /\ dsc.capr = Wrap - RingPad /\ dsc.cba = 0 /\ dsc.copy = <<0, 0>>
      BY <1>12 DEF Rtl8139Init
    <2>2. At(dsc) = 0
      <3>1. Wrap - RingPad + RingPad = 0 + Wrap
        BY RingIs
      <3>2. (0 + Wrap) % Wrap = 0 % Wrap /\ 0 % Wrap = 0
        <4>1. 0 \in 0 .. Wrap - 1
          BY RingIs
        <4> QED
          BY <4>1, RingIs, RoundAgain, SmallPlace
      <3> QED
        BY <2>1, <3>1, <3>2 DEF At
    <2>3. 0 % RingLen = 0 /\ 0 \in 0 .. RingLen - 1
      <3>1. 0 \in 0 .. RingLen - 1
        BY RingIs
      <3> QED
        BY <3>1, RingIs, SmallPlace
    <2>4. dsc \in Rtl8139Dsc
      <3>1. [i \in 0 .. RingLen + LastSize - 1 |-> <<Empty, 0, TRUE>>] \in
              [0 .. RingLen + LastSize - 1 -> Nat \X Nat \X BOOLEAN]
        BY DEF Empty
      <3>2. Wrap - RingPad \in 0 .. Wrap
        BY RingIs
      <3> QED
        BY <1>5, <1>8, <1>12, <2>3, <3>1, <3>2 DEF Rtl8139Dsc, Rtl8139Init
    <2>5. Rtl8139Sends(dsc, 0, 0, "idle")
      <3>1. Waits(dsc, 0, 0)
        BY DEF Waits
      <3>2. ~dsc.sending
        BY <2>1
      <3> QED
        BY <3>1, <3>2, <2>1, <1>6 DEF Rtl8139Sends
    <2>6. Rtl8139Receives(dsc, 0, 0)
      <3> DEFINE at == [i \in Nat |-> 0]
                 num == [i \in Nat |-> 1]
                 good == [i \in Nat |-> TRUE]
      <3>1. at \in [Nat -> Nat] /\ num \in [Nat -> Nat] /\ good \in [Nat -> BOOLEAN]
            /\ at[0] = 0 /\ num[0] = 1
        OBVIOUS
      <3> HIDE DEF at, num, good
      <3>2. Laid(dsc, at, num, good, 0, 0, 0, 0)
        <4>1. \A i \in 0 .. 0 : i = 0
          OBVIOUS
        <4>2. 0 .. 0 - 1 = {}
          OBVIOUS
        <4>3. at[0] <= at[0] /\ num[0] <= num[0] /\ at[0] < at[0] + RingLen /\ 0 <= 0
          BY <3>1, RingIs
        <4>4. 0 + 1 = 1
          OBVIOUS
        <4> QED
          BY <3>1, <4>1, <4>2, <4>3, <4>4, <2>1, <2>2, <2>3 DEF Laid
      <3>3. CopyWaits(dsc, 0)
        BY <2>1 DEF CopyWaits
      <3>4. 0 \in Nat
        OBVIOUS
      <3> QED
        BY <3>1, <3>2, <3>3, <3>4 DEF Rtl8139Receives
    <2>7. tx = "idle"
      BY <1>1
    <2> QED
      BY <1>1, <1>2, <1>3, <1>12, <2>2, <2>3, <2>4, <2>5, <2>6
      DEF NicInv, NicTypes, CardTypes, DscIs, SendInv, ReceiveInv, CardSends, CardReceives
  <1> QED
    BY <1>10, <1>11, <1>12 DEF NicInit


-----------------------------------------------------------------------------
(* The steps of the two directions. *)
LEMMA SendAfter ==
  ASSUME card' = card, InTurn(given'), Len(given') - Len(wire') <= most',
         most' < TxCount => InTurn(wire') /\ CardSends(dsc', Len(given'), Len(wire'), tx')
  PROVE  SendInv'
  BY DEF SendInv, CardSends

LEMMA ReceiveAfter ==
  ASSUME card' = card,
         ~harmed' =>
           /\ InTurn(arrived') /\ InTurn(received')
           /\ CardReceives(dsc', Len(arrived'), Len(received'))
  PROVE  ReceiveInv'
  BY DEF ReceiveInv, CardReceives

LEMMA PcnetFilled ==
  ASSUME NEW d \in PcnetDsc, NEW n \in TxPlaces, NEW v \in Nat, NEW e,
         e = [d EXCEPT !.txId = n, !.txBuf[n] = v], card = "PCNET"
  PROVE  e \in PcnetDsc /\ SameRx(d, e)
  <1>1. e \in PcnetDsc
    BY DEF PcnetDsc
  <1>2. e.rxId = d.rxId /\ e.rxNext = d.rxNext /\ e.rxBuf = d.rxBuf /\ e.rxCards = d.rxCards
    BY DEF PcnetDsc
  <1> QED
    BY <1>1, <1>2 DEF SameRx

LEMMA E1000Filled ==
  ASSUME NEW d \in E1000Dsc, NEW n \in TxPlaces, NEW v \in Nat, NEW e,
         e = [d EXCEPT !.txId = n, !.txBuf[n] = v], card = "E1000"
  PROVE  e \in E1000Dsc /\ SameRx(d, e)
  <1>1. e \in E1000Dsc
    BY DEF E1000Dsc
  <1>2. /\ e.rxId = d.rxId /\ e.rxNext = d.rxNext /\ e.rxTail = d.rxTail
        /\ e.rxBuf = d.rxBuf /\ e.done = d.done
    BY DEF E1000Dsc
  <1> QED
    BY <1>1, <1>2 DEF SameRx

LEMMA Rtl8139Filled ==
  ASSUME NEW d \in Rtl8139Dsc, NEW n \in TxPlaces, NEW v \in Nat, NEW e,
         e = [d EXCEPT !.txId = n, !.txBuf[n] = v], card = "RTL8139"
  PROVE  e \in Rtl8139Dsc /\ SameRx(d, e)
  <1>1. e \in Rtl8139Dsc
    BY DEF Rtl8139Dsc
  <1>2. e.capr = d.capr /\ e.cba = d.cba /\ e.ring = d.ring /\ e.copy = d.copy
    BY DEF Rtl8139Dsc
  <1> QED
    BY <1>1, <1>2 DEF SameRx

LEMMA SameAt ==
  ASSUME NEW d, NEW e, SameRx(d, e), card = "RTL8139"
  PROVE  At(e) = At(d)
  BY DEF SameRx, At

(* A step of the sending direction, and one of the receiving.                *)
LEMMA SendingStep ==
  ASSUME NicInv, UNCHANGED <<card, arrived, received, harmed>>,
         DscIs(dsc'), SameRx(dsc, dsc'),
         given' \in Seq(Nat), wire' \in Seq(Nat), most' \in Nat,
         tx' \in {"idle", "filled", "started"}, tx' = "started" => card = "RTL8139",
         InTurn(given'), Len(given') - Len(wire') <= most',
         most' < TxCount => InTurn(wire') /\ CardSends(dsc', Len(given'), Len(wire'), tx')
  PROVE  NicInv'
  <1>1. CardTypes'
    BY DEF CardTypes, DscIs
  <1>2. NicTypes'
    BY <1>1 DEF NicInv, NicTypes
  <1>3. SendInv'
    BY SendAfter
  <1>4. ReceiveInv'
    BY StillReceives DEF NicInv
  <1> QED
    BY <1>2, <1>3, <1>4 DEF NicInv

LEMMA ReceivingStep ==
  ASSUME NicInv, UNCHANGED <<card, given, wire, most, tx>>,
         DscIs(dsc'), SameTx(dsc, dsc'), arrived' \in Seq(Nat), received' \in Seq(Nat),
         ~harmed' =>
           /\ InTurn(arrived') /\ InTurn(received')
           /\ CardReceives(dsc', Len(arrived'), Len(received'))
  PROVE  NicInv'
  <1>1. CardTypes'
    BY DEF NicInv, NicTypes, CardTypes, DscIs
  <1>2. NicTypes'
    BY <1>1 DEF NicInv, NicTypes
  <1>3. SendInv'
    BY StillSends DEF NicInv
  <1>4. ReceiveInv'
    BY ReceiveAfter
  <1> QED
    BY <1>2, <1>3, <1>4 DEF NicInv

LEMMA FlagSet ==
  ASSUME NEW S, NEW F \in [S -> BOOLEAN], NEW x, NEW b \in BOOLEAN
  PROVE  [F EXCEPT ![x] = b] \in [S -> BOOLEAN]
  OBVIOUS


LEMMA FillKeeps ==
  ASSUME NicInv, Fill
  PROVE  NicInv'
  <1>1. /\ NicTypes /\ given \in Seq(Nat) /\ wire \in Seq(Nat) /\ most \in Nat
        /\ InTurn(given) /\ Len(given) - Len(wire) <= most
    BY DEF NicInv, NicTypes, SendInv
  <1>2. PICK g \in Nat, w \in Nat : g = Len(given) /\ w = Len(wire)
    BY <1>1, LenProperties
  <1>3. PICK n : n = next_tx_buffer
    OBVIOUS
  <1>4. /\ tx = "idle" /\ tx' = "filled" /\ given' = Append(given, g + 1)
        /\ most' = Larger(most, g + 1 - w)
        /\ dsc' = [dsc EXCEPT !.txId = n, !.txBuf[n] = g + 1]
        /\ UNCHANGED <<card, wire, arrived, received, harmed>>
    BY <1>2, <1>3 DEF Fill
  <1>5. given' \in Seq(Nat) /\ Len(given') = g + 1 /\ InTurn(given')
    <2>1. g + 1 \in Nat
      OBVIOUS
    <2> QED
      BY <2>1, <1>1, <1>2, <1>4, OneMore
  <1>6. most' \in Nat /\ g + 1 - w <= most' /\ most <= most'
    BY <1>1, <1>2, <1>4 DEF Larger
  <1>7. most' < TxCount =>
          g + 1 - w < TxCount /\ InTurn(wire) /\ CardSends(dsc, g, w, "idle")
    BY <1>1, <1>2, <1>4, <1>6, TxPositive DEF NicInv, SendInv
  <1>8. Filled("idle") = 0 /\ Filled("filled") = 1 /\ g + 1 \in Nat
    BY DEF Filled
  <1>9. /\ DscIs(dsc')
        /\ SameRx(dsc, dsc')
        /\ most' < TxCount => CardSends(dsc', g + 1, w, "filled")
    <2>1. CASE card = "PCNET"
      <3>1. dsc \in PcnetDsc /\ n = dsc.txId
        BY <1>3, <2>1 DEF NicInv, NicTypes, CardTypes, DscIs, next_tx_buffer
      <3>2. n \in TxPlaces
        BY <3>1 DEF PcnetDsc
      <3>3. dsc' \in PcnetDsc /\ SameRx(dsc, dsc')
        BY <1>4, <1>8, <2>1, <3>1, <3>2, PcnetFilled
      <3>4. ASSUME most' < TxCount PROVE PcnetSends(dsc', g + 1, w, 1)
        <4>1. PcnetSends(dsc, g, w, 0) /\ g + 1 - w < TxCount
          BY <3>4, <1>7, <1>8, <2>1 DEF CardSends
        <4>2. dsc' = [dsc EXCEPT !.txId = dsc.txId, !.txBuf[dsc.txId] = g + 1]
          BY <1>4, <3>1
        <4> QED
          BY <4>1, <4>2, <3>1, PcnetFills
      <3>5. DscIs(dsc')
        BY <2>1, <3>3 DEF DscIs
      <3>6. ASSUME most' < TxCount PROVE CardSends(dsc', g + 1, w, "filled")
        BY <3>4, <3>6, <2>1, <1>8 DEF CardSends
      <3> QED
        BY <3>3, <3>5, <3>6
    <2>2. CASE card = "E1000"
      <3>1. dsc \in E1000Dsc /\ n = (dsc.txId + 1) % TxCount
        BY <1>3, <2>2 DEF NicInv, NicTypes, CardTypes, DscIs, next_tx_buffer
      <3>2. n \in TxPlaces
        <4>1. dsc.txId + 1 \in Nat
          BY <3>1, TxPositive DEF E1000Dsc, TxPlaces
        <4> QED
          BY <3>1, <4>1, PlaceInTx
      <3>3. dsc' \in E1000Dsc /\ SameRx(dsc, dsc')
        BY <1>4, <1>8, <2>2, <3>1, <3>2, E1000Filled
      <3>4. ASSUME most' < TxCount PROVE E1000Sends(dsc', g + 1, w, 1)
        <4>1. E1000Sends(dsc, g, w, 0) /\ g + 1 - w < TxCount
          BY <3>4, <1>7, <1>8, <2>2 DEF CardSends
        <4> QED
          BY <4>1, <1>4, <3>1, E1000Fills
      <3>5. DscIs(dsc')
        BY <2>2, <3>3 DEF DscIs
      <3>6. ASSUME most' < TxCount PROVE CardSends(dsc', g + 1, w, "filled")
        BY <3>4, <3>6, <2>2, <1>8 DEF CardSends
      <3> QED
        BY <3>3, <3>5, <3>6
    <2>3. CASE card = "RTL8139"
      <3>1. dsc \in Rtl8139Dsc /\ n = (dsc.txId + 1) % TxCount /\ At(dsc) \in 0 .. RingLen - 1
        BY <1>3, <2>3 DEF NicInv, NicTypes, CardTypes, DscIs, next_tx_buffer
      <3>2. n \in TxPlaces
        <4>1. dsc.txId + 1 \in Nat
          BY <3>1, TxPositive DEF Rtl8139Dsc, TxPlaces
        <4> QED
          BY <3>1, <4>1, PlaceInTx
      <3>3. dsc' \in Rtl8139Dsc /\ SameRx(dsc, dsc')
        BY <1>4, <1>8, <2>3, <3>1, <3>2, Rtl8139Filled
      <3>4. ASSUME most' < TxCount PROVE Rtl8139Sends(dsc', g + 1, w, "filled")
        <4>1. Rtl8139Sends(dsc, g, w, "idle") /\ g + 1 - w < TxCount
          BY <3>4, <1>7, <2>3 DEF CardSends
        <4> QED
          BY <4>1, <1>4, <3>1, Rtl8139Fills
      <3>5. DscIs(dsc')
        BY <2>3, <3>1, <3>3, SameAt DEF DscIs
      <3>6. ASSUME most' < TxCount PROVE CardSends(dsc', g + 1, w, "filled")
        BY <3>4, <3>6, <2>3 DEF CardSends
      <3> QED
        BY <3>3, <3>5, <3>6
    <2> QED
      BY <2>1, <2>2, <2>3 DEF NicInv, NicTypes, CardTypes, DscIs
  <1> QED
    BY <1>1, <1>2, <1>4, <1>5, <1>6, <1>7, <1>9, SendingStep


LEMMA PcnetGiven ==
  ASSUME NEW d \in PcnetDsc, NEW e, card = "PCNET",
         e = [d EXCEPT !.txCards[d.txId] = TRUE, !.txId = (@ + 1) % TxCount]
  PROVE  e \in PcnetDsc /\ SameRx(d, e)
  <1>1. (d.txId + 1) % TxCount \in TxPlaces
    <2>1. d.txId + 1 \in Nat
      BY TxPositive DEF PcnetDsc, TxPlaces
    <2> QED
      BY <2>1, PlaceInTx
  <1>2. e = [d EXCEPT !.txCards[d.txId] = TRUE, !.txId = (d.txId + 1) % TxCount]
    BY DEF PcnetDsc
  <1>3. e \in PcnetDsc
    <2>1. [d.txCards EXCEPT ![d.txId] = TRUE] \in [TxPlaces -> BOOLEAN]
      BY FlagSet DEF PcnetDsc
    <2>2. PICK cards \in [TxPlaces -> BOOLEAN] : cards = [d.txCards EXCEPT ![d.txId] = TRUE]
      BY <2>1
    <2>3. e = [d EXCEPT !.txCards = cards, !.txId = (d.txId + 1) % TxCount]
      BY <1>2, <2>2 DEF PcnetDsc
    <2> QED
      BY <1>1, <2>3 DEF PcnetDsc
  <1>4. e.rxId = d.rxId /\ e.rxNext = d.rxNext /\ e.rxBuf = d.rxBuf /\ e.rxCards = d.rxCards
    BY <1>2 DEF PcnetDsc
  <1> QED
    BY <1>3, <1>4 DEF SameRx

LEMMA E1000Given ==
  ASSUME NEW d \in E1000Dsc, NEW e, card = "E1000", e = [d EXCEPT !.tail = TxTail(d.txId)]
  PROVE  e \in E1000Dsc /\ SameRx(d, e)
  <1>1. TxTail(d.txId) \in TxPlaces
    <2>1. d.txId + 1 \in Nat
      BY TxPositive DEF E1000Dsc, TxPlaces
    <2> QED
      BY <2>1, PlaceInTx DEF TxTail
  <1>2. e \in E1000Dsc
    BY <1>1 DEF E1000Dsc
  <1>3. /\ e.rxId = d.rxId /\ e.rxNext = d.rxNext /\ e.rxTail = d.rxTail
        /\ e.rxBuf = d.rxBuf /\ e.done = d.done
    BY DEF E1000Dsc
  <1> QED
    BY <1>2, <1>3 DEF SameRx

LEMMA Rtl8139Given ==
  ASSUME NEW d \in Rtl8139Dsc, NEW e, card = "RTL8139",
         e = [d EXCEPT !.sending = TRUE, !.txNext = d.txId]
  PROVE  e \in Rtl8139Dsc /\ SameRx(d, e)
  <1>1. e \in Rtl8139Dsc
    BY DEF Rtl8139Dsc
  <1>2. e.capr = d.capr /\ e.cba = d.cba /\ e.ring = d.ring /\ e.copy = d.copy
    BY DEF Rtl8139Dsc
  <1> QED
    BY <1>1, <1>2 DEF SameRx

LEMMA TransmitKeeps ==
  ASSUME NicInv, Transmit
  PROVE  NicInv'
  <1>1. /\ given \in Seq(Nat) /\ wire \in Seq(Nat) /\ most \in Nat
        /\ InTurn(given) /\ Len(given) - Len(wire) <= most
    BY DEF NicInv, NicTypes, SendInv
  <1>2. PICK g \in Nat, w \in Nat : g = Len(given) /\ w = Len(wire)
    BY <1>1, LenProperties
  <1>3. /\ tx = "filled" /\ UNCHANGED <<card, given, wire, most, arrived, received, harmed>>
    BY DEF Transmit
  <1>4. most < TxCount =>
          g - w < TxCount /\ InTurn(wire) /\ CardSends(dsc, g, w, "filled")
    BY <1>1, <1>2, <1>3, TxPositive DEF NicInv, SendInv
  <1>5. Filled("idle") = 0 /\ Filled("filled") = 1
    BY DEF Filled
  <1>6. /\ DscIs(dsc') /\ SameRx(dsc, dsc')
        /\ tx' \in {"idle", "filled", "started"} /\ (tx' = "started" => card = "RTL8139")
        /\ most < TxCount => CardSends(dsc', g, w, tx')
    <2>1. CASE card = "PCNET"
      <3>1. dsc \in PcnetDsc
        BY <2>1 DEF NicInv, NicTypes, CardTypes, DscIs
      <3>2. /\ dsc' = [dsc EXCEPT !.txCards[dsc.txId] = TRUE, !.txId = (@ + 1) % TxCount]
            /\ tx' = "idle"
        BY <2>1 DEF Transmit
      <3>3. dsc' \in PcnetDsc /\ SameRx(dsc, dsc')
        BY <2>1, <3>1, <3>2, PcnetGiven
      <3>4. ASSUME most < TxCount PROVE PcnetSends(dsc', g, w, 0)
        <4>1. PcnetSends(dsc, g, w, 1) /\ g - w < TxCount
          BY <3>4, <1>4, <1>5, <2>1 DEF CardSends
        <4> QED
          BY <4>1, <3>1, <3>2, PcnetTransmits
      <3>5. DscIs(dsc')
        BY <2>1, <3>3 DEF DscIs
      <3>6. ASSUME most < TxCount PROVE CardSends(dsc', g, w, "idle")
        BY <3>4, <3>6, <2>1, <1>5 DEF CardSends
      <3> QED
        BY <3>2, <3>3, <3>5, <3>6
    <2>2. CASE card = "E1000"
      <3>1. dsc \in E1000Dsc
        BY <2>2 DEF NicInv, NicTypes, CardTypes, DscIs
      <3>2. dsc' = [dsc EXCEPT !.tail = TxTail(dsc.txId)] /\ tx' = "idle"
        BY <2>2 DEF Transmit
      <3>3. dsc' \in E1000Dsc /\ SameRx(dsc, dsc')
        BY <2>2, <3>1, <3>2, E1000Given
      <3>4. ASSUME most < TxCount PROVE E1000Sends(dsc', g, w, 0)
        <4>1. E1000Sends(dsc, g, w, 1)
          BY <3>4, <1>4, <1>5, <2>2 DEF CardSends
        <4> QED
          BY <4>1, <3>1, <3>2, E1000Transmits
      <3>5. DscIs(dsc')
        BY <2>2, <3>3 DEF DscIs
      <3>6. ASSUME most < TxCount PROVE CardSends(dsc', g, w, "idle")
        BY <3>4, <3>6, <2>2, <1>5 DEF CardSends
      <3> QED
        BY <3>2, <3>3, <3>5, <3>6
    <2>3. CASE card = "RTL8139"
      <3>1. dsc \in Rtl8139Dsc /\ At(dsc) \in 0 .. RingLen - 1
        BY <2>3 DEF NicInv, NicTypes, CardTypes, DscIs
      <3>2. dsc' = [dsc EXCEPT !.sending = TRUE, !.txNext = dsc.txId] /\ tx' = "started"
        BY <2>3 DEF Transmit
      <3>3. dsc' \in Rtl8139Dsc /\ SameRx(dsc, dsc')
        BY <2>3, <3>1, <3>2, Rtl8139Given
      <3>4. ASSUME most < TxCount PROVE Rtl8139Sends(dsc', g, w, "started")
        <4>1. Rtl8139Sends(dsc, g, w, "filled")
          BY <3>4, <1>4, <2>3 DEF CardSends
        <4> QED
          BY <4>1, <3>1, <3>2, Rtl8139Transmits
      <3>5. DscIs(dsc')
        BY <2>3, <3>1, <3>3, SameAt DEF DscIs
      <3>6. ASSUME most < TxCount PROVE CardSends(dsc', g, w, "started")
        BY <3>4, <3>6, <2>3 DEF CardSends
      <3> QED
        BY <2>3, <3>2, <3>3, <3>5, <3>6
    <2> QED
      BY <2>1, <2>2, <2>3 DEF NicInv, NicTypes, CardTypes, DscIs
  <1> QED
    BY <1>1, <1>2, <1>3, <1>4, <1>6, SendingStep

LEMMA TransmittedKeeps ==
  ASSUME NicInv, Transmitted
  PROVE  NicInv'
  <1>1. /\ tx = "started" /\ ~dsc.sending /\ tx' = "idle"
        /\ UNCHANGED <<card, given, wire, most, arrived, received, dsc, harmed>>
    BY DEF Transmitted
  <1>2. /\ card = "RTL8139" /\ given \in Seq(Nat) /\ wire \in Seq(Nat) /\ most \in Nat
        /\ InTurn(given) /\ Len(given) - Len(wire) <= most /\ DscIs(dsc')
    BY <1>1 DEF NicInv, NicTypes, CardTypes, SendInv, DscIs
  <1>3. SameRx(dsc, dsc')
    BY <1>1 DEF SameRx
  <1>4. ASSUME most < TxCount
        PROVE  InTurn(wire) /\ CardSends(dsc', Len(given), Len(wire), "idle")
    <2>1. InTurn(wire) /\ Rtl8139Sends(dsc, Len(given), Len(wire), "started")
      BY <1>1, <1>2, <1>4 DEF NicInv, SendInv, CardSends
    <2>2. Rtl8139Sends(dsc, Len(given), Len(wire), "idle")
      BY <2>1, <1>1 DEF Rtl8139Sends
    <2> QED
      BY <2>1, <2>2, <1>1, <1>2 DEF CardSends
  <1> QED
    BY <1>1, <1>2, <1>3, <1>4, SendingStep


LEMMA PcnetSent ==
  ASSUME NEW d \in PcnetDsc, NEW e, card = "PCNET", PcnetGives(d, e)
  PROVE  e \in PcnetDsc /\ SameRx(d, e) /\ d.txBuf[d.txNext] \in Nat
  <1>1. (d.txNext + 1) % TxCount \in TxPlaces
    <2>1. d.txNext + 1 \in Nat
      BY TxPositive DEF PcnetDsc, TxPlaces
    <2> QED
      BY <2>1, PlaceInTx
  <1>2. e = [d EXCEPT !.txCards[d.txNext] = FALSE, !.txNext = (d.txNext + 1) % TxCount]
    BY DEF PcnetDsc, PcnetGives
  <1>3. e \in PcnetDsc
    <2>1. [d.txCards EXCEPT ![d.txNext] = FALSE] \in [TxPlaces -> BOOLEAN]
      BY FlagSet DEF PcnetDsc
    <2>2. PICK cards \in [TxPlaces -> BOOLEAN] : cards = [d.txCards EXCEPT ![d.txNext] = FALSE]
      BY <2>1
    <2>3. e = [d EXCEPT !.txCards = cards, !.txNext = (d.txNext + 1) % TxCount]
      BY <1>2, <2>2 DEF PcnetDsc
    <2> QED
      BY <1>1, <2>3 DEF PcnetDsc
  <1>4. e.rxId = d.rxId /\ e.rxNext = d.rxNext /\ e.rxBuf = d.rxBuf /\ e.rxCards = d.rxCards
    BY <1>2 DEF PcnetDsc
  <1>5. d.txBuf[d.txNext] \in Nat
    BY DEF PcnetDsc
  <1> QED
    BY <1>3, <1>4, <1>5 DEF SameRx

LEMMA E1000Sent ==
  ASSUME NEW d \in E1000Dsc, NEW e, card = "E1000",
         e = [d EXCEPT !.txNext = (@ + 1) % TxCount]
  PROVE  e \in E1000Dsc /\ SameRx(d, e) /\ d.txBuf[d.txNext] \in Nat
  <1>1. (d.txNext + 1) % TxCount \in TxPlaces
    <2>1. d.txNext + 1 \in Nat
      BY TxPositive DEF E1000Dsc, TxPlaces
    <2> QED
      BY <2>1, PlaceInTx
  <1>2. e = [d EXCEPT !.txNext = (d.txNext + 1) % TxCount]
    BY DEF E1000Dsc
  <1>3. e \in E1000Dsc
    BY <1>1, <1>2 DEF E1000Dsc
  <1>4. /\ e.rxId = d.rxId /\ e.rxNext = d.rxNext /\ e.rxTail = d.rxTail
        /\ e.rxBuf = d.rxBuf /\ e.done = d.done
    BY <1>2 DEF E1000Dsc
  <1>5. d.txBuf[d.txNext] \in Nat
    BY DEF E1000Dsc
  <1> QED
    BY <1>3, <1>4, <1>5 DEF SameRx

LEMMA Rtl8139Sent ==
  ASSUME NEW d \in Rtl8139Dsc, NEW e, card = "RTL8139", e = [d EXCEPT !.sending = FALSE]
  PROVE  e \in Rtl8139Dsc /\ SameRx(d, e) /\ d.txBuf[d.txNext] \in Nat
  <1>1. e \in Rtl8139Dsc
    BY DEF Rtl8139Dsc
  <1>2. e.capr = d.capr /\ e.cba = d.cba /\ e.ring = d.ring /\ e.copy = d.copy
    BY DEF Rtl8139Dsc
  <1>3. d.txBuf[d.txNext] \in Nat
    BY DEF Rtl8139Dsc
  <1> QED
    BY <1>1, <1>2, <1>3 DEF SameRx

LEMMA SendKeeps ==
  ASSUME NicInv, Send
  PROVE  NicInv'
  <1>1. /\ given \in Seq(Nat) /\ wire \in Seq(Nat) /\ most \in Nat
        /\ InTurn(given) /\ Len(given) - Len(wire) <= most
        /\ tx \in {"idle", "filled", "started"} /\ (tx = "started" => card = "RTL8139")
    BY DEF NicInv, NicTypes, CardTypes, SendInv
  <1>2. PICK g \in Nat, w \in Nat : g = Len(given) /\ w = Len(wire)
    BY <1>1, LenProperties
  <1>3. PICK v : v = dsc.txBuf[dsc.txNext]
    OBVIOUS
  <1>4. /\ wire' = Append(wire, v)
        /\ UNCHANGED <<card, given, most, arrived, received, harmed, tx>>
    BY <1>3 DEF Send
  <1>5. most < TxCount =>
          g - w < TxCount /\ InTurn(wire) /\ CardSends(dsc, g, w, tx)
    BY <1>1, <1>2, TxPositive DEF NicInv, SendInv
  <1>6. Filled(tx) \in {0, 1}
    BY DEF Filled
  <1>7. /\ DscIs(dsc') /\ SameRx(dsc, dsc') /\ v \in Nat
        /\ most < TxCount => v = w + 1 /\ CardSends(dsc', g, w + 1, tx)
    <2>1. CASE card = "PCNET"
      <3>1. dsc \in PcnetDsc
        BY <2>1 DEF NicInv, NicTypes, CardTypes, DscIs
      <3>2. PcnetGives(dsc, dsc')
        BY <2>1, Zenon DEF Send, PcnetGives
      <3>3. dsc' \in PcnetDsc /\ SameRx(dsc, dsc') /\ v \in Nat
        BY <1>3, <2>1, <3>1, <3>2, PcnetSent
      <3>4. ASSUME most < TxCount PROVE v = w + 1 /\ PcnetSends(dsc', g, w + 1, Filled(tx))
        <4>1. PcnetSends(dsc, g, w, Filled(tx)) /\ g - w < TxCount
          BY <3>4, <1>5, <2>1 DEF CardSends
        <4>2. PICK f \in {0, 1} : f = Filled(tx)
          BY <1>6
        <4> QED
          BY <4>1, <4>2, <1>3, <3>1, <3>2, PcnetSendsOne
      <3>5. DscIs(dsc')
        BY <2>1, <3>3 DEF DscIs
      <3>6. ASSUME most < TxCount PROVE v = w + 1 /\ CardSends(dsc', g, w + 1, tx)
        BY <3>4, <3>6, <2>1 DEF CardSends
      <3> QED
        BY <3>3, <3>5, <3>6
    <2>2. CASE card = "E1000"
      <3>1. dsc \in E1000Dsc
        BY <2>2 DEF NicInv, NicTypes, CardTypes, DscIs
      <3>2. dsc.txNext # dsc.tail /\ dsc' = [dsc EXCEPT !.txNext = (@ + 1) % TxCount]
        BY <2>2 DEF Send
      <3>3. dsc' \in E1000Dsc /\ SameRx(dsc, dsc') /\ v \in Nat
        BY <1>3, <2>2, <3>1, <3>2, E1000Sent
      <3>4. ASSUME most < TxCount PROVE v = w + 1 /\ E1000Sends(dsc', g, w + 1, Filled(tx))
        <4>1. E1000Sends(dsc, g, w, Filled(tx))
          BY <3>4, <1>5, <2>2 DEF CardSends
        <4> QED
          BY <4>1, <1>3, <1>6, <3>1, <3>2, E1000SendsOne
      <3>5. DscIs(dsc')
        BY <2>2, <3>3 DEF DscIs
      <3>6. ASSUME most < TxCount PROVE v = w + 1 /\ CardSends(dsc', g, w + 1, tx)
        BY <3>4, <3>6, <2>2 DEF CardSends
      <3> QED
        BY <3>3, <3>5, <3>6
    <2>3. CASE card = "RTL8139"
      <3>1. dsc \in Rtl8139Dsc /\ At(dsc) \in 0 .. RingLen - 1
        BY <2>3 DEF NicInv, NicTypes, CardTypes, DscIs
      <3>2. dsc.sending /\ dsc' = [dsc EXCEPT !.sending = FALSE]
        BY <2>3 DEF Send
      <3>3. dsc' \in Rtl8139Dsc /\ SameRx(dsc, dsc') /\ v \in Nat
        BY <1>3, <2>3, <3>1, <3>2, Rtl8139Sent
      <3>4. ASSUME most < TxCount PROVE v = w + 1 /\ Rtl8139Sends(dsc', g, w + 1, tx)
        <4>1. Rtl8139Sends(dsc, g, w, tx)
          BY <3>4, <1>5, <2>3 DEF CardSends
        <4> QED
          BY <4>1, <1>3, <3>1, <3>2, Rtl8139SendsOne
      <3>5. DscIs(dsc')
        BY <2>3, <3>1, <3>3, SameAt DEF DscIs
      <3>6. ASSUME most < TxCount PROVE v = w + 1 /\ CardSends(dsc', g, w + 1, tx)
        BY <3>4, <3>6, <2>3 DEF CardSends
      <3> QED
        BY <3>3, <3>5, <3>6
    <2> QED
      BY <2>1, <2>2, <2>3 DEF NicInv, NicTypes, CardTypes, DscIs
  <1>8. /\ wire' \in Seq(Nat) /\ Len(wire') = w + 1
        /\ InTurn(wire) /\ v = w + 1 => InTurn(wire')
    BY <1>1, <1>2, <1>4, <1>7, OneMore
  <1>9. Len(given') - Len(wire') <= most'
    BY <1>1, <1>2, <1>4, <1>8
  <1>10. most' < TxCount => InTurn(wire') /\ CardSends(dsc', Len(given'), Len(wire'), tx')
    BY <1>2, <1>4, <1>5, <1>7, <1>8
  <1> QED
    BY <1>1, <1>4, <1>7, <1>8, <1>9, <1>10, SendingStep


-----------------------------------------------------------------------------
LEMMA PcnetTook ==
  ASSUME NEW d \in PcnetDsc, NEW e, card = "PCNET", NEW v \in Nat, PcnetFillsIn(d, e, v)
  PROVE  e \in PcnetDsc /\ SameTx(d, e)
  <1>1. (d.rxNext + 1) % RxCount \in RxPlaces
    <2>1. d.rxNext + 1 \in Nat
      BY TxPositive DEF PcnetDsc, RxPlaces
    <2> QED
      BY <2>1, PlaceInRx
  <1>2. [d.rxCards EXCEPT ![d.rxNext] = FALSE] \in [RxPlaces -> BOOLEAN]
    BY FlagSet DEF PcnetDsc
  <1>3. PICK cards \in [RxPlaces -> BOOLEAN] : cards = [d.rxCards EXCEPT ![d.rxNext] = FALSE]
    BY <1>2
  <1>4. e = [d EXCEPT !.rxBuf[d.rxNext] = v, !.rxCards = cards,
                      !.rxNext = (d.rxNext + 1) % RxCount]
    BY <1>3 DEF PcnetDsc, PcnetFillsIn
  <1>5. e \in PcnetDsc
    BY <1>1, <1>4 DEF PcnetDsc
  <1>6. e.txId = d.txId /\ e.txNext = d.txNext /\ e.txBuf = d.txBuf /\ e.txCards = d.txCards
    BY <1>4 DEF PcnetDsc
  <1> QED
    BY <1>5, <1>6 DEF SameTx

LEMMA PcnetRead ==
  ASSUME NEW d \in PcnetDsc, NEW e, card = "PCNET", PcnetIsRead(d, e)
  PROVE  e \in PcnetDsc /\ SameTx(d, e) /\ d.rxBuf[d.rxId] \in Nat
  <1>1. (d.rxId + 1) % RxCount \in RxPlaces
    <2>1. d.rxId + 1 \in Nat
      BY TxPositive DEF PcnetDsc, RxPlaces
    <2> QED
      BY <2>1, PlaceInRx
  <1>2. [d.rxCards EXCEPT ![d.rxId] = TRUE] \in [RxPlaces -> BOOLEAN]
    BY FlagSet DEF PcnetDsc
  <1>3. PICK cards \in [RxPlaces -> BOOLEAN] : cards = [d.rxCards EXCEPT ![d.rxId] = TRUE]
    BY <1>2
  <1>4. e = [d EXCEPT !.rxCards = cards, !.rxId = (d.rxId + 1) % RxCount]
    BY <1>3 DEF PcnetDsc, PcnetIsRead
  <1>5. e \in PcnetDsc
    BY <1>1, <1>4 DEF PcnetDsc
  <1>6. e.txId = d.txId /\ e.txNext = d.txNext /\ e.txBuf = d.txBuf /\ e.txCards = d.txCards
    BY <1>4 DEF PcnetDsc
  <1>7. d.rxBuf[d.rxId] \in Nat
    BY DEF PcnetDsc
  <1> QED
    BY <1>5, <1>6, <1>7 DEF SameTx

LEMMA E1000Took ==
  ASSUME NEW d \in E1000Dsc, NEW e, card = "E1000", NEW v \in Nat, E1000FillsIn(d, e, v)
  PROVE  e \in E1000Dsc /\ SameTx(d, e)
  <1>1. (d.rxNext + 1) % RxCount \in RxPlaces
    <2>1. d.rxNext + 1 \in Nat
      BY TxPositive DEF E1000Dsc, RxPlaces
    <2> QED
      BY <2>1, PlaceInRx
  <1>2. [d.done EXCEPT ![d.rxNext] = TRUE] \in [RxPlaces -> BOOLEAN]
    BY FlagSet DEF E1000Dsc
  <1>3. PICK there \in [RxPlaces -> BOOLEAN] : there = [d.done EXCEPT ![d.rxNext] = TRUE]
    BY <1>2
  <1>4. e = [d EXCEPT !.rxBuf[d.rxNext] = v, !.done = there,
                      !.rxNext = (d.rxNext + 1) % RxCount]
    BY <1>3 DEF E1000Dsc, E1000FillsIn
  <1>5. e \in E1000Dsc
    BY <1>1, <1>4 DEF E1000Dsc
  <1>6. e.txId = d.txId /\ e.txNext = d.txNext /\ e.txBuf = d.txBuf /\ e.tail = d.tail
    BY <1>4 DEF E1000Dsc
  <1> QED
    BY <1>5, <1>6 DEF SameTx

LEMMA E1000Read ==
  ASSUME NEW d \in E1000Dsc, NEW e, card = "E1000", E1000IsRead(d, e)
  PROVE  e \in E1000Dsc /\ SameTx(d, e) /\ d.rxBuf[d.rxId] \in Nat
  <1>1. (d.rxId + 1) % RxCount \in RxPlaces
    <2>1. d.rxId + 1 \in Nat
      BY TxPositive DEF E1000Dsc, RxPlaces
    <2> QED
      BY <2>1, PlaceInRx
  <1>2. [d.done EXCEPT ![d.rxId] = FALSE] \in [RxPlaces -> BOOLEAN]
    BY FlagSet DEF E1000Dsc
  <1>3. PICK there \in [RxPlaces -> BOOLEAN] : there = [d.done EXCEPT ![d.rxId] = FALSE]
    BY <1>2
  <1>4. e = [d EXCEPT !.done = there, !.rxTail = d.rxId, !.rxId = (d.rxId + 1) % RxCount,
                      !.lsc = FALSE]
    BY <1>3 DEF E1000Dsc, E1000IsRead, RxTail
  <1>5. e \in E1000Dsc
    BY <1>1, <1>4 DEF E1000Dsc
  <1>6. e.txId = d.txId /\ e.txNext = d.txNext /\ e.txBuf = d.txBuf /\ e.tail = d.tail
    BY <1>4 DEF E1000Dsc
  <1>7. d.rxBuf[d.rxId] \in Nat
    BY DEF E1000Dsc
  <1> QED
    BY <1>5, <1>6, <1>7 DEF SameTx

LEMMA Rtl8139Took ==
  ASSUME dsc \in Rtl8139Dsc, NEW size \in PacketSizes, NEW v \in Nat, NEW ok \in BOOLEAN,
         NEW e, e = Written(size, v, ok), card = "RTL8139"
  PROVE  e \in Rtl8139Dsc /\ SameTx(dsc, e) /\ At(e) = At(dsc)
  <1>1. (dsc.cba + size) % RingLen \in 0 .. RingLen - 1
    <2>1. dsc.cba + size \in Nat
      BY RingIs DEF Rtl8139Dsc
    <2> QED
      BY <2>1, RingIs, PlaceAfter
  <1> DEFINE now == [i \in DOMAIN dsc.ring |-> IF i \in Taken(size) THEN <<v, size, ok>>
                                               ELSE dsc.ring[i]]
             f == IF ok THEN dsc.faults ELSE dsc.faults + 1
  <1>2. now \in [0 .. RingLen + LastSize - 1 -> Nat \X Nat \X BOOLEAN]
    <2>1. size \in Nat
      BY RingIs
    <2>2. <<v, size, ok>> \in Nat \X Nat \X BOOLEAN
      BY <2>1
    <2>3. dsc.ring \in [0 .. RingLen + LastSize - 1 -> Nat \X Nat \X BOOLEAN]
      BY DEF Rtl8139Dsc
    <2> QED
      BY <2>2, <2>3, Zenon
  <1>3. f \in Nat
    BY DEF Rtl8139Dsc
  <1>4. e = [dsc EXCEPT !.cba = (dsc.cba + size) % RingLen, !.faults = f, !.ring = now]
    BY DEF Rtl8139Dsc, Written
  <1> HIDE DEF now, f
  <1>5. e \in Rtl8139Dsc
    BY <1>1, <1>2, <1>3, <1>4 DEF Rtl8139Dsc
  <1>6. /\ e.txId = dsc.txId /\ e.txNext = dsc.txNext /\ e.txBuf = dsc.txBuf
        /\ e.sending = dsc.sending /\ e.capr = dsc.capr
    BY <1>4 DEF Rtl8139Dsc
  <1> QED
    BY <1>5, <1>6 DEF SameTx, At


LEMMA ArriveKeeps ==
  ASSUME NicInv, Arrive
  PROVE  NicInv'
  <1>1. arrived \in Seq(Nat) /\ received \in Seq(Nat)
    BY DEF NicInv, NicTypes
  <1>2. PICK a \in Nat, r \in Nat : a = Len(arrived) /\ r = Len(received)
    BY <1>1, LenProperties
  <1>3. UNCHANGED <<card, given, wire, most, received, tx>>
    BY DEF Arrive
  <1>4. ~harmed => InTurn(arrived) /\ InTurn(received) /\ CardReceives(dsc, a, r)
    BY <1>2 DEF NicInv, ReceiveInv
  <1>5. /\ Append(arrived, a + 1) \in Seq(Nat) /\ Len(Append(arrived, a + 1)) = a + 1
        /\ InTurn(arrived) => InTurn(Append(arrived, a + 1))
    <2>1. a + 1 \in Nat
      OBVIOUS
    <2> QED
      BY <2>1, <1>1, <1>2, OneMore
  <1>6. CASE card = "PCNET"
    <2>1. dsc \in PcnetDsc
      BY <1>6 DEF NicInv, NicTypes, CardTypes, DscIs
    <2>2. PcnetFillsIn(dsc, dsc', a + 1)
      BY <1>2, <1>6, Zenon DEF Arrive, PcnetFillsIn
    <2>3. arrived' = Append(arrived, a + 1) /\ harmed' = harmed
      BY <1>2, <1>6 DEF Arrive
    <2>4. dsc' \in PcnetDsc /\ SameTx(dsc, dsc')
      <3>1. a + 1 \in Nat
        OBVIOUS
      <3> QED
        BY <3>1, <1>6, <2>1, <2>2, PcnetTook
    <2>5. ASSUME ~harmed' PROVE PcnetReceives(dsc', a + 1, r)
      <3>1. PcnetReceives(dsc, a, r)
        BY <1>4, <1>6, <2>3, <2>5, Zenon DEF CardReceives
      <3> QED
        BY <3>1, <2>1, <2>2, PcnetTakes
    <2>6. DscIs(dsc')
      BY <1>6, <2>4 DEF DscIs
    <2>7. ASSUME ~harmed'
          PROVE  InTurn(arrived') /\ InTurn(received') /\ CardReceives(dsc', a + 1, r)
      BY <1>3, <1>4, <1>5, <1>6, <2>3, <2>5, <2>7, Zenon DEF CardReceives
    <2> QED
      BY <1>1, <1>2, <1>3, <1>5, <2>3, <2>4, <2>6, <2>7, ReceivingStep
  <1>7. CASE card = "E1000"
    <2>1. dsc \in E1000Dsc
      BY <1>7 DEF NicInv, NicTypes, CardTypes, DscIs
    <2>2. E1000FillsIn(dsc, dsc', a + 1)
      BY <1>2, <1>7, Zenon DEF Arrive, E1000FillsIn
    <2>3. arrived' = Append(arrived, a + 1) /\ harmed' = harmed
      BY <1>2, <1>7 DEF Arrive
    <2>4. dsc' \in E1000Dsc /\ SameTx(dsc, dsc')
      <3>1. a + 1 \in Nat
        OBVIOUS
      <3> QED
        BY <3>1, <1>7, <2>1, <2>2, E1000Took
    <2>5. ASSUME ~harmed' PROVE E1000Receives(dsc', a + 1, r)
      <3>1. E1000Receives(dsc, a, r)
        BY <1>4, <1>7, <2>3, <2>5, Zenon DEF CardReceives
      <3> QED
        BY <3>1, <2>1, <2>2, E1000Takes
    <2>6. DscIs(dsc')
      BY <1>7, <2>4 DEF DscIs
    <2>7. ASSUME ~harmed'
          PROVE  InTurn(arrived') /\ InTurn(received') /\ CardReceives(dsc', a + 1, r)
      BY <1>3, <1>4, <1>5, <1>7, <2>3, <2>5, <2>7, Zenon DEF CardReceives
    <2> QED
      BY <1>1, <1>2, <1>3, <1>5, <2>3, <2>4, <2>6, <2>7, ReceivingStep
  <1>8. CASE card = "RTL8139"
    <2>1. dsc \in Rtl8139Dsc /\ At(dsc) \in 0 .. RingLen - 1
      BY <1>8 DEF NicInv, NicTypes, CardTypes, DscIs
    <2>2. PICK size \in PacketSizes, ok \in BOOLEAN :
            /\ Used + size < RingLen
            /\ dsc' = Written(size, a + 1, ok)
            /\ arrived' = IF ok THEN Append(arrived, a + 1) ELSE arrived
            /\ harmed' = (harmed \/ Taken(size) \cap Copied # {})
      BY <1>2, <1>8, Zenon DEF Arrive
    <2>3. PICK b \in Nat : b = IF ok THEN a + 1 ELSE a
      OBVIOUS
    <2>4. dsc' \in Rtl8139Dsc /\ SameTx(dsc, dsc') /\ At(dsc') = At(dsc)
      <3>1. a + 1 \in Nat
        OBVIOUS
      <3> QED
        BY <3>1, <1>8, <2>1, <2>2, Rtl8139Took
    <2>5. /\ arrived' \in Seq(Nat) /\ Len(arrived') = b
          /\ InTurn(arrived) => InTurn(arrived')
      <3>1. CASE ok
        BY <3>1, <2>2, <2>3, <1>1, <1>2, <1>5, Zenon
      <3>2. CASE ~ok
        BY <3>2, <2>2, <2>3, <1>1, <1>2, <1>5, Zenon
      <3> QED
        BY <3>1, <3>2
    <2>6. ASSUME ~harmed' PROVE Rtl8139Receives(dsc', b, r)
      <3>1. ~harmed /\ Taken(size) \cap Copied = {}
        BY <2>2, <2>6, Zenon
      <3>2. Rtl8139Receives(dsc, a, r)
        BY <3>1, <1>4, <1>8, Zenon DEF CardReceives
      <3> QED
        BY <3>1, <3>2, <2>1, <2>2, <2>3, Rtl8139Takes
    <2>7. ~harmed' => ~harmed
      BY <2>2, Zenon
    <2>8. DscIs(dsc')
      BY <1>8, <2>1, <2>4 DEF DscIs
    <2>9. ASSUME ~harmed'
          PROVE  InTurn(arrived') /\ InTurn(received') /\ CardReceives(dsc', b, r)
      BY <1>3, <1>4, <1>8, <2>5, <2>6, <2>7, <2>9, Zenon DEF CardReceives
    <2> QED
      BY <1>1, <1>2, <1>3, <2>4, <2>5, <2>8, <2>9, ReceivingStep
  <1> QED
    BY <1>6, <1>7, <1>8 DEF NicInv, NicTypes, CardTypes, DscIs

(* The link of the E1000, and the register that tells of it, are of neither  *)
(* direction.                                                                *)
LEMMA LinkOnly ==
  ASSUME NEW d \in E1000Dsc, NEW up \in BOOLEAN, NEW lsc \in BOOLEAN, NEW f \in Nat, NEW e,
         e = [d EXCEPT !.up = up, !.lsc = lsc, !.faults = f], card = "E1000"
  PROVE  e \in E1000Dsc /\ SameTx(d, e) /\ SameRx(d, e)
  <1>1. e \in E1000Dsc
    BY DEF E1000Dsc
  <1>2. /\ e.txId = d.txId /\ e.txNext = d.txNext /\ e.txBuf = d.txBuf /\ e.tail = d.tail
        /\ e.rxId = d.rxId /\ e.rxNext = d.rxNext /\ e.rxTail = d.rxTail
        /\ e.rxBuf = d.rxBuf /\ e.done = d.done
    BY DEF E1000Dsc
  <1> QED
    BY <1>1, <1>2 DEF SameTx, SameRx

LEMMA LinkStep ==
  ASSUME NicInv, card = "E1000",
         UNCHANGED <<card, given, wire, most, arrived, received, harmed, tx>>,
         dsc' \in E1000Dsc, SameTx(dsc, dsc'), SameRx(dsc, dsc')
  PROVE  NicInv'
  <1>1. arrived \in Seq(Nat) /\ received \in Seq(Nat)
    BY DEF NicInv, NicTypes
  <1>2. DscIs(dsc')
    BY DEF DscIs
  <1>3. ASSUME ~harmed
        PROVE  /\ InTurn(arrived) /\ InTurn(received)
               /\ CardReceives(dsc', Len(arrived), Len(received))
    BY <1>3, ReceivesSame DEF NicInv, ReceiveInv
  <1> QED
    BY <1>1, <1>2, <1>3, ReceivingStep

LEMMA LinkChangeKeeps ==
  ASSUME NicInv, LinkChange
  PROVE  NicInv'
  <1>1. dsc \in E1000Dsc /\ card = "E1000"
    BY DEF NicInv, NicTypes, CardTypes, DscIs, LinkChange
  <1>2. PICK up \in BOOLEAN : up = ~dsc.up
    OBVIOUS
  <1>3. dsc.faults + 1 \in Nat
    BY <1>1 DEF E1000Dsc
  <1>4. dsc' = [dsc EXCEPT !.up = up, !.lsc = TRUE, !.faults = dsc.faults + 1]
    BY <1>1, <1>2 DEF LinkChange, E1000Dsc
  <1>5. dsc' \in E1000Dsc /\ SameTx(dsc, dsc') /\ SameRx(dsc, dsc')
    BY <1>1, <1>3, <1>4, LinkOnly
  <1> QED
    BY <1>1, <1>5, LinkStep DEF LinkChange

LEMMA NothingKeeps ==
  ASSUME NicInv, NothingE1000, UNCHANGED arrived, UNCHANGED <<card, given, wire, most, harmed, tx>>
  PROVE  NicInv'
  <1>1. dsc \in E1000Dsc /\ card = "E1000"
    BY DEF NicInv, NicTypes, CardTypes, DscIs, NothingE1000
  <1>2. dsc.up \in BOOLEAN /\ dsc.faults \in Nat
    BY <1>1 DEF E1000Dsc
  <1>3. dsc' = [dsc EXCEPT !.up = dsc.up, !.lsc = FALSE, !.faults = dsc.faults]
    BY <1>1 DEF NothingE1000, E1000Dsc
  <1>4. dsc' \in E1000Dsc /\ SameTx(dsc, dsc') /\ SameRx(dsc, dsc')
    BY <1>1, <1>2, <1>3, LinkOnly
  <1> QED
    BY <1>1, <1>4, LinkStep DEF NothingE1000


(* A packet is handed up, from a card with buffers. *)
LEMMA HandsUp ==
  ASSUME NicInv, UNCHANGED <<card, given, wire, most, arrived, harmed, tx>>,
         DscIs(dsc'), SameTx(dsc, dsc'), NEW v \in Nat, HandUp(v),
         ~harmed =>
           v = Len(received) + 1 /\ CardReceives(dsc', Len(arrived), Len(received) + 1)
  PROVE  NicInv'
  <1>1. arrived \in Seq(Nat) /\ received \in Seq(Nat)
    BY DEF NicInv, NicTypes
  <1>2. /\ received' \in Seq(Nat) /\ Len(received') = Len(received) + 1
        /\ InTurn(received) /\ v = Len(received) + 1 => InTurn(received')
    BY <1>1, OneMore DEF HandUp
  <1>3. ASSUME ~harmed'
        PROVE  /\ InTurn(arrived') /\ InTurn(received')
               /\ CardReceives(dsc', Len(arrived'), Len(received'))
    BY <1>2, <1>3 DEF NicInv, ReceiveInv
  <1> QED
    BY <1>1, <1>2, <1>3, ReceivingStep

LEMMA ReceivePcnetKeeps ==
  ASSUME NicInv, ReceivePcnet, UNCHANGED arrived, UNCHANGED <<card, given, wire, most, harmed, tx>>
  PROVE  NicInv'
  <1>1. dsc \in PcnetDsc /\ card = "PCNET"
    BY DEF NicInv, NicTypes, CardTypes, DscIs, ReceivePcnet
  <1>2. PcnetIsRead(dsc, dsc')
    BY Zenon DEF ReceivePcnet, PcnetIsRead
  <1>3. dsc' \in PcnetDsc /\ SameTx(dsc, dsc') /\ dsc.rxBuf[dsc.rxId] \in Nat
    BY <1>1, <1>2, PcnetRead
  <1>4. PICK v \in Nat : v = dsc.rxBuf[dsc.rxId]
    BY <1>3
  <1>5. HandUp(v)
    BY <1>4 DEF ReceivePcnet
  <1>6. arrived \in Seq(Nat) /\ received \in Seq(Nat)
    BY DEF NicInv, NicTypes
  <1>7. PICK a \in Nat, r \in Nat : a = Len(arrived) /\ r = Len(received)
    BY <1>6, LenProperties
  <1>8. ASSUME ~harmed PROVE v = r + 1 /\ PcnetReceives(dsc', a, r + 1)
    <2>1. PcnetReceives(dsc, a, r)
      BY <1>1, <1>7, <1>8 DEF NicInv, ReceiveInv, CardReceives
    <2> QED
      BY <2>1, <1>1, <1>2, <1>4, PcnetHandsUp
  <1>9. ASSUME ~harmed PROVE CardReceives(dsc', a, r + 1)
    BY <1>1, <1>8, <1>9 DEF CardReceives
  <1>10. DscIs(dsc')
    BY <1>1, <1>3 DEF DscIs
  <1> QED
    BY <1>3, <1>5, <1>7, <1>8, <1>9, <1>10, HandsUp

LEMMA ReceiveE1000Keeps ==
  ASSUME NicInv, ReceiveE1000, UNCHANGED arrived, UNCHANGED <<card, given, wire, most, harmed, tx>>
  PROVE  NicInv'
  <1>1. dsc \in E1000Dsc /\ card = "E1000"
    BY DEF NicInv, NicTypes, CardTypes, DscIs, ReceiveE1000
  <1>2. E1000IsRead(dsc, dsc')
    BY Zenon DEF ReceiveE1000, E1000IsRead
  <1>3. dsc' \in E1000Dsc /\ SameTx(dsc, dsc') /\ dsc.rxBuf[dsc.rxId] \in Nat
    BY <1>1, <1>2, E1000Read
  <1>4. PICK v \in Nat : v = dsc.rxBuf[dsc.rxId]
    BY <1>3
  <1>5. HandUp(v)
    BY <1>4 DEF ReceiveE1000
  <1>6. arrived \in Seq(Nat) /\ received \in Seq(Nat)
    BY DEF NicInv, NicTypes
  <1>7. PICK a \in Nat, r \in Nat : a = Len(arrived) /\ r = Len(received)
    BY <1>6, LenProperties
  <1>8. ASSUME ~harmed PROVE v = r + 1 /\ E1000Receives(dsc', a, r + 1)
    <2>1. E1000Receives(dsc, a, r)
      BY <1>1, <1>7, <1>8 DEF NicInv, ReceiveInv, CardReceives
    <2> QED
      BY <2>1, <1>1, <1>2, <1>4, E1000HandsUp
  <1>9. ASSUME ~harmed PROVE CardReceives(dsc', a, r + 1)
    BY <1>1, <1>8, <1>9 DEF CardReceives
  <1>10. DscIs(dsc')
    BY <1>1, <1>3 DEF DscIs
  <1> QED
    BY <1>3, <1>5, <1>7, <1>8, <1>9, <1>10, HandsUp


LEMMA Rtl8139Moves ==
  ASSUME NEW d \in Rtl8139Dsc, card = "RTL8139", NEW p \in 0 .. RingLen - 1, NEW s \in Nat,
         NEW o \in Nat, NEW e, e = [d EXCEPT !.copy = <<p, s>>, !.capr = Place(o)]
  PROVE  DscIs(e) /\ SameTx(d, e)
  <1>1. PICK q : q = Place(o)
    OBVIOUS
  <1>2. q \in 0 .. Wrap /\ (q + RingPad) % Wrap \in 0 .. RingLen - 1
    BY <1>1, PlaceFound, RingIs
  <1>3. PICK c \in (0 .. RingLen - 1) \X Nat : c = <<p, s>>
    OBVIOUS
  <1>4. e = [d EXCEPT !.copy = c, !.capr = q]
    BY <1>1, <1>3
  <1>5. e \in Rtl8139Dsc
    BY <1>2, <1>3, <1>4 DEF Rtl8139Dsc
  <1>6. /\ e.txId = d.txId /\ e.txNext = d.txNext /\ e.txBuf = d.txBuf
        /\ e.sending = d.sending /\ e.capr = q
    BY <1>4 DEF Rtl8139Dsc
  <1>7. At(e) \in 0 .. RingLen - 1
    BY <1>2, <1>6 DEF At
  <1> QED
    BY <1>5, <1>6, <1>7 DEF DscIs, SameTx

LEMMA Rtl8139Moving ==
  ASSUME NicInv, card = "RTL8139", NEW a, NEW r, a = Len(arrived), r = Len(received)
  PROVE  /\ arrived \in Seq(Nat) /\ received \in Seq(Nat) /\ a \in Nat /\ r \in Nat
         /\ dsc \in Rtl8139Dsc /\ ReadAt \in 0 .. RingLen - 1
         /\ ~harmed => InTurn(arrived) /\ InTurn(received) /\ Rtl8139Receives(dsc, a, r)
  <1>1. arrived \in Seq(Nat) /\ received \in Seq(Nat) /\ a \in Nat /\ r \in Nat
    BY LenProperties DEF NicInv, NicTypes
  <1>2. dsc \in Rtl8139Dsc /\ At(dsc) \in 0 .. RingLen - 1
    BY DEF NicInv, NicTypes, CardTypes, DscIs
  <1>3. ~harmed => InTurn(arrived) /\ InTurn(received) /\ Rtl8139Receives(dsc, a, r)
    BY DEF NicInv, ReceiveInv, CardReceives
  <1> QED
    BY <1>1, <1>2, <1>3 DEF At, ReadAt

(* What is read of the ring is a packet's number, its words and its state. *)
LEMMA HeaderIs ==
  ASSUME dsc \in Rtl8139Dsc, NEW p \in 0 .. RingLen - 1
  PROVE  dsc.ring[p][1] \in Nat /\ dsc.ring[p][2] \in Nat
  <1>1. p \in 0 .. RingLen + LastSize - 1
    BY Largest, RingIs
  <1>2. dsc.ring[p] \in Nat \X Nat \X BOOLEAN
    BY <1>1 DEF Rtl8139Dsc
  <1> QED
    BY <1>2

LEMMA AdvanceKeeps ==
  ASSUME NicInv, AdvanceRtl8139, UNCHANGED <<card, given, wire, most, harmed, tx>>
  PROVE  NicInv'
  <1>1. card = "RTL8139" /\ dsc.copy = <<0, 0>> /\ Used # 0 /\ received' = received
    BY DEF AdvanceRtl8139
  <1>2. PICK a, r : a = Len(arrived) /\ r = Len(received)
    OBVIOUS
  <1>3. /\ arrived \in Seq(Nat) /\ received \in Seq(Nat) /\ a \in Nat /\ r \in Nat
        /\ dsc \in Rtl8139Dsc /\ ReadAt \in 0 .. RingLen - 1
        /\ ~harmed => InTurn(arrived) /\ InTurn(received) /\ Rtl8139Receives(dsc, a, r)
    BY <1>1, <1>2, Rtl8139Moving
  <1>4. CASE dsc.ring[ReadAt][3]
    <2>1. /\ dsc' = [dsc EXCEPT !.copy = <<ReadAt, dsc.ring[ReadAt][2]>>,
                                !.capr = Place(ReadAt + dsc.ring[ReadAt][2])]
          /\ arrived' = arrived
      BY <1>4 DEF AdvanceRtl8139
    <2>2. PICK p \in 0 .. RingLen - 1, s \in Nat : p = ReadAt /\ s = dsc.ring[ReadAt][2]
      BY <1>3, HeaderIs
    <2>3. PICK o \in Nat : o = p + s
      OBVIOUS
    <2>4. dsc' = [dsc EXCEPT !.copy = <<p, s>>, !.capr = Place(o)]
      BY <2>1, <2>2, <2>3
    <2>5. DscIs(dsc') /\ SameTx(dsc, dsc')
      BY <1>1, <1>3, <2>3, <2>4, Rtl8139Moves
    <2>6. ASSUME ~harmed PROVE Rtl8139Receives(dsc', a, r)
      <3>1. Rtl8139Receives(dsc, a, r)
        BY <1>3, <2>6
      <3> QED
        BY <3>1, <1>1, <1>3, <1>4, <2>1, Rtl8139Advances
    <2>7. ASSUME ~harmed'
          PROVE  /\ InTurn(arrived') /\ InTurn(received')
                 /\ CardReceives(dsc', Len(arrived'), Len(received'))
      BY <1>1, <1>2, <1>3, <2>1, <2>6, <2>7 DEF CardReceives
    <2> QED
      BY <1>1, <1>3, <2>1, <2>5, <2>7, ReceivingStep
  <1>5. CASE ~dsc.ring[ReadAt][3]
    <2>1. dsc' = [dsc EXCEPT !.capr = Place(dsc.cba)] /\ arrived' = received
      BY <1>5 DEF AdvanceRtl8139
    <2>2. PICK o \in Nat : o = dsc.cba
      BY <1>3, RingIs DEF Rtl8139Dsc
    <2>3. dsc' = [dsc EXCEPT !.copy = <<0, 0>>, !.capr = Place(o)]
      BY <1>1, <1>3, <2>1, <2>2 DEF Rtl8139Dsc
    <2>4. 0 \in 0 .. RingLen - 1 /\ 0 \in Nat
      BY RingIs
    <2>5. DscIs(dsc') /\ SameTx(dsc, dsc')
      BY <1>1, <1>3, <2>2, <2>3, <2>4, Rtl8139Moves
    <2>6. ASSUME ~harmed PROVE Rtl8139Receives(dsc', r, r)
      <3>1. Rtl8139Receives(dsc, a, r)
        BY <1>3, <2>6
      <3> QED
        BY <3>1, <1>1, <1>3, <2>1, Rtl8139Drops
    <2>7. ASSUME ~harmed'
          PROVE  /\ InTurn(arrived') /\ InTurn(received')
                 /\ CardReceives(dsc', Len(arrived'), Len(received'))
      BY <1>1, <1>2, <1>3, <2>1, <2>6, <2>7 DEF CardReceives
    <2> QED
      BY <1>1, <1>3, <2>1, <2>5, <2>7, ReceivingStep
  <1> QED
    BY <1>4, <1>5

LEMMA CopyKeepsOrder ==
  ASSUME NicInv, CopyRtl8139, UNCHANGED <<card, given, wire, most, harmed, tx>>
  PROVE  NicInv'
  <1>1. /\ card = "RTL8139" /\ dsc.copy # <<0, 0>> /\ arrived' = arrived
        /\ dsc' = [dsc EXCEPT !.copy = <<0, 0>>]
    BY DEF CopyRtl8139
  <1>2. PICK a, r : a = Len(arrived) /\ r = Len(received)
    OBVIOUS
  <1>3. /\ arrived \in Seq(Nat) /\ received \in Seq(Nat) /\ a \in Nat /\ r \in Nat
        /\ dsc \in Rtl8139Dsc /\ ReadAt \in 0 .. RingLen - 1
        /\ ~harmed => InTurn(arrived) /\ InTurn(received) /\ Rtl8139Receives(dsc, a, r)
    BY <1>1, <1>2, Rtl8139Moving
  <1> DEFINE first == dsc.ring[dsc.copy[1]]
             value == IF \A i \in Copied : dsc.ring[i] = first THEN first[1] ELSE Empty
  <1>4. HandUp(value)
    BY Zenon DEF CopyRtl8139
  <1>5. value \in Nat
    <2>1. dsc.copy[1] \in 0 .. RingLen - 1
      BY <1>3 DEF Rtl8139Dsc
    <2>2. first[1] \in Nat
      BY <1>3, <2>1, HeaderIs
    <2>3. Empty \in Nat
      BY DEF Empty
    <2> QED
      BY <2>2, <2>3, Zenon
  <1>6. ASSUME ~harmed PROVE value = r + 1 /\ Rtl8139Receives(dsc', a, r + 1)
    <2>1. Rtl8139Receives(dsc, a, r)
      BY <1>3, <1>6
    <2>2. /\ \A i \in Copied : dsc.ring[i] = first
          /\ first[1] = r + 1
          /\ Rtl8139Receives(dsc', a, r + 1)
      BY <2>1, <1>1, <1>3, Rtl8139Copies
    <2> QED
      BY <2>2, Zenon
  <1>7. PICK v \in Nat : v = value
    BY <1>5
  <1>8. HandUp(v) /\ (~harmed => v = r + 1 /\ Rtl8139Receives(dsc', a, r + 1))
    BY <1>4, <1>6, <1>7
  <1> HIDE DEF value
  <1>9. DscIs(dsc') /\ SameTx(dsc, dsc')
    <2>1. PICK c : c = <<0, 0>>
      OBVIOUS
    <2>2. c \in (0 .. RingLen - 1) \X Nat
      BY <2>1, RingIs
    <2>3. dsc' = [dsc EXCEPT !.copy = c]
      BY <1>1, <2>1
    <2>4. dsc' \in Rtl8139Dsc
      BY <1>3, <2>2, <2>3 DEF Rtl8139Dsc
    <2>5. /\ dsc'.txId = dsc.txId /\ dsc'.txNext = dsc.txNext /\ dsc'.txBuf = dsc.txBuf
          /\ dsc'.sending = dsc.sending /\ dsc'.capr = dsc.capr
      BY <1>3, <2>3 DEF Rtl8139Dsc
    <2>6. At(dsc') \in 0 .. RingLen - 1
      BY <2>5, <1>3 DEF At, ReadAt
    <2> QED
      BY <2>4, <2>5, <2>6, <1>1 DEF DscIs, SameTx
  <1>10. ~harmed => v = r + 1 /\ CardReceives(dsc', a, r + 1)
    BY <1>1, <1>8 DEF CardReceives
  <1> QED
    BY <1>1, <1>2, <1>8, <1>9, <1>10, HandsUp


LEMMA NicKeeps ==
  ASSUME NicInv, [Sending \/ Receiving]_nicVars
  PROVE  NicInv'
  <1>1. CASE Fill
    BY <1>1, FillKeeps
  <1>2. CASE Transmit
    BY <1>2, TransmitKeeps
  <1>3. CASE Transmitted
    BY <1>3, TransmittedKeeps
  <1>4. CASE Send
    BY <1>4, SendKeeps
  <1>5. CASE Arrive
    BY <1>5, ArriveKeeps
  <1>6. CASE LinkChange
    BY <1>6, LinkChangeKeeps
  <1>7. CASE receive_packet
    <2>1. UNCHANGED <<card, given, wire, most, harmed, tx>>
      BY <1>7 DEF receive_packet
    <2>2. CASE ReceivePcnet /\ UNCHANGED arrived
      BY <2>1, <2>2, ReceivePcnetKeeps
    <2>3. CASE ReceiveE1000 /\ UNCHANGED arrived
      BY <2>1, <2>3, ReceiveE1000Keeps
    <2>4. CASE NothingE1000 /\ UNCHANGED arrived
      BY <2>1, <2>4, NothingKeeps
    <2>5. CASE AdvanceRtl8139
      BY <2>1, <2>5, AdvanceKeeps
    <2>6. CASE CopyRtl8139
      BY <2>1, <2>6, CopyKeepsOrder
    <2> QED
      BY <1>7, <2>2, <2>3, <2>4, <2>5, <2>6 DEF receive_packet
  <1>8. CASE UNCHANGED nicVars
    <2>1. card' = card
      BY <1>8 DEF nicVars
    <2>2. NicTypes'
      BY <1>8 DEF NicInv, NicTypes, CardTypes, DscIs, At, nicVars
    <2>3. SendInv' /\ ReceiveInv'
      BY <1>8 DEF NicInv, SendInv, ReceiveInv, CardSends, CardReceives, nicVars
    <2> QED
      BY <2>2, <2>3 DEF NicInv
  <1> QED
    BY <1>1, <1>2, <1>3, <1>4, <1>5, <1>6, <1>7, <1>8 DEF Sending, Receiving

(* Whatever of the three cards it is, and however the driver and the card    *)
(* are interleaved: what the stack hands over is sent once and in order as   *)
(* long as fewer packets wait than there are buffers, and what the card took *)
(* in is handed up once and in order, round the rings and past their ends,   *)
(* if the card did not use the room of a packet that was being copied        *)
(* (pcnet.rs 265-328, e1000.rs 380-438, rtl8139.rs 271-336).                 *)
THEOREM NicInOrder == NicSafely => [](SentInOrder /\ HandedUpInOrder)
  <1>1. NicInit => NicInv
    BY NicStarts
  <1>2. NicInv /\ [Sending \/ Receiving]_nicVars => NicInv'
    BY NicKeeps
  <1>3. NicInv => SentInOrder /\ HandedUpInOrder
    <2> SUFFICES ASSUME NicInv PROVE SentInOrder /\ HandedUpInOrder
      OBVIOUS
    <2>1. /\ given \in Seq(Nat) /\ wire \in Seq(Nat) /\ arrived \in Seq(Nat)
          /\ received \in Seq(Nat) /\ DscIs(dsc) /\ tx \in {"idle", "filled", "started"}
      BY DEF NicInv, NicTypes, CardTypes
    <2>2. PICK g \in Nat, w \in Nat, a \in Nat, r \in Nat :
            g = Len(given) /\ w = Len(wire) /\ a = Len(arrived) /\ r = Len(received)
      BY <2>1, LenProperties
    <2>3. ASSUME most < TxCount PROVE IsPrefix(wire, given)
      <3>1. InTurn(wire) /\ InTurn(given) /\ CardSends(dsc, g, w, tx)
        BY <2>2, <2>3 DEF NicInv, SendInv
      <3>2. Filled(tx) \in Nat
        BY DEF Filled
      <3>3. w <= g
        <4>1. CASE card = "PCNET"
          BY <3>1, <3>2, <4>1 DEF CardSends, PcnetSends
        <4>2. CASE card = "E1000"
          BY <3>1, <3>2, <4>2 DEF CardSends, E1000Sends
        <4>3. CASE card = "RTL8139"
          <5>1. g = IF tx = "filled" \/ dsc.sending THEN w + 1 ELSE w
            BY <3>1, <4>3 DEF CardSends, Rtl8139Sends
          <5> QED
            BY <5>1
        <4> QED
          BY <2>1, <4>1, <4>2, <4>3 DEF DscIs
      <3> QED
        BY <2>1, <2>2, <3>1, <3>3, NumberedPrefix
    <2>4. ASSUME ~harmed PROVE IsPrefix(received, arrived)
      <3>1. InTurn(arrived) /\ InTurn(received) /\ CardReceives(dsc, a, r)
        BY <2>2, <2>4 DEF NicInv, ReceiveInv
      <3>2. r <= a
        <4>1. CASE card = "PCNET"
          BY <3>1, <4>1 DEF CardReceives, PcnetReceives
        <4>2. CASE card = "E1000"
          BY <3>1, <4>2 DEF CardReceives, E1000Receives
        <4>3. CASE card = "RTL8139"
          <5>1. Rtl8139Receives(dsc, a, r)
            BY <3>1, <4>3 DEF CardReceives
          <5> QED
            BY <5>1, Rtl8139Behind
        <4> QED
          BY <2>1, <4>1, <4>2, <4>3 DEF DscIs
      <3> QED
        BY <2>1, <2>2, <3>1, <3>2, NumberedPrefix
    <2> QED
      BY <2>3, <2>4 DEF SentInOrder, HandedUpInOrder
  <1> QED
    BY <1>1, <1>2, <1>3, PTL DEF NicSafely
=============================================================================
