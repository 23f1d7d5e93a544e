---------------------------- MODULE HandlesProofs ---------------------------
(***************************************************************************)
(* A process that is run again finds all it had, however many processes    *)
(* there are and however deep they spawn one another.  While a process     *)
(* runs, those that wait for it are a chain from its parent to the first   *)
(* one, nothing changes their entries of the table, and each of these      *)
(* keeps the registers of its own process.  At the end, the sound device,  *)
(* which a handle writes to.                                               *)
(***************************************************************************)
EXTENDS Handles, SoundCard, TLAPS, WellFoundedInduction, SequenceTheorems

Resource ==
  {Closed, Console} \cup {FileAt(n) : n \in 0 .. FileSize} \cup {PipeTo(p) : p \in Pipe}

Proc == [parent : Pid, dir : Dirs, regs : Pid, handles : [Handle -> Resource]]

Saved == [pid : Pid, proc : Proc]

(* The chain: the parent of the running process, its parent, and so on. *)
Waiting(i) == spawned[i].pid

HandlesTypeOK ==
  /\ id \in Pid /\ regs = id
  /\ table \in [Pid -> Proc \cup {NoProcess}]
  /\ spawned \in Seq(Saved)
  /\ table[id] \in Proc

(* What a waiting process had is what it has, its registers are its own, and *)
(* its parent is the next one.                                               *)
Kin ==
  /\ id = 0 <=> spawned = <<>>
  /\ id # 0 => Me.parent = Waiting(1)
  /\ \A i \in 1 .. Len(spawned) :
       /\ spawned[i].proc = table[Waiting(i)] /\ spawned[i].proc.regs = Waiting(i)
       /\ Waiting(i) # id
       /\ Waiting(i) = 0 <=> i = Len(spawned)
       /\ i < Len(spawned) => table[Waiting(i)].parent = Waiting(i + 1)
  /\ \A i, j \in 1 .. Len(spawned) : Waiting(i) = Waiting(j) => i = j

ChainInv == HandlesTypeOK /\ Kin

-----------------------------------------------------------------------------
LEMMA ChainInit == HandlesInit => ChainInv
<1> SUFFICES ASSUME HandlesInit
             PROVE  ChainInv
  OBVIOUS
<1>1. 0 \in Pid /\ (CHOOSE d \in Dirs : TRUE) \in Dirs
  BY HandlesAssumption DEF Pid
<1>2. /\ id = 0 /\ regs = 0 /\ spawned = <<>> /\ Len(spawned) = 0
  BY DEF HandlesInit
<1>3. [h \in Handle |-> IF h < Reserved THEN Console ELSE Closed] \in [Handle -> Resource]
  BY DEF Resource
<1>4. [parent |-> 0, dir |-> CHOOSE d \in Dirs : TRUE, regs |-> 0,
       handles |-> [h \in Handle |-> IF h < Reserved THEN Console ELSE Closed]] \in Proc
  BY <1>1, <1>3 DEF Proc
<1>5. table \in [Pid -> Proc \cup {NoProcess}] /\ table[0] \in Proc
  BY <1>1, <1>4 DEF HandlesInit
<1>6. HandlesTypeOK
  BY <1>1, <1>2, <1>5 DEF HandlesTypeOK
<1>7. Kin
  BY <1>2 DEF Kin
<1> QED
  BY <1>6, <1>7 DEF ChainInv

(* The least of the numbers in a set.                                        *)
LEMMA LeastNumber ==
  ASSUME NEW S \in SUBSET Nat, S # {}
  PROVE  \E n \in S : \A m \in S : n <= m
<1> DEFINE R == OpToRel(<, Nat)
<1>1. IsWellFoundedOn(R, Nat)
  BY NatLessThanWellFounded
<1>2. PICK n \in S : \A m \in S : ~(<<m, n>> \in R)
  BY <1>1, WFMin
<1>3. \A m \in S : ~(m < n)
  BY <1>2 DEF OpToRel
<1> QED
  BY <1>3

LEMMA ProcIsThere == NoProcess \notin Proc
BY DEF Proc, NoProcess

(* What a process does to itself leaves those alone that wait for it.        *)
LEMMA OwnKeeps ==
  ASSUME ChainInv, NEW r \in Proc, r.parent = Me.parent,
         table' = [table EXCEPT ![id] = r],
         id' = id, regs' = regs, spawned' = spawned
  PROVE  ChainInv'
<1> USE DEF ChainInv
<1>1. id \in Pid /\ table \in [Pid -> Proc \cup {NoProcess}]
  BY DEF HandlesTypeOK
<1>0. ASSUME NEW i \in 1 .. Len(spawned)
      PROVE  Waiting(i) \in Pid /\ Waiting(i) # id
  <2>1. spawned[i] \in Saved
    BY DEF HandlesTypeOK
  <2> QED
    BY <2>1 DEF Waiting, Kin, Saved
<1>2. table'[id] = r /\ \A i \in 1 .. Len(spawned) : table'[Waiting(i)] = table[Waiting(i)]
  BY <1>1, <1>0
<1>3. HandlesTypeOK'
  BY <1>1, <1>2 DEF HandlesTypeOK
<1>4. Kin'
  BY <1>2 DEF Kin, Waiting, Me
<1> QED
  BY <1>3, <1>4

LEMMA Unchanged == ChainInv /\ UNCHANGED handlesVars => ChainInv'
BY DEF ChainInv, HandlesTypeOK, Kin, Waiting, Me, handlesVars

(* The resource that a handle leads to can be any of those there are.        *)
LEMMA HandleKeeps ==
  ASSUME ChainInv, NEW h \in Handle, NEW r \in Resource, Becomes(update_handle(h, r))
  PROVE  ChainInv'
<1>1. Me \in Proc
  BY DEF ChainInv, HandlesTypeOK, Me
<1> DEFINE changed == [Me EXCEPT !.handles = [Me.handles EXCEPT ![h] = r]]
<1>2. changed \in Proc /\ changed.parent = Me.parent
  BY <1>1 DEF Proc
<1>3. table' = [table EXCEPT ![id] = changed]
  BY DEF Becomes, update_handle, Me
<1>4. id' = id /\ regs' = regs /\ spawned' = spawned
  BY DEF Becomes
<1> QED
  BY <1>2, <1>3, <1>4, OwnKeeps

LEMMA MineIsResource ==
  ASSUME ChainInv, NEW h \in Handle
  PROVE  Mine(h) \in Resource
BY DEF ChainInv, HandlesTypeOK, Mine, Me, Proc

LEMMA CallsKeep ==
  ASSUME ChainInv, Fails \/ UNCHANGED <<id, table, regs, spawned>>
  PROVE  ChainInv'
BY DEF ChainInv, HandlesTypeOK, Kin, Waiting, Me, Fails, handlesVars

LEMMA OpenKeeps == ChainInv /\ Open => ChainInv'
<1> SUFFICES ASSUME ChainInv, Open PROVE ChainInv'
  OBVIOUS
<1>1. PICK resource \in {FileAt(0), FileAt(FileSize)} \cup NewPipe :
        IF Free # {} THEN Becomes(update_handle(create_handle, resource)) ELSE Fails
  BY DEF Open
<1>2. resource \in Resource
  BY <1>1, HandlesAssumption DEF Resource, NewPipe
<1>3. CASE Free # {}
  <2>1. create_handle \in Free
    <3>1. Free \subseteq Nat
      BY HandlesAssumption DEF Free
    <3>2. \E h \in Free : \A g \in Free : h <= g
      BY <1>3, <3>1, LeastNumber
    <3> QED
      BY <3>2 DEF create_handle
  <2>2. create_handle \in Handle
    BY <2>1, HandlesAssumption DEF Free, Handle
  <2> QED
    BY <1>1, <1>2, <1>3, <2>2, HandleKeeps
<1>4. CASE Free = {}
  BY <1>1, <1>4, CallsKeep
<1> QED
  BY <1>3, <1>4

LEMMA FilePosition ==
  ASSUME NEW r \in Resource, r.kind = "file"
  PROVE  \E n \in 0 .. FileSize : r = FileAt(n)
BY DEF Resource, Closed, Console, FileAt, PipeTo

LEMMA ReadKeeps ==
  ASSUME ChainInv, NEW h \in Handle, Read(h, 1)
  PROVE  ChainInv'
<1>1. CASE Mine(h).kind = "file" /\ Becomes(update_handle(h, FileAt(Lesser(Mine(h).pos + 1, FileSize))))
  <2>1. PICK n \in 0 .. FileSize : Mine(h) = FileAt(n)
    BY <1>1, MineIsResource, FilePosition
  <2>2. Mine(h).pos = n
    BY <2>1 DEF FileAt
  <2>3. Lesser(n + 1, FileSize) \in 0 .. FileSize
    BY HandlesAssumption DEF Lesser
  <2>4. FileAt(Lesser(Mine(h).pos + 1, FileSize)) \in Resource
    BY <2>2, <2>3 DEF Resource
  <2> QED
    BY <1>1, <2>4, HandleKeeps
<1>2. CASE Fails \/ UNCHANGED <<id, table, regs, spawned>>
  BY <1>2, CallsKeep
<1> QED
  BY <1>1, <1>2 DEF Read

-----------------------------------------------------------------------------
LEMMA DupKeeps ==
  ASSUME ChainInv, NEW old \in Handle, NEW new \in Handle, Dup(old, new)
  PROVE  ChainInv'
<1>1. Mine(old) \in Resource
  BY MineIsResource
<1> QED
  BY <1>1, HandleKeeps, CallsKeep DEF Dup

LEMMA SeekKeeps ==
  ASSUME ChainInv, NEW h \in Handle, NEW pos \in 0 .. FileSize, Seek(h, pos)
  PROVE  ChainInv'
<1>1. FileAt(pos) \in Resource
  BY DEF Resource
<1> QED
  BY <1>1, HandleKeeps, CallsKeep DEF Seek

LEMMA CloseKeeps ==
  ASSUME ChainInv, NEW h \in Handle, Close(h)
  PROVE  ChainInv'
<1>1. Closed \in Resource
  BY DEF Resource
<1> QED
  BY <1>1, HandleKeeps DEF Close

LEMMA SetDirKeeps ==
  ASSUME ChainInv, NEW d \in Dirs, SetDir(d)
  PROVE  ChainInv'
<1>1. Me \in Proc
  BY DEF ChainInv, HandlesTypeOK, Me
<1>2. [Me EXCEPT !.dir = d] \in Proc /\ [Me EXCEPT !.dir = d].parent = Me.parent
  BY <1>1 DEF Proc
<1>3. table' = [table EXCEPT ![id] = [Me EXCEPT !.dir = d]]
  BY DEF SetDir, Becomes, Me
<1>4. id' = id /\ regs' = regs /\ spawned' = spawned
  BY DEF SetDir, Becomes
<1> QED
  BY <1>2, <1>3, <1>4, OwnKeeps

(* The registers are backed up whether or not the child comes to be.         *)
LEMMA Backup ==
  ASSUME ChainInv
  PROVE  LET mine == [Me EXCEPT !.regs = id]
         IN  /\ mine \in Proc /\ mine.parent = Me.parent /\ mine.regs = id
             /\ BackedUp = [table EXCEPT ![id] = mine] /\ BackedUp[id] = mine
<1>1. Me \in Proc /\ id \in Pid /\ regs = id /\ table \in [Pid -> Proc \cup {NoProcess}]
  BY DEF ChainInv, HandlesTypeOK, Me
<1>2. BackedUp = [table EXCEPT ![id] = [Me EXCEPT !.regs = id]]
  BY <1>1 DEF BackedUp, Me
<1> QED
  BY <1>1, <1>2 DEF Proc

LEMMA SpawnFailsKeeps ==
  ASSUME ChainInv, SpawnFails
  PROVE  ChainInv'
<1>1. table' = BackedUp /\ id' = id /\ regs' = regs /\ spawned' = spawned
  BY DEF SpawnFails, Becomes
<1> QED
  BY <1>1, Backup, OwnKeeps

LEMMA WaitingTyped ==
  ASSUME ChainInv, NEW i \in 1 .. Len(spawned)
  PROVE  spawned[i] \in Saved /\ Waiting(i) \in Pid /\ table[Waiting(i)] \in Proc
<1>1. spawned[i] \in Saved
  BY DEF ChainInv, HandlesTypeOK
<1> QED
  BY <1>1 DEF ChainInv, Kin, Waiting, Saved

(* The child's slot is nobody's, so that its entry is the only one that      *)
(* changes but for the parent's registers; the parent is the first of those  *)
(* that wait then.                                                           *)
LEMMA SpawnKeeps ==
  ASSUME ChainInv, Spawn
  PROVE  ChainInv'
<1> USE DEF ChainInv
<1> DEFINE mine == [Me EXCEPT !.regs = id]
           child == [mine EXCEPT !.parent = id]
           c == Slot
<1>1. /\ id \in Pid /\ table \in [Pid -> Proc \cup {NoProcess}] /\ spawned \in Seq(Saved)
      /\ table[id] \in Proc
  BY DEF HandlesTypeOK
<1>2. c \in Pid \ {0} /\ table[c] = NoProcess
  <2>1. FreeSlot # {} /\ FreeSlot \in SUBSET Nat
    BY DEF Spawn, FreeSlot, Pid
  <2>2. \E q \in FreeSlot : \A r \in FreeSlot : q <= r
    BY <2>1, LeastNumber
  <2>3. c \in FreeSlot
    BY <2>2 DEF Slot
  <2> QED
    BY <2>3 DEF FreeSlot
<1>3. /\ mine \in Proc /\ mine.parent = Me.parent /\ mine.regs = id
      /\ BackedUp = [table EXCEPT ![id] = mine] /\ BackedUp[id] = mine
  BY Backup
<1>4. child \in Proc /\ child.parent = id
  BY <1>1, <1>3 DEF Proc
<1>5. c # id /\ \A i \in 1 .. Len(spawned) : Waiting(i) # c
  BY <1>1, <1>2, ProcIsThere, WaitingTyped
<1>6. id' = c /\ regs' = c /\ table' = [[table EXCEPT ![id] = mine] EXCEPT ![c] = child]
  BY <1>3 DEF Spawn
<1>7. /\ table'[c] = child /\ table'[id] = mine
      /\ \A i \in 1 .. Len(spawned) : table'[Waiting(i)] = table[Waiting(i)]
  <2>1. \A i \in 1 .. Len(spawned) : Waiting(i) \in Pid /\ Waiting(i) # id
    BY WaitingTyped DEF Kin
  <2> QED
    BY <1>1, <1>2, <1>5, <1>6, <2>1
<1>8. [pid |-> id, proc |-> mine] \in Saved
  BY <1>1, <1>3 DEF Saved
<1>9. spawned' = <<[pid |-> id, proc |-> mine]>> \o spawned
  BY <1>3 DEF Spawn
<1>10. /\ spawned' \in Seq(Saved) /\ Len(spawned') = Len(spawned) + 1 /\ Len(spawned) \in Nat
       /\ spawned'[1] = [pid |-> id, proc |-> mine]
       /\ \A i \in 2 .. Len(spawned) + 1 : spawned'[i] = spawned[i - 1]
  BY <1>1, <1>8, <1>9
<1>11. HandlesTypeOK'
  <2>1. table' \in [Pid -> Proc \cup {NoProcess}] /\ table'[c] \in Proc
    BY <1>1, <1>2, <1>3, <1>4, <1>6, <1>7
  <2> QED
    BY <1>2, <1>6, <1>10, <2>1 DEF HandlesTypeOK
<1>12. /\ Waiting(1)' = id
       /\ \A i \in 2 .. Len(spawned) + 1 : Waiting(i)' = Waiting(i - 1)
  BY <1>10 DEF Waiting
<1>13. Kin'
  <2>1. (id = 0 <=> spawned = <<>>)'
    BY <1>2, <1>6, <1>10
  <2>2. (id # 0 => Me.parent = Waiting(1))'
    BY <1>4, <1>6, <1>7, <1>12 DEF Me
  <2>3. ASSUME NEW i \in 1 .. Len(spawned')
        PROVE  /\ (spawned[i].proc = table[Waiting(i)] /\ spawned[i].proc.regs = Waiting(i))'
               /\ (Waiting(i) # id)'
               /\ Waiting(i)' = 0 <=> i = Len(spawned')
               /\ i < Len(spawned') => table'[Waiting(i)'].parent = Waiting(i + 1)'
    <3>1. CASE i = 1
      <4>1. spawned = <<>> <=> Len(spawned) = 0
        BY <1>1
      <4>2. spawned'[i].proc = mine /\ Waiting(i)' = id
        BY <1>10, <1>12, <3>1
      <4>3. id = 0 <=> i = Len(spawned')
        BY <1>10, <3>1, <4>1 DEF Kin
      <4>4. ASSUME i < Len(spawned')
            PROVE  table'[id].parent = Waiting(i + 1)'
        <5>1. 1 \in 1 .. Len(spawned) /\ i + 1 = 2 /\ 2 \in 2 .. Len(spawned) + 1
          BY <1>10, <3>1, <4>4
        <5>2. Waiting(i + 1)' = Waiting(1)
          BY <1>12, <5>1
        <5>3. mine.parent = Waiting(1)
          BY <1>3, <4>1, <5>1 DEF Kin
        <5> QED
          BY <1>7, <5>2, <5>3
      <4> QED
        BY <1>3, <1>5, <1>6, <1>7, <4>2, <4>3, <4>4
    <3>2. CASE i # 1
      <4>1. i - 1 \in 1 .. Len(spawned) /\ i \in 2 .. Len(spawned) + 1
        BY <1>10, <3>2
      <4>2. /\ spawned[i - 1].proc = table[Waiting(i - 1)]
            /\ spawned[i - 1].proc.regs = Waiting(i - 1)
            /\ Waiting(i - 1) = 0 <=> i - 1 = Len(spawned)
        BY <4>1 DEF Kin
      <4>3. spawned'[i] = spawned[i - 1] /\ Waiting(i)' = Waiting(i - 1)
        BY <1>10, <1>12, <4>1
      <4>4. table'[Waiting(i)'] = table[Waiting(i - 1)] /\ Waiting(i)' # c
        BY <1>5, <1>7, <4>1, <4>3
      <4>5. ASSUME i < Len(spawned')
            PROVE  table'[Waiting(i)'].parent = Waiting(i + 1)'
        <5>1. i \in 1 .. Len(spawned) /\ i + 1 \in 2 .. Len(spawned) + 1 /\ (i + 1) - 1 = i
              /\ (i - 1) + 1 = i
          BY <1>10, <4>1, <4>5
        <5>2. Waiting(i + 1)' = Waiting(i)
          BY <1>12, <5>1
        <5>3. table[Waiting(i - 1)].parent = Waiting((i - 1) + 1)
          BY <4>1, <5>1 DEF Kin
        <5> QED
          BY <4>4, <5>1, <5>2, <5>3
      <4>6. Waiting(i)' = 0 <=> i = Len(spawned')
        BY <1>10, <4>1, <4>2, <4>3
      <4> QED
        BY <1>6, <4>2, <4>3, <4>4, <4>5, <4>6
    <3> QED
      BY <3>1, <3>2
  <2>4. ASSUME NEW i \in 1 .. Len(spawned'), NEW j \in 1 .. Len(spawned'),
               Waiting(i)' = Waiting(j)'
        PROVE  i = j
    <3>1. \A k \in 1 .. Len(spawned) : Waiting(k) # id
      BY DEF Kin
    <3>2. \A k, l \in 1 .. Len(spawned) : Waiting(k) = Waiting(l) => k = l
      BY DEF Kin
    <3>3. \A k \in 1 .. Len(spawned') : k # 1 =>
             k - 1 \in 1 .. Len(spawned) /\ Waiting(k)' = Waiting(k - 1)
      BY <1>10, <1>12
    <3> QED
      BY <1>10, <1>12, <2>4, <3>1, <3>2, <3>3
  <2> QED
    BY <2>1, <2>2, <2>3, <2>4 DEF Kin
<1> QED
  BY <1>11, <1>13

(* What an exit comes back to is the first of those that wait, as it was     *)
(* left, and the chain is one shorter.                                       *)
LEMMA ExitReturns ==
  ASSUME ChainInv, Exit
  PROVE  /\ spawned \in Seq(Saved) /\ Len(spawned) \in Nat \ {0} /\ spawned' = Tail(spawned)
         /\ id' = Waiting(1) /\ regs' = Waiting(1) /\ id' \in Pid /\ id' # id
         /\ \A i \in 1 .. Len(spawned) : table'[Waiting(i)] = table[Waiting(i)]
         /\ table' \in [Pid -> Proc \cup {NoProcess}]
<1> USE DEF ChainInv
<1>1. /\ id \in Pid /\ table \in [Pid -> Proc \cup {NoProcess}] /\ spawned \in Seq(Saved)
      /\ id # 0 /\ table' = [table EXCEPT ![id] = NoProcess]
  BY DEF HandlesTypeOK, Exit
<1>2. spawned # <<>> /\ Me.parent = Waiting(1)
  BY <1>1 DEF Kin
<1>3. Len(spawned) \in Nat \ {0} /\ 1 \in 1 .. Len(spawned)
  BY <1>1, <1>2
<1>4. Restored = Waiting(1)
  BY <1>2, <1>3 DEF Restored, Kin
<1>5. \A i \in 1 .. Len(spawned) : Waiting(i) \in Pid /\ Waiting(i) # id
  BY WaitingTyped DEF Kin
<1> QED
  BY <1>1, <1>2, <1>3, <1>4, <1>5 DEF Exit

LEMMA ExitKeeps ==
  ASSUME ChainInv, Exit
  PROVE  ChainInv'
<1> USE DEF ChainInv
<1>1. /\ spawned \in Seq(Saved) /\ Len(spawned) \in Nat \ {0} /\ spawned' = Tail(spawned)
      /\ id' = Waiting(1) /\ regs' = Waiting(1) /\ id' \in Pid /\ id' # id
      /\ \A i \in 1 .. Len(spawned) : table'[Waiting(i)] = table[Waiting(i)]
      /\ table' \in [Pid -> Proc \cup {NoProcess}]
  BY ExitReturns
<1>2. /\ spawned' \in Seq(Saved) /\ Len(spawned') = Len(spawned) - 1
      /\ \A i \in 1 .. Len(spawned) - 1 : spawned'[i] = spawned[i + 1]
  BY <1>1
<1>3. \A i \in 1 .. Len(spawned) - 1 : Waiting(i)' = Waiting(i + 1)
  BY <1>2 DEF Waiting
<1>4. HandlesTypeOK'
  <2>1. table[Waiting(1)] \in Proc
    BY <1>1, WaitingTyped
  <2> QED
    BY <1>1, <1>2, <2>1 DEF HandlesTypeOK
<1>5. Kin'
  <2>0. Len(spawned) \in Nat \ {0} /\ 1 \in 1 .. Len(spawned)
    BY <1>1
  <2>1. Waiting(1) = 0 <=> 1 = Len(spawned)
    BY <2>0 DEF Kin
  <2>2. spawned' = <<>> <=> Len(spawned') = 0
    BY <1>2
  <2>3. (id = 0 <=> spawned = <<>>)'
    BY <1>1, <1>2, <2>1, <2>2
  <2>4. ASSUME id' # 0
        PROVE  (Me.parent = Waiting(1))'
    <3>0. Waiting(1) # 0 /\ Len(spawned) # 1
      BY <1>1, <2>1, <2>4
    <3>1. 1 < Len(spawned)
      <4>1. Len(spawned) \in Nat /\ Len(spawned) # 0
        BY <2>0
      <4> QED
        BY <3>0, <4>1
    <3>2. table[Waiting(1)].parent = Waiting(1 + 1) /\ Waiting(1)' = Waiting(1 + 1)
      BY <1>1, <1>3, <3>1 DEF Kin
    <3> QED
      BY <1>1, <3>2 DEF Me
  <2>5. ASSUME NEW i \in 1 .. Len(spawned')
        PROVE  /\ (spawned[i].proc = table[Waiting(i)] /\ spawned[i].proc.regs = Waiting(i))'
               /\ (Waiting(i) # id)'
               /\ Waiting(i)' = 0 <=> i = Len(spawned')
               /\ i < Len(spawned') => table'[Waiting(i)'].parent = Waiting(i + 1)'
    <3>1. i \in 1 .. Len(spawned) - 1 /\ i + 1 \in 1 .. Len(spawned) /\ i + 1 # 1
      BY <1>1, <1>2
    <3>2. /\ spawned[i + 1].proc = table[Waiting(i + 1)]
          /\ spawned[i + 1].proc.regs = Waiting(i + 1)
          /\ Waiting(i + 1) = 0 <=> i + 1 = Len(spawned)
          /\ Waiting(i + 1) # Waiting(1)
      BY <1>1, <3>1 DEF Kin
    <3>3. /\ spawned'[i] = spawned[i + 1] /\ Waiting(i)' = Waiting(i + 1)
          /\ table'[Waiting(i + 1)] = table[Waiting(i + 1)]
      BY <1>1, <1>2, <1>3, <3>1
    <3>4. ASSUME i < Len(spawned')
          PROVE  table'[Waiting(i)'].parent = Waiting(i + 1)'
      <4>1. i + 1 \in 1 .. Len(spawned) - 1
        BY <1>1, <1>2, <3>1, <3>4
      <4>2. Waiting(i + 1)' = Waiting((i + 1) + 1)
        BY <1>3, <4>1
      <4>3. table[Waiting(i + 1)].parent = Waiting((i + 1) + 1)
        BY <3>1, <4>1, <1>1 DEF Kin
      <4> QED
        BY <3>3, <4>2, <4>3
    <3>5. Waiting(i)' = 0 <=> i = Len(spawned')
      <4>1. i + 1 = Len(spawned) <=> i = Len(spawned')
        BY <1>2, <2>0, <3>1
      <4> QED
        BY <3>2, <3>3, <4>1
    <3> QED
      BY <1>1, <3>2, <3>3, <3>4, <3>5
  <2>6. ASSUME NEW i \in 1 .. Len(spawned'), NEW j \in 1 .. Len(spawned'),
               Waiting(i)' = Waiting(j)'
        PROVE  i = j
    <3>1. /\ i + 1 \in 1 .. Len(spawned) /\ j + 1 \in 1 .. Len(spawned)
          /\ i \in 1 .. Len(spawned) - 1 /\ j \in 1 .. Len(spawned) - 1
      BY <1>1, <1>2
    <3>2. Waiting(i + 1) = Waiting(j + 1)
      BY <1>3, <2>6, <3>1
    <3>3. i + 1 = j + 1
      BY <3>1, <3>2 DEF Kin
    <3> QED
      BY <3>1, <3>3
  <2> QED
    BY <2>3, <2>4, <2>5, <2>6 DEF Kin
<1> QED
  BY <1>4, <1>5

-----------------------------------------------------------------------------
LEMMA StepKeeps == ChainInv /\ [HandlesNext]_handlesVars => ChainInv'
<1> SUFFICES ASSUME ChainInv, [HandlesNext]_handlesVars
             PROVE  ChainInv'
  OBVIOUS
<1>1. CASE Open
  BY <1>1, OpenKeeps
<1>2. CASE \E h \in Handle : Read(h, 1) \/ Write(h) \/ Close(h)
  <2>1. ASSUME NEW h \in Handle, Write(h)
        PROVE  ChainInv'
    BY <2>1, CallsKeep DEF Write
  <2> QED
    BY <1>2, <2>1, ReadKeeps, CloseKeeps
<1>3. CASE \E h \in Handle, pos \in 0 .. FileSize : Seek(h, pos)
  BY <1>3, SeekKeeps
<1>4. CASE \E g, h \in Handle : Dup(g, h)
  BY <1>4, DupKeeps
<1>5. CASE \E d \in Dirs : SetDir(d)
  BY <1>5, SetDirKeeps
<1>6. CASE SpawnFails
  BY <1>6, SpawnFailsKeeps
<1>7. CASE Spawn
  BY <1>7, SpawnKeeps
<1>8. CASE Exit
  BY <1>8, ExitKeeps
<1>9. CASE UNCHANGED handlesVars
  BY <1>9, Unchanged
<1> QED
  BY <1>1, <1>2, <1>3, <1>4, <1>5, <1>6, <1>7, <1>8, <1>9 DEF HandlesNext

(* Whatever the processes do, and however many of them spawn others, the one *)
(* that runs after an exit is the one that spawned, with the handles, the    *)
(* directory and the registers that it had.                                  *)
THEOREM AsTheyWereLeft == HandlesSpec => ResumedAsLeft
<1>1. ASSUME ChainInv, [HandlesNext]_handlesVars, Len(spawned') < Len(spawned)
      PROVE  /\ id' = Head(spawned).pid /\ table'[id'] = Head(spawned).proc
             /\ regs' = id'
  <2>1. spawned \in Seq(Saved)
    BY <1>1 DEF ChainInv, HandlesTypeOK
  <2>2. CASE Exit
    <3>1. /\ Len(spawned) \in Nat \ {0} /\ id' = Waiting(1) /\ regs' = Waiting(1)
          /\ \A i \in 1 .. Len(spawned) : table'[Waiting(i)] = table[Waiting(i)]
      BY <1>1, <2>2, ExitReturns
    <3>2. Head(spawned) = spawned[1]
      BY <2>1, <3>1
    <3>3. spawned[1].proc = table[Waiting(1)]
      BY <1>1, <3>1 DEF ChainInv, Kin
    <3> QED
      BY <3>1, <3>2, <3>3 DEF Waiting
  <2>3. CASE Spawn
    <3>1. spawned' = <<[pid |-> id, proc |-> BackedUp[id]]>> \o spawned
      BY <2>3 DEF Spawn
    <3>2. /\ [pid |-> id, proc |-> BackedUp[id]] \in Saved
      BY <1>1, Backup DEF Saved, ChainInv, HandlesTypeOK
    <3>3. Len(spawned') = Len(spawned) + 1 /\ Len(spawned) \in Nat
      BY <2>1, <3>1, <3>2
    <3> QED
      BY <1>1, <3>3
  <2>4. CASE ~Exit /\ ~Spawn
    <3>1. spawned' = spawned
      BY <1>1, <2>4 DEF HandlesNext, Open, Read, Write, Close, Seek, Dup, SetDir,
                        SpawnFails, Becomes, Fails, handlesVars
    <3> QED
      BY <1>1, <2>1, <3>1
  <2> QED
    BY <2>2, <2>3, <2>4
<1>2. HandlesSpec => []ChainInv
  BY ChainInit, StepKeeps, PTL DEF HandlesSpec
<1>3. ChainInv /\ [HandlesNext]_handlesVars
        => [Len(spawned') < Len(spawned)
              => /\ id' = Head(spawned).pid /\ table'[id'] = Head(spawned).proc
                 /\ regs' = id']_handlesVars
  BY <1>1
<1> QED
  BY <1>2, <1>3, PTL DEF HandlesSpec, ResumedAsLeft

-----------------------------------------------------------------------------
PipesTypeOK == pipes \in [Pipe -> Seq(Nat)] /\ put \in [Pipe -> Nat]

Leads == \A h \in Handle : Mine(h).kind = "pipe" => Mine(h).pipe \in Pipe

LEMMA HandleLeads == ChainInv => Leads
<1> SUFFICES ASSUME ChainInv, NEW h \in Handle, Mine(h).kind = "pipe"
             PROVE  Mine(h).pipe \in Pipe
  BY DEF Leads
<1>1. Mine(h) \in Resource
  BY MineIsResource
<1> QED
  BY <1>1 DEF Resource, Closed, Console, FileAt, PipeTo

LEMMA PipesKept ==
  ASSUME PipesTypeOK, pipes' = Kept(pipes, table'), put' = Counted(table')
  PROVE  PipesTypeOK'
BY DEF PipesTypeOK, Kept, Counted

(* The first byte goes if there is one.                                      *)
LEMMA ReadFromPipe ==
  ASSUME PipesTypeOK, NEW q \in Pipe,
         pipes' = [pipes EXCEPT ![q] = SubSeq(@, Lesser(1, Len(@)) + 1, Len(@))], put' = put
  PROVE  /\ PipesTypeOK'
         /\ pipes'[q] = pipes[q] \/ (pipes[q] # <<>> /\ pipes'[q] = Tail(pipes[q]))
         /\ \A p \in Pipe \ {q} : pipes'[p] = pipes[p]
<1>1. pipes[q] \in Seq(Nat)
  BY DEF PipesTypeOK
<1>2. pipes'[q] = SubSeq(pipes[q], Lesser(1, Len(pipes[q])) + 1, Len(pipes[q]))
  BY DEF PipesTypeOK
<1>3. CASE pipes[q] = <<>>
  <2>1. SubSeq(pipes[q], Lesser(1, Len(pipes[q])) + 1, Len(pipes[q])) = <<>>
    BY <1>1, <1>3 DEF Lesser
  <2> QED
    BY <1>2, <1>3, <2>1 DEF PipesTypeOK
<1>4. CASE pipes[q] # <<>>
  <2>1. Len(pipes[q]) \in Nat /\ Len(pipes[q]) # 0
    BY <1>1, <1>4
  <2>2. Lesser(1, Len(pipes[q])) + 1 = 2
    BY <2>1 DEF Lesser
  <2>3. Tail(pipes[q]) = SubSeq(pipes[q], 2, Len(pipes[q])) /\ Tail(pipes[q]) \in Seq(Nat)
    BY <1>1, <1>4
  <2> QED
    BY <1>2, <1>4, <2>2, <2>3 DEF PipesTypeOK
<1> QED
  BY <1>3, <1>4

(* What one step does to a pipe that handles lead to before and after it.    *)
Keeps(p) ==
  \/ pipes'[p] = pipes[p]
  \/ pipes'[p] = Append(pipes[p], put'[p])
  \/ table' = table /\ pipes[p] # <<>> /\ pipes'[p] = Tail(pipes[p])

KeepsAll == \A p \in Leading(table) \cap Leading(table') : Keeps(p)

LEMMA BecomesKeepsPipes ==
  ASSUME PipesTypeOK, pipes' = Kept(pipes, table'), put' = Counted(table')
  PROVE  PipesTypeOK' /\ KeepsAll
<1>1. PipesTypeOK'
  BY PipesKept
<1>2. KeepsAll
  BY DEF KeepsAll, Keeps, Kept, Leading
<1> QED
  BY <1>1, <1>2

LEMMA SameKeepsPipes ==
  ASSUME PipesTypeOK, UNCHANGED <<pipes, put>>
  PROVE  PipesTypeOK' /\ KeepsAll
BY DEF PipesTypeOK, KeepsAll, Keeps

LEMMA ReadKeepsPipes ==
  ASSUME PipesTypeOK, Leads, NEW h \in Handle, Read(h, 1)
  PROVE  PipesTypeOK' /\ KeepsAll
<1>1. CASE Mine(h).kind = "file" /\ Becomes(update_handle(h, FileAt(Lesser(Mine(h).pos + 1, FileSize))))
  BY <1>1, BecomesKeepsPipes DEF Becomes
<1>2. CASE Fails
  BY <1>2, SameKeepsPipes DEF Fails, handlesVars
<1>3. CASE /\ Mine(h).kind = "pipe"
           /\ pipes' = [pipes EXCEPT ![Mine(h).pipe] = SubSeq(@, Lesser(1, Len(@)) + 1, Len(@))]
           /\ put' = put /\ table' = table
  <2>1. Mine(h).pipe \in Pipe
    BY <1>3 DEF Leads
  <2>2. /\ PipesTypeOK'
        /\ \A p \in Pipe : pipes'[p] = pipes[p] \/ (pipes[p] # <<>> /\ pipes'[p] = Tail(pipes[p]))
    BY <1>3, <2>1, ReadFromPipe
  <2>3. KeepsAll
    BY <1>3, <2>2 DEF KeepsAll, Keeps, Leading
  <2> QED
    BY <2>2, <2>3
<1> QED
  BY <1>1, <1>2, <1>3 DEF Read

LEMMA WriteKeepsPipes ==
  ASSUME PipesTypeOK, Leads, NEW h \in Handle, Write(h)
  PROVE  PipesTypeOK' /\ KeepsAll
<1> DEFINE q == Mine(h).pipe
<1>1. /\ q \in Pipe
      /\ pipes' = [pipes EXCEPT ![q] = Append(@, put[q] + 1)]
      /\ put' = [put EXCEPT ![q] = @ + 1]
  BY DEF Write, Leads
<1>2. pipes[q] \in Seq(Nat) /\ put[q] \in Nat
  BY <1>1 DEF PipesTypeOK
<1>3. Append(pipes[q], put[q] + 1) \in Seq(Nat) /\ put[q] + 1 \in Nat
  BY <1>2
<1>4. PipesTypeOK'
  BY <1>1, <1>3 DEF PipesTypeOK
<1>5. KeepsAll
  BY <1>1 DEF KeepsAll, Keeps, PipesTypeOK, Leading
<1> QED
  BY <1>4, <1>5

LEMMA StepKeepsPipes ==
  ASSUME PipesTypeOK, Leads, [HandlesNext]_handlesVars
  PROVE  PipesTypeOK' /\ KeepsAll
<1>1. CASE pipes' = Kept(pipes, table') /\ put' = Counted(table')
  BY <1>1, BecomesKeepsPipes
<1>2. CASE UNCHANGED <<pipes, put>>
  BY <1>2, SameKeepsPipes
<1>3. CASE \E h \in Handle : Read(h, 1) \/ Write(h)
  BY <1>3, ReadKeepsPipes, WriteKeepsPipes
<1> QED
  BY <1>1, <1>2, <1>3 DEF HandlesNext, Open, Close, Seek, Dup, SetDir, SpawnFails, Spawn, Exit,
                          Becomes, Fails, handlesVars

(* A byte that was written to a pipe leaves it only by being read, in order, *)
(* however many handles of however many processes lead to it.                *)
THEOREM PipesKeep == HandlesSpec => PipeKeeps
<1>1. HandlesInit => PipesTypeOK
  BY DEF HandlesInit, PipesTypeOK
<1>2. HandlesSpec => [](ChainInv /\ PipesTypeOK)
  <2>1. ChainInv /\ PipesTypeOK /\ [HandlesNext]_handlesVars => (ChainInv /\ PipesTypeOK)'
    BY StepKeeps, HandleLeads, StepKeepsPipes
  <2> QED
    BY <1>1, <2>1, ChainInit, PTL DEF HandlesSpec
<1>3. ChainInv /\ PipesTypeOK /\ [HandlesNext]_handlesVars => [KeepsAll]_handlesVars
  BY HandleLeads, StepKeepsPipes
<1>4. HandlesSpec => [][KeepsAll]_handlesVars
  BY <1>2, <1>3, PTL DEF HandlesSpec
<1> QED
  BY <1>4 DEF PipeKeeps, KeepsAll, Keeps

-----------------------------------------------------------------------------
(***************************************************************************)
(* A sound is heard in the order in which it was written, whatever the     *)
(* sizes of the blocks, the ring and the writes.  The bytes on their way,  *)
(* the card's block first and then the buffer, rise, and lie between what  *)
(* was heard and what was given; and the AC97's current block is the last  *)
(* valid one whenever it plays or waits.                                   *)
(***************************************************************************)
Rises(s) == \A i, j \in 1 .. Len(s) : i < j => s[i] < s[j]

Below(s, t) == \A i \in 1 .. Len(s), j \in 1 .. Len(t) : s[i] < t[j]

Within(s, lo, hi) == \A i \in 1 .. Len(s) : lo < s[i] /\ s[i] <= hi

(* What the card has still to play of its block. *)
Block == IF dma = "on" /\ ~status THEN Played(blocks[civ]) ELSE <<>>

Places == 0 .. BDL - 1

SoundTypes ==
  /\ data_len \in Nat /\ given \in Nat /\ heard \in Nat /\ heard <= given
  /\ buffer \in Seq(Nat) /\ blocks \in [Places -> Seq(Nat)]
  /\ index \in Places /\ lvi \in Places /\ civ \in Places
  /\ is_playing \in BOOLEAN /\ status \in BOOLEAN /\ dma \in {"off", "on", "waits"}

(* Where the driver and the card are in the ring. *)
InStep ==
  /\ dma = "off" <=> ~is_playing
  /\ ~AC97 => index = 0 /\ civ = 0 /\ dma # "waits"
  /\ AC97 /\ dma # "off" => civ = lvi /\ index = (civ + 1) % BDL
  /\ AC97 => (dma = "on" => ~status) /\ (dma = "waits" => status)

OnTheWay ==
  /\ Rises(Block) /\ Rises(buffer) /\ Below(Block, buffer)
  /\ Within(Block, heard, given) /\ Within(buffer, heard, given)

SoundInv == SoundTypes /\ data_len \in 0 .. LengthMax /\ InStep /\ OnTheWay

(***************************************************************************)
(* Sequences that rise, joined and cut.                                    *)
(***************************************************************************)
LEMMA NoneRises == /\ Rises(<<>>) /\ \A s : Below(<<>>, s) /\ Below(s, <<>>)
                   /\ \A lo, hi : Within(<<>>, lo, hi)
  BY DEF Rises, Below, Within

LEMMA JoinRises ==
  ASSUME NEW s \in Seq(Nat), NEW t \in Seq(Nat), Rises(s), Rises(t), Below(s, t)
  PROVE  s \o t \in Seq(Nat) /\ Rises(s \o t)
  <1>1. /\ s \o t \in Seq(Nat)
        /\ Len(s \o t) = Len(s) + Len(t)
        /\ \A i \in 1 .. Len(s) + Len(t) :
             (s \o t)[i] = IF i <= Len(s) THEN s[i] ELSE t[i - Len(s)]
    BY ConcatProperties
  <1>2. Len(s) \in Nat /\ Len(t) \in Nat
    BY LenProperties
  <1>3. ASSUME NEW i \in 1 .. Len(s) + Len(t), NEW j \in 1 .. Len(s) + Len(t), i < j
        PROVE  (s \o t)[i] < (s \o t)[j]
    <2>1. CASE j <= Len(s)
      BY <1>1, <1>2, <1>3, <2>1 DEF Rises
    <2>2. CASE i <= Len(s) /\ j > Len(s)
      BY <1>1, <1>2, <1>3, <2>2 DEF Below
    <2>3. CASE i > Len(s)
      <3>1. i - Len(s) \in 1 .. Len(t) /\ j - Len(s) \in 1 .. Len(t) /\ i - Len(s) < j - Len(s)
        BY <1>2, <1>3, <2>3
      <3>2. t[i - Len(s)] < t[j - Len(s)]
        BY <3>1 DEF Rises
      <3> QED
        BY <3>2, <1>1, <1>2, <1>3, <2>3
    <2> QED
      BY <2>1, <2>2, <2>3, <1>2
  <1> QED
    BY <1>1, <1>3 DEF Rises

LEMMA JoinWithin ==
  ASSUME NEW s \in Seq(Nat), NEW t \in Seq(Nat), NEW lo \in Int, NEW hi \in Int,
         Within(s, lo, hi), Within(t, lo, hi)
  PROVE  Within(s \o t, lo, hi)
  <1>1. /\ Len(s \o t) = Len(s) + Len(t)
        /\ \A i \in 1 .. Len(s) + Len(t) :
             (s \o t)[i] = IF i <= Len(s) THEN s[i] ELSE t[i - Len(s)]
    BY ConcatProperties
  <1>2. Len(s) \in Nat /\ Len(t) \in Nat
    BY LenProperties
  <1> QED
    BY <1>1, <1>2 DEF Within

LEMMA JoinBelow ==
  ASSUME NEW r \in Seq(Nat), NEW s \in Seq(Nat), NEW t \in Seq(Nat), Below(r, s), Below(r, t)
  PROVE  Below(r, s \o t)
  <1>1. /\ Len(s \o t) = Len(s) + Len(t)
        /\ \A i \in 1 .. Len(s) + Len(t) :
             (s \o t)[i] = IF i <= Len(s) THEN s[i] ELSE t[i - Len(s)]
    BY ConcatProperties
  <1>2. Len(s) \in Nat /\ Len(t) \in Nat /\ Len(r) \in Nat
    BY LenProperties
  <1> QED
    BY <1>1, <1>2 DEF Below

(* One lies below the other when they lie on two sides of a number. *)
LEMMA Apart ==
  ASSUME NEW s \in Seq(Nat), NEW t \in Seq(Nat), NEW lo \in Int, NEW mid \in Int,
         NEW hi \in Int, Within(s, lo, mid), Within(t, mid, hi)
  PROVE  Below(s, t)
  <1> SUFFICES ASSUME NEW i \in 1 .. Len(s), NEW j \in 1 .. Len(t)
               PROVE  s[i] < t[j]
    BY DEF Below
  <1>1. s[i] \in Nat /\ t[j] \in Nat
    BY ElementOfSeq
  <1> QED
    BY <1>1 DEF Within

(* The bounds may be wider. *)
LEMMA Wider ==
  ASSUME NEW s \in Seq(Nat), NEW lo \in Int, NEW hi \in Int, NEW low \in Int, NEW high \in Int,
         Within(s, lo, hi), low <= lo, hi <= high
  PROVE  Within(s, low, high)
  <1> SUFFICES ASSUME NEW i \in 1 .. Len(s)
               PROVE  low < s[i] /\ s[i] <= high
    BY DEF Within
  <1>1. s[i] \in Nat
    BY ElementOfSeq
  <1> QED
    BY <1>1 DEF Within

LEMMA PartRises ==
  ASSUME NEW s \in Seq(Nat), NEW m \in Nat \ {0}, NEW n \in Nat, n <= Len(s), Rises(s)
  PROVE  /\ SubSeq(s, m, n) \in Seq(Nat) /\ Rises(SubSeq(s, m, n))
         /\ \A lo, hi \in Int : Within(s, lo, hi) => Within(SubSeq(s, m, n), lo, hi)
         /\ \A t \in Seq(Nat) : Below(s, t) => Below(SubSeq(s, m, n), t)
  <1>1. Len(s) \in Nat /\ \A i \in 1 .. Len(s) : s[i] \in Nat
    BY LenProperties, ElementOfSeq
  <1>2. \A i \in m .. n : s[i] \in Nat
    BY <1>1
  <1>3. /\ SubSeq(s, m, n) \in Seq(Nat)
        /\ Len(SubSeq(s, m, n)) = IF m <= n THEN n - m + 1 ELSE 0
        /\ \A i \in 1 .. n - m + 1 : SubSeq(s, m, n)[i] = s[m + i - 1]
    BY <1>2, SubSeqProperties
  <1>4. Rises(SubSeq(s, m, n))
    <2> SUFFICES ASSUME NEW i \in 1 .. Len(SubSeq(s, m, n)), NEW j \in 1 .. Len(SubSeq(s, m, n)),
                        i < j
                 PROVE  SubSeq(s, m, n)[i] < SubSeq(s, m, n)[j]
      BY DEF Rises
    <2>1. /\ m + i - 1 \in 1 .. Len(s) /\ m + j - 1 \in 1 .. Len(s) /\ m + i - 1 < m + j - 1
          /\ i \in 1 .. n - m + 1 /\ j \in 1 .. n - m + 1
      BY <1>1, <1>3
    <2>2. s[m + i - 1] < s[m + j - 1]
      BY <2>1 DEF Rises
    <2> QED
      BY <2>1, <2>2, <1>3
  <1>5. ASSUME NEW i \in 1 .. Len(SubSeq(s, m, n))
        PROVE  /\ m + i - 1 \in 1 .. Len(s) /\ SubSeq(s, m, n)[i] = s[m + i - 1]
    BY <1>1, <1>3
  <1>6. \A lo, hi \in Int : Within(s, lo, hi) => Within(SubSeq(s, m, n), lo, hi)
    BY <1>5 DEF Within
  <1>7. \A t \in Seq(Nat) : Below(s, t) => Below(SubSeq(s, m, n), t)
    BY <1>5 DEF Below
  <1> QED
    BY <1>3, <1>4, <1>6, <1>7

LEMMA CutBelow ==
  ASSUME NEW s \in Seq(Nat), NEW n \in Nat, n <= Len(s), Rises(s), NEW m \in Nat, n < m
  PROVE  Below(SubSeq(s, 1, n), SubSeq(s, m, Len(s)))
  <1>1. Len(s) \in Nat /\ \A i \in 1 .. Len(s) : s[i] \in Nat
    BY LenProperties, ElementOfSeq
  <1>2. /\ Len(SubSeq(s, 1, n)) = n
        /\ \A i \in 1 .. n : SubSeq(s, 1, n)[i] = s[i]
    BY <1>1, SubSeqProperties
  <1>3. \A i \in m .. Len(s) : s[i] \in Nat
    BY <1>1
  <1>4. /\ Len(SubSeq(s, m, Len(s))) = IF m <= Len(s) THEN Len(s) - m + 1 ELSE 0
        /\ \A i \in 1 .. Len(s) - m + 1 : SubSeq(s, m, Len(s))[i] = s[m + i - 1]
    BY <1>1, <1>3, SubSeqProperties
  <1> SUFFICES ASSUME NEW i \in 1 .. Len(SubSeq(s, 1, n)),
                      NEW j \in 1 .. Len(SubSeq(s, m, Len(s)))
               PROVE  SubSeq(s, 1, n)[i] < SubSeq(s, m, Len(s))[j]
    BY DEF Below
  <1>5. /\ i \in 1 .. Len(s) /\ m + j - 1 \in 1 .. Len(s) /\ i < m + j - 1
        /\ SubSeq(s, 1, n)[i] = s[i] /\ SubSeq(s, m, Len(s))[j] = s[m + j - 1]
    BY <1>1, <1>2, <1>4
  <1> QED
    BY <1>5 DEF Rises


(* Ordered(s, t, lo, hi): first s and then t, both between lo and hi. *)
Ordered(s, t, lo, hi) ==
  Rises(s) /\ Rises(t) /\ Below(s, t) /\ Within(s, lo, hi) /\ Within(t, lo, hi)

LEMMA GiveIs ==
  ASSUME NEW k \in Nat, given \in Nat
  PROVE  Give(k) \in Seq(Nat) /\ Rises(Give(k)) /\ Within(Give(k), given, given + k)
  <1> DEFINE g == [i \in 1 .. k |-> given + i]
  <1>1. Len(g) = k /\ \A i \in 1 .. k : g[i] = given + i
    OBVIOUS
  <1>2. g \in Seq(Nat)
    OBVIOUS
  <1> HIDE DEF g
  <1>3. Rises(g) /\ Within(g, given, given + k)
    BY <1>1 DEF Rises, Within
  <1>4. Give(k) = g
    BY DEF Give, g
  <1> QED
    BY <1>2, <1>3, <1>4

(* A block is filled with the first bytes, and the rest stays. *)
LEMMA PieceAndRest ==
  ASSUME NEW b \in Seq(Nat), NEW lo \in Int, NEW hi \in Int, Rises(b), Within(b, lo, hi)
  PROVE  /\ Piece(b) \in Seq(Nat) /\ Rest(b) \in Seq(Nat)
         /\ Ordered(Piece(b), Rest(b), lo, hi)
  <1>1. BlockLen \in Nat \ {0}
    BY SoundAssumption
  <1>2. Len(b) \in Nat
    BY LenProperties
  <1>3. Smaller(BlockLen, Len(b)) \in Nat /\ Smaller(BlockLen, Len(b)) <= Len(b)
        /\ Smaller(BlockLen, Len(b)) < BlockLen + 1
    BY <1>1, <1>2 DEF Smaller
  <1>4. /\ Piece(b) \in Seq(Nat) /\ Rises(Piece(b)) /\ Within(Piece(b), lo, hi)
    BY <1>2, <1>3, PartRises DEF Piece
  <1>5. /\ Rest(b) \in Seq(Nat) /\ Rises(Rest(b)) /\ Within(Rest(b), lo, hi)
    <2>1. BlockLen + 1 \in Nat \ {0}
      BY <1>1
    <2> QED
      BY <1>2, <2>1, PartRises DEF Rest
  <1>6. Below(Piece(b), Rest(b))
    <2>1. BlockLen + 1 \in Nat
      BY <1>1
    <2> QED
      BY <1>2, <1>3, <2>1, CutBelow DEF Piece, Rest
  <1> QED
    BY <1>4, <1>5, <1>6 DEF Ordered

LEMMA Remainder ==
  ASSUME NEW x \in Nat, NEW d \in Nat \ {0}
  PROVE  x % d \in Nat /\ x % d <= x /\ x - (x % d) \in 0 .. x
  <1>1. x = d * (x \div d) + (x % d) /\ x % d \in 0 .. d - 1 /\ x \div d \in Int
    BY Z3
  <1>2. PICK q \in Int, r \in 0 .. d - 1 : q = x \div d /\ r = x % d /\ x = d * q + r
    BY <1>1
  <1>3. q >= 0
    <2> SUFFICES ASSUME q <= -1 PROVE FALSE
      OBVIOUS
    <2>1. d * q <= d * (-1)
      BY Z3
    <2> QED
      BY <2>1, <1>2
  <1>4. d * q >= 0
    BY <1>3, Z3
  <1> QED
    BY <1>2, <1>4

LEMMA Small ==
  ASSUME NEW x \in Nat, NEW d \in Nat, x < d
  PROVE  x % d = x
  <1>1. x = d * (x \div d) + (x % d) /\ x % d \in 0 .. d - 1 /\ x \div d \in Int
    BY Z3
  <1>2. PICK q \in Int, r \in 0 .. d - 1 : q = x \div d /\ r = x % d /\ x = d * q + r
    BY <1>1
  <1>3. q >= 0
    <2> SUFFICES ASSUME q <= -1 PROVE FALSE
      OBVIOUS
    <2>1. d * q <= d * (-1)
      BY Z3
    <2> QED
      BY <2>1, <1>2
  <1>4. q <= 0
    <2> SUFFICES ASSUME q >= 1 PROVE FALSE
      OBVIOUS
    <2>1. d * q >= d * 1
      BY Z3
    <2> QED
      BY <2>1, <1>2
  <1> QED
    BY <1>2, <1>3, <1>4

LEMMA Itself ==
  ASSUME NEW d \in Nat, d > 0
  PROVE  d % d = 0
  <1>1. d = d * (d \div d) + (d % d) /\ d % d \in 0 .. d - 1 /\ d \div d \in Int
    BY Z3
  <1>2. PICK q \in Int, r \in 0 .. d - 1 : q = d \div d /\ r = d % d /\ d = d * q + r
    BY <1>1
  <1>3. q >= 1
    <2> SUFFICES ASSUME q <= 0 PROVE FALSE
      OBVIOUS
    <2>1. d * q <= d * 0
      BY Z3
    <2> QED
      BY <2>1, <1>2
  <1>4. q <= 1
    <2> SUFFICES ASSUME q >= 2 PROVE FALSE
      OBVIOUS
    <2>1. d * q >= d * 2
      BY Z3
    <2> QED
      BY <2>1, <1>2
  <1> QED
    BY <1>2, <1>3, <1>4

(* The card plays whole samples, the first of the block. *)
LEMMA PlayedFirst ==
  ASSUME NEW s \in Seq(Nat), NEW t \in Seq(Nat), NEW lo \in Int, NEW hi \in Int,
         Ordered(s, t, lo, hi)
  PROVE  Played(s) \in Seq(Nat) /\ Ordered(Played(s), t, lo, hi)
  <1>1. CASE AC97
    <2>1. SampleLen \in Nat \ {0}
      BY SoundAssumption
    <2>2. Len(s) \in Nat
      BY LenProperties
    <2>3. Len(s) - (Len(s) % SampleLen) \in 0 .. Len(s)
      BY <2>1, <2>2, Remainder
    <2>4. Len(s) - (Len(s) % SampleLen) \in Nat /\ Len(s) - (Len(s) % SampleLen) <= Len(s)
      BY <2>2, <2>3
    <2>5. Rises(s) /\ Rises(t) /\ Below(s, t) /\ Within(s, lo, hi) /\ Within(t, lo, hi)
      BY DEF Ordered
    <2>6. LET p == SubSeq(s, 1, Len(s) - (Len(s) % SampleLen))
          IN  p \in Seq(Nat) /\ Rises(p) /\ Below(p, t) /\ Within(p, lo, hi)
      BY <2>4, <2>5, PartRises
    <2>7. Played(s) = SubSeq(s, 1, Len(s) - (Len(s) % SampleLen))
      BY <1>1 DEF Played
    <2> QED
      BY <2>5, <2>6, <2>7 DEF Ordered
  <1>2. CASE ~AC97
    BY <1>2 DEF Played
  <1> QED
    BY <1>1, <1>2

LEMMA NothingFirst ==
  ASSUME NEW s, NEW t, NEW lo, NEW hi, Ordered(s, t, lo, hi)
  PROVE  Ordered(<<>>, t, lo, hi)
  BY NoneRises DEF Ordered

LEMMA OrderedAlone ==
  ASSUME NEW t, NEW lo, NEW hi, Rises(t), Within(t, lo, hi)
  PROVE  Ordered(<<>>, t, lo, hi)
  BY NoneRises DEF Ordered

(* The types after a block was filled, and what the card may play of it. *)
LEMMA FillKeeps ==
  ASSUME SoundTypes, NEW bs \in [Places -> Seq(Nat)], NEW i \in Places, NEW b \in Seq(Nat),
         NEW lo \in Int, NEW hi \in Int, Rises(b), Within(b, lo, hi),
         Fill(bs, i, b)
  PROVE  /\ buffer' \in Seq(Nat) /\ blocks' \in [Places -> Seq(Nat)]
         /\ index' \in Places /\ lvi' = i
         /\ ~AC97 => index' = 0
         /\ AC97 => index' = (i + 1) % BDL
         /\ Ordered(<<>>, buffer', lo, hi)
         /\ Ordered(Played(blocks'[i]), buffer', lo, hi)
  <1>1. /\ Piece(b) \in Seq(Nat) /\ Rest(b) \in Seq(Nat)
        /\ Ordered(Piece(b), Rest(b), lo, hi)
    BY PieceAndRest
  <1>2. blocks' = [bs EXCEPT ![i] = Piece(b)] /\ buffer' = Rest(b)
        /\ index' = (IF AC97 THEN (i + 1) % BDL ELSE 0) /\ lvi' = i
    BY DEF Fill
  <1>3. blocks' \in [Places -> Seq(Nat)] /\ blocks'[i] = Piece(b)
    BY <1>1, <1>2
  <1>4. BDL \in Nat /\ BDL > 1
    BY SoundAssumption
  <1>5. (i + 1) % BDL \in Places /\ 0 \in Places
    BY <1>4 DEF Places
  <1>6. index' \in Places
    BY <1>2, <1>5
  <1>7. Ordered(Played(Piece(b)), Rest(b), lo, hi)
    BY <1>1, PlayedFirst
  <1>9. Ordered(<<>>, Rest(b), lo, hi)
    BY <1>1, NothingFirst
  <1> QED
    BY <1>1, <1>2, <1>3, <1>6, <1>7, <1>9


LEMMA SoundStarts == SoundInit => SoundInv
  <1> SUFFICES ASSUME SoundInit PROVE SoundInv
    OBVIOUS
  <1>1. 0 \in Places /\ 0 \in 0 .. LengthMax /\ <<>> \in Seq(Nat)
    BY SoundAssumption DEF Places
  <1>2. blocks \in [Places -> Seq(Nat)]
    BY <1>1 DEF SoundInit, Places
  <1>3. SoundTypes /\ data_len \in 0 .. LengthMax
    BY <1>1, <1>2 DEF SoundInit, SoundTypes
  <1>4. InStep
    BY DEF SoundInit, InStep
  <1>5. Block = <<>> /\ buffer = <<>>
    BY DEF SoundInit, Block
  <1>6. OnTheWay
    BY <1>5, NoneRises DEF OnTheWay
  <1> QED
    BY <1>3, <1>4, <1>6 DEF SoundInv

(* What is on the way, in one. *)
LEMMA WayIs ==
  /\ OnTheWay <=> Ordered(Block, buffer, heard, given)
  /\ SoundTypes => Block \in Seq(Nat) /\ (dma = "on" /\ ~status => Block = Played(blocks[civ]))
  <1>1. OnTheWay <=> Ordered(Block, buffer, heard, given)
    BY DEF OnTheWay, Ordered
  <1>2. ASSUME SoundTypes
        PROVE  Block \in Seq(Nat)
    <2>1. blocks[civ] \in Seq(Nat)
      BY <1>2 DEF SoundTypes
    <2>2. Ordered(<<>>, <<>>, 0, 0)
      BY NoneRises DEF Ordered
    <2>3. Len(blocks[civ]) \in Nat
      BY <2>1, LenProperties
    <2>4. SampleLen \in Nat \ {0}
      BY SoundAssumption
    <2>5. Len(blocks[civ]) - (Len(blocks[civ]) % SampleLen) \in 0 .. Len(blocks[civ])
      BY <2>3, <2>4, Remainder
    <2>6. \A i \in 1 .. Len(blocks[civ]) - (Len(blocks[civ]) % SampleLen) : blocks[civ][i] \in Nat
      BY <2>1, <2>3, <2>5, ElementOfSeq
    <2>7. Played(blocks[civ]) \in Seq(Nat)
      BY <2>1, <2>5, <2>6, SubSeqProperties DEF Played
    <2> QED
      BY <2>7 DEF Block
  <1> QED
    BY <1>1, <1>2 DEF Block

(* After a step that fills block i the card plays it or nothing. *)
LEMMA BlockAfter ==
  ASSUME device' = device, NEW i, dma' = "on" /\ ~status' => civ' = i
  PROVE  Block' = Played(blocks'[i]) \/ Block' = <<>>
  BY DEF Block, Played, AC97

LEMMA NoBlockAfter ==
  ASSUME dma' = "off"
  PROVE  Block' = <<>>
  BY DEF Block

(***************************************************************************)
(* The driver starts to play what is in b.                                 *)
(***************************************************************************)
LEMMA StartKeeps ==
  ASSUME SoundInv, NEW bs \in [Places -> Seq(Nat)], NEW b \in Seq(Nat), Rises(b),
         Within(b, heard, given'), given' \in Nat, given <= given', heard' = heard,
         device' = device, data_len' \in 0 .. LengthMax, Start(bs, b)
  PROVE  SoundInv'
  <1>1. SoundTypes /\ heard \in Nat /\ given \in Nat /\ heard <= given
    BY DEF SoundInv, SoundTypes
  <1>2. 0 \in Places
    BY SoundAssumption DEF Places
  <1>3. Fill(bs, 0, b) /\ is_playing' = TRUE /\ civ' = 0 /\ dma' = "on"
        /\ status' = (status /\ ~AC97)
    BY DEF Start
  <1>4. /\ buffer' \in Seq(Nat) /\ blocks' \in [Places -> Seq(Nat)]
        /\ index' \in Places /\ lvi' = 0
        /\ ~AC97 => index' = 0
        /\ AC97 => index' = (0 + 1) % BDL
        /\ Ordered(<<>>, buffer', heard, given')
        /\ Ordered(Played(blocks'[0]), buffer', heard, given')
    BY <1>1, <1>2, <1>3, FillKeeps
  <1>5. status' \in BOOLEAN
    BY <1>3, Zenon
  <1>6. SoundTypes'
    <2>1. data_len' \in Nat /\ heard' <= given' /\ heard' \in Nat /\ given' \in Nat
      BY <1>1, SoundAssumption
    <2>2. is_playing' \in BOOLEAN
      BY <1>3, Zenon
    <2> QED
      BY <1>2, <1>3, <1>4, <1>5, <2>1, <2>2 DEF SoundTypes
  <1>7. AC97' <=> AC97
    BY DEF AC97
  <1>8. AC97 => ~status'
    BY <1>3, Zenon
  <1>9. InStep'
    BY <1>3, <1>4, <1>7, <1>8 DEF InStep
  <1>10. Block' = Played(blocks'[0]) \/ Block' = <<>>
    BY <1>3, BlockAfter
  <1>11. OnTheWay'
    BY <1>4, <1>10 DEF OnTheWay, Ordered
  <1> QED
    BY <1>6, <1>9, <1>11 DEF SoundInv

LEMMA SilentIs == Silent \in [Places -> Seq(Nat)]
  BY DEF Silent, Places

(* The buffer with what is written behind it. *)
LEMMA WithNew ==
  ASSUME SoundInv, NEW k \in Nat
  PROVE  /\ buffer \o Give(k) \in Seq(Nat) /\ Rises(buffer \o Give(k))
         /\ Within(buffer \o Give(k), heard, given + k)
         /\ Below(Block, buffer \o Give(k))
         /\ Give(k) \in Seq(Nat) /\ Rises(Give(k)) /\ Within(Give(k), heard, given + k)
         /\ given + k \in Nat /\ given <= given + k
  <1>1. SoundTypes /\ buffer \in Seq(Nat) /\ given \in Nat /\ heard \in Nat /\ heard <= given
        /\ given + k \in Nat /\ given <= given + k
    BY DEF SoundInv, SoundTypes
  <1>2. Give(k) \in Seq(Nat) /\ Rises(Give(k)) /\ Within(Give(k), given, given + k)
    BY <1>1, GiveIs
  <1>3. Within(Give(k), heard, given + k)
    BY <1>1, <1>2, Wider
  <1>4. /\ Rises(buffer) /\ Within(buffer, heard, given) /\ Below(Block, buffer)
        /\ Within(Block, heard, given) /\ Block \in Seq(Nat)
    BY <1>1, WayIs DEF SoundInv, OnTheWay
  <1>5. Below(buffer, Give(k)) /\ Below(Block, Give(k))
    BY <1>1, <1>2, <1>4, Apart
  <1>6. Within(buffer, heard, given + k)
    BY <1>1, <1>4, Wider
  <1> QED
    BY <1>1, <1>2, <1>3, <1>4, <1>5, <1>6, JoinRises, JoinWithin, JoinBelow

(* The driver is stopped, and plays what is written. *)
LEMMA StopKeeps ==
  ASSUME SoundInv, NEW k \in Nat, Took(k), StopAndPlay(Give(k)), data_len' \in 0 .. LengthMax
  PROVE  SoundInv'
  <1> DEFINE stays == AC97 /\ ~is_playing
             b == IF stays THEN buffer \o Give(k) ELSE Give(k)
             bs == IF stays THEN blocks ELSE Silent
  <1>1. SoundTypes /\ heard \in Nat /\ given \in Nat /\ heard <= given
    BY DEF SoundInv, SoundTypes
  <1>2. given' = given + k /\ device' = device /\ heard' = heard
    BY DEF Took
  <1>3. /\ b \in Seq(Nat) /\ Rises(b) /\ Within(b, heard, given')
        /\ given' \in Nat /\ given <= given'
    BY <1>2, WithNew
  <1>4. bs \in [Places -> Seq(Nat)]
    BY <1>1, SilentIs DEF SoundTypes
  <1>5. CASE Start(bs, b)
    BY <1>2, <1>3, <1>4, <1>5, StartKeeps
  <1>6. CASE /\ buffer' = b /\ blocks' = bs
             /\ is_playing' = FALSE /\ dma' = "off"
             /\ UNCHANGED <<index, lvi, civ, status>>
    <2>1. SoundTypes'
      <3>1. data_len' \in Nat /\ heard' <= given' /\ heard' \in Nat /\ given' \in Nat
        BY <1>1, <1>2, <1>3, SoundAssumption
      <3>2. status' \in BOOLEAN /\ is_playing' \in BOOLEAN
        BY <1>1, <1>6, Zenon DEF SoundTypes
      <3> QED
        BY <1>1, <1>3, <1>4, <1>6, <3>1, <3>2 DEF SoundTypes
    <2>2. AC97' <=> AC97
      BY <1>2 DEF AC97
    <2>3. InStep'
      BY <1>6, <2>2 DEF InStep, SoundInv
    <2>4. Block' = <<>>
      BY <1>6, NoBlockAfter
    <2>5. OnTheWay'
      BY <2>4, <1>2, <1>3, <1>6, NoneRises DEF OnTheWay
    <2> QED
      BY <2>1, <2>3, <2>5 DEF SoundInv
  <1> QED
    BY <1>5, <1>6 DEF StopAndPlay

LEMMA NothingKeeps ==
  ASSUME SoundInv, WriteNothing
  PROVE  SoundInv'
  <1>1. /\ SoundTypes /\ heard \in Nat /\ given \in Nat /\ heard <= given
        /\ buffer \in Seq(Nat) /\ Rises(buffer) /\ Within(buffer, heard, given)
    BY DEF SoundInv, SoundTypes, OnTheWay
  <1>2. given' = given /\ device' = device /\ heard' = heard /\ data_len' = data_len
        /\ is_playing' = FALSE /\ dma' = "off" /\ UNCHANGED <<index, lvi, civ, status>>
    BY <1>1 DEF WriteNothing, Took
  <1>3. buffer' = buffer \/ buffer' = <<>>
    BY DEF WriteNothing
  <1>4. buffer' \in Seq(Nat) /\ Rises(buffer') /\ Within(buffer', heard, given)
    <2>1. <<>> \in Seq(Nat)
      OBVIOUS
    <2> QED
      BY <2>1, <1>1, <1>3, NoneRises
  <1>5. blocks' \in [Places -> Seq(Nat)]
    BY <1>1, SilentIs DEF WriteNothing, SoundTypes
  <1>6. SoundTypes'
    BY <1>1, <1>2, <1>4, <1>5 DEF SoundTypes
  <1>7. AC97' <=> AC97
    BY <1>2 DEF AC97
  <1>8. InStep'
    BY <1>2, <1>7 DEF InStep, SoundInv
  <1>9. Block' = <<>>
    BY <1>2, NoBlockAfter
  <1>10. OnTheWay'
    BY <1>9, <1>2, <1>4, NoneRises DEF OnTheWay
  <1> QED
    BY <1>2, <1>6, <1>8, <1>10 DEF SoundInv

(* More of the sound is queued, or played at once. *)
LEMMA PlayKeeps ==
  ASSUME SoundInv, NEW k \in Nat, Took(k), Play(Give(k)), data_len' \in 0 .. LengthMax
  PROVE  SoundInv'
  <1>1. SoundTypes /\ heard \in Nat /\ given \in Nat /\ heard <= given
        /\ blocks \in [Places -> Seq(Nat)]
    BY DEF SoundInv, SoundTypes
  <1>2. given' = given + k /\ device' = device /\ heard' = heard
    BY DEF Took
  <1> DEFINE b == buffer \o Give(k)
  <1>3. /\ b \in Seq(Nat) /\ Rises(b) /\ Within(b, heard, given') /\ Below(Block, b)
        /\ given' \in Nat /\ given <= given'
    BY <1>2, WithNew
  <1>4. CASE Start(blocks, b)
    BY <1>1, <1>2, <1>3, <1>4, StartKeeps
  <1>5. CASE Keep(b)
    <2>1. buffer' = b /\ UNCHANGED <<is_playing, blocks, index, lvi, civ, dma, status>>
      BY <1>5 DEF Keep
    <2>2. SoundTypes'
      BY <1>1, <1>2, <1>3, <2>1 DEF SoundTypes
    <2>3. AC97' <=> AC97
      BY <1>2 DEF AC97
    <2>4. InStep'
      BY <2>1, <2>3 DEF InStep, SoundInv
    <2>5. Block' = Block
      BY <1>2, <2>1 DEF Block, Played, AC97
    <2>6. Block \in Seq(Nat) /\ Rises(Block) /\ Within(Block, heard, given)
      BY <1>1, WayIs DEF SoundInv, OnTheWay
    <2>7. Within(Block, heard, given')
      BY <1>1, <1>3, <2>6, Wider
    <2>8. OnTheWay'
      BY <1>2, <1>3, <2>1, <2>5, <2>6, <2>7 DEF OnTheWay
    <2> QED
      BY <2>2, <2>4, <2>8 DEF SoundInv
  <1> QED
    BY <1>4, <1>5 DEF Play

LEMMA WriteKeeps ==
  ASSUME SoundInv, WriteSound
  PROVE  SoundInv'
  <1>1. HeaderLen \in Nat \ {0} /\ PieceMax \in Nat \ {0} /\ LengthMax \in Nat
    BY SoundAssumption
  <1>2. data_len \in 0 .. LengthMax
    BY DEF SoundInv
  <1>3. CASE WriteNothing
    BY <1>3, NothingKeeps
  <1>4. CASE WriteHeader
    <2>1. PICK d \in 0 .. LengthMax, k \in 0 .. PieceMax :
            LET j == Smaller(HeaderLen + k, HeaderLen + d)
                taken == IF d > 0 THEN j - HeaderLen ELSE k
            IN /\ data_len' = IF d > 0 THEN d - (j - HeaderLen) ELSE 0
               /\ StopAndPlay(Give(taken)) /\ Took(taken)
      BY <1>4 DEF WriteHeader
    <2> DEFINE j == Smaller(HeaderLen + k, HeaderLen + d)
               taken == IF d > 0 THEN j - HeaderLen ELSE k
    <2>2. taken \in Nat /\ (IF d > 0 THEN d - (j - HeaderLen) ELSE 0) \in 0 .. LengthMax
      BY <1>1 DEF Smaller
    <2>3. data_len' \in 0 .. LengthMax /\ StopAndPlay(Give(taken)) /\ Took(taken)
      BY <2>1, <2>2
    <2> HIDE DEF taken
    <2> QED
      BY <2>2, <2>3, StopKeeps
  <1>5. CASE WriteMore
    <2>1. PICK k \in 1 .. PieceMax :
            LET j == Smaller(k, data_len)
            IN data_len' = data_len - j /\ Play(Give(j)) /\ Took(j)
      BY <1>5 DEF WriteMore
    <2> DEFINE j == Smaller(k, data_len)
    <2>2. j \in Nat /\ data_len - j \in 0 .. LengthMax
      BY <1>1, <1>2 DEF Smaller
    <2>3. data_len' \in 0 .. LengthMax /\ Play(Give(j)) /\ Took(j)
      BY <2>1, <2>2
    <2> HIDE DEF j
    <2> QED
      BY <2>2, <2>3, PlayKeeps
  <1>6. CASE WriteRaw
    <2>1. PICK k \in 1 .. PieceMax : StopAndPlay(Give(k)) /\ Took(k)
      BY <1>6 DEF WriteRaw
    <2>2. data_len' \in 0 .. LengthMax
      BY <1>2, <1>6 DEF WriteRaw
    <2> QED
      BY <2>1, <2>2, StopKeeps
  <1> QED
    BY <1>3, <1>4, <1>5, <1>6 DEF WriteSound


(***************************************************************************)
(* The card plays its block, and its interrupt is answered.                *)
(***************************************************************************)
(* Where a block ends everything before it was, and everything after is.     *)
LEMMA LastIs ==
  ASSUME NEW s \in Seq(Nat), NEW t \in Seq(Nat), NEW lo \in Nat, NEW hi \in Nat, s # <<>>,
         Ordered(s, t, lo, hi)
  PROVE  Last(s) \in Nat /\ lo < Last(s) /\ Last(s) <= hi /\ Within(t, Last(s), hi)
  <1>1. Len(s) \in Nat \ {0} /\ Len(s) \in 1 .. Len(s)
    BY EmptySeq, LenProperties
  <1>2. Last(s) \in Nat /\ Last(s) = s[Len(s)]
    BY <1>1, ElementOfSeq DEF Last
  <1>3. Len(t) \in Nat
    BY LenProperties
  <1> QED
    BY <1>1, <1>2, <1>3 DEF Ordered, Below, Within

LEMMA PlayBlockKeeps ==
  ASSUME SoundInv, PlayBlock
  PROVE  SoundInv'
  <1>1. /\ SoundTypes /\ heard \in Nat /\ given \in Nat /\ heard <= given
        /\ buffer \in Seq(Nat) /\ civ \in Places /\ lvi \in Places /\ dma = "on"
    BY DEF SoundInv, SoundTypes, PlayBlock
  <1>2. /\ UNCHANGED <<device, data_len, buffer, is_playing, blocks, index, lvi, given>>
        /\ status' = TRUE
    BY DEF PlayBlock
  <1>3. ~status
    BY <1>1 DEF PlayBlock, SoundInv, InStep
  <1>4. Block = Played(blocks[civ]) /\ Block \in Seq(Nat) /\ Ordered(Block, buffer, heard, given)
    BY <1>1, <1>3, WayIs DEF SoundInv
  <1>5. heard' = IF Block = <<>> THEN heard ELSE Last(Block)
    BY <1>4 DEF PlayBlock
  <1>6. heard' \in Nat /\ heard' <= given /\ Within(buffer, heard', given)
    BY <1>1, <1>4, <1>5, LastIs DEF Ordered
  <1>7. civ' = civ /\ dma' \in {"on", "waits"} /\ (dma' = "on" => ~AC97) /\ (~AC97 => dma' = dma)
    BY <1>1 DEF PlayBlock, SoundInv, InStep
  <1>8. SoundTypes'
    <2>1. status' \in BOOLEAN /\ is_playing' \in BOOLEAN
      BY <1>1, <1>2, Zenon DEF SoundTypes
    <2> QED
      BY <1>1, <1>2, <1>6, <1>7, <2>1 DEF SoundTypes
  <1>9. AC97' <=> AC97
    BY <1>2 DEF AC97
  <1>10. InStep'
    <2>1. is_playing
      BY <1>1 DEF SoundInv, InStep
    <2>2. dma' = "off" <=> ~is_playing'
      BY <2>1, <1>2, <1>7
    <2>3. ~AC97 => index' = 0 /\ civ' = 0 /\ dma' # "waits"
      BY <1>1, <1>2, <1>7 DEF SoundInv, InStep
    <2>4. AC97 => civ' = lvi' /\ index' = (civ' + 1) % BDL /\ dma' = "waits"
      BY <1>1, <1>2, <1>7 DEF SoundInv, InStep
    <2>5. status'
      BY <1>2
    <2> QED
      BY <2>2, <2>3, <2>4, <2>5, <1>9 DEF InStep
  <1>11. Block' = <<>>
    BY <1>2 DEF Block
  <1>12. Rises(buffer)
    BY DEF SoundInv, OnTheWay
  <1>13. OnTheWay'
    BY <1>2, <1>6, <1>11, <1>12, NoneRises DEF OnTheWay
  <1> QED
    BY <1>2, <1>8, <1>10, <1>13 DEF SoundInv

LEMMA EndKeeps ==
  ASSUME SoundInv, handle_interrupt, EndOfSound
  PROVE  SoundInv'
  <1>1. SoundTypes /\ InStep /\ status
    BY DEF SoundInv, handle_interrupt
  <1>2. /\ status' = FALSE /\ is_playing' = FALSE /\ buffer' = <<>>
        /\ UNCHANGED <<index, lvi, civ, device, data_len, given, heard>>
    BY DEF EndOfSound, handle_interrupt
  <1>3. dma' = "off"
    <2>1. CASE is_playing \/ ~AC97
      BY <2>1 DEF EndOfSound
    <2>2. CASE ~(is_playing \/ ~AC97)
      BY <2>2, <1>1 DEF EndOfSound, InStep
    <2> QED
      BY <2>1, <2>2
  <1>4. blocks' \in [Places -> Seq(Nat)]
    BY <1>1, SilentIs DEF EndOfSound, SoundTypes
  <1>5. SoundTypes'
    <2>1. status' \in BOOLEAN /\ is_playing' \in BOOLEAN
      BY <1>2, Zenon
    <2>2. <<>> \in Seq(Nat)
      OBVIOUS
    <2> QED
      BY <1>1, <1>2, <1>3, <1>4, <2>1, <2>2 DEF SoundTypes
  <1>6. AC97' <=> AC97
    BY <1>2 DEF AC97
  <1>7. InStep'
    BY <1>1, <1>2, <1>3, <1>6 DEF InStep
  <1>8. Block' = <<>>
    BY <1>3, NoBlockAfter
  <1>9. OnTheWay'
    BY <1>2, <1>8, NoneRises DEF OnTheWay
  <1> QED
    BY <1>2, <1>5, <1>7, <1>9 DEF SoundInv

LEMMA NextKeeps ==
  ASSUME SoundInv, handle_interrupt, NextBlock
  PROVE  SoundInv'
  <1>1. /\ SoundTypes /\ InStep /\ status /\ heard \in Nat /\ given \in Nat /\ heard <= given
        /\ buffer \in Seq(Nat) /\ blocks \in [Places -> Seq(Nat)]
        /\ index \in Places /\ civ \in Places /\ Rises(buffer) /\ Within(buffer, heard, given)
    BY DEF SoundInv, SoundTypes, OnTheWay, handle_interrupt
  <1>2. /\ status' = FALSE /\ is_playing' = is_playing /\ Fill(blocks, index, buffer)
        /\ UNCHANGED <<device, data_len, given, heard>>
    BY DEF NextBlock, handle_interrupt
  <1>3. /\ buffer' \in Seq(Nat) /\ blocks' \in [Places -> Seq(Nat)]
        /\ index' \in Places /\ lvi' = index
        /\ ~AC97 => index' = 0
        /\ AC97 => index' = (index + 1) % BDL
        /\ Ordered(<<>>, buffer', heard, given)
        /\ Ordered(Played(blocks'[index]), buffer', heard, given)
    BY <1>1, <1>2, FillKeeps
  <1>4. BDL \in Nat /\ BDL > 1
    BY SoundAssumption
  <1>5. (civ + 1) % BDL \in Places /\ (civ + 1) % BDL # civ
    <2>1. civ \in Nat /\ civ <= BDL - 1
      BY <1>1, <1>4 DEF Places
    <2>2. CASE civ + 1 < BDL
      <3>1. (civ + 1) % BDL = civ + 1
        BY <2>1, <2>2, <1>4, Small
      <3> QED
        BY <3>1, <2>1, <2>2, <1>4 DEF Places
    <2>3. CASE civ + 1 = BDL
      <3>1. (civ + 1) % BDL = 0
        BY <2>3, <1>4, Itself
      <3> QED
        BY <3>1, <2>1, <2>3, <1>4 DEF Places
    <2> QED
      BY <2>1, <2>2, <2>3, <1>4
  <1>6. CASE AC97 /\ dma = "waits"
    <2>1. index = (civ + 1) % BDL
      BY <1>1, <1>6 DEF InStep
    <2>2. dma' = "on" /\ civ' = index
      BY <2>1, <1>5, <1>6 DEF NextBlock
    <2>3. is_playing
      BY <1>1, <1>6 DEF InStep
    <2>4. AC97' /\ InStep'
      BY <1>2, <1>3, <1>6, <2>2, <2>3 DEF InStep, AC97
    <2>5. SoundTypes'
      <3>1. status' \in BOOLEAN /\ is_playing' \in BOOLEAN
        BY <1>1, <1>2, Zenon DEF SoundTypes
      <3> QED
        BY <1>1, <1>2, <1>3, <2>2, <3>1 DEF SoundTypes
    <2>6. Block' = Played(blocks'[index]) \/ Block' = <<>>
      BY <1>2, <2>2, BlockAfter
    <2>7. OnTheWay'
      BY <1>2, <1>3, <2>6 DEF OnTheWay, Ordered
    <2> QED
      BY <1>2, <2>4, <2>5, <2>7 DEF SoundInv
  <1>7. CASE dma # "waits"
    <2>1. dma' = dma /\ civ' = civ
      BY <1>7 DEF NextBlock
    <2>2. AC97 => dma = "off"
      BY <1>1, <1>7 DEF InStep, SoundTypes
    <2>3. AC97' <=> AC97
      BY <1>2 DEF AC97
    <2>4. ~AC97 => civ = 0 /\ index = 0
      BY <1>1 DEF InStep
    <2>5. InStep'
      <3>1. dma' = "off" <=> ~is_playing'
        BY <1>1, <1>2, <2>1 DEF InStep
      <3>2. ~AC97 => index' = 0 /\ civ' = 0 /\ dma' # "waits"
        BY <1>3, <1>7, <2>1, <2>4
      <3> QED
        BY <3>1, <3>2, <2>1, <2>2, <2>3 DEF InStep
    <2>6. SoundTypes'
      <3>1. status' \in BOOLEAN /\ is_playing' \in BOOLEAN
        BY <1>1, <1>2, Zenon DEF SoundTypes
      <3> QED
        BY <1>1, <1>2, <1>3, <2>1, <3>1 DEF SoundTypes
    <2>7. Block' = Played(blocks'[index]) \/ Block' = <<>>
      BY <1>2, <2>1, <2>2, <2>4, BlockAfter
    <2>8. OnTheWay'
      BY <1>2, <1>3, <2>7 DEF OnTheWay, Ordered
    <2> QED
      BY <1>2, <2>5, <2>6, <2>8 DEF SoundInv
  <1> QED
    BY <1>1, <1>6, <1>7 DEF InStep

LEMMA SoundKeeps == SoundInv /\ [SoundNext]_soundVars => SoundInv'
  <1> SUFFICES ASSUME SoundInv, [SoundNext]_soundVars PROVE SoundInv'
    OBVIOUS
  <1>1. CASE WriteSound
    BY <1>1, WriteKeeps
  <1>2. CASE PlayBlock
    BY <1>2, PlayBlockKeeps
  <1>3. CASE handle_interrupt
    BY <1>3, EndKeeps, NextKeeps DEF handle_interrupt
  <1>4. CASE UNCHANGED soundVars
    <2>1. UNCHANGED <<device, data_len, buffer, is_playing, blocks, index, lvi, civ, dma, status,
                      given, heard>>
      BY <1>4 DEF soundVars, driverState
    <2>2. Block' = Block /\ (AC97' <=> AC97)
      BY <2>1 DEF Block, Played, AC97
    <2> QED
      BY <2>1, <2>2 DEF SoundInv, SoundTypes, InStep, OnTheWay
  <1> QED
    BY <1>1, <1>2, <1>3, <1>4 DEF SoundNext

LEMMA SoundIsHeard == SoundInv => HeardInOrder /\ GoesOn /\ LengthCounts
  <1> SUFFICES ASSUME SoundInv PROVE HeardInOrder /\ GoesOn /\ LengthCounts
    OBVIOUS
  <1>1. /\ SoundTypes /\ heard \in Nat /\ given \in Nat /\ heard <= given
        /\ buffer \in Seq(Nat) /\ InStep
    BY DEF SoundInv, SoundTypes
  <1>2. Block \in Seq(Nat) /\ Ordered(Block, buffer, heard, given)
    BY <1>1, WayIs DEF SoundInv
  <1> DEFINE first == <<heard>>
             last == <<given + 1>>
  <1>3. first \in Seq(Nat) /\ Len(first) = 1 /\ first[1] = heard
        /\ last \in Seq(Nat) /\ Len(last) = 1 /\ last[1] = given + 1
    BY <1>1
  <1> HIDE DEF first, last
  <1>4. Rises(first) /\ Rises(last)
    BY <1>3 DEF Rises
  <1>5. Below(first, Block) /\ Below(first, buffer)
    BY <1>2, <1>3 DEF Ordered, Below, Within
  <1>6. Below(first, last)
    BY <1>1, <1>3 DEF Below
  <1>7. /\ Within(Block, heard, given) /\ Within(buffer, heard, given)
        /\ Within(last, given, given + 1)
    BY <1>1, <1>2, <1>3 DEF Ordered, Within
  <1>8. Below(Block, last) /\ Below(buffer, last)
    BY <1>1, <1>2, <1>3, <1>7, Apart
  <1>9. Block \o buffer \in Seq(Nat) /\ Rises(Block \o buffer)
    BY <1>1, <1>2, JoinRises DEF Ordered
  <1>10. Below(first, Block \o buffer)
    BY <1>1, <1>2, <1>3, <1>5, JoinBelow
  <1>11. Below(Block \o buffer, last)
    <2>1. Within(Block \o buffer, heard, given)
      BY <1>1, <1>2, <1>7, JoinWithin
    <2>2. given + 1 \in Int /\ given \in Int /\ heard \in Int
      BY <1>1
    <2> QED
      BY <2>1, <2>2, <1>3, <1>7, <1>9, Apart
  <1>12. (Block \o buffer) \o last \in Seq(Nat) /\ Rises((Block \o buffer) \o last)
    BY <1>3, <1>4, <1>9, <1>11, JoinRises
  <1>13. Below(first, (Block \o buffer) \o last)
    BY <1>3, <1>6, <1>9, <1>10, JoinBelow
  <1> DEFINE all == first \o ((Block \o buffer) \o last)
  <1>14. all \in Seq(Nat) /\ Rises(all)
    BY <1>3, <1>4, <1>12, <1>13, JoinRises
  <1>15. <<heard>> \o ToHear = all
    BY DEF first, last, ToHear, Block
  <1>16. HeardInOrder
    <2> HIDE DEF all
    <2>1. Len(all) \in Nat
      BY <1>14, LenProperties
    <2> QED
      BY <2>1, <1>14, <1>15 DEF Rises, HeardInOrder, Increasing
  <1>17. GoesOn
    <2>1. dma = "on" \/ dma = "off" \/ (AC97 /\ status)
      BY <1>1 DEF SoundTypes, InStep
    <2>2. dma = "off" <=> ~is_playing
      BY <1>1 DEF InStep
    <2> QED
      BY <2>1, <2>2, Zenon DEF GoesOn
  <1> QED
    BY <1>16, <1>17 DEF SoundInv, LengthCounts

(* No byte of a sound is heard twice and none before one that was written    *)
(* before it, a driver that plays is not left waiting, and the count of what *)
(* is still to come of the sound never wraps: for blocks, rings, headers and *)
(* writes of every size (snd/ac97.rs, snd/sb16.rs, snd/mod.rs).              *)
THEOREM SoundIsInOrder == SoundSpec => [](HeardInOrder /\ GoesOn /\ LengthCounts)
  <1>1. SoundSpec => []SoundInv
    BY SoundStarts, SoundKeeps, PTL DEF SoundSpec
  <1> QED
    BY <1>1, SoundIsHeard, PTL
=============================================================================
