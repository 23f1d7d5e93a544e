-------------------------- MODULE BlockCacheProofs --------------------------
(***************************************************************************)
(* Proofs about BlockCache, for every device size, cache size and          *)
(* read-ahead: types, coherence of the cache, and that the cached drive    *)
(* implements BlockStore.                                                  *)
(***************************************************************************)
EXTENDS BlockCache, TLAPS

(* The slot of an address exists (AtaBlockDevice::hash). *)
LEMMA HashInSlot == ASSUME NEW a \in Addr PROVE hash(a) \in Slot
  BY SizeAssumption DEF hash, Slot, Addr

(* What a read of the drive leaves in a slot: its old entry, or the entry  *)
(* of a block of the window that hashes there, as it is on the medium.     *)
LEMMA FilledEntry ==
  ASSUME NEW W \in SUBSET Addr, NEW h \in Slot
  PROVE  \/ Filled(W)[h] = cache[h]
         \/ \E b \in W : Filled(W)[h] = [addr |-> b, block |-> disk[b]]
PROOF
  <1>1. CASE \E b \in W : hash(b) = h
    <2>1. (CHOOSE b \in W : hash(b) = h) \in W
      BY <1>1
    <2> QED
      BY <1>1, <2>1 DEF Filled
  <1>2. CASE ~ \E b \in W : hash(b) = h
    BY <1>2 DEF Filled
  <1> QED
    BY <1>1, <1>2

LEMMA FilledType ==
  ASSUME TypeOK, NEW W \in SUBSET Addr
  PROVE  Filled(W) \in [Slot -> Entry \cup {NoEntry}]
PROOF
  <1>1. ASSUME NEW h \in Slot PROVE Filled(W)[h] \in Entry \cup {NoEntry}
    <2>1. CASE Filled(W)[h] = cache[h]
      BY <2>1 DEF TypeOK
    <2>2. CASE \E b \in W : Filled(W)[h] = [addr |-> b, block |-> disk[b]]
      <3>1. PICK b \in W : Filled(W)[h] = [addr |-> b, block |-> disk[b]]
        BY <2>2
      <3>2. b \in Addr /\ disk[b] \in Block
        BY DEF TypeOK
      <3> QED
        BY <3>1, <3>2 DEF Entry
    <2> QED
      BY <2>1, <2>2, FilledEntry
  <1>2. Filled(W) = [h \in Slot |-> Filled(W)[h]]
    BY Zenon DEF Filled
  <1> QED
    BY <1>1, <1>2

(* The types are preserved: every step leaves blocks on the medium, and    *)
(* entries of the device's addresses in the cache.                         *)
LEMMA TypeOKStep == TypeOK /\ [Next]_vars => TypeOK'
PROOF
  <1> SUFFICES ASSUME TypeOK, [Next]_vars PROVE TypeOK'
    OBVIOUS
  <1> USE BlockAssumption DEF TypeOK, Reply, Ok, Err
  <1>1. ASSUME NEW a \in Addr, ReadHit(a) PROVE TypeOK'
    <2>1. cache[hash(a)].block \in Block
      BY <1>1, HashInSlot DEF ReadHit, cached, Entry
    <2> QED
      BY <1>1, <2>1 DEF ReadHit
  <1>2. ASSUME NEW a \in Addr, ReadMiss(a) PROVE TypeOK'
    <2>1. cache' \in [Slot -> Entry \cup {NoEntry}]
      BY <1>2, FilledType DEF ReadMiss, Window
    <2> QED
      BY <1>2, <2>1 DEF ReadMiss
  <1>3. ASSUME NEW a \in 0 .. BlockCount, ReadFails(a) PROVE TypeOK'
    BY <1>3 DEF ReadFails
  <1>4. ASSUME NEW a \in Addr, NEW b \in Block, Write(a, b) PROVE TypeOK'
    BY <1>4, HashInSlot DEF Write, Entry
  <1>5. ASSUME NEW a \in Addr, NEW b \in Block, RawWrite(a, b) PROVE TypeOK'
    BY <1>5 DEF RawWrite
  <1>6. ASSUME NEW a \in 0 .. BlockCount, NEW b \in Block, WriteFails(a, b)
        PROVE  TypeOK'
    BY <1>6 DEF WriteFails
  <1>7. CASE Mount
    BY <1>7 DEF Mount
  <1>8. CASE UNCHANGED vars
    BY <1>8 DEF vars
  <1> QED
    BY <1>1, <1>2, <1>3, <1>4, <1>5, <1>6, <1>7, <1>8 DEF Next

(* TypeOK holds of every behaviour of AtaBlockDevice. *)
THEOREM TypeCorrect == Spec => []TypeOK
PROOF
  <1>1. Init => TypeOK
    BY BlockAssumption DEF Init, TypeOK, Reply, Ok
  <1> QED
    BY <1>1, TypeOKStep, PTL DEF Spec

-----------------------------------------------------------------------------
(* What a cached address holds after a step that fills the slots of a      *)
(* window: what it held, or the block on the medium.                       *)
LEMMA CoherentStep == TypeOK /\ Coherent /\ [Next]_vars => Coherent'
PROOF
  <1> SUFFICES ASSUME TypeOK, Coherent, [Next]_vars,
                      NEW a \in Addr, a \notin suspect', cached(a)'
               PROVE  cache'[hash(a)].block = disk'[a]
    BY DEF Coherent, cached, hash
  <1>h. hash(a) \in Slot
    BY HashInSlot
  <1>1. ASSUME NEW c \in Addr, ReadHit(c)
        PROVE  cache'[hash(a)].block = disk'[a]
    BY <1>1 DEF ReadHit, Coherent, cached, hash
  <1>2. ASSUME NEW c \in Addr, ReadMiss(c)
        PROVE  cache'[hash(a)].block = disk'[a]
    <2>1. Window(c) \in SUBSET Addr
      BY DEF Window
    <2>2. CASE cache'[hash(a)] = cache[hash(a)]
      BY <1>2, <2>2 DEF ReadMiss, Coherent, cached, hash
    <2>3. CASE \E b \in Window(c) : cache'[hash(a)] = [addr |-> b, block |-> disk[b]]
      BY <1>2, <2>3 DEF ReadMiss, cached, hash
    <2> QED
      BY <1>2, <1>h, <2>1, <2>2, <2>3, FilledEntry DEF ReadMiss
  <1>3. ASSUME NEW c \in 0 .. BlockCount, ReadFails(c)
        PROVE  cache'[hash(a)].block = disk'[a]
    BY <1>3 DEF ReadFails, Coherent, cached, hash
  <1>4. ASSUME NEW c \in Addr, NEW b \in Block, Write(c, b)
        PROVE  cache'[hash(a)].block = disk'[a]
    <2>1. CASE a = c
      BY <1>4, <1>h, <2>1 DEF Write, TypeOK
    <2>2. CASE a # c
      <3>1. hash(a) # hash(c)
        BY <1>4, <1>h, <2>2 DEF Write, TypeOK, cached, hash
      <3> QED
        BY <1>4, <1>h, <2>2, <3>1 DEF Write, TypeOK, Coherent, cached, hash
    <2> QED
      BY <2>1, <2>2
  <1>5. ASSUME NEW c \in Addr, NEW b \in Block, RawWrite(c, b)
        PROVE  cache'[hash(a)].block = disk'[a]
    BY <1>5 DEF RawWrite, TypeOK, Coherent, cached, hash
  <1>6. ASSUME NEW c \in 0 .. BlockCount, NEW b \in Block, WriteFails(c, b)
        PROVE  cache'[hash(a)].block = disk'[a]
    BY <1>6 DEF WriteFails, TypeOK, Coherent, cached, hash
  <1>7. CASE Mount
    BY <1>7, <1>h DEF Mount, cached, hash
  <1>8. CASE UNCHANGED vars
    BY <1>8 DEF vars, Coherent, cached, hash
  <1> QED
    BY <1>1, <1>2, <1>3, <1>4, <1>5, <1>6, <1>7, <1>8 DEF Next

(* No stale copy: a cached block whose last write went through the cache   *)
(* and answered Ok is the block on the medium, in every behaviour, for     *)
(* every cache size and read-ahead.                                        *)
THEOREM CoherentAlways == Spec => []Coherent
PROOF
  <1>1. Init => Coherent
    BY HashInSlot DEF Init, Coherent, cached
  <1> QED
    BY <1>1, CoherentStep, TypeCorrect, PTL DEF Spec

-----------------------------------------------------------------------------
LEMMA ViewType == ASSUME TypeOK, NEW a \in Addr PROVE View(a) \in Block
PROOF
  <1>1. CASE cached(a)
    BY <1>1, HashInSlot DEF View, cached, TypeOK, Entry
  <1>2. CASE ~cached(a)
    BY <1>2 DEF View, TypeOK
  <1> QED
    BY <1>1, <1>2

(* Filling slots from the medium changes what an address shows only to     *)
(* what the medium holds there.                                            *)
LEMMA FillSettles ==
  ASSUME TypeOK, TypeOK', UNCHANGED disk, NEW c \in Addr,
         \/ cache'[hash(c)] = cache[hash(c)]
         \/ cache'[hash(c)] = NoEntry
         \/ \E b \in Addr : cache'[hash(c)] = [addr |-> b, block |-> disk[b]]
  PROVE  \/ View(c)' = View(c) /\ Limbo(c)' = Limbo(c)
         \/ View(c)' \in Limbo(c) /\ Limbo(c)' = {}
PROOF
  <1>1. View(c)' = View(c) \/ View(c)' = disk[c]
    <2>1. CASE cache'[hash(c)] = cache[hash(c)]
      BY <2>1 DEF View, cached, hash
    <2>2. CASE cache'[hash(c)] = NoEntry
      BY <2>2 DEF View, cached, hash
    <2>3. CASE \E b \in Addr : cache'[hash(c)] = [addr |-> b, block |-> disk[b]]
      BY <2>3 DEF View, cached, hash
    <2> QED
      BY <2>1, <2>2, <2>3
  <1>2. CASE View(c)' = View(c)
    BY <1>2 DEF Limbo
  <1>3. CASE View(c)' # View(c) /\ View(c)' = disk[c]
    BY <1>3 DEF Limbo
  <1> QED
    BY <1>1, <1>2, <1>3

LEMMA StoreTypes ==
  TypeOK => /\ [a \in Addr |-> View(a)] \in [Addr -> Block]
            /\ [a \in Addr |-> Limbo(a)] \in [Addr -> SUBSET Block]
PROOF
  <1> SUFFICES ASSUME TypeOK, NEW a \in Addr
               PROVE  View(a) \in Block /\ Limbo(a) \in SUBSET Block
    OBVIOUS
  <1>1. disk[a] \in Block
    BY DEF TypeOK
  <1> QED
    BY <1>1, ViewType DEF Limbo

LEMMA ImplInit == Init => Store!Init
PROOF
  <1> SUFFICES ASSUME Init PROVE Store!Init
    OBVIOUS
  <1>1. \A a \in Addr : ~cached(a)
    BY HashInSlot DEF Init, cached
  <1>2. \A a \in Addr : View(a) = disk[a] /\ Limbo(a) = {} /\ disk[a] \in Block
    BY <1>1 DEF View, Limbo, Init
  <1> QED
    BY <1>2 DEF Init, Store!Init, Store!Addr, Addr, Store!Ok, Ok

(* A block that reaches the medium unreported at address a.                *)
LEMMA UnreportedStep ==
  ASSUME TypeOK, TypeOK', NEW a \in Addr, NEW b \in Block,
         disk' = [disk EXCEPT ![a] = b], UNCHANGED cache,
         reply' = Err \/ reply' = reply
  PROVE  Store!Unreported(a, b)
PROOF
  <1>1. \A c \in Addr \ {a} : View(c)' = View(c) /\ Limbo(c)' = Limbo(c)
    BY DEF View, Limbo, cached, hash, TypeOK
  <1>2. disk'[a] = b
    BY DEF TypeOK
  <1>3. reply' \in {Store!Err, reply}
    BY DEF Store!Err, Err
  <1>4. CASE cached(a)
    <2>1. View(a)' = View(a)
      BY <1>4 DEF View, cached, hash
    <2>2. Limbo(a)' = {b} \ {View(a)}
      BY <1>2, <2>1 DEF Limbo
    <2>3. [c \in Addr |-> View(c)]' = [c \in Addr |-> View(c)]
      BY <1>1, <2>1
    <2>4. [c \in Addr |-> Limbo(c)]'
            = [[c \in Addr |-> Limbo(c)] EXCEPT ![a] = {b} \ {[c \in Addr |-> View(c)][a]}]
      BY <1>1, <2>2
    <2> QED
      BY <1>3, <2>3, <2>4 DEF Store!Unreported
  <1>5. CASE ~cached(a)
    <2>1. View(a)' = b /\ Limbo(a)' = {} /\ Limbo(a) = {}
      BY <1>2, <1>5 DEF View, Limbo, cached, hash
    <2>2. [c \in Addr |-> View(c)]' = [[c \in Addr |-> View(c)] EXCEPT ![a] = b]
      BY <1>1, <2>1
    <2>3. [c \in Addr |-> Limbo(c)]' = [c \in Addr |-> Limbo(c)]
      BY <1>1, <2>1
    <2> QED
      BY <1>3, <2>2, <2>3 DEF Store!Unreported
  <1> QED
    BY <1>4, <1>5

(* Every step of AtaBlockDevice is a step of BlockStore, or changes nothing *)
(* that a BlockStore shows.                                                *)
LEMMA ImplStep == TypeOK /\ TypeOK' /\ [Next]_vars => [Store!Next]_(Store!vars)
PROOF
  <1> SUFFICES ASSUME TypeOK, TypeOK', [Next]_vars
               PROVE  [Store!Next]_(Store!vars)
    OBVIOUS
  <1> DEFINE Settled(c) == \/ View(c)' = View(c) /\ Limbo(c)' = Limbo(c)
                           \/ View(c)' \in Limbo(c) /\ Limbo(c)' = {}
  <1>c. Store!Changes
    <2>1. (TypeOK => /\ [a \in Addr |-> View(a)] \in [Addr -> Block]
                     /\ [a \in Addr |-> Limbo(a)] \in [Addr -> SUBSET Block])'
      BY StoreTypes, PTL
    <2> QED
      BY <2>1 DEF Store!Changes, Store!Addr, Addr
  <1>s. ASSUME NEW c \in Addr, Settled(c) PROVE Store!Settles(c)
    BY <1>s DEF Store!Settles
  <1>1. ASSUME NEW a \in Addr, ReadHit(a) PROVE Store!Read(a)
    <2>1. \A c \in Addr : Settled(c)
      BY <1>1 DEF ReadHit, View, Limbo, cached, hash
    <2>2. reply' = Store!Ok(View(a)')
      BY <1>1 DEF ReadHit, View, cached, hash, Ok, Store!Ok
    <2> HIDE DEF Settled
    <2> QED
      BY <1>c, <1>s, <2>1, <2>2 DEF Store!Read, Store!Addr, Addr
  <1>2. ASSUME NEW a \in Addr, ReadMiss(a) PROVE Store!Read(a)
    <2>1. Window(a) \in SUBSET Addr
      BY DEF Window
    <2>2. \A c \in Addr : Settled(c)
      BY <1>2, <2>1, FilledEntry, HashInSlot, FillSettles DEF ReadMiss
    <2>3. View(a)' = disk[a]
      BY <1>2, <2>2 DEF ReadMiss, View, Limbo, cached, hash
    <2>4. reply' = Store!Ok(View(a)')
      BY <1>2, <2>3 DEF ReadMiss, Ok, Store!Ok
    <2> HIDE DEF Settled
    <2> QED
      BY <1>c, <1>s, <2>2, <2>4 DEF Store!Read, Store!Addr, Addr
  <1>3. ASSUME NEW a \in 0 .. BlockCount, ReadFails(a) PROVE Store!Fail
    BY <1>3 DEF ReadFails, Store!Fail, Err, Store!Err, View, Limbo, cached, hash
  <1>4. ASSUME NEW a \in Addr, NEW b \in Block, Write(a, b) PROVE Store!Write(a, b)
    <2>1. hash(a) \in Slot /\ disk'[a] = b
      BY <1>4, HashInSlot DEF Write, TypeOK
    <2>2. View(a)' = b /\ Limbo(a)' = {}
      <3>1. cached(a)' /\ cache'[hash(a)].block = b
        BY <1>4, <2>1, NoEntryAssumption DEF Write, TypeOK, cached, hash, Entry
      <3> QED
        BY <2>1, <3>1 DEF View, Limbo, hash
    <2>3. ASSUME NEW c \in Addr \ {a} PROVE Settled(c)
      <3>1. disk'[c] = disk[c] /\ hash(c) \in Slot
        BY <1>4, HashInSlot DEF Write, TypeOK
      <3>2. CASE hash(c) # hash(a)
        <4>1. cache'[hash(c)] = cache[hash(c)]
          BY <1>4, <3>1, <3>2 DEF Write, TypeOK
        <4> QED
          BY <3>1, <4>1 DEF View, Limbo, cached, hash
      <3>3. CASE hash(c) = hash(a)
        <4>1. ~cached(c)'
          BY <1>4, <2>1, <3>3 DEF Write, TypeOK, cached, hash
        <4> QED
          BY <3>1, <4>1 DEF View, Limbo
      <3> QED
        BY <3>2, <3>3
    <2>4. reply' = Store!Ok(Zero)
      BY <1>4 DEF Write, Ok, Store!Ok
    <2> HIDE DEF Settled
    <2> QED
      BY <1>c, <1>s, <2>2, <2>3, <2>4 DEF Store!Write, Store!Addr, Addr
  <1>5. ASSUME NEW a \in Addr, NEW b \in Block, RawWrite(a, b)
        PROVE  Store!Unreported(a, b)
    BY <1>5, UnreportedStep DEF RawWrite
  <1>6. ASSUME NEW a \in 0 .. BlockCount, NEW b \in Block, WriteFails(a, b)
        PROVE  Store!Fail \/ (a \in Addr /\ Store!Unreported(a, b))
    <2>1. CASE UNCHANGED disk
      BY <1>6, <2>1 DEF WriteFails, Store!Fail, Err, Store!Err, View, Limbo, cached, hash
    <2>2. CASE a \in Addr /\ disk' = [disk EXCEPT ![a] = b]
      BY <1>6, <2>2, UnreportedStep DEF WriteFails
    <2> QED
      BY <1>6, <2>1, <2>2 DEF WriteFails
  <1>7. ASSUME Mount PROVE Store!Remount
    <2>1. \A c \in Addr : Settled(c)
      BY <1>7, HashInSlot, FillSettles DEF Mount
    <2> HIDE DEF Settled
    <2> QED
      BY <1>7, <1>c, <1>s, <2>1 DEF Mount, Store!Remount, Store!Addr, Addr
  <1>8. CASE UNCHANGED vars
    BY <1>8 DEF vars, Store!vars, View, Limbo, cached, hash
  <1>9. Addr = Store!Addr
    BY DEF Addr, Store!Addr
  <1> QED
    BY <1>1, <1>2, <1>3, <1>4, <1>5, <1>6, <1>7, <1>8, <1>9 DEF Next, Store!Next

(* The drive with its cache is a block store, for every size of either: a  *)
(* read returns what the last good write to its address left, or what a    *)
(* failed or uncached write left there since.                              *)
THEOREM Implementation == Spec => ImplementsBlockStore
PROOF
  <1> QED
    BY ImplInit, ImplStep, TypeCorrect, PTL
       DEF Spec, ImplementsBlockStore, Store!Spec
=============================================================================
