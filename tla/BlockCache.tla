----------------------------- MODULE BlockCache -----------------------------
(***************************************************************************)
(* AtaBlockDevice of fs/block_device.rs: the write-through, direct-mapped  *)
(* cache with read-ahead between MFS and an ATA drive, with the answers    *)
(* Block::read and Block::write (fs/block.rs) make of it.  BLOCK_DEVICE is *)
(* one Mutex, so a call is one step.  The drive itself (sys/ata.rs) is     *)
(* seen through its answers: an access may fail, and a write that fails    *)
(* may have reached the medium (the error is read after the data words).   *)
(***************************************************************************)
EXTENDS Integers

CONSTANTS
  BlockCount, \* What IDENTIFY reports: Drive::block_count
  CacheSize,  \* ATA_CACHE_SIZE / BLOCK_SIZE slots
  ReadAhead,  \* ATA_READ_AHEAD blocks per read of the drive
  Block,      \* The contents a block can have
  Zero,       \* The zeroed buffer Block::read starts from
  NoEntry     \* An empty slot

ASSUME SizeAssumption ==
  /\ BlockCount \in Nat
  /\ CacheSize \in Nat \ {0}
  /\ ReadAhead \in 1 .. CacheSize

ASSUME BlockAssumption == Zero \in Block

VARIABLES
  disk,    \* disk[a]: the medium
  cache,   \* cache[h]: NoEntry or [addr, block]
  suspect, \* History: addresses written behind the cache since their last good write
  reply    \* What the caller of the Block layer sees of the last call

vars == <<disk, cache, suspect, reply>>

Addr  == 0 .. BlockCount - 1
Slot  == 0 .. CacheSize - 1
Entry == [addr : Addr, block : Block]
Reply == [ok : BOOLEAN, block : Block]

ASSUME NoEntryAssumption == NoEntry \notin Entry

TypeOK ==
  /\ disk \in [Addr -> Block]
  /\ cache \in [Slot -> Entry \cup {NoEntry}]
  /\ suspect \in SUBSET Addr
  /\ reply \in Reply

hash(a) == a % CacheSize

(* Mutant: a slot that is taken is a hit, whichever address it holds. *)
cachedSlot(a) == cache[hash(a)] # NoEntry

cached(a) == cache[hash(a)] # NoEntry /\ cache[hash(a)].addr = a

Ok(b) == [ok |-> TRUE, block |-> b]
Err   == [ok |-> FALSE, block |-> Zero]

(* The blocks one read of the drive fetches: never past the last one, and  *)
(* none at all when a itself is past it.                                   *)
Window(a) == {b \in Addr : a <= b /\ b < a + ReadAhead}

(* AtaBlockDevice::new: every slot starts empty, whatever the drive holds. *)
Init ==
  /\ disk \in [Addr -> Block]
  /\ cache = [h \in Slot |-> NoEntry]
  /\ suspect = {}
  /\ reply = Ok(Zero)

(* AtaBlockDevice::read, cached_block found. *)
ReadHit(a) ==
  /\ a \in Addr
  /\ cached(a)
  /\ reply' = Ok(cache[hash(a)].block)
  /\ UNCHANGED <<disk, cache, suspect>>

(* The chunks of one read, each entered in its slot: no two of them share  *)
(* one, as a window is no longer than the cache.                           *)
Filled(W) ==
  [h \in Slot |->
     IF \E b \in W : hash(b) = h
     THEN LET b == CHOOSE b \in W : hash(b) = h
          IN  [addr |-> b, block |-> disk[b]]
     ELSE cache[h]]

(* AtaBlockDevice::read, the block fetched with those after it. *)
ReadMiss(a) ==
  /\ a \in Addr
  /\ ~cached(a)
  /\ cache' = Filled(Window(a))
  /\ reply' = Ok(disk[a])
  /\ UNCHANGED <<disk, suspect>>

(* AtaBlockDevice::read of a block past the end (n = 0), or the drive      *)
(* failing anywhere in the window: nothing is cached, and Block::read goes *)
(* on with its zeroed buffer.  a may be any u32, BlockCount stands for all *)
(* the addresses past the end.                                             *)
ReadFails(a) ==
  /\ a \in 0 .. BlockCount
  /\ a \in Addr => ~cached(a)
  /\ reply' = Err
  /\ UNCHANGED <<disk, cache, suspect>>

(* Mutant: a write goes to the medium and leaves the slot as it was. *)
WriteAround(a, b) ==
  /\ a \in Addr
  /\ disk' = [disk EXCEPT ![a] = b]
  /\ suspect' = suspect \ {a}
  /\ reply' = Ok(Zero)
  /\ UNCHANGED cache

(* AtaBlockDevice::write, the drive answering Ok: the medium first, then   *)
(* the slot, whatever it held.                                             *)
Write(a, b) ==
  /\ a \in Addr
  /\ disk' = [disk EXCEPT ![a] = b]
  /\ cache' = [cache EXCEPT ![hash(a)] = [addr |-> a, block |-> b]]
  /\ suspect' = suspect \ {a}
  /\ reply' = Ok(Zero)

(* AtaBlockDevice::write, the drive answering Err: `?` returns before the  *)
(* slot is set, whether or not the words already reached the medium.       *)
WriteFails(a, b) ==
  /\ a \in 0 .. BlockCount
  /\ \/ /\ a \in Addr
        /\ disk' = [disk EXCEPT ![a] = b]
        /\ suspect' = suspect \cup {a}
     \/ UNCHANGED <<disk, suspect>>
  /\ reply' = Err
  /\ UNCHANGED cache

(* Drive::write of sys/ata.rs through the /dev "ata" device: the same      *)
(* medium, and no cache in the way.                                        *)
RawWrite(a, b) ==
  /\ a \in Addr
  /\ disk' = [disk EXCEPT ![a] = b]
  /\ suspect' = suspect \cup {a}
  /\ UNCHANGED <<cache, reply>>

(* Mutant: the cache of a new device has no slots yet. *)
MountWithoutSlots ==
  /\ cache' = << >>
  /\ suspect' = {}
  /\ UNCHANGED <<disk, reply>>

(* mount_ata: BLOCK_DEVICE is replaced by a device with an empty cache. *)
Mount ==
  /\ cache' = [h \in Slot |-> NoEntry]
  /\ suspect' = {}
  /\ UNCHANGED <<disk, reply>>

Next ==
  \/ \E a \in Addr : ReadHit(a) \/ ReadMiss(a)
  \/ \E a \in 0 .. BlockCount : ReadFails(a)
  \/ \E a \in Addr, b \in Block : Write(a, b) \/ RawWrite(a, b)
  \/ \E a \in 0 .. BlockCount, b \in Block : WriteFails(a, b)
  \/ Mount

Spec == Init /\ [][Next]_vars

-----------------------------------------------------------------------------
(* What a read of address a returns now, if the drive answers. *)
View(a) == IF cached(a) THEN cache[hash(a)].block ELSE disk[a]

(* A cached block is the block on the medium, at every address whose last  *)
(* write came through the cache and answered Ok: no order of hits, misses, *)
(* read-ahead into a slot another block held, and write-through leaves a   *)
(* stale copy (AtaBlockDevice::read, write, set_cached_block).             *)
Coherent == \A a \in Addr \ suspect : cached(a) => cache[hash(a)].block = disk[a]

(* What the cache shows where it differs from the medium is in limbo. *)
Limbo(a) == IF View(a) = disk[a] THEN {} ELSE {disk[a]}

Store == INSTANCE BlockStore WITH
  store <- [a \in Addr |-> View(a)],
  limbo <- [a \in Addr |-> Limbo(a)],
  reply <- reply

(* The cached drive is a BlockStore: a read of any address returns what    *)
(* the last good write put there, or a write that failed or went round the *)
(* cache, never anything else (the trait BlockDeviceIO).                   *)
ImplementsBlockStore == Store!Spec
=============================================================================
