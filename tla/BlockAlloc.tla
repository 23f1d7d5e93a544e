----------------------------- MODULE BlockAlloc -----------------------------
(***************************************************************************)
(* The block allocator of MFS: the bitmap (fs/bitmap_block.rs), the count  *)
(* of used blocks in the superblock (fs/super_block.rs), and the order in  *)
(* which fs/block.rs, fs/file.rs and fs/dir.rs write them and the links    *)
(* between blocks.  Every write of a block is a step of its own, and the   *)
(* machine may stop between two of them (power, or Ctrl+Alt+Del, which     *)
(* resets from the keyboard interrupt whatever the kernel was doing).      *)
(***************************************************************************)
EXTENDS Integers, FiniteSets

CONSTANTS
  First,        \* SuperBlock::data_area, the address of the root directory
  BlockCount,   \* SuperBlock::block_count
  BitsPerBlock, \* BITMAP_SIZE: block_size * 8
  File,         \* The chains of blocks: files and directories
  Root,         \* The root directory's chain
  MaxCrashes    \* Bound of the model: how often the machine stops

(* The blocks that can hold data, and the addresses that have a bit: the   *)
(* bitmap ends where the data area begins, so that its blocks are as many  *)
(* as the data blocks need, and the bits of its last one may reach past    *)
(* the end of the device.                                                  *)
Data == First .. BlockCount - 1
BitmapBits == ((BlockCount - First + BitsPerBlock - 1) \div BitsPerBlock) * BitsPerBlock
Bitmap == First .. First + BitmapBits - 1

(* next_free_addr looks at the bits of block_count / n / 8 blocks, rounded *)
(* down: it may fall short of the bitmap's end, or go on past it, over the *)
(* data blocks from the root directory on (ScanBits > BitmapBits).         *)
ScanBits == (BlockCount \div BitsPerBlock) * BitsPerBlock
Scan == {a \in Bitmap : a < First + ScanBits}

ASSUME GeometryAssumption ==
  /\ First \in Nat /\ BlockCount \in Nat /\ BitsPerBlock \in Nat \ {0}
  /\ First < BlockCount /\ ScanBits > 0

ASSUME FileAssumption == Root \in File /\ MaxCrashes \in Nat

VARIABLES
  marked,   \* The addresses whose bit is set in the bitmap
  count,    \* alloc_count, as the superblock on the medium says
  held,     \* held[f]: the blocks reachable along f's chain on the medium
  op,       \* The operation under way: [pc, file, addr, tail, todo]
  lostInc,  \* History: stops between a bit set and the count
  lostDec,  \* History: stops between a bit cleared and the count
  again,    \* History: frees of a block whose bit was already clear
  torn,     \* History: tails being freed, still linked, at a stop
  crashes,  \* Number of stops so far
  astray    \* A bit was found and set in a data block: the model ends there

vars == <<marked, count, held, op, lostInc, lostDec, again, torn, crashes, astray>>

Pc == {"idle", "inc", "zero", "link", "cut", "cutDec", "free", "freeDec"}
Op == [pc : Pc, file : File, addr : Scan, tail : SUBSET Scan, todo : SUBSET Scan]

TypeOK ==
  /\ marked \in SUBSET Scan
  /\ count \in Int
  /\ held \in [File -> SUBSET Scan]
  /\ op \in Op
  /\ lostInc \in Nat /\ lostDec \in Nat /\ again \in Nat /\ crashes \in Nat
  /\ torn \in SUBSET Scan /\ astray \in BOOLEAN

Idle == [pc |-> "idle", file |-> Root, addr |-> First, tail |-> {}, todo |-> {}]

(* format_ata: a cleared bitmap, alloc_count = data_area, then one alloc   *)
(* for the root directory.                                                 *)
Init ==
  /\ marked = {First}
  /\ count = First + 1
  /\ held = [f \in File |-> IF f = Root THEN {First} ELSE {}]
  /\ op = Idle
  /\ lostInc = 0 /\ lostDec = 0 /\ again = 0 /\ crashes = 0
  /\ torn = {} /\ astray = FALSE

(* Mutant: the count is compared with one block less than the device has. *)
NextFreeButOne ==
  {a \in Scan \ marked : count # BlockCount - 1 /\ \A b \in Scan \ marked : a <= b}

(* BitmapBlock::next_free_addr: the lowest clear bit, unless the count     *)
(* says the disk is full.  Empty for None.                                 *)
NextFree ==
  {a \in Scan \ marked : count # BlockCount /\ \A b \in Scan \ marked : a <= b}

(* Block::alloc for chain f: next_free_addr, then BitmapBlock::alloc sets  *)
(* the bit and writes the bitmap block.                                    *)
Alloc(f) ==
  /\ op.pc = "idle"
  /\ \E a \in NextFree :
       /\ marked' = marked \cup {a}
       /\ op' = [op EXCEPT !.pc = "inc", !.file = f, !.addr = a]
  /\ UNCHANGED <<count, held, lostInc, lostDec, again, torn, crashes, astray>>

(* Block::alloc answers None, and the caller gives up. *)
NoSpace ==
  /\ op.pc = "idle" /\ NextFree = {}
  /\ UNCHANGED vars

(* Every bit of the bitmap is set, the count says that there is room, and  *)
(* the scan takes the root directory and the blocks after it for more of   *)
(* the bitmap: a bit that is clear there (else it is NoSpace) is set in    *)
(* them, and the block it stands for is past the end of the device.        *)
AllocPastBitmap ==
  /\ op.pc = "idle" /\ count # BlockCount
  /\ ScanBits > BitmapBits /\ Scan \subseteq marked
  /\ astray' = TRUE
  /\ UNCHANGED <<marked, count, held, op, lostInc, lostDec, again, torn, crashes>>

(* Mutant: the superblock is not written. *)
IncForgotten ==
  /\ op.pc = "inc"
  /\ op' = [op EXCEPT !.pc = "zero"]
  /\ UNCHANGED <<marked, count, held, lostInc, lostDec, again, torn, crashes, astray>>

(* inc_alloc_count writes the superblock. *)
IncAllocCount ==
  /\ op.pc = "inc"
  /\ count' = count + 1
  /\ op' = [op EXCEPT !.pc = "zero"]
  /\ UNCHANGED <<marked, held, lostInc, lostDec, again, torn, crashes, astray>>

(* Block::alloc writes the block zeroed, whatever it held. *)
Zeroed ==
  /\ op.pc = "zero"
  /\ op' = [op EXCEPT !.pc = "link"]
  /\ UNCHANGED <<marked, count, held, lostInc, lostDec, again, torn, crashes, astray>>

(* The caller writes the block that points to the new one: alloc_next,     *)
(* File::write, or create_entry for the first block of an entry.           *)
Link ==
  /\ op.pc = "link"
  /\ held' = [held EXCEPT ![op.file] = @ \cup {op.addr}]
  /\ op' = Idle
  /\ UNCHANGED <<marked, count, lostInc, lostDec, again, torn, crashes, astray>>

(* File::write ending before the end of its chain: the blocks T after the  *)
(* cut are freed while the block before them still points to them.         *)
Cut(f, T) ==
  /\ op.pc = "idle"
  /\ T # {} /\ T \subseteq held[f] \ {First}
  /\ op' = [op EXCEPT !.pc = "cut", !.file = f, !.tail = T, !.todo = T]
  /\ UNCHANGED <<marked, count, held, lostInc, lostDec, again, torn, crashes, astray>>

(* Mutant: the blocks are freed and the entry stays. *)
DeleteKeepsEntry(f, T) ==
  /\ op.pc = "idle"
  /\ T # {} /\ T \subseteq held[f] \ {First}
  /\ op' = [op EXCEPT !.pc = "free", !.file = f, !.todo = T]
  /\ UNCHANGED <<marked, count, held, lostInc, lostDec, again, torn, crashes, astray>>

(* Dir::delete_entry: the entry, or the link to an emptied directory       *)
(* block, is overwritten first and the blocks T it led to freed then.      *)
Delete(f, T) ==
  /\ op.pc = "idle"
  /\ T # {} /\ T \subseteq held[f] \ {First}
  /\ held' = [held EXCEPT ![f] = @ \ T]
  /\ op' = [op EXCEPT !.pc = "free", !.file = f, !.todo = T]
  /\ UNCHANGED <<marked, count, lostInc, lostDec, again, torn, crashes, astray>>

(* BitmapBlock::free of the next block of the chain: the bit is cleared    *)
(* whatever it was.                                                        *)
ClearBit ==
  /\ op.pc \in {"cut", "free"}
  /\ \E a \in op.todo :
       /\ marked' = marked \ {a}
       /\ again' = IF a \in marked THEN again ELSE again + 1
       /\ op' = [op EXCEPT !.pc = IF op.pc = "cut" THEN "cutDec" ELSE "freeDec",
                           !.todo = @ \ {a}]
  /\ UNCHANGED <<count, held, lostInc, lostDec, torn, crashes, astray>>

(* dec_alloc_count writes the superblock. *)
DecAllocCount ==
  /\ op.pc \in {"cutDec", "freeDec"}
  /\ count' = count - 1
  /\ op' = IF op.pc = "cutDec" THEN [op EXCEPT !.pc = "cut"]
           ELSE [op EXCEPT !.pc = "free"]
  /\ UNCHANGED <<marked, held, lostInc, lostDec, again, torn, crashes, astray>>

(* Mutant: the last block keeps its pointer to the tail. *)
WriteLastLinked ==
  /\ op.pc = "cut" /\ op.todo = {}
  /\ op' = Idle
  /\ UNCHANGED <<marked, count, held, lostInc, lostDec, again, torn, crashes, astray>>

(* File::write, its tail freed, writes the block that is now the last one. *)
WriteLast ==
  /\ op.pc = "cut" /\ op.todo = {}
  /\ held' = [held EXCEPT ![op.file] = @ \ op.tail]
  /\ op' = Idle
  /\ UNCHANGED <<marked, count, lostInc, lostDec, again, torn, crashes, astray>>

(* delete_entry, all freed, returns. *)
Deleted ==
  /\ op.pc = "free" /\ op.todo = {}
  /\ op' = Idle
  /\ UNCHANGED <<marked, count, held, lostInc, lostDec, again, torn, crashes, astray>>

(* The machine stops with an operation under way; the next boot finds the  *)
(* superblock (SuperBlock::check_ata) and mounts what is on the medium.    *)
Crash ==
  /\ op.pc # "idle" /\ crashes < MaxCrashes
  /\ op' = Idle
  /\ crashes' = crashes + 1
  /\ lostInc' = IF op.pc = "inc" THEN lostInc + 1 ELSE lostInc
  /\ lostDec' = IF op.pc \in {"cutDec", "freeDec"} THEN lostDec + 1 ELSE lostDec
  /\ torn' = IF op.pc \in {"cut", "cutDec"} THEN torn \cup op.tail ELSE torn
  /\ UNCHANGED <<marked, count, held, again, astray>>

Step ==
  \/ \E f \in File : Alloc(f) \/ \E T \in SUBSET held[f] : Cut(f, T) \/ Delete(f, T)
  \/ NoSpace \/ AllocPastBitmap \/ IncAllocCount \/ Zeroed \/ Link
  \/ ClearBit \/ DecAllocCount \/ WriteLast \/ Deleted
  \/ Crash

(* What the data blocks say once one was taken for the bitmap is not known.*)
Astray == astray /\ UNCHANGED vars

Next ==
  \/ ~astray /\ Step
  \/ Astray

Spec == Init /\ [][Next]_vars

-----------------------------------------------------------------------------
(* The count of the superblock is what the bitmap says, but for a write    *)
(* under way, the stops that came between the two, and the frees of blocks *)
(* that were free (inc_alloc_count, dec_alloc_count).                      *)
Accounted ==
  First + Cardinality(marked) + lostDec
    = count + lostInc + again
      + (IF op.pc = "inc" THEN 1 ELSE 0) - (IF op.pc \in {"cutDec", "freeDec"} THEN 1 ELSE 0)

(* Two chains share no block, unless it was left linked and freed by a     *)
(* stop in the middle of a truncating File::write.                         *)
NoCrossLink == \A f, g \in File : f # g => held[f] \cap held[g] \subseteq torn

(* The allocator hands out no block that a chain still reaches, with the   *)
(* same exception (BitmapBlock::next_free_addr, Block::alloc).             *)
NeverHandedOutTwice ==
  [][op.pc = "idle" /\ op'.pc = "inc"
       => \A f \in File : op'.addr \notin held[f] \ torn]_vars

(* The scan runs over bits of blocks that do not exist, and past the end   *)
(* of the bitmap, and only the count keeps these from being handed out: as *)
(* long as no stop lost an increment and no block was freed twice, every   *)
(* block in use is one of the device, and no data is taken for the bitmap. *)
InRange == lostInc = 0 /\ again = 0 => marked \subseteq Data /\ ~astray

(* The disk is said to be full exactly when every data block is in use, as *)
(* long as no stop came between the bitmap and the count ("Disk is full",  *)
(* says create_entry of the None it gets from Block::alloc).               *)
FullIsFull ==
  op.pc = "idle" /\ lostInc = 0 /\ lostDec = 0 /\ again = 0
    => (NextFree = {} <=> Data \subseteq marked)

(* All of them: what the file system's blocks are at rest is what the      *)
(* bitmap and the count say they are, but for what stops did; and up to    *)
(* the first time that data is taken for the bitmap, if there is one.      *)
Consistent == TypeOK /\ Accounted /\ NoCrossLink /\ InRange
=============================================================================
