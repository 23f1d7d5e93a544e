------------------------------ MODULE MfsFile -------------------------------
(***************************************************************************)
(* fs::File of fs/file.rs over the blocks of the device: each file is a    *)
(* chain of blocks (LinkedBlock, fs/block.rs), its first block and its     *)
(* size are in its directory entry, and a handle keeps copies of both, a   *)
(* cursor, and the place in the chain to resume from.  A system call is    *)
(* one step: nothing preempts the file system.  A program has its file to  *)
(* itself: a name open in one handle is not opened, nor deleted, by        *)
(* another.  Directories are one map from names to entries here.           *)
(***************************************************************************)
EXTENDS Integers, Sequences, SequencesExt

CONSTANTS
  Name, Handle, Byte,
  Capacity,   \* LinkedBlock::CAPACITY: the bytes of a block
  Blocks,     \* The addresses of the data area
  Bufs,       \* The buffers written
  MaxSize,    \* Bound of the model: no write goes past this size
  NoFile,     \* A name without an entry
  Closed,     \* A handle that is not open
  Blank       \* A byte of a block that was zeroed and not written since

Block == [next : Blocks \cup {0}, data : [1 .. Capacity -> Byte \cup {Blank}]]
File  == [name : Name, addr : Blocks, size : Nat, cursor : Nat,
          resume_index : Nat, resume_addr : Blocks]

ASSUME FileAssumption ==
  /\ Capacity \in Nat \ {0} /\ MaxSize \in Nat
  /\ Blocks \subseteq Nat \ {0} /\ IsFiniteSet(Blocks)
  /\ Bufs \subseteq Seq(Byte)
  /\ Blank \notin Byte
  /\ NoFile \notin [addr : Blocks, size : Nat] \cup Seq(Byte \cup {Blank})
  /\ Closed \notin File \cup [name : Name, at : Nat]

VARIABLES
  disk,    \* disk[a], for the blocks in use: [next, data]
  entry,   \* entry[n]: [addr, size], or NoFile
  handle,  \* handle[h]: the File struct, or Closed
  answer   \* The bytes the last read returned

vars == <<disk, entry, handle, answer>>

TypeOK ==
  /\ DOMAIN disk \subseteq Blocks
  /\ \A a \in DOMAIN disk : disk[a] \in Block
  /\ \A n \in Name : entry[n] # NoFile => entry[n] \in [addr : Blocks, size : Nat]
  /\ \A h \in Handle : handle[h] # Closed => handle[h] \in File
  /\ answer \in Seq(Byte \cup {Blank})

Init ==
  /\ disk = [a \in {} |-> 0]
  /\ entry = [n \in Name |-> NoFile]
  /\ handle = [h \in Handle |-> Closed]
  /\ answer = << >>

Unused == Blocks \ DOMAIN disk

(* The free blocks, in the order BitmapBlock::next_free_addr finds them: the *)
(* i-th has i of them up to it.                                              *)
Free ==
  [i \in 1 .. Cardinality(Unused) |->
     CHOOSE a \in Unused : Cardinality({b \in Unused : b <= a}) = i]

(* The blocks from a on, in the order LinkedBlock::next follows them. *)
ChainFrom[a \in DOMAIN disk] ==
  IF disk[a].next = 0 THEN <<a>> ELSE <<a>> \o ChainFrom[disk[a].next]

(* Block::alloc leaves a block of zeros that points nowhere. *)
Zeroed == [next |-> 0, data |-> [i \in 1 .. Capacity |-> Blank]]

OpenNames == {handle[h].name : h \in {g \in Handle : handle[g] # Closed}}

(* Mutant: the handle starts without a block to resume from (File::new). *)
FileOfNowhere(n, e, at) ==
  [name |-> n, addr |-> e.addr, size |-> e.size, cursor |-> at,
   resume_index |-> 0, resume_addr |-> 0]

(* File::from a directory entry, and the seek of OpenFlag::Append. *)
FileOf(n, e, at) ==
  [name |-> n, addr |-> e.addr, size |-> e.size, cursor |-> at,
   resume_index |-> 0, resume_addr |-> e.addr]

(* fs::open of a file that exists. *)
Open(h, n, append) ==
  /\ handle[h] = Closed /\ entry[n] # NoFile /\ n \notin OpenNames
  /\ handle' = [handle EXCEPT ![h] =
                  FileOf(n, entry[n], IF append THEN entry[n].size ELSE 0)]
  /\ answer' = << >>
  /\ UNCHANGED <<disk, entry>>

(* fs::open with OpenFlag::Create: create_entry allocates the first block. *)
Create(h, n) ==
  /\ handle[h] = Closed /\ entry[n] = NoFile /\ Free # << >>
  /\ LET e == [addr |-> Head(Free), size |-> 0]
     IN  /\ disk' = [a \in DOMAIN disk \cup {e.addr} |->
                       IF a = e.addr THEN Zeroed ELSE disk[a]]
         /\ entry' = [entry EXCEPT ![n] = e]
         /\ handle' = [handle EXCEPT ![h] = FileOf(n, e, 0)]
  /\ answer' = << >>

(* File::seek, of a place it accepts: nothing but the cursor moves. *)
Seek(h, at) ==
  /\ handle[h] # Closed /\ at <= handle[h].size
  /\ handle' = [handle EXCEPT ![h].cursor = at]
  /\ answer' = << >>
  /\ UNCHANGED <<disk, entry>>

(* Mutant: the offset of the resumed block is not taken into account. *)
ResumeAtZero(f) ==
  [addr |-> IF f.cursor >= f.resume_index * Capacity THEN f.resume_addr ELSE f.addr,
   offset |-> 0]

(* File::resume: the block to start from and the offset of its first byte. *)
Resume(f) ==
  IF f.cursor >= f.resume_index * Capacity
  THEN [addr |-> f.resume_addr, offset |-> f.resume_index * Capacity]
  ELSE [addr |-> f.addr, offset |-> 0]

(* Mutant: the resume point only moves forward. *)
set_resume_forward(f, addr, offset) ==
  IF offset \div Capacity <= f.resume_index THEN f
  ELSE [f EXCEPT !.resume_index = offset \div Capacity, !.resume_addr = addr]

(* File::set_resume *)
set_resume(f, addr, offset) ==
  [f EXCEPT !.resume_index = offset \div Capacity, !.resume_addr = addr]

(* File::read: the bytes from the cursor to the first of the end of the    *)
(* buffer, the end of the file and the end of the chain; the resume point  *)
(* moves only when another block is entered.                               *)
Read(h, bytes) ==
  /\ handle[h] # Closed
  /\ LET f      == handle[h]
         start  == Resume(f)
         chain  == ChainFrom[start.addr]
         limits == {f.cursor + bytes, start.offset + Len(chain) * Capacity}
                     \cup (IF f.cursor <= f.size THEN {f.size} ELSE {})
         end    == CHOOSE e \in limits : \A l \in limits : e <= l
         cell(o) == disk[chain[(o - start.offset) \div Capacity + 1]]
                      .data[(o % Capacity) + 1]
         last   == (end - start.offset) \div Capacity + 1
         k      == IF last <= Len(chain) THEN last ELSE Len(chain)
     IN  /\ answer' = [i \in 1 .. end - f.cursor |-> cell(f.cursor + i - 1)]
         /\ handle' = [handle EXCEPT ![h] =
              [IF k = 1 THEN f
               ELSE set_resume(f, chain[k], start.offset + (k - 1) * Capacity)
               EXCEPT !.cursor = end]]
  /\ UNCHANGED <<disk, entry>>

(* Mutant: the size of a whole block is taken for the bytes it can hold. *)
EndsFullSector(f) == f.size % (Capacity + 1) = 0

(* The file fills its last block. *)
EndsFull(f) == f.size % Capacity = 0

(* Where File::write begins: the resume point or, when it appends, the     *)
(* last block of the chain, or a new block after it if that one is full.   *)
WriteStart(f) ==
  LET start == Resume(f)
      chain == ChainFrom[start.addr]
  IN  IF f.cursor # f.size \/ f.size = 0
      THEN [blocks |-> chain, offset |-> start.offset, new |-> 0]
      ELSE IF ~EndsFull(f)
      THEN [blocks |-> <<Last(chain)>>, offset |-> (f.size \div Capacity) * Capacity, new |-> 0]
      ELSE [blocks |-> IF Free = << >> THEN << >> ELSE <<Head(Free)>>, offset |-> f.size, new |-> 1]

(* The disk after File::write put buf into the first k blocks of T, of     *)
(* which those in the device's free blocks are new, with T linked in that  *)
(* order, `last` linked to T when it appended a block, and F freed.        *)
Written(f, T, k, offset, buf, F, last) ==
  [a \in (DOMAIN disk \cup Range(T)) \ F |->
     LET old == IF a \in DOMAIN disk THEN disk[a] ELSE Zeroed
     IN  IF a = last THEN [old EXCEPT !.next = T[1]]
         ELSE IF a \notin Range(T) THEN old
         ELSE LET i == CHOOSE j \in 1 .. Len(T) : T[j] = a
                  at(c) == offset + (i - 1) * Capacity + c - 1 - f.cursor
              IN  [next |-> IF i = Len(T) THEN 0 ELSE T[i + 1],
                   data |-> [c \in 1 .. Capacity |->
                      IF i <= k /\ at(c) \in 0 .. Len(buf) - 1
                      THEN buf[at(c) + 1] ELSE old.data[c]]]]

(* File::write, when the disk has the blocks it takes: the blocks after    *)
(* the last one written are freed, and the file ends at the cursor.        *)
Write(h, buf) ==
  /\ handle[h] # Closed
  /\ LET f     == handle[h]
         w     == WriteStart(f)
         end   == f.cursor + Len(buf)
         need  == (end - w.offset + Capacity - 1) \div Capacity
         have  == Len(w.blocks)
         B     == w.blocks \o SubSeq(Free, w.new + 1, Len(Free))
         T     == SubSeq(B, 1, need)
     IN  /\ end <= MaxSize /\ Len(buf) > 0
         /\ w.blocks # << >> /\ need <= Len(B)
         /\ disk' = Written(f, T, need, w.offset, buf,
                            Range(SubSeq(w.blocks, need + 1, have)),
                            IF w.new = 1 THEN Last(ChainFrom[Resume(f).addr]) ELSE 0)
         /\ handle' = [handle EXCEPT ![h] =
              [set_resume(f, Last(T), w.offset + (need - 1) * Capacity)
               EXCEPT !.cursor = end, !.size = end]]
         /\ entry' = [entry EXCEPT ![f.name].size = end]
  /\ answer' = << >>

(* File::write, when the disk fills up: the blocks before the last one it  *)
(* got are written and linked, the cursor has passed them all, and the     *)
(* size, here and in the entry, is what it was.                            *)
WriteDiskFull(h, buf) ==
  /\ handle[h] # Closed
  /\ LET f     == handle[h]
         w     == WriteStart(f)
         end   == f.cursor + Len(buf)
         need  == (end - w.offset + Capacity - 1) \div Capacity
         T     == w.blocks \o SubSeq(Free, w.new + 1, Len(Free))
     IN  /\ end <= MaxSize /\ Len(buf) > 0
         /\ need > Len(T)
         /\ IF w.blocks = << >> THEN UNCHANGED <<disk, handle>>
            ELSE /\ disk' = Written(f, T, Len(T) - 1, w.offset, buf, {},
                              IF w.new = 1 THEN Last(ChainFrom[Resume(f).addr]) ELSE 0)
                 /\ handle' = [handle EXCEPT ![h] =
                      [set_resume(f, Last(T), w.offset + (Len(T) - 1) * Capacity)
                       EXCEPT !.cursor = w.offset + Len(T) * Capacity]]
  /\ answer' = << >>
  /\ UNCHANGED entry

(* Mutant: the entry keeps the size it had. *)
WriteNothingUnsaved(h) ==
  /\ handle[h] # Closed
  /\ LET f == handle[h]
         w == WriteStart(f)
     IN  /\ w.blocks # << >>
         /\ disk' = Written(f, IF w.new = 1 THEN w.blocks ELSE << >>, 0, w.offset, << >>, {},
                            IF w.new = 1 THEN Last(ChainFrom[Resume(f).addr]) ELSE 0)
         /\ handle' = [handle EXCEPT ![h].size = f.cursor]
  /\ answer' = << >>
  /\ UNCHANGED entry

(* File::write of an empty buffer: no block is touched, except that a full *)
(* last block still gets a successor; the file ends at the cursor, and the *)
(* blocks after it stay linked.                                            *)
WriteNothing(h) ==
  /\ handle[h] # Closed
  /\ LET f == handle[h]
         w == WriteStart(f)
     IN  /\ w.blocks # << >>
         /\ disk' = Written(f, IF w.new = 1 THEN w.blocks ELSE << >>, 0, w.offset, << >>, {},
                            IF w.new = 1 THEN Last(ChainFrom[Resume(f).addr]) ELSE 0)
         /\ handle' = [handle EXCEPT ![h].size = f.cursor]
         /\ entry' = [entry EXCEPT ![f.name].size = f.cursor]
  /\ answer' = << >>

(* The handle is dropped: File::close does nothing. *)
Close(h) ==
  /\ handle[h] # Closed
  /\ handle' = [handle EXCEPT ![h] = Closed]
  /\ answer' = << >>
  /\ UNCHANGED <<disk, entry>>

(* Mutant: the first block of the chain only is freed. *)
DeleteFirstBlock(n) ==
  /\ entry[n] # NoFile /\ n \notin OpenNames
  /\ disk' = [a \in DOMAIN disk \ {entry[n].addr} |-> disk[a]]
  /\ entry' = [entry EXCEPT ![n] = NoFile]
  /\ answer' = << >>
  /\ UNCHANGED handle

(* File::delete: Dir::delete_entry frees the whole chain of the entry. *)
Delete(n) ==
  /\ entry[n] # NoFile /\ n \notin OpenNames
  /\ disk' = [a \in DOMAIN disk \ Range(ChainFrom[entry[n].addr]) |-> disk[a]]
  /\ entry' = [entry EXCEPT ![n] = NoFile]
  /\ answer' = << >>
  /\ UNCHANGED handle

(* Everything a program that has its files to itself can do with them,     *)
(* except to write with no space or with nothing to write.                 *)
Ordinary ==
  \/ \E h \in Handle, n \in Name :
       Create(h, n) \/ \E append \in BOOLEAN : Open(h, n, append)
  \/ \E h \in Handle :
       \/ \E at \in 0 .. MaxSize : Seek(h, at)
       \/ \E buf \in Bufs : Read(h, Len(buf)) \/ Write(h, buf)
       \/ Close(h)
  \/ \E n \in Name : Delete(n)

Next ==
  \/ Ordinary
  \/ \E h \in Handle : WriteNothing(h) \/ \E buf \in Bufs : WriteDiskFull(h, buf)

Spec == Init /\ [][Next]_vars

(* The disk has room for every write, and no write is empty; the disk may  *)
(* fill up.                                                                *)
RoomSpec == Init /\ [][Ordinary]_vars
FullSpec ==
  Init /\ [][Ordinary \/ \E h \in Handle, buf \in Bufs : WriteDiskFull(h, buf)]_vars

-----------------------------------------------------------------------------
Names == {n \in Name : entry[n] # NoFile}

ChainOf(n) == ChainFrom[entry[n].addr]

(* The bytes a reader of file n gets, from its first block on. *)
Content(n) ==
  IF entry[n] = NoFile THEN NoFile
  ELSE [i \in 1 .. entry[n].size |->
          disk[ChainOf(n)[(i - 1) \div Capacity + 1]].data[((i - 1) % Capacity) + 1]]

(* The chain of a file has the blocks its size takes, and one if it is     *)
(* empty: what the jump of an appending File::write to the last block      *)
(* rests on.                                                               *)
ChainFitsSize ==
  \A n \in Names :
    Len(ChainOf(n)) = IF entry[n].size = 0 THEN 1
                      ELSE (entry[n].size + Capacity - 1) \div Capacity

(* No file is larger than its chain, though the disk filled up or nothing  *)
(* was written: File::read never comes to the end of the blocks before the *)
(* end of the file.                                                        *)
ChainCoversSize ==
  \A n \in Names : entry[n].size <= Len(ChainOf(n)) * Capacity

(* A write at the end of a file that is not empty adds its bytes to those  *)
(* the file had: to skip to the last block of the chain is an              *)
(* "Optimization: when appending" (File::write) and not another result.    *)
AppendsAtEnd ==
  [][\A h \in Handle, buf \in Bufs :
       Write(h, buf) /\ handle[h].cursor = handle[h].size /\ handle[h].size > 0
         => Content(handle[h].name)' = Content(handle[h].name) \o buf]_vars

(* Every block in use belongs to one chain, at one place of it: no write,  *)
(* failed or not, loses a block or links it twice.                         *)
ChainsPartition ==
  /\ DOMAIN disk = UNION {Range(ChainOf(n)) : n \in Names}
  /\ \A n \in Names : IsInjective(ChainOf(n))
  /\ \A m, n \in Names : m # n => Range(ChainOf(m)) \cap Range(ChainOf(n)) = {}

(* A handle resumes from a block of its file's chain, at the index it      *)
(* remembers: truncating and growing the file through it never leaves it   *)
(* at a block that is gone (File::set_resume).                             *)
ResumeIsThere ==
  \A h \in Handle : handle[h] # Closed =>
    LET f == handle[h]
    IN  /\ f.resume_index + 1 <= Len(ChainOf(f.name))
        /\ ChainOf(f.name)[f.resume_index + 1] = f.resume_addr

(* Even when the index is wrong (the disk filled up, or nothing was         *)
(* written), the block a handle resumes from is one of its file's: it      *)
(* never reads or writes a block that was freed or given to another file.  *)
ResumeInChain ==
  \A h \in Handle : handle[h] # Closed =>
    handle[h].resume_addr \in Range(ChainOf(handle[h].name))

(* A handle and the directory agree on where the file is and its size. *)
HandleAgrees ==
  \A h \in Handle : handle[h] # Closed =>
    LET f == handle[h]
    IN  entry[f.name] # NoFile /\ entry[f.name] = [addr |-> f.addr, size |-> f.size]

Store == INSTANCE FileStore WITH
  content  <- [n \in Name |-> Content(n)],
  position <- [h \in Handle |-> IF handle[h] = Closed THEN Closed
                 ELSE [name |-> handle[h].name, at |-> handle[h].cursor]]

(* As long as the disk has room and nothing empty is written, the chains   *)
(* of blocks are the byte sequences a program takes its files for:         *)
(* whatever the seeks, truncating writes, appends and deletions, a read    *)
(* returns what the writes left (File::read, File::write).                 *)
ImplementsFileStore == Store!Spec

(* On any disk, full or not, the chains, the handles and the directory     *)
(* hold together (File::write, File::delete, File::set_resume).            *)
ChainsHold == ChainsPartition /\ ResumeInChain /\ HandleAgrees /\ ChainCoversSize
=============================================================================
