------------------------------- MODULE MfsDir -------------------------------
(***************************************************************************)
(* fs::Dir and fs::ReadDir of fs/dir.rs and fs/read_dir.rs: a directory is *)
(* a chain of blocks, and each block holds entries packed from its start,  *)
(* a header of DirEntry::empty_len() bytes and the name.  A block ends     *)
(* with bytes that are zero or, where a shorter entry was written over a   *)
(* longer one, with what is left of the longer one's name (`junk`).        *)
(* The bytes of names are not kinds of entries (0 to 2).  The blocks of    *)
(* the directory and of the files in it come from one disk; a file has its *)
(* first block only.                                                       *)
(***************************************************************************)
EXTENDS Integers, Sequences, SequencesExt

CONSTANTS
  Name,
  EntryLen,  \* EntryLen[n]: DirEntry::empty_len() + name.len()
  Cap,       \* LinkedBlock::CAPACITY
  Blocks,    \* The addresses of the data area; the directory is at the first
  Size       \* The sizes of files

ASSUME DirAssumption ==
  /\ Blocks \subseteq Nat \ {0} /\ Blocks # {}
  /\ Cap \in Nat /\ EntryLen \in [Name -> 2 .. Cap]
  /\ 0 \in Size /\ Size \subseteq Nat

VARIABLES
  dir,   \* The blocks in chain order: [addr, slots, junk]
  used,  \* The addresses the bitmap has marked
  size,  \* The size of the directory in its entry (Dir::update_size)
  reply  \* What the last call returned: TRUE for Some or Ok

vars == <<dir, used, size, reply>>

Entry    == [name : Name, addr : Blocks, size : Size]
DirBlock == [addr : Blocks, slots : Seq(Entry), junk : 0 .. Cap]

(* w[1] + ... + w[n] *)
SumTo(w, n) ==
  LET sum[i \in 0 .. n] == IF i = 0 THEN 0 ELSE sum[i - 1] + w[i] IN sum[n]

Bytes(slots) == SumTo([i \in DOMAIN slots |-> EntryLen[slots[i].name]], Len(slots))

TypeOK ==
  /\ dir \in Seq(DirBlock) /\ dir # << >>
  /\ used \subseteq Blocks
  /\ size \in Nat /\ reply \in BOOLEAN
  /\ \A k \in DOMAIN dir : Bytes(dir[k].slots) + dir[k].junk <= Cap

(* BitmapBlock::next_free_addr: the lowest block that is not marked. *)
Free == Blocks \ used
next_free_addr(free) == CHOOSE a \in free : \A b \in free : a <= b
FirstFree == next_free_addr(Free)
ThenFree  == next_free_addr(Free \ {FirstFree})

DirBlockAt(a) == [addr |-> a, slots |-> << >>, junk |-> 0]

Init ==
  /\ dir = <<DirBlockAt(next_free_addr(Blocks))>>
  /\ used = {dir[1].addr}
  /\ size = 0
  /\ reply = TRUE

(* Mutant: an entry a byte short of the end of the block is not read. *)
SeenShort(b) == IF Bytes(b.slots) >= Cap - 1 THEN Front(b.slots) ELSE b.slots

(* ReadDir::next: an entry that takes the block to its last byte is not    *)
(* read (`n >= remaining`), it marks the end of the block.                 *)
Seen(b) == IF Bytes(b.slots) = Cap THEN Front(b.slots) ELSE b.slots

(* Dir::update_size: the sum of the entries that are read. *)
SumSeen(blocks) ==
  SumTo([k \in DOMAIN blocks |-> Bytes(Seen(blocks[k]))], Len(blocks))

(* Dir::find *)
Found(n) ==
  \E k \in DOMAIN dir : \E i \in DOMAIN Seen(dir[k]) : dir[k].slots[i].name = n

(* The block, and the slot in it, of the first entry with name n. *)
Place(n) ==
  LET at(k)  == {i \in DOMAIN Seen(dir[k]) : dir[k].slots[i].name = n}
      least(S) == CHOOSE i \in S : \A j \in S : i <= j
      block  == least({k \in DOMAIN dir : at(k) # {}})
  IN  <<block, least(at(block))>>

(* Mutant: the whole block is taken for the bytes it can hold. *)
RoomOfSector(b) == Cap + 1 - Bytes(Seen(b))

Room(b) == Cap - Bytes(Seen(b))

(* Where create_entry puts n: in the first block whose unused end takes    *)
(* it; else in the last block, when the end of that one is not recognised  *)
(* as unused but is long enough; else in a new block.                      *)
Spot(n) ==
  LET last == Len(dir)
      fits == {k \in 1 .. last : dir[k].junk = 0 /\ EntryLen[n] <= Room(dir[k])}
  IN  IF fits # {} THEN CHOOSE k \in fits : \A l \in fits : k <= l
      ELSE IF EntryLen[n] <= Room(dir[last]) THEN last ELSE last + 1

(* The new entry goes over whatever follows the entries that are seen. *)
Put(b, n, a) ==
  LET over == IF Seen(b) = b.slots THEN b.junk ELSE EntryLen[Last(b.slots).name]
  IN  [b EXCEPT !.slots = Append(Seen(b), [name |-> n, addr |-> a, size |-> 0]),
                !.junk  = IF over > EntryLen[n] THEN over - EntryLen[n] ELSE 0]

(* Mutant: the address of the file's block is found before the directory's *)
(* new block is marked.                                                    *)
CreateUnmarked(n) ==
  LET k     == Spot(n)
      grown == IF k > Len(dir) THEN Append(dir, DirBlockAt(FirstFree)) ELSE dir
  IN  /\ ~Found(n)
      /\ Free # {} /\ (k > Len(dir) => Free # {FirstFree})
      /\ dir' = [grown EXCEPT ![k] = Put(@, n, FirstFree)]
      /\ used' = used \cup {FirstFree}
      /\ size' = SumSeen(dir')
      /\ reply' = TRUE

(* Dir::create_entry, of a name that is not found: a block for the          *)
(* directory, if it grows, and one for the file.                           *)
Create(n) ==
  LET k     == Spot(n)
      grows == k > Len(dir)
      grown == IF grows THEN Append(dir, DirBlockAt(FirstFree)) ELSE dir
      addr  == IF grows THEN ThenFree ELSE FirstFree
  IN  /\ ~Found(n)
      /\ Free # {} /\ (grows => Free # {FirstFree})
      /\ dir' = [grown EXCEPT ![k] = Put(@, n, addr)]
      /\ used' = used \cup {FirstFree, addr}
      /\ size' = SumSeen(dir')
      /\ reply' = TRUE

(* create_entry fails: the name is there, or the disk is full, and then    *)
(* the block it added to the directory stays there, empty.                 *)
CreateFails(n) ==
  /\ \/ Found(n) /\ UNCHANGED <<dir, used>>
     \/ /\ ~Found(n) /\ Free = {}
        /\ UNCHANGED <<dir, used>>
     \/ /\ ~Found(n) /\ Spot(n) = Len(dir) + 1
        /\ Free # {} /\ Free = {FirstFree}
        /\ dir' = Append(dir, DirBlockAt(FirstFree))
        /\ used' = used \cup {FirstFree}
  /\ reply' = FALSE
  /\ UNCHANGED size

(* Dir::delete_entry: the rest of the block is shifted over the entry.  A  *)
(* block left empty is cut out of the chain behind last_block_addr, the    *)
(* last block before it that an entry was read from, if there is one.      *)
Delete(n) ==
  /\ Found(n)
  /\ LET k     == Place(n)[1]
         i     == Place(n)[2]
         left  == [dir[k] EXCEPT !.slots = RemoveAt(@, i)]
         prev  == {j \in 1 .. k - 1 : Seen(dir[j]) # << >>}
         cut   == left.slots = << >> /\ left.junk = 0 /\ prev # {}
         last_block == CHOOSE j \in prev : \A l \in prev : l <= j
     IN  /\ dir' = IF cut
                   THEN SubSeq(dir, 1, last_block) \o SubSeq(dir, k + 1, Len(dir))
                   ELSE [dir EXCEPT ![k] = left]
         /\ used' = used \ ({dir[k].slots[i].addr} \cup
                            (IF cut THEN {dir[k].addr} ELSE {}))
         /\ size' = SumSeen(dir')
  /\ reply' = TRUE

DeleteFails(n) ==
  /\ ~Found(n)
  /\ reply' = FALSE
  /\ UNCHANGED <<dir, used, size>>

(* Dir::update_entry, from File::write: the size of the first entry n. *)
Update(n, s) ==
  /\ Found(n)
  /\ dir' = [dir EXCEPT ![Place(n)[1]].slots[Place(n)[2]].size = s]
  /\ UNCHANGED <<used, size, reply>>

Next == \E n \in Name :
  \/ Create(n) \/ CreateFails(n)
  \/ Delete(n) \/ DeleteFails(n)
  \/ \E s \in Size : Update(n, s)

Spec == Init /\ [][Next]_vars

-----------------------------------------------------------------------------
(* The block at place i of the k-th block of a directory: its own, or the  *)
(* first one of the file in slot i.                                        *)
At(d, k, i) == IF i = 0 THEN d[k].addr ELSE d[k].slots[i].addr
Places(d, k) == 0 .. Len(d[k].slots)

(* Every block of directory d is marked in u, and has one place.           *)
NoneShared(d, u) ==
  /\ \A k \in DOMAIN d : \A i \in Places(d, k) : At(d, k, i) \in u
  /\ \A k, l \in DOMAIN d : \A i \in Places(d, k), j \in Places(d, l) :
       At(d, k, i) = At(d, l, j) => k = l /\ i = j

(* No block is in a directory twice, is both a block of it and of a file   *)
(* of it, or is free: whatever is deleted and created again, and even of   *)
(* entries that are written but not read (Dir::create_entry, delete_entry).*)
NoBlockShared == NoneShared(dir, used)

(* What a reader of the directory gets. *)
Listing ==
  UNION {{[name |-> e.name, size |-> e.size] : e \in Range(Seen(dir[k]))}
           : k \in DOMAIN dir}

Store == INSTANCE DirStore WITH files <- Listing, total <- size

(* When no set of names fills a block to its last byte, the directory is   *)
(* the map from names to entries its callers take it for.                  *)
ImplementsDirStore == Store!Spec

(* A name that was created is found.  The test of File::delete says so of  *)
(* one file: File::create is Some and then File::open is Some.             *)
CreatedIsFound == [][\A n \in Name : Create(n) => Found(n)']_vars
=============================================================================
