------------------------------- MODULE FsBoot ------------------------------
(***************************************************************************)
(* How the file system comes up (init and seed_root of sys/fs/mod.rs, and  *)
(* format_ata): the first drive with a superblock is mounted; when there   *)
(* is none, the first drive is formatted; and the mounted one gets the     *)
(* first files, unless it has the file of welcome.  The machine may be     *)
(* stopped before any block is written, and a read of a superblock may     *)
(* fail.                                                                   *)
(*                                                                         *)
(* A drive is its superblock's signature, the names in the root directory, *)
(* and which of the blocks of these and of the root are marked as used in  *)
(* the bitmap.  The format writes superblock and bitmap and marks the root *)
(* directory's block; it does not clear that block.  A name takes a block, *)
(* and any attempt to create one may be the one that finds no block free;  *)
(* then there is none before something is deleted.                         *)
(***************************************************************************)
EXTENDS Integers, Sequences, SequencesExt

CONSTANTS
  Drives,    \* How many places for drives there are: 4
  Seeds,     \* Names that are seeded, in order
  Welcome,   \* bienvenida.txt
  UserFiles  \* Names that are created later

ASSUME BootAssumption ==
  /\ Drives \in Nat \ {0} /\ Seeds \in Seq(STRING)
  /\ Welcome \in ToSet(Seeds) /\ UserFiles \cap ToSet(Seeds) = {}
  /\ "/" \notin ToSet(Seeds) \cup UserFiles

VARIABLES
  disk,      \* Of each place: is there a drive, is it signed, root, used, full
  mounted,   \* The place of the mounted drive, or NoDrive
  stage,     \* Where init is: "check", "super", "bitmap", "root", "seed", "up"
  next_dsk,  \* The place to check next
  todo,      \* Names to seed
  misread,   \* History: drives that were formatted though they were signed
  halfway    \* History: drives whose format was stopped

bootVars == <<disk, mounted, stage, next_dsk, todo, misread, halfway>>

NoDrive == 0
Root == "/"
Place == 1 .. Drives
Unformatted == [present |-> TRUE, signed |-> FALSE, root |-> {}, used |-> {}, full |-> FALSE]
Empty == [Unformatted EXCEPT !.present = FALSE]

BootInit ==
  /\ disk \in [Place -> {Unformatted, Empty}]
  /\ mounted = NoDrive /\ stage = "check" /\ next_dsk = 1 /\ todo = <<>>
  /\ misread = {} /\ halfway = {}

-----------------------------------------------------------------------------
(* Mutant: the file of welcome comes before the directories. *)
FilesFirst == Reverse(Seeds)

ToSeed == Seeds

Mounts(d) ==
  /\ mounted' = d /\ stage' = "seed"
  /\ todo' = IF Welcome \in disk[d].root THEN <<>> ELSE ToSeed

(* check_ata finds the signature *)
Found ==
  /\ stage = "check" /\ next_dsk \in Place
  /\ disk[next_dsk].present /\ disk[next_dsk].signed
  /\ Mounts(next_dsk)
  /\ UNCHANGED <<disk, next_dsk, misread, halfway>>

(* or does not, or the read fails. *)
NotFound ==
  /\ stage = "check" /\ next_dsk \in Place
  /\ next_dsk' = next_dsk + 1
  /\ UNCHANGED <<disk, mounted, stage, todo, misread, halfway>>

(* No file system on any drive. *)
MountFirst ==
  /\ stage = "check" /\ next_dsk \notin Place
  /\ IF disk[1].present THEN mounted' = 1 /\ stage' = "super"
                        ELSE mounted' = NoDrive /\ stage' = "up"
  /\ UNCHANGED <<disk, next_dsk, todo, misread, halfway>>

(* format_ata *)
FormatSuper ==
  /\ stage = "super" /\ stage' = "bitmap"
  /\ disk' = [disk EXCEPT ![mounted].signed = TRUE]
  /\ misread' = IF disk[mounted].signed THEN misread \cup {mounted} ELSE misread
  /\ UNCHANGED <<mounted, next_dsk, todo, halfway>>

FormatBitmap ==
  /\ stage = "bitmap" /\ stage' = "root"
  /\ disk' = [disk EXCEPT ![mounted].used = {}, ![mounted].full = FALSE]
  /\ UNCHANGED <<mounted, next_dsk, todo, misread, halfway>>

(* Mutant: the root directory's block is not marked. *)
UsedAtFirst == {}

UsedByRoot == {Root}

FormatRoot ==
  /\ stage = "root"
  /\ disk' = [disk EXCEPT ![mounted].used = @ \cup UsedByRoot]
  /\ Mounts(mounted)
  /\ UNCHANGED <<next_dsk, misread, halfway>>

NextSeed == Head(todo)

HasRoom == ~disk[mounted].full

(* create_dir or create_file: create_entry marks a block and links it.       *)
Seed ==
  /\ stage = "seed" /\ todo # <<>> /\ NextSeed \notin disk[mounted].root /\ HasRoom
  /\ disk' = [disk EXCEPT ![mounted].root = @ \cup {NextSeed}, ![mounted].used = @ \cup {NextSeed}]
  /\ todo' = Tail(todo)
  /\ UNCHANGED <<mounted, stage, next_dsk, misread, halfway>>

(* There is such an entry: create_dir answers None, write_file opens it.     *)
SeedThere ==
  /\ stage = "seed" /\ todo # <<>> /\ NextSeed \in disk[mounted].root
  /\ todo' = Tail(todo)
  /\ UNCHANGED <<disk, mounted, stage, next_dsk, misread, halfway>>

(* No block is free: "could not create", and the seeding goes on.            *)
SeedFails ==
  /\ stage = "seed" /\ todo # <<>> /\ NextSeed \notin disk[mounted].root
  /\ disk' = [disk EXCEPT ![mounted].full = TRUE]
  /\ todo' = Tail(todo)
  /\ UNCHANGED <<mounted, stage, next_dsk, misread, halfway>>

SeedingEnds ==
  /\ stage = "seed" /\ todo = <<>> /\ stage' = "up"
  /\ UNCHANGED <<disk, mounted, next_dsk, todo, misread, halfway>>

UserCreates ==
  /\ stage = "up" /\ mounted # NoDrive /\ HasRoom
  /\ \E f \in UserFiles \ disk[mounted].root :
       disk' = [disk EXCEPT ![mounted].root = @ \cup {f}, ![mounted].used = @ \cup {f}]
  /\ UNCHANGED <<mounted, stage, next_dsk, todo, misread, halfway>>

UserFills ==
  /\ stage = "up" /\ mounted # NoDrive
  /\ disk' = [disk EXCEPT ![mounted].full = TRUE]
  /\ UNCHANGED <<mounted, stage, next_dsk, todo, misread, halfway>>

(* A file of the user's, or the file of welcome, so that the next start      *)
(* seeds again; what it finds may be full by then.                           *)
UserDeletes ==
  /\ stage = "up" /\ mounted # NoDrive
  /\ \E f \in (UserFiles \cup {Welcome}) \cap disk[mounted].root :
       disk' = [disk EXCEPT ![mounted].root = @ \ {f}, ![mounted].used = @ \ {f},
                            ![mounted].full = FALSE]
  /\ UNCHANGED <<mounted, stage, next_dsk, todo, misread, halfway>>

(* The machine is stopped and starts again. *)
Restarts(half) ==
  /\ mounted' = NoDrive /\ stage' = "check" /\ next_dsk' = 1 /\ todo' = <<>>
  /\ halfway' = half /\ UNCHANGED misread

Stop ==
  /\ Restarts(IF stage \in {"bitmap", "root"} THEN halfway \cup {mounted} ELSE halfway)
  /\ UNCHANGED disk

(* Between the mark and the link of what is seeded. *)
StopInSeed ==
  /\ stage = "seed" /\ todo # <<>> /\ NextSeed \notin disk[mounted].root /\ HasRoom
  /\ disk' = [disk EXCEPT ![mounted].used = @ \cup {NextSeed}]
  /\ Restarts(halfway)

BootNext ==
  \/ Found \/ NotFound \/ MountFirst
  \/ FormatSuper \/ FormatBitmap \/ FormatRoot
  \/ Seed \/ SeedThere \/ SeedFails \/ SeedingEnds
  \/ UserCreates \/ UserFills \/ UserDeletes \/ Stop \/ StopInSeed

BootSpec == BootInit /\ [][BootNext]_bootVars

-----------------------------------------------------------------------------
(* What a drive's root directory leads to is marked as used, so that it is   *)
(* not handed out again; unless the drive's format was stopped, or a failed  *)
(* read made a format of a drive that had files.                             *)
LinkedIsUsed ==
  \A d \in Place \ (misread \cup halfway) :
    /\ disk[d].root \subseteq disk[d].used
    /\ disk[d].signed /\ stage \in {"check", "seed", "up"} => Root \in disk[d].used

(* The file of welcome, by which the next start knows that a drive has been  *)
(* seeded, comes after the directories: wherever the machine was stopped or  *)
(* the disk was full, they are there if it is, and else the next start makes *)
(* what is missing.                                                          *)
Before(f) == {Seeds[i] : i \in 1 .. SelectInSeq(Seeds, LAMBDA g : g = f) - 1}

TreeComesFirst ==
  \A d \in Place : Welcome \in disk[d].root => Before(Welcome) \subseteq disk[d].root

(* Both: wherever a start of the machine was cut short, by a stop or by a    *)
(* full disk, the next one finds or makes a drive that can be written to.    *)
ComesUpWhole == LinkedIsUsed /\ TreeComesFirst
=============================================================================
