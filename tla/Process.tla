------------------------------ MODULE Process -------------------------------
(***************************************************************************)
(* Processes and their memory: the process table (sys/process/table.rs),   *)
(* spawn and exit (spawn.rs, mod.rs), the pages that spawn and the page    *)
(* fault handler (sys/idt.rs) map (sys/mem/mapping.rs), and the frames     *)
(* that all of it takes from Frames and gives back.                        *)
(*                                                                         *)
(* One process runs at a time, and a spawn or a page fault runs to its end *)
(* before anything else takes a frame; what can happen in the middle is    *)
(* that there is no frame left, so each call of allocate_frame is a step.  *)
(* The heap and the tables of the kernel are Kernel, frames taken at boot  *)
(* and never given back.                                                   *)
(***************************************************************************)
EXTENDS Frames, Sequences, FiniteSets

CONSTANTS
  MAX_PROCS,
  Page,         \* The pages of the user memory region
  ArgsPage,     \* The page copy_args puts the arguments in
  Table,        \* The page tables below a process's own
  TablesOf,     \* TablesOf[p]: those map_to goes through for page p, in order
  Binaries,     \* What spawn is given: [pages, good], see Spawn
  KernelFrames  \* How many frames the kernel took at boot

Pid == 0 .. MAX_PROCS - 1
Kernel == 0 .. KernelFrames - 1

(* A process's parent, its page_table_frame, and the frame of each page    *)
(* table and page it has.                                                  *)
Proc == [parent : Pid, root : Index, mapped : [Table \cup Page -> Index \cup {None}]]
Unmapped == [x \in Table \cup Page |-> None]

ASSUME ProcessAssumption ==
  /\ MAX_PROCS \in Nat \ {0} /\ ArgsPage \in Page
  /\ KernelFrames \in 0 .. FramesCount
  /\ TablesOf \in [Page -> Seq(Table)]
  /\ Table \cap Page = {} /\ None \notin Proc
  /\ \A b \in Binaries : b.pages \in Seq(Page) /\ b.good \in BOOLEAN

VARIABLES
  process_table,  \* Pid -> a process, or None; 0, the kernel's, is left out
  id,             \* PID: the process that runs
  op,             \* The spawn or page fault under way, and how far it is
  leaked          \* History: frames in use that nothing points to any more

vars == <<framesVars, process_table, id, op, leaked>>

(* pid is the process whose memory is being mapped, todo the pages left to *)
(* map, frame the frame alloc_pages has for the first of them, good        *)
(* whether the binary is one, before the frames in use when spawn began.   *)
Pc == {"run", "load", "args", "fault", "loadFailed", "faultFailed", "panic"}
Op == [pc : Pc, pid : Pid, todo : Seq(Page), frame : Index \cup {None},
       good : BOOLEAN, before : SUBSET Index]

Live == {p \in Pid \ {0} : process_table[p] # None}

ProcessTypeOK ==
  /\ TypeOK
  /\ process_table \in [Pid -> Proc \cup {None}]
  /\ process_table[0] = None
  /\ id \in Live \cup {0}
  /\ op \in Op
  /\ leaked \in SUBSET Index

FramesOf(p) ==
  {process_table[p].root}
    \cup ({process_table[p].mapped[x] : x \in Table \cup Page} \ {None})

ProcessInit ==
  /\ bitmap = Kernel /\ next_free_index = KernelFrames /\ got = None
  /\ process_table = [p \in Pid |-> None]
  /\ id = 0
  /\ op = [pc |-> "run", pid |-> 0, todo |-> <<>>, frame |-> None,
           good |-> TRUE, before |-> {}]
  /\ leaked = {}

(***************************************************************************)
(* create: a slot, a frame for the page table, then load.  It enters the   *)
(* process in the table last, but holds the table's lock all the time:     *)
(* here it is entered first.  A full table changes nothing.                *)
(***************************************************************************)

FreeSlot == {p \in Pid \ {0} : process_table[p] = None}
Slot == CHOOSE p \in FreeSlot : \A q \in FreeSlot : p <= q

Spawn(bin) ==
  /\ op.pc = "run" /\ FreeSlot # {}
  /\ \E i \in Index :
       /\ Allocated(i)
       /\ process_table' = [process_table EXCEPT ![Slot] =
            [parent |-> id, root |-> Probe(i), mapped |-> Unmapped]]
  /\ op' = [pc |-> "load", pid |-> Slot, todo |-> bin.pages, frame |-> None,
            good |-> bin.good, before |-> bitmap]
  /\ UNCHANGED <<id, leaked>>

(* "frame allocation failed": the expect of create. *)
SpawnPanics ==
  /\ op.pc = "run" /\ FreeSlot # {}
  /\ NoFreeFrame
  /\ op' = [op EXCEPT !.pc = "panic"]
  /\ UNCHANGED <<process_table, id, leaked>>

(***************************************************************************)
(* alloc_pages, for the segments of a binary, the page of the arguments,   *)
(* or the page that faulted: a frame, then map_to.                         *)
(***************************************************************************)

Mapping == op.pc \in {"load", "args", "fault"}
Missing(p) ==
  {i \in DOMAIN TablesOf[p] : process_table[op.pid].mapped[TablesOf[p][i]] = None}

(* What an Err of alloc_pages comes to: load frees what it mapped, an      *)
(* unwrap in copy_args, the end of the process at a fault.                 *)
AfterErr == IF op.pc = "load" THEN "loadFailed"
            ELSE IF op.pc = "args" THEN "panic" ELSE "faultFailed"

Put(x, frame) ==
  LET proc == process_table[op.pid] IN
  [process_table EXCEPT ![op.pid] =
     [proc EXCEPT !.mapped = [proc.mapped EXCEPT ![x] = frame]]]

TakeFrame ==
  /\ Mapping /\ op.todo # <<>> /\ op.frame = None
  /\ \E i \in Index : Allocated(i) /\ op' = [op EXCEPT !.frame = Probe(i)]
  /\ UNCHANGED <<process_table, id, leaked>>

NoFrame ==
  /\ Mapping /\ op.todo # <<>> /\ op.frame = None
  /\ NoFreeFrame
  /\ op' = [op EXCEPT !.pc = AfterErr]
  /\ UNCHANGED <<process_table, id, leaked>>

(* map_to makes the page tables that are not there. *)
TakeTable ==
  /\ Mapping /\ op.frame # None
  /\ LET missing == Missing(Head(op.todo)) IN
     \E k \in missing, i \in Index :
       /\ \A j \in missing : k <= j
       /\ Allocated(i)
       /\ process_table' = Put(TablesOf[Head(op.todo)][k], Probe(i))
  /\ UNCHANGED <<id, op, leaked>>

MapPage ==
  /\ Mapping /\ op.frame # None
  /\ Missing(Head(op.todo)) = {}
  /\ process_table[op.pid].mapped[Head(op.todo)] = None
  /\ process_table' = Put(Head(op.todo), op.frame)
  /\ op' = [op EXCEPT !.todo = Tail(op.todo), !.frame = None]
  /\ UNCHANGED <<framesVars, id, leaked>>

(* Mutant: what is mapped already is mapped again. *)
MapFailsRemaps ==
  /\ Mapping /\ op.frame # None
  /\ Missing(Head(op.todo)) = {}
  /\ process_table[op.pid].mapped[Head(op.todo)] # None
  /\ process_table' = Put(Head(op.todo), op.frame)
  /\ op' = [op EXCEPT !.todo = Tail(op.todo), !.frame = None]
  /\ UNCHANGED <<framesVars, id, leaked>>

(* An Err of map_to loses the frame: no frame for a table, or a page that  *)
(* is mapped, which two segments that share a page come to.                *)
MapFails ==
  /\ Mapping /\ op.frame # None
  /\ IF Missing(Head(op.todo)) # {} THEN NoFreeFrame
     ELSE /\ process_table[op.pid].mapped[Head(op.todo)] # None
          /\ UNCHANGED framesVars
  /\ op' = [op EXCEPT !.pc = AfterErr, !.frame = None]
  /\ leaked' = leaked \cup {op.frame}
  /\ UNCHANGED <<process_table, id>>

(***************************************************************************)
(* The rest of spawn, faults and exits                                     *)
(***************************************************************************)

(* exec: the child runs, and gets its arguments.  A binary whose header or *)
(* whose next segment is bad ends here too.                                *)
Loaded ==
  /\ op.pc = "load" /\ op.todo = <<>>
  /\ IF op.good
     THEN /\ id' = op.pid
          /\ op' = [op EXCEPT !.pc = "args", !.todo = <<ArgsPage>>]
     ELSE op' = [op EXCEPT !.pc = "loadFailed"] /\ UNCHANGED id
  /\ UNCHANGED <<framesVars, process_table, leaked>>

Mapped ==
  /\ op.pc \in {"args", "fault"} /\ op.todo = <<>>
  /\ op' = [op EXCEPT !.pc = "run"]
  /\ UNCHANGED <<framesVars, process_table, id, leaked>>

(* Heap and stack are allocated when they are touched. *)
PageFault(p) ==
  /\ op.pc = "run" /\ id # 0
  /\ process_table[id].mapped[p] = None
  /\ op' = [op EXCEPT !.pc = "fault", !.pid = id, !.todo = <<p>>]
  /\ UNCHANGED <<framesVars, process_table, id, leaked>>

(* In the kernel, on a page of the process it was given: hang. *)
FaultHangs ==
  /\ op.pc = "faultFailed"
  /\ op' = [op EXCEPT !.pc = "panic"]
  /\ UNCHANGED <<framesVars, process_table, id, leaked>>

(* Mutant: the page tables stay. *)
free_process_pages(p) ==
  LET frames == {process_table[p].root} \cup ({process_table[p].mapped[x] : x \in Page} \ {None})
  IN /\ bitmap' = bitmap \ frames
     /\ next_free_index' =
          Lesser(next_free_index, CHOOSE f \in frames : \A g \in frames : f <= g)
     /\ process_table' = [process_table EXCEPT ![p] = None]
     /\ UNCHANGED got

(* Mutant: the search goes on where it was. *)
free_process_hint(p) ==
  /\ bitmap' = bitmap \ FramesOf(p)
  /\ process_table' = [process_table EXCEPT ![p] = None]
  /\ UNCHANGED <<next_free_index, got>>

(* free_process: all pages of the user memory region, the tables that      *)
(* leaves empty, and the page table.                                       *)
free_process(p) ==
  LET frames == FramesOf(p) IN
  /\ bitmap' = bitmap \ frames
  /\ next_free_index' =
       Lesser(next_free_index, CHOOSE f \in frames : \A g \in frames : f <= g)
  /\ process_table' = [process_table EXCEPT ![p] = None]
  /\ UNCHANGED got

(* Mutant: only the page table of the process is given back. *)
SpawnFailsTableOnly ==
  /\ op.pc = "loadFailed"
  /\ deallocate_frame(process_table[op.pid].root)
  /\ process_table' = [process_table EXCEPT ![op.pid] = None]
  /\ op' = [op EXCEPT !.pc = "run"]
  /\ UNCHANGED <<id, leaked>>

SpawnFails ==
  /\ op.pc = "loadFailed"
  /\ free_process(op.pid)
  /\ op' = [op EXCEPT !.pc = "run"]
  /\ UNCHANGED <<id, leaked>>

(* Mutant: the process that ended is still the one that runs. *)
ExitStays ==
  /\ op.pc \in {"run", "faultFailed"} /\ id # 0
  /\ free_process(id)
  /\ op' = [op EXCEPT !.pc = "run", !.todo = <<>>]
  /\ UNCHANGED <<id, leaked>>

(* Mutant: every exit ends in the kernel. *)
ExitToKernel ==
  /\ op.pc \in {"run", "faultFailed"} /\ id # 0
  /\ id' = 0
  /\ free_process(id)
  /\ op' = [op EXCEPT !.pc = "run", !.todo = <<>>]
  /\ UNCHANGED leaked

(* By the system call, or at a fault without a frame. *)
Exit ==
  /\ op.pc \in {"run", "faultFailed"} /\ id # 0
  /\ id' = process_table[id].parent
  /\ free_process(id)
  /\ op' = [op EXCEPT !.pc = "run", !.todo = <<>>]
  /\ UNCHANGED leaked

ProcessNext ==
  \/ \E b \in Binaries : Spawn(b)
  \/ SpawnPanics \/ TakeFrame \/ NoFrame \/ TakeTable \/ MapPage \/ MapFails
  \/ Loaded \/ Mapped \/ FaultHangs \/ SpawnFails \/ Exit
  \/ \E p \in Page : PageFault(p)

ProcessSpec == ProcessInit /\ [][ProcessNext]_vars

(***************************************************************************)
(* Properties                                                              *)
(***************************************************************************)

Hand == {op.frame} \ {None}

(* No frame has two owners: two processes, two pages of one, the kernel,   *)
(* the call under way.                                                     *)
OneOwner ==
  /\ \A p, q \in Live : p # q => FramesOf(p) \cap FramesOf(q) = {}
  /\ \A p \in Live :
       /\ \A x, y \in Table \cup Page :
            x # y /\ process_table[p].mapped[x] # None
              => process_table[p].mapped[x] # process_table[p].mapped[y]
       /\ \A x \in Table \cup Page : process_table[p].root # process_table[p].mapped[x]
       /\ FramesOf(p) \cap (Kernel \cup leaked \cup Hand) = {}
  /\ Hand \cap (Kernel \cup leaked) = {} /\ leaked \cap Kernel = {}

(* Every frame in use is accounted for, and no frame that is free is       *)
(* pointed to.                                                             *)
Accounted ==
  bitmap = Kernel \cup leaked \cup Hand \cup UNION {FramesOf(p) : p \in Live}

(* Both: the frames in use are those of the kernel, of the processes and of *)
(* the call under way, each of one of them (mapping.rs:16-88).              *)
FramesOwned == OneOwner /\ Accounted

(* The live processes are a chain of spawns that ends in the one that      *)
(* runs: exit comes back to a process that is there, and to the one that   *)
(* spawned it (mod.rs:229-235).                                            *)
Spawned == IF op.pc \in {"load", "loadFailed"} THEN Live \ {op.pid} ELSE Live
Nested ==
  /\ \A p \in Live : process_table[p].parent \in Spawned \cup {0}
  /\ \A p, q \in Live : process_table[p].parent = process_table[q].parent => p = q
  /\ \A p \in Spawned : process_table[p].parent # id

(* When the kernel's process runs again, every process has given back all  *)
(* it had; what is missing is what map_to's errors lost.                   *)
AllGivenBack == id = 0 /\ op.pc = "run" => Live = {} /\ bitmap = Kernel \cup leaked

(* After a binary that cannot be loaded the frames in use are those of     *)
(* before (test_load, spawn.rs:300), and those map_to's errors lost.       *)
SpawnRestores ==
  [][op.pc = "loadFailed" /\ op'.pc = "run" => bitmap' = op.before \cup leaked']_vars
=============================================================================
