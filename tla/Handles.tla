------------------------------ MODULE Handles ------------------------------
(***************************************************************************)
(* What a process has beside its memory, and the system calls that change  *)
(* it (sys/syscall, sys/process/table.rs, sys/fs/mod.rs): its handles, its *)
(* directory, the registers it is resumed with, and the pipes that handles *)
(* lead to.  A handle is a copy: dup copies the resource, a child gets a   *)
(* copy of all its parent has, and read and write change a clone that they *)
(* put back.  Only the bytes of a pipe are shared, as long as a handle of  *)
(* anybody leads to it.                                                    *)
(*                                                                         *)
(* One process runs at a time, and a system call runs to its end; a handle *)
(* that is no index of the table (a panic) is not among the calls.  What   *)
(* spawn needs of memory and of the binary is in Process.                  *)
(***************************************************************************)
EXTENDS Integers, Sequences, FiniteSets

CONSTANTS
  MAX_PROCS,
  MAX_HANDLES,
  Reserved,    \* Handles that open does not give: 4
  FileSize,    \* Of every file
  Dirs,        \* Directories there are
  Pipe,        \* Buffers of pipes
  PipeMax      \* Bound: bytes written to one pipe

Pid == 0 .. MAX_PROCS - 1
Handle == 0 .. MAX_HANDLES - 1

ASSUME HandlesAssumption ==
  /\ MAX_PROCS \in Nat \ {0} /\ MAX_HANDLES \in Nat /\ FileSize \in Nat
  /\ Reserved \in 1 .. MAX_HANDLES /\ Dirs # {}

Closed == [kind |-> "none"]
Console == [kind |-> "console"]
FileAt(pos) == [kind |-> "file", pos |-> pos]
PipeTo(p) == [kind |-> "pipe", pipe |-> p]

VARIABLES
  id,        \* PID
  table,     \* PROCESS_TABLE: [parent, handles, dir, regs], or NoProcess
  regs,      \* The registers a system call returns to: whose they are
  pipes,     \* What is in a pipe
  put,       \* History: how many bytes were written to a pipe since it was made
  spawned    \* History: what the parents had when they spawned, the last one first

handlesVars == <<id, table, regs, pipes, put, spawned>>

NoProcess == [parent |-> 0]
Live == {q \in Pid : table[q] # NoProcess}

Me == table[id]
Mine(h) == Me.handles[h]

HandlesInit ==
  /\ id = 0
  /\ table = [q \in Pid |-> IF q # 0 THEN NoProcess
                ELSE [parent |-> 0, dir |-> CHOOSE d \in Dirs : TRUE, regs |-> 0,
                      handles |-> [h \in Handle |-> IF h < Reserved THEN Console ELSE Closed]]]
  /\ pipes = [p \in Pipe |-> <<>>] /\ put = [p \in Pipe |-> 0]
  /\ regs = 0 /\ spawned = <<>>

-----------------------------------------------------------------------------
(* A buffer nobody leads to is dropped. *)
Leading(t) ==
  {p \in Pipe : \E q \in Pid : t[q] # NoProcess /\ PipeTo(p) \in {t[q].handles[h] : h \in Handle}}

update_handle(h, resource) == [table EXCEPT ![id].handles[h] = resource]

(* A call that changes the table, and with it what is kept of the buffers,   *)
(* and a call that changes nothing.                                          *)
Kept(bytes, t) == [p \in Pipe |-> IF p \in Leading(t) THEN bytes[p] ELSE <<>>]
Counted(t) == [p \in Pipe |-> IF p \in Leading(t) THEN put[p] ELSE 0]

Becomes(t) ==
  /\ table' = t /\ pipes' = Kept(pipes, t) /\ put' = Counted(t)
  /\ UNCHANGED <<id, regs, spawned>>

Fails == UNCHANGED handlesVars

Free == {h \in Reserved .. MAX_HANDLES - 1 : Mine(h) = Closed}

create_handle == CHOOSE h \in Free : \A g \in Free : h <= g

(* open, of a file, perhaps to append, or of a pipe device, which is a new   *)
(* pipe; and of what there is not.                                           *)
NewPipe == {PipeTo(p) : p \in Pipe \ Leading(table)}

Open ==
  \E resource \in {FileAt(0), FileAt(FileSize)} \cup NewPipe :
    IF Free # {} THEN Becomes(update_handle(create_handle, resource)) ELSE Fails

Lesser(a, b) == IF a < b THEN a ELSE b

(* read of n bytes, but for the console's, which is in Console. *)
Read(h, n) ==
  \/ Mine(h) = Closed /\ Fails
  \/ /\ Mine(h).kind = "file"
     /\ Becomes(update_handle(h, FileAt(Lesser(Mine(h).pos + n, FileSize))))
  \/ /\ Mine(h).kind = "pipe"
     /\ LET p == Mine(h).pipe IN
        pipes' = [pipes EXCEPT ![p] = SubSeq(@, Lesser(n, Len(@)) + 1, Len(@))]
     /\ UNCHANGED <<id, table, regs, put, spawned>>

(* write of a byte to a pipe.  The bytes of a pipe are numbered. *)
Write(h) ==
  /\ Mine(h).kind = "pipe" /\ put[Mine(h).pipe] < PipeMax
  /\ LET p == Mine(h).pipe IN
       /\ pipes' = [pipes EXCEPT ![p] = Append(@, put[p] + 1)]
       /\ put' = [put EXCEPT ![p] = @ + 1]
  /\ UNCHANGED <<id, table, regs, spawned>>

Seek(h, pos) ==
  IF Mine(h).kind = "file" THEN Becomes(update_handle(h, FileAt(pos))) ELSE Fails

(* Mutant: closing a handle of a pipe empties it. *)
CloseEmpties(h) ==
  /\ table' = update_handle(h, Closed) /\ put' = Counted(table')
  /\ pipes' = [p \in Pipe |-> IF Mine(h) = PipeTo(p) THEN <<>> ELSE Kept(pipes, table')[p]]
  /\ UNCHANGED <<id, regs, spawned>>

Close(h) == Becomes(update_handle(h, Closed))

Dup(old, new) ==
  IF Mine(old) = Closed THEN Fails ELSE Becomes(update_handle(new, Mine(old)))

(* A write to the directory's device. *)
SetDir(d) == Becomes([table EXCEPT ![id].dir = d])

-----------------------------------------------------------------------------
(* The handler of the system call backs up the registers of the caller, and  *)
(* spawn gives the child a copy of all the parent has, these included.       *)
FreeSlot == {q \in Pid \ {0} : table[q] = NoProcess}
Slot == CHOOSE q \in FreeSlot : \A r \in FreeSlot : q <= r

BackedUp == [table EXCEPT ![id].regs = regs]

SpawnFails == Becomes(BackedUp)

Spawn ==
  /\ FreeSlot # {}
  /\ table' = [BackedUp EXCEPT ![Slot] = [BackedUp[id] EXCEPT !.parent = id]]
  /\ id' = Slot /\ regs' = Slot
  /\ spawned' = <<[pid |-> id, proc |-> BackedUp[id]]>> \o spawned
  /\ UNCHANGED <<pipes, put>>

(* Mutant: the registers are those of the process that ends. *)
RestoredOfChild == table[id].regs

Restored == table[Me.parent].regs

(* exit takes the process out of the table, and the handler restores the     *)
(* registers of the one that runs now.                                       *)
Exit ==
  /\ id # 0
  /\ id' = Me.parent /\ regs' = Restored
  /\ table' = [table EXCEPT ![id] = NoProcess]
  /\ pipes' = Kept(pipes, table') /\ put' = Counted(table')
  /\ spawned' = Tail(spawned)

HandlesNext ==
  \/ Open
  \/ \E h \in Handle : Read(h, 1) \/ Write(h) \/ Close(h)
  \/ \E h \in Handle, pos \in 0 .. FileSize : Seek(h, pos)
  \/ \E g, h \in Handle : Dup(g, h)
  \/ \E d \in Dirs : SetDir(d)
  \/ SpawnFails \/ Spawn \/ Exit

HandlesSpec == HandlesInit /\ [][HandlesNext]_handlesVars

-----------------------------------------------------------------------------
(* The process that runs after an exit is the one that spawned, with the     *)
(* handles, the directory and the registers it had then, whatever its child  *)
(* and the children of that did with theirs.                                 *)
ResumedAsLeft ==
  [][Len(spawned') < Len(spawned)
       => /\ id' = Head(spawned).pid /\ table'[id'] = Head(spawned).proc
          /\ regs' = id']_handlesVars

(* A byte that was written to a pipe leaves it only by being read, in the    *)
(* order of the writes, as long as any process has a handle to it: not when  *)
(* another handle is closed, overwritten by dup, or lost with its process.   *)
PipeKeeps ==
  [][\A p \in Leading(table) \cap Leading(table') :
       \/ pipes'[p] = pipes[p]
       \/ pipes'[p] = Append(pipes[p], put'[p])
       \/ table' = table /\ pipes[p] # <<>> /\ pipes'[p] = Tail(pipes[p])]_handlesVars
=============================================================================
