------------------------------- MODULE Shell --------------------------------
(* The commands of the desktop's terminal that change the file system        *)
(* (usr/apps/terminal.rs), on the files of MfsFile: names are whole paths    *)
(* here, of files and of directories, and a directory is a chain of one      *)
(* block.  cp and mv copy a piece at a time through two handles, which may   *)
(* be of one file; nothing else runs meanwhile.                              *)
EXTENDS MfsFile

CONSTANTS
  Root, Parent,   \* "/", and Parent[p]: the directory path p is in
  In, Out,        \* copy_file's handles
  Piece,          \* the bytes copy_file reads at a time: more than a block has
  Idle            \* no command is running

Job ==
  [command : {"write", "cp", "mv"}, src : Name, dst : Name,
   stage : {"reading", "writing", "copied", "written", "failed", "deleting"},
   before : [Name -> Seq(Byte \cup {Blank}) \cup {NoFile}]]

ASSUME ShellAssumption ==
  /\ Root \notin Name /\ Parent \in [Name -> Name \cup {Root}]
  /\ {In, Out} \subseteq Handle /\ In # Out
  /\ Piece \in Nat \ {0}
  /\ Idle \notin Job

VARIABLES
  kind,   \* kind[p] of an entry: "file" or "dir"
  cwd,    \* process::dir()
  job     \* the command that is running, with what the files were before it

shellVars == <<vars, kind, cwd, job>>

ShellInit ==
  /\ Init
  /\ kind = [p \in Name |-> "file"] /\ cwd = Root /\ job = Idle

IsDir(p) == p \in Name => entry[p] # NoFile /\ kind[p] = "dir"
IsFile(p) == entry[p] # NoFile /\ kind[p] = "file"

(* Dir::create_entry, in a directory that is there.                          *)
NewEntry(p, k) ==
  /\ entry[p] = NoFile /\ IsDir(Parent[p]) /\ Free # <<>>
  /\ disk' = [a \in DOMAIN disk \cup {Head(Free)} |->
                IF a = Head(Free) THEN Zeroed ELSE disk[a]]
  /\ entry' = [entry EXCEPT ![p] = [addr |-> Head(Free), size |-> 0]]
  /\ kind' = [kind EXCEPT ![p] = k]

exec_touch(p) == NewEntry(p, "file") /\ UNCHANGED <<handle, answer, cwd, job>>
exec_mkdir(p) == NewEntry(p, "dir") /\ UNCHANGED <<handle, answer, cwd, job>>
exec_cd(p) == IsDir(p) /\ cwd' = p /\ UNCHANGED <<vars, kind, job>>

(* Mutant: whatever the name is of.                                          *)
exec_rm_any(p) == Delete(p) /\ UNCHANGED <<kind, cwd, job>>
exec_rm(p) == IsFile(p) /\ Delete(p) /\ UNCHANGED <<kind, cwd, job>>

-----------------------------------------------------------------------------
(* fs::open for writing, with OpenFlag::Create: OpenFlag::Truncate is not    *)
(* looked at there.  `opened` are the handles as they are by then.           *)
OpenOut(p, opened) ==
  /\ \/ IsFile(p) /\ UNCHANGED <<disk, entry, kind>>
     \/ NewEntry(p, "file")
  /\ handle' = [opened EXCEPT ![Out] = FileOf(p, entry'[p], 0)]

Begin(command, src, dst, stage) ==
  job' = [command |-> command, src |-> src, dst |-> dst, stage |-> stage,
          before |-> [n \in Name |-> Content(n)]]

exec_write(p, text) ==
  /\ OpenOut(p, handle) /\ Begin("write", p, p, "writing")
  /\ answer' = text /\ UNCHANGED cwd

(* exec_cp and exec_mv: the source is opened first.                          *)
copy_file(command, src, dst) ==
  /\ IsFile(src)
  /\ OpenOut(dst, [handle EXCEPT ![In] = FileOf(src, entry[src], 0)])
  /\ Begin(command, src, dst, "reading")
  /\ answer' = <<>> /\ UNCHANGED cwd

CopyRead ==
  /\ job.stage = "reading" /\ Read(In, Piece)
  /\ job' = [job EXCEPT !.stage = IF answer' = <<>> THEN "copied" ELSE "writing"]
  /\ UNCHANGED <<kind, cwd>>

CopyWrite ==
  /\ job.stage = "writing" /\ Write(Out, answer)
  /\ job' = [job EXCEPT !.stage = IF job.command = "write" THEN "written" ELSE "reading"]
  /\ UNCHANGED <<kind, cwd>>

(* Mutant: the error of the write ends the copy as the end of the file does. *)
AfterNoRoomIgnored == "copied"
AfterNoRoom == "failed"

(* The disk fills up: what was written stays.                                *)
CopyFails ==
  /\ job.stage = "writing" /\ WriteDiskFull(Out, answer)
  /\ job' = [job EXCEPT !.stage = AfterNoRoom]
  /\ UNCHANGED <<kind, cwd>>

(* The handles go; mv goes on only if the copy went well.                    *)
Return ==
  /\ job.stage \in {"copied", "written", "failed"}
  /\ handle' = [h \in Handle |-> Closed]
  /\ job' = IF job.command = "mv" /\ job.stage = "copied"
            THEN [job EXCEPT !.stage = "deleting"] ELSE Idle
  /\ UNCHANGED <<disk, entry, answer, kind, cwd>>

exec_mv_delete ==
  /\ job.stage = "deleting" /\ Delete(job.src)
  /\ job' = Idle /\ UNCHANGED <<kind, cwd>>

Command ==
  \/ \E p \in Name : exec_touch(p) \/ exec_mkdir(p) \/ exec_rm(p)
  \/ \E p \in Name \cup {Root} : exec_cd(p)
  \/ \E p \in Name, text \in Bufs : exec_write(p, text)
  \/ \E src, dst \in Name, c \in {"cp", "mv"} : copy_file(c, src, dst)

ShellNext ==
  \/ job = Idle /\ Command
  \/ job # Idle /\ (CopyRead \/ CopyWrite \/ CopyFails \/ Return \/ exec_mv_delete)

ShellSpec == ShellInit /\ [][ShellNext]_shellVars

(* No file is copied onto itself.                                            *)
TwoFilesSpec ==
  ShellInit /\ [][ShellNext /\ (job' = Idle \/ job'.command = "write" \/ job'.src # job'.dst)]_shellVars

-----------------------------------------------------------------------------
(* The directory the terminal is in is there whatever is removed or moved,   *)
(* and so is the directory of every file: nothing in the file system keeps a *)
(* directory from being deleted with what is in it (fs/dir.rs 190), so the   *)
(* commands have to (terminal.rs 204-225, 228-260, 630-647).                 *)
TreeHolds ==
  /\ IsDir(cwd)
  /\ \A p \in Name : entry[p] # NoFile => IsDir(Parent[p])

(* A command that copies or writes changes no file but its destination,      *)
(* though the disk fills up half way, and what it says it copied is all      *)
(* there: mv deletes a file only when the other has the whole of it          *)
(* (terminal.rs 228-284).  So it is unless the two are one file, or the file *)
(* is empty: fs::open truncates nothing (fs/mod.rs 88-100), and a file of no *)
(* bytes is copied onto another by leaving that one as it was.               *)
CopyKeeps ==
  job # Idle =>
    /\ \A n \in Name \ {job.dst} : Content(n) = job.before[n]
    /\ job.stage \in {"copied", "deleting"} /\ job.src # job.dst /\ job.before[job.src] # <<>>
         => Content(job.dst) = job.before[job.src]

(* Both: what the terminal's commands keep of the files they are not about.  *)
CommandsKeep == TreeHolds /\ CopyKeeps
=============================================================================
