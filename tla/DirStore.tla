------------------------------ MODULE DirStore ------------------------------
(***************************************************************************)
(* What fs::Dir promises: a set of files with different names.  Creating a *)
(* name adds an empty file or fails; a file that is there is found,        *)
(* updated and deleted, whatever else was created and deleted around it.   *)
(***************************************************************************)
EXTENDS Integers

CONSTANTS
  Name,      \* Names of files
  EntryLen,  \* EntryLen[n]: the bytes an entry with name n takes
  Size       \* Sizes of files

VARIABLES
  files,  \* The files, each [name, size]
  total,  \* The size of the directory
  reply   \* What the last call returned: TRUE for Some or Ok

vars == <<files, total, reply>>

Init ==
  /\ files = {}
  /\ total = 0
  /\ reply = TRUE

File(n, s) == [name |-> n, size |-> s]

Create(n) ==
  /\ reply' = TRUE
  /\ total' = total + EntryLen[n]
  /\ \A f \in files : f.name # n
  /\ files' = files \cup {File(n, 0)}

Delete(n) ==
  /\ reply' = TRUE
  /\ total' = total - EntryLen[n]
  /\ \E f \in files : f.name = n /\ files' = files \ {f}

Update(n, s) ==
  /\ UNCHANGED <<total, reply>>
  /\ \E f \in files : f.name = n /\ files' = (files \ {f}) \cup {File(n, s)}

(* A call fails: a name that is there, a name that is not, a full disk. *)
Refuse == reply' = FALSE /\ UNCHANGED <<files, total>>

Next ==
  \/ \E n \in Name : Create(n) \/ Delete(n) \/ \E s \in Size : Update(n, s)
  \/ Refuse

Spec == Init /\ [][Next]_vars
=============================================================================
