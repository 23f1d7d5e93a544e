-------------------------------- MODULE Ata --------------------------------
(***************************************************************************)
(* The ATA driver of sys/ata.rs: one bus with two drives, and commands in  *)
(* programmed I/O.  The drives are the other side of the registers: a      *)
(* command makes one busy, and then it asks for data (DRQ) or errs, when   *)
(* it likes, also after the driver has given the command up.  The driver   *)
(* gives a poll up when a second has passed, which may be at any time.     *)
(*                                                                         *)
(* The bus is behind a mutex, so calls come one after the other.  A sector *)
(* is transferred in one step.  Writes are of one sector, as all that the  *)
(* callers ask for.                                                        *)
(***************************************************************************)
EXTENDS Integers, Sequences

CONSTANTS
  BlockCount,  \* Blocks of each
  LbaLimit,    \* 2^28, where addresses wrap
  CountMax,    \* Sectors of a read: 255
  Version,     \* What a write may put in a block, beside the block's own name
  Blank        \* What a block holds before

Drive == {0, 1}
Block == 0 .. BlockCount - 1

ASSUME AtaAssumption ==
  /\ BlockCount \in Nat \ {0} /\ LbaLimit \in Nat /\ BlockCount < LbaLimit
  /\ CountMax \in Nat \ {0}

VARIABLES
  present,        \* The drives there are
  dev,            \* The drive that the drive register selects
  unit,           \* Of each drive: [bsy, drq, err, cmd, block, left, data]
  medium,         \* Of each drive, what its blocks hold
  last_selected,  \* LAST_SELECTED; OtherBus when it is of the other bus
  pc,             \* Where the call is
  call,           \* The call: [cmd, drive, block, count, data]
  buf,            \* The sectors it has read
  result          \* What the last call returned: "ok", "err" or "none"

hostVars == <<last_selected, pc, call, buf, result>>
ataVars == <<present, dev, unit, medium, hostVars>>

OtherBus == -1
Quiet == [bsy |-> FALSE, drq |-> FALSE, err |-> FALSE,
          cmd |-> "none", block |-> 0, left |-> 0, data |-> Blank]
NoCall == [cmd |-> "none", drive |-> 0, block |-> 0, count |-> 0, data |-> Blank]

AtaInit ==
  /\ present \in SUBSET Drive
  /\ dev = 0 /\ unit = [d \in Drive |-> Quiet]
  /\ medium = [d \in Drive |-> [b \in Block |-> Blank]]
  /\ last_selected = OtherBus
  /\ pc = "idle" /\ call = NoCall /\ buf = <<>> /\ result = "none"

-----------------------------------------------------------------------------
(* The drives *)

UnitBecomes(d, u) == unit' = [unit EXCEPT ![d] = u]

(* A busy drive asks for the next sector's transfer, *)
AsksForData(d) ==
  /\ unit[d].bsy /\ unit[d].left > 0 /\ unit[d].block < BlockCount
  /\ UnitBecomes(d, [unit[d] EXCEPT !.bsy = FALSE, !.drq = TRUE])
  /\ UNCHANGED medium

(* puts what it has been given to write on the medium, *)
Commits(d) ==
  /\ unit[d].bsy /\ unit[d].left = 0
  /\ medium' = [medium EXCEPT ![d][unit[d].block] = unit[d].data]
  /\ UnitBecomes(d, [Quiet EXCEPT !.cmd = "write"])

(* or fails. *)
CommandFails(d) ==
  /\ unit[d].bsy
  /\ UnitBecomes(d, [Quiet EXCEPT !.err = TRUE])
  /\ UNCHANGED medium

DriveStep ==
  /\ \E d \in present : AsksForData(d) \/ Commits(d) \/ CommandFails(d)
  /\ UNCHANGED <<present, dev, hostVars>>

(* The bits of the status register.  That of no drive is 0. *)
Bit(name) == dev \in present /\ unit[dev][name]

-----------------------------------------------------------------------------
(* The driver: select_drive, write_command_params, write_command, sync and   *)
(* the transfer, for read, write and identify_drive.                         *)

GoTo(place) == pc' = place /\ UNCHANGED result
Return(res) == pc' = "idle" /\ result' = res

(* What a write to a block is called with. *)
Content(d, b) == {[drive |-> d, block |-> b, version |-> v] : v \in Version}

Calling(cmd, d, b, n, x) == call' = [cmd |-> cmd, drive |-> d, block |-> b, count |-> n, data |-> x]

Call ==
  /\ pc = "idle" /\ GoTo("not_bsy")
  /\ \E d \in Drive :
       \/ \E b \in 0 .. BlockCount, n \in 1 .. CountMax : Calling("read", d, b, n, Blank)
       \/ \E b \in 0 .. BlockCount : \E x \in Content(d, b) : Calling("write", d, b, 1, x)
       \/ Calling("identify", d, 0, 1, Blank)
  /\ buf' = <<>>
  /\ UNCHANGED <<present, dev, unit, medium, last_selected>>

(* A call for a drive of the other bus. *)
CallOtherBus ==
  /\ pc = "idle" /\ last_selected' = OtherBus
  /\ UNCHANGED <<present, dev, unit, medium, pc, call, buf, result>>

Poll(bit, val, next) == [bit |-> bit, val |-> val, next |-> next]

(* Mutant: data that the drive still asks for is not looked at.              *)
PollsBusyOnly(place) ==
  CASE place = "not_bsy"     -> Poll("bsy", FALSE, "select")
    [] place = "bsy_again"   -> Poll("bsy", FALSE, "command")
    [] place = "identifying" -> Poll("bsy", FALSE, "sync")
    [] place = "sync_bsy"    -> Poll("bsy", FALSE, "sync_drq")
    [] place = "sync_drq"    -> Poll("drq", TRUE, "transfer")

(* The polls: the bit of the status register, the value that is waited for,  *)
(* and where the call goes on.                                               *)
Polls(place) ==
  CASE place = "not_bsy"     -> Poll("bsy", FALSE, "not_drq")
    [] place = "not_drq"     -> Poll("drq", FALSE, "select")
    [] place = "bsy_again"   -> Poll("bsy", FALSE, "drq_again")
    [] place = "drq_again"   -> Poll("drq", FALSE, "command")
    [] place = "identifying" -> Poll("bsy", FALSE, "sync")
    [] place = "sync_bsy"    -> Poll("bsy", FALSE, "sync_drq")
    [] place = "sync_drq"    -> Poll("drq", TRUE, "transfer")

Polling ==
  pc \in {"not_bsy", "not_drq", "bsy_again", "drq_again", "identifying", "sync_bsy", "sync_drq"}

Met == Bit(Polls(pc).bit) = Polls(pc).val

PollMet ==
  /\ Polling /\ Met /\ GoTo(Polls(pc).next)
  /\ UNCHANGED <<present, dev, unit, medium, last_selected, call, buf>>

(* Mutant: a poll for data has no end. *)
PollsOn == pc # "sync_drq"

(* A second has passed. *)
TimedOut == TRUE

PollTimesOut ==
  /\ Polling /\ ~Met /\ TimedOut /\ Return("err")
  /\ UNCHANGED <<present, dev, unit, medium, last_selected, call, buf>>

Select ==
  /\ pc = "select"
  /\ IF last_selected = call.drive
     THEN GoTo("command") /\ UNCHANGED <<last_selected, dev>>
     ELSE GoTo("bsy_again") /\ last_selected' = call.drive /\ dev' = call.drive
  /\ UNCHANGED <<present, unit, medium, call, buf>>

(* Mutant: the drive register is written without the drive's bit. *)
ParamsOfDrive0 == 0

(* What write_command_params selects. *)
Params == call.drive

(* A drive takes no command while it is busy or has data to transfer. *)
Taken(u) ==
  IF u.bsy \/ u.drq THEN u
  ELSE [bsy |-> TRUE, drq |-> FALSE, err |-> FALSE, cmd |-> call.cmd,
        block |-> call.block % LbaLimit, left |-> call.count, data |-> Blank]

Command ==
  /\ pc = "command" /\ dev' = Params
  /\ IF Params \in present
     THEN /\ UnitBecomes(Params, Taken(unit[Params]))
          /\ GoTo(IF call.cmd = "identify" THEN "identifying" ELSE "sync")
     ELSE /\ Return(IF call.cmd = "identify" THEN "none" ELSE "err")
          /\ UNCHANGED unit
  /\ UNCHANGED <<present, medium, last_selected, call, buf>>

Sync ==
  /\ pc = "sync"
  /\ IF Bit("err") THEN Return("err") ELSE GoTo("sync_bsy")
  /\ UNCHANGED <<present, dev, unit, medium, last_selected, call, buf>>

Moved(u) == [u EXCEPT !.drq = FALSE, !.left = @ - 1, !.data = call.data,
                      !.bsy = u.cmd = "write" \/ u.left > 1,
                      !.block = IF u.cmd = "read" THEN @ + 1 ELSE @]

Transfer ==
  /\ pc = "transfer"
  /\ buf' = IF call.cmd = "write" THEN buf ELSE Append(buf, medium[dev][unit[dev].block])
  /\ UnitBecomes(dev, Moved(unit[dev]))
  /\ GoTo(IF call.cmd # "write" /\ Len(buf') < call.count THEN "sync" ELSE "check")
  /\ UNCHANGED <<present, dev, medium, last_selected, call>>

Check ==
  /\ pc = "check"
  /\ Return(IF Bit("err") THEN "err" ELSE "ok")
  /\ UNCHANGED <<present, dev, unit, medium, last_selected, call, buf>>

Driver == PollMet \/ PollTimesOut \/ Select \/ Command \/ Sync \/ Transfer \/ Check

AtaNext == DriveStep \/ Call \/ CallOtherBus \/ Driver

AtaFairness == WF_ataVars(Driver)

AtaSpec == AtaInit /\ [][AtaNext]_ataVars /\ AtaFairness

-----------------------------------------------------------------------------
(* A read that succeeds has read the blocks it was called for, of the drive  *)
(* it was called for: never the late answer to a command that was given up.  *)
ReadsTheBlock ==
  pc = "idle" /\ call.cmd = "read" /\ result = "ok"
    => buf = [i \in 1 .. call.count |-> medium[call.drive][call.block + i - 1]]

(* A block holds what some write to it was called with, whatever was given   *)
(* up in between; and when the drive is done with the last write that        *)
(* succeeded, what that one was called with, unless the drive failed.        *)
WritesTheBlock ==
  /\ \A d \in Drive, b \in Block : medium[d][b] \in Content(d, b) \cup {Blank}
  /\ (/\ pc = "idle" /\ call.cmd = "write" /\ result = "ok"
      /\ ~unit[call.drive].bsy /\ ~unit[call.drive].err)
       => medium[call.drive][call.block] = call.data

(* A call ends, whatever the drive does: it is answered or given up.         *)
CallEnds == (pc # "idle") ~> (pc = "idle")

(* Both: what a command moves is what it was called for.                     *)
MovesTheBlock == ReadsTheBlock /\ WritesTheBlock
=============================================================================
