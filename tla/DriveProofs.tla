---------------------------- MODULE DriveProofs -----------------------------
(***************************************************************************)
(* The drives, of any size and with whatever they do with commands that    *)
(* were given up, and the file system's start on them, with any first      *)
(* files: a read that succeeds has read the blocks it was called for, a    *)
(* write that succeeds has written its own, wherever a start was cut short *)
(* the next one finds or makes a drive that can be written to, and a drive *)
(* that is formatted has just the blocks of bitmap it needs.               *)
(***************************************************************************)
EXTENDS Ata, FsBoot, SuperBlock, TLAPS, WellFoundedInduction

(***************************************************************************)
(* What a command moves is what it was called for                          *)
(***************************************************************************)

Written == UNION {Content(d, blk) : d \in Drive, blk \in Block}

Datum == Written \cup {Blank}

Unit == [bsy : BOOLEAN, drq : BOOLEAN, err : BOOLEAN,
         cmd : {"none", "read", "write", "identify"}, block : Nat, left : Nat, data : Datum]

(* A call, as Call makes them.                                               *)
Called ==
  /\ call.drive \in Drive /\ call.block \in 0 .. BlockCount /\ call.count \in Nat \ {0}
  /\ call.cmd # "read" => call.count = 1
  /\ call.cmd = "write" => call.data \in Content(call.drive, call.block)
  /\ call.cmd # "write" => call.data = Blank
  /\ call.cmd \in {"read", "write", "identify"}

AtaTypeOK ==
  /\ present \in SUBSET Drive /\ dev \in Drive
  /\ unit \in [Drive -> Unit]
  /\ medium \in [Drive -> [Block -> Datum]]
  /\ last_selected \in Drive \cup {OtherBus}
  /\ buf \in Seq(Datum) /\ call.drive \in Drive
  /\ pc # "idle" => Called

(* A drive that is there neither works nor asks for data.                    *)
Free(d) == ~unit[d].bsy /\ ~unit[d].drq

Places == {"identifying", "sync", "sync_bsy", "sync_drq", "transfer"}

(* What was given up does no harm: no drive has anything to write that no    *)
(* call had for that block, and a drive that is not there does nothing.      *)
Late == \A d \in Drive :
  /\ unit[d].bsy /\ unit[d].left = 0 =>
       unit[d].block \in Block /\ unit[d].data \in Content(d, unit[d].block)
  /\ unit[d].drq => ~unit[d].bsy
  /\ d \notin present => Free(d)
  /\ \A blk \in Block : medium[d][blk] \in Content(d, blk) \cup {Blank}

(* No command is sent to a drive that has not done with the one before.      *)
Selected ==
  /\ last_selected # OtherBus => dev = last_selected
  /\ pc = "not_drq" => ~unit[dev].bsy
  /\ pc = "select" => Free(dev)
  /\ pc \in {"bsy_again", "drq_again", "command"} \cup Places \cup {"check"} =>
       last_selected = call.drive
  /\ pc = "drq_again" => ~unit[dev].bsy
  /\ pc = "command" => Free(dev)
  /\ pc \notin Places \cup {"check", "idle"} => buf = <<>>

(* The sectors that were read are those of the call.                         *)
ReadSoFar ==
  buf = [i \in 1 .. Len(buf) |-> medium[call.drive][call.block + i - 1]]

(* What the selected drive does is the call's command, as far as the buffer  *)
(* is filled.                                                                *)
Answering ==
  pc \in Places =>
    /\ call.drive \in present
    /\ pc = "transfer" => unit[call.drive].drq
    /\ call.cmd = "read" => ReadSoFar
    /\ call.cmd = "write" => buf = <<>>
    /\ ~Free(call.drive) =>
         LET u == unit[call.drive] IN
         /\ u.cmd = call.cmd /\ u.block = call.block + Len(buf)
         /\ u.left = call.count - Len(buf) /\ u.left > 0
         /\ u.drq => u.block < BlockCount

(* What a call that is over has left.                                        *)
Answered ==
  pc = "check" \/ (pc = "idle" /\ result = "ok") =>
    /\ call.cmd = "read" =>
         ~unit[call.drive].bsy /\ ReadSoFar /\ Len(buf) = call.count
    /\ call.cmd = "write" =>
         LET u == unit[call.drive] IN
         \/ u.bsy /\ u.left = 0 /\ u.block = call.block /\ u.data = call.data
         \/ ~u.bsy /\ (u.err \/ medium[call.drive][call.block] = call.data)

AtaInv == AtaTypeOK /\ Late /\ Selected /\ Answering /\ Answered

-----------------------------------------------------------------------------
LEMMA AtaStarts == AtaInit => AtaInv
<1> SUFFICES ASSUME AtaInit PROVE AtaInv
  OBVIOUS
<1>1. Quiet \in Unit
  BY DEF Quiet, Unit, Datum
<1>2. AtaTypeOK
  <2>1. unit \in [Drive -> Unit]
    BY <1>1 DEF AtaInit
  <2>2. medium \in [Drive -> [Block -> Datum]]
    BY DEF AtaInit, Datum
  <2> QED BY <2>1, <2>2 DEF AtaInit, AtaTypeOK, Drive, NoCall
<1>3. \A d \in Drive : Free(d)
  BY DEF AtaInit, Free, Quiet
<1>4. Late
  <2>1. \A d \in Drive, blk \in Block : medium[d][blk] = Blank
    BY DEF AtaInit
  <2> QED BY <1>3, <2>1 DEF Late, Free
<1>5. Selected /\ Answering /\ Answered
  BY DEF AtaInit, Selected, Answering, Answered, Places, OtherBus
<1> QED BY <1>2, <1>4, <1>5 DEF AtaInv

(* The bits that a poll looks at.                                            *)
LEMMA MetBits ==
  ASSUME AtaTypeOK, Late, Polling, Met
  PROVE  /\ pc \in {"not_bsy", "bsy_again", "identifying", "sync_bsy"} => ~unit[dev].bsy
         /\ pc \in {"not_drq", "drq_again"} => ~unit[dev].drq
         /\ pc = "sync_drq" => unit[dev].drq
<1>1. dev \in Drive /\ (dev \notin present => ~unit[dev].bsy /\ ~unit[dev].drq)
  BY DEF AtaTypeOK, Late, Free
<1>2. unit[dev].bsy \in BOOLEAN /\ unit[dev].drq \in BOOLEAN
  BY DEF AtaTypeOK, Unit
<1>3. /\ Bit("bsy") <=> dev \in present /\ unit[dev].bsy
      /\ Bit("drq") <=> dev \in present /\ unit[dev].drq
  BY <1>2 DEF Bit
<1>4. CASE pc \in {"not_bsy", "bsy_again", "identifying", "sync_bsy"}
  <2>1. Polls(pc).bit = "bsy" /\ Polls(pc).val = FALSE
    BY <1>4 DEF Polls, Poll
  <2> QED BY <1>1, <1>3, <1>4, <2>1 DEF Met
<1>5. CASE pc \in {"not_drq", "drq_again"}
  <2>1. Polls(pc).bit = "drq" /\ Polls(pc).val = FALSE
    BY <1>5 DEF Polls, Poll
  <2> QED BY <1>1, <1>3, <1>5, <2>1 DEF Met
<1>6. CASE pc = "sync_drq"
  <2>1. Polls(pc).bit = "drq" /\ Polls(pc).val = TRUE
    BY <1>6 DEF Polls, Poll
  <2> QED BY <1>1, <1>3, <1>6, <2>1 DEF Met
<1> QED BY <1>4, <1>5, <1>6 DEF Polling

(***************************************************************************)
(* The drives                                                              *)
(***************************************************************************)

(* One drive steps, and what its driver knows of it stays true: it was busy, *)
(* and now asks for data, has written what it was given, or has failed.      *)
LEMMA UnitStep ==
  ASSUME AtaInv, NEW d \in present, NEW u \in Unit,
         UnitBecomes(d, u), unit[d].bsy, UNCHANGED <<present, dev, hostVars>>,
         medium' \in [Drive -> [Block -> Datum]],
         \A e \in Drive : e # d => medium'[e] = medium[e],
         \A blk \in Block : medium'[d][blk] \in Content(d, blk) \cup {Blank},
         \/ ~u.bsy /\ ~u.drq /\ (u.err \/ (/\ unit[d].left = 0
                                           /\ medium'[d][unit[d].block] = unit[d].data))
         \/ /\ u = [unit[d] EXCEPT !.bsy = FALSE, !.drq = TRUE]
            /\ unit[d].left > 0 /\ unit[d].block < BlockCount,
         unit[d].left = 0 \/ medium' = medium
  PROVE  AtaInv'
<1> USE DEF AtaInv
<1>1. /\ present \in SUBSET Drive /\ d \in Drive /\ unit \in [Drive -> Unit] /\ call.drive \in Drive
      /\ dev \in Drive
  BY DEF AtaTypeOK
<1>2. unit' \in [Drive -> Unit] /\ unit'[d] = u /\ \A e \in Drive : e # d => unit'[e] = unit[e]
  BY <1>1 DEF UnitBecomes
<1>3. AtaTypeOK'
  BY <1>1, <1>2 DEF AtaTypeOK, hostVars, Called
<1>4. ~u.bsy
  BY <1>1 DEF Unit
<1>5. Late'
  <2> SUFFICES ASSUME NEW e \in Drive
               PROVE  /\ unit'[e].bsy /\ unit'[e].left = 0 =>
                             unit'[e].block \in Block /\ unit'[e].data \in Content(e, unit'[e].block)
                      /\ unit'[e].drq => ~unit'[e].bsy
                      /\ e \notin present => ~unit'[e].bsy /\ ~unit'[e].drq
                      /\ \A blk \in Block : medium'[e][blk] \in Content(e, blk) \cup {Blank}
    BY DEF Late, Free
  <2> QED BY <1>1, <1>2, <1>4 DEF Late, Free
<1>6. Selected'
  BY <1>1, <1>2, <1>4 DEF Selected, Free, hostVars, Places
<1>7. unit[d].drq \in BOOLEAN
  BY <1>1 DEF Unit
<1>8. CASE d = call.drive
  <2>1. ~Free(call.drive)
    BY <1>8 DEF Free
  <2>2. Answering'
    <3> SUFFICES ASSUME pc \in Places PROVE Answering'
      BY DEF Answering, hostVars
    <3>1. unit[d].left > 0 /\ medium' = medium
      BY <1>8, <2>1 DEF Answering
    <3>2. pc # "transfer"
      BY <1>1, <1>8 DEF Answering, Late
    <3> QED BY ZenonT(40), <1>1, <1>2, <1>7, <1>8, <2>1, <3>1, <3>2
            DEF Answering, ReadSoFar, Free, hostVars, Unit
  <2>3. Answered'
    BY <1>1, <1>2, <1>4, <1>8 DEF Answered, ReadSoFar, hostVars
  <2> QED BY <1>3, <1>5, <1>6, <2>2, <2>3
<1>9. CASE d # call.drive
  <2>1. medium'[call.drive] = medium[call.drive] /\ unit'[call.drive] = unit[call.drive]
    BY <1>1, <1>2, <1>9
  <2>2. Answering'
    BY <2>1 DEF Answering, ReadSoFar, Free, hostVars
  <2>3. Answered'
    BY <2>1 DEF Answered, ReadSoFar, hostVars
  <2> QED BY <1>3, <1>5, <1>6, <2>2, <2>3
<1> QED BY <1>8, <1>9

LEMMA DrivesKeep == AtaInv /\ DriveStep => AtaInv'
<1> SUFFICES ASSUME AtaInv, DriveStep PROVE AtaInv'
  OBVIOUS
<1>1. PICK d \in present : AsksForData(d) \/ Commits(d) \/ CommandFails(d)
  BY DEF DriveStep
<1>2. UNCHANGED <<present, dev, hostVars>>
  BY DEF DriveStep
<1>3. /\ d \in Drive /\ unit[d] \in Unit /\ unit \in [Drive -> Unit]
      /\ medium \in [Drive -> [Block -> Datum]]
  BY DEF AtaInv, AtaTypeOK
<1>4. /\ \A blk \in Block : medium[d][blk] \in Content(d, blk) \cup {Blank}
      /\ unit[d].bsy /\ unit[d].left = 0 =>
           unit[d].block \in Block /\ unit[d].data \in Content(d, unit[d].block)
  BY <1>3 DEF AtaInv, Late
<1>5. CASE AsksForData(d)
  <2> DEFINE u == [unit[d] EXCEPT !.bsy = FALSE, !.drq = TRUE]
  <2>1. u \in Unit
    BY <1>3 DEF Unit
  <2>2. UnitBecomes(d, u) /\ medium' = medium /\ unit[d].bsy /\ unit[d].left > 0 /\ unit[d].block < BlockCount
    BY <1>5 DEF AsksForData
  <2> QED BY <1>2, <1>3, <1>4, <2>1, <2>2, UnitStep
<1>6. CASE CommandFails(d)
  <2> DEFINE u == [Quiet EXCEPT !.err = TRUE]
  <2>1. u \in Unit /\ ~u.bsy /\ ~u.drq /\ u.err
    BY DEF Unit, Quiet, Datum
  <2>2. UnitBecomes(d, u) /\ medium' = medium /\ unit[d].bsy
    BY <1>6 DEF CommandFails
  <2> HIDE DEF u
  <2> QED BY <1>2, <1>3, <1>4, <2>1, <2>2, UnitStep
<1>7. CASE Commits(d)
  <2> DEFINE u == [Quiet EXCEPT !.cmd = "write"]
  <2>1. u \in Unit /\ ~u.bsy /\ ~u.drq
    BY DEF Unit, Quiet, Datum
  <2>2. /\ UnitBecomes(d, u) /\ unit[d].bsy /\ unit[d].left = 0
        /\ medium' = [medium EXCEPT ![d][unit[d].block] = unit[d].data]
    BY <1>7 DEF Commits
  <2>3. unit[d].block \in Block /\ unit[d].data \in Content(d, unit[d].block)
    BY <1>4, <2>2
  <2>4. unit[d].data \in Datum
    BY <1>3 DEF Unit
  <2>5. /\ medium' \in [Drive -> [Block -> Datum]]
        /\ \A e \in Drive : e # d => medium'[e] = medium[e]
        /\ medium'[d][unit[d].block] = unit[d].data
        /\ \A blk \in Block : blk # unit[d].block => medium'[d][blk] = medium[d][blk]
    BY <1>3, <2>2, <2>3, <2>4
  <2>6. \A blk \in Block : medium'[d][blk] \in Content(d, blk) \cup {Blank}
    BY <1>4, <2>3, <2>5
  <2> HIDE DEF u
  <2> QED BY <1>2, <1>3, <2>1, <2>2, <2>5, <2>6, UnitStep
<1> QED BY <1>1, <1>5, <1>6, <1>7

(***************************************************************************)
(* The driver                                                              *)
(***************************************************************************)

LEMMA CallKeeps == AtaInv /\ (Call \/ CallOtherBus) => AtaInv'
<1> SUFFICES ASSUME AtaInv, Call \/ CallOtherBus PROVE AtaInv'
  OBVIOUS
<1> USE DEF AtaInv
<1>1. UNCHANGED <<present, dev, unit, medium>> /\ pc = "idle"
  BY DEF Call, CallOtherBus
<1>2. Late'
  BY <1>1 DEF Late, Free
<1>3. CASE Call
  <2>1. pc' = "not_bsy" /\ buf' = <<>> /\ last_selected' = last_selected
    BY <1>3 DEF Call, GoTo
  <2>2. Called'
    BY <1>3, AtaAssumption DEF Call, Calling, Called
  <2>3. AtaTypeOK'
    BY <1>1, <2>1, <2>2 DEF AtaTypeOK, Called
  <2>4. Selected'
    BY <1>1, <2>1 DEF Selected, Places
  <2>5. Answering' /\ Answered'
    BY <2>1 DEF Answering, Answered, Places
  <2> QED BY <1>2, <2>3, <2>4, <2>5
<1>4. CASE CallOtherBus
  <2>1. UNCHANGED <<pc, call, buf, result>> /\ last_selected' = OtherBus
    BY <1>4 DEF CallOtherBus
  <2>2. AtaTypeOK'
    BY <1>1, <2>1 DEF AtaTypeOK, Called
  <2>3. Selected'
    BY <1>1, <2>1 DEF Selected, Places
  <2>4. Answering' /\ Answered'
    BY <1>1, <2>1 DEF Answering, Answered, Places, Free, ReadSoFar
  <2> QED BY <1>2, <2>2, <2>3, <2>4
<1> QED BY <1>3, <1>4

LEMMA PollKeeps == AtaInv /\ (PollMet \/ PollTimesOut) => AtaInv'
<1> SUFFICES ASSUME AtaInv, PollMet \/ PollTimesOut PROVE AtaInv'
  OBVIOUS
<1> USE DEF AtaInv
<1>1. UNCHANGED <<present, dev, unit, medium, last_selected, call, buf>> /\ Polling
  BY DEF PollMet, PollTimesOut
<1>2. Late'
  BY <1>1 DEF Late, Free
<1>3. pc # "idle" /\ AtaTypeOK'
  BY <1>1 DEF AtaTypeOK, Called, Polling
<1>4. CASE PollTimesOut
  <2>1. pc' = "idle" /\ result' = "err"
    BY <1>4 DEF PollTimesOut, Return
  <2> QED BY <1>1, <1>2, <1>3, <2>1 DEF Selected, Answering, Answered, Places
<1>5. CASE PollMet
  <2>1. pc' = Polls(pc).next /\ Met
    BY <1>5 DEF PollMet, GoTo
  <2>2. /\ pc \in {"not_bsy", "bsy_again", "identifying", "sync_bsy"} => ~unit[dev].bsy
        /\ pc \in {"not_drq", "drq_again"} => ~unit[dev].drq
        /\ pc = "sync_drq" => unit[dev].drq
    BY <1>1, <2>1, MetBits
  <2>3. \/ pc = "not_bsy" /\ pc' = "not_drq"
        \/ pc = "not_drq" /\ pc' = "select"
        \/ pc = "bsy_again" /\ pc' = "drq_again"
        \/ pc = "drq_again" /\ pc' = "command"
        \/ pc = "identifying" /\ pc' = "sync"
        \/ pc = "sync_bsy" /\ pc' = "sync_drq"
        \/ pc = "sync_drq" /\ pc' = "transfer"
    BY <1>1, <2>1 DEF Polls, Poll, Polling
  <2>4. Selected'
    BY <1>1, <2>2, <2>3 DEF Selected, Places, Free
  <2>5. dev = call.drive \/ pc \notin Places
    BY DEF Selected, AtaTypeOK, OtherBus, Drive
  <2>6. Answering'
    BY <1>1, <2>2, <2>3, <2>5 DEF Answering, Places, Free, ReadSoFar
  <2>7. Answered'
    BY <2>3 DEF Answered
  <2> QED BY <1>2, <1>3, <2>4, <2>6, <2>7
<1> QED BY <1>4, <1>5

LEMMA SelectKeeps == AtaInv /\ (Select \/ Sync \/ Check) => AtaInv'
<1> SUFFICES ASSUME AtaInv, Select \/ Sync \/ Check PROVE AtaInv'
  OBVIOUS
<1> USE DEF AtaInv
<1>1. UNCHANGED <<present, unit, medium, call, buf>> /\ pc # "idle"
  BY DEF Select, Sync, Check
<1>2. Late' /\ call.drive \in Drive /\ OtherBus \notin Drive
  BY <1>1 DEF Late, Free, AtaTypeOK, OtherBus, Drive
<1>3. CASE Select
  <2>1. /\ pc = "select"
        /\ \/ last_selected = call.drive /\ pc' = "command" /\ dev' = dev /\ last_selected' = last_selected
           \/ pc' = "bsy_again" /\ last_selected' = call.drive /\ dev' = call.drive
    BY <1>3 DEF Select, GoTo
  <2>2. AtaTypeOK'
    BY <1>1, <1>2, <2>1 DEF AtaTypeOK, Called
  <2>3. Selected'
    BY <1>1, <1>2, <2>1 DEF Selected, Places, Free
  <2> QED BY <1>2, <2>1, <2>2, <2>3 DEF Answering, Answered, Places
<1>4. CASE Sync
  <2>1. /\ pc = "sync" /\ dev' = dev /\ last_selected' = last_selected
        /\ pc' = "sync_bsy" \/ (pc' = "idle" /\ result' = "err")
    BY <1>4 DEF Sync, GoTo, Return
  <2>2. AtaTypeOK'
    BY <1>1, <1>2, <2>1 DEF AtaTypeOK, Called
  <2>3. Selected'
    BY <1>1, <1>2, <2>1 DEF Selected, Places, Free
  <2>4. Answering' /\ Answered'
    BY <1>1, <2>1 DEF Answering, Answered, Places, Free, ReadSoFar
  <2> QED BY <1>2, <2>2, <2>3, <2>4
<1>5. CASE Check
  <2>1. pc = "check" /\ dev' = dev /\ last_selected' = last_selected /\ pc' = "idle"
    BY <1>5 DEF Check, Return
  <2>2. AtaTypeOK'
    BY <1>1, <1>2, <2>1 DEF AtaTypeOK, Called
  <2>3. Selected'
    BY <1>1, <1>2, <2>1 DEF Selected, Places, Free
  <2>4. Answering' /\ Answered'
    BY <1>1, <2>1 DEF Answering, Answered, Places, Free, ReadSoFar
  <2> QED BY <1>2, <2>2, <2>3, <2>4
<1> QED BY <1>3, <1>4, <1>5

(* The drive has nothing else to do, so it takes the command.                *)
LEMMA CommandKeeps == AtaInv /\ Command => AtaInv'
<1> SUFFICES ASSUME AtaInv, Command PROVE AtaInv'
  OBVIOUS
<1> USE DEF AtaInv
<1> DEFINE d == call.drive
<1>1. /\ UNCHANGED <<present, medium, last_selected, call, buf>>
      /\ pc = "command" /\ dev' = d /\ buf = <<>>
  BY DEF Command, Params, Selected, Places
<1>2. d \in Drive /\ Called /\ OtherBus \notin Drive /\ unit \in [Drive -> Unit] /\ Blank \in Datum
  BY <1>1 DEF AtaTypeOK, OtherBus, Drive, Datum
<1>3. last_selected = d /\ dev = d /\ Free(d)
  BY <1>1, <1>2 DEF Selected
<1>4. CASE d \notin present
  <2>1. unit' = unit /\ pc' = "idle" /\ result' # "ok"
    BY <1>4 DEF Command, Params, Return
  <2>2. AtaTypeOK' /\ Late'
    BY <1>1, <1>2, <2>1 DEF AtaTypeOK, Called, Late, Free
  <2> QED BY <1>1, <1>3, <2>1, <2>2 DEF Selected, Answering, Answered, Places
<1>5. CASE d \in present
  <2> DEFINE u == [bsy |-> TRUE, drq |-> FALSE, err |-> FALSE, cmd |-> call.cmd,
                   block |-> call.block % LbaLimit, left |-> call.count, data |-> Blank]
  <2>1. pc' \in {"identifying", "sync"} /\ unit' = [unit EXCEPT ![d] = u]
    BY <1>3, <1>5 DEF Command, Params, GoTo, UnitBecomes, Taken, Free
  <2>2. call.block % LbaLimit = call.block /\ call.block \in Nat
    BY <1>2, AtaAssumption DEF Called
  <2>3. u \in Unit
    BY <1>2, <2>2 DEF Called, Unit
  <2>4. unit' \in [Drive -> Unit] /\ unit'[d] = u /\ \A e \in Drive : e # d => unit'[e] = unit[e]
    BY <1>2, <2>1, <2>3
  <2>5. /\ u.bsy /\ ~u.drq /\ u.cmd = call.cmd /\ u.block = call.block /\ u.left = call.count
        /\ call.count \in Nat /\ call.count # 0
    BY <1>2, <2>2 DEF Called
  <2> HIDE DEF u
  <2>6. AtaTypeOK'
    BY <1>1, <1>2, <2>1, <2>4 DEF AtaTypeOK, Called
  <2>7. Late'
    BY <1>1, <1>2, <1>5, <2>4, <2>5 DEF Late, Free
  <2>8. Selected'
    BY <1>1, <1>3, <2>1 DEF Selected, Places
  <2>9. Len(buf) = 0 /\ ReadSoFar
    BY <1>1 DEF ReadSoFar
  <2>10. Answering'
    BY <1>1, <1>5, <2>1, <2>2, <2>4, <2>5, <2>9 DEF Answering, Places, ReadSoFar
  <2>11. Answered'
    BY <2>1 DEF Answered
  <2> QED BY <2>6, <2>7, <2>8, <2>10, <2>11
<1> QED BY <1>4, <1>5

LEMMA MovedIsUnit ==
  ASSUME NEW u \in Unit, u.left > 0, call.data \in Datum
  PROVE  /\ Moved(u) \in Unit
         /\ Moved(u).drq = FALSE /\ Moved(u).bsy = (u.cmd = "write" \/ u.left > 1)
         /\ Moved(u).cmd = u.cmd /\ Moved(u).left = u.left - 1
         /\ Moved(u).data = call.data /\ Moved(u).err = u.err
         /\ u.cmd = "read" => Moved(u).block = u.block + 1
         /\ u.cmd # "read" => Moved(u).block = u.block
<1> DEFINE busy == u.cmd = "write" \/ u.left > 1
           l == u.left - 1
           k == IF u.cmd = "read" THEN u.block + 1 ELSE u.block
<1>1. busy \in BOOLEAN /\ l \in Nat /\ k \in Nat
  BY DEF Unit
<1>2. Moved(u) = [u EXCEPT !.drq = FALSE, !.left = l, !.data = call.data, !.bsy = busy, !.block = k]
  BY DEF Moved
<1>3. u.cmd = "read" => k = u.block + 1
  OBVIOUS
<1>4. u.cmd # "read" => k = u.block
  OBVIOUS
<1> HIDE DEF busy, l, k
<1>5. Moved(u) \in Unit
  BY <1>1, <1>2 DEF Unit
<1>6. /\ Moved(u).drq = FALSE /\ Moved(u).bsy = busy /\ Moved(u).left = l /\ Moved(u).block = k
      /\ Moved(u).cmd = u.cmd /\ Moved(u).data = call.data /\ Moved(u).err = u.err
  BY <1>2 DEF Unit
<1> QED BY <1>3, <1>4, <1>5, <1>6 DEF busy, l

(* A sector goes over: the buffer has one more, and the drive one less to go.*)
LEMMA TransferKeeps == AtaInv /\ Transfer => AtaInv'
<1> SUFFICES ASSUME AtaInv, Transfer PROVE AtaInv'
  OBVIOUS
<1> USE DEF AtaInv
<1> DEFINE d == call.drive
           u == unit[d]
           v == Moved(u)
<1>1. UNCHANGED <<present, dev, medium, last_selected, call>> /\ pc = "transfer"
  BY DEF Transfer
<1>2. /\ d \in Drive /\ Called /\ OtherBus \notin Drive /\ unit \in [Drive -> Unit]
      /\ medium \in [Drive -> [Block -> Datum]] /\ buf \in Seq(Datum)
  BY <1>1 DEF AtaTypeOK, OtherBus, Drive
<1>3. dev = d /\ d \in present
  BY <1>1, <1>2 DEF Selected, Answering, Places
<1>4. /\ u.drq /\ ~u.bsy /\ u.cmd = call.cmd /\ u.block = call.block + Len(buf)
      /\ u.left = call.count - Len(buf) /\ u.left > 0 /\ u.block < BlockCount
      /\ call.cmd = "read" => ReadSoFar
      /\ call.cmd = "write" => buf = <<>>
  BY <1>1, <1>2 DEF Answering, Places, Free, Late
<1>5. /\ u \in Unit /\ u.left \in Nat /\ u.block \in Nat /\ Len(buf) \in Nat
      /\ call.block \in Nat /\ call.count \in Nat
  BY <1>2, AtaAssumption DEF Unit, Called
<1>6. u.block \in Block
  BY <1>4, <1>5, AtaAssumption DEF Block
<1>7. call.cmd = "write" => call.block = u.block /\ call.data \in Content(d, u.block) /\ u.left = 1
  BY <1>2, <1>4, <1>5 DEF Called
<1>8. call.data \in Datum
  BY <1>2, <1>6, <1>7 DEF Called, Datum, Written
<1>9. /\ v.drq = FALSE /\ v.bsy = (u.cmd = "write" \/ u.left > 1)
      /\ v.cmd = u.cmd /\ v.left = u.left - 1 /\ v.data = call.data /\ v.err = u.err
      /\ u.cmd = "read" => v.block = u.block + 1
      /\ u.cmd # "read" => v.block = u.block
  BY <1>4, <1>5, <1>8, MovedIsUnit
<1>10. v.left \in Nat /\ v.block \in Nat
  BY <1>4, <1>5, <1>9, SMTT(40)
<1>11. v \in Unit
  BY <1>4, <1>5, <1>8, MovedIsUnit
<1>12. unit' = [unit EXCEPT ![d] = v]
  BY <1>3 DEF Transfer, UnitBecomes
<1>13. unit' \in [Drive -> Unit] /\ unit'[d] = v /\ \A e \in Drive : e # d => unit'[e] = unit[e]
  BY <1>2, <1>11, <1>12
<1> DEFINE x == medium[d][u.block]
<1>14. x \in Datum
  BY <1>2, <1>6
<1>15. buf' = IF call.cmd = "write" THEN buf ELSE Append(buf, x)
  BY <1>3 DEF Transfer
<1>16. pc' = IF call.cmd # "write" /\ Len(buf') < call.count THEN "sync" ELSE "check"
  BY DEF Transfer, GoTo
<1>17. /\ u.cmd = call.cmd /\ u.left \in Nat /\ u.block \in Nat /\ u.left > 0
       /\ u.block = call.block + Len(buf) /\ u.left = call.count - Len(buf)
       /\ call.cmd = "write" => call.block = u.block /\ call.data \in Content(d, u.block) /\ u.left = 1
  BY <1>4, <1>5, <1>7
<1>24. v.bsy <=> (u.cmd = "write" \/ u.left > 1)
  BY <1>9
<1> HIDE DEF u, v, x
<1>18. buf' \in Seq(Datum)
  BY <1>2, <1>14, <1>15
<1>19. AtaTypeOK'
  BY <1>1, <1>2, <1>13, <1>16, <1>18 DEF AtaTypeOK, Called
<1>20. Selected'
  BY <1>1, <1>16 DEF Selected, Places
<1>21. Late'
  <2> SUFFICES ASSUME NEW e \in Drive
               PROVE  /\ unit'[e].bsy /\ unit'[e].left = 0 =>
                             unit'[e].block \in Block /\ unit'[e].data \in Content(e, unit'[e].block)
                      /\ unit'[e].drq => ~unit'[e].bsy
                      /\ e \notin present => ~unit'[e].bsy /\ ~unit'[e].drq
                      /\ \A blk \in Block : medium[e][blk] \in Content(e, blk) \cup {Blank}
    BY <1>1 DEF Late, Free
  <2>1. CASE e # d
    BY <1>13, <2>1 DEF Late, Free
  <2>2. v.bsy /\ v.left = 0 => u.cmd = "write"
    <3>1. u.left > 1 => v.left # 0
      BY <1>9, <1>17
    <3> QED BY <1>24, <3>1
  <2>3. v.bsy /\ v.left = 0 => v.block \in Block /\ v.data \in Content(d, v.block)
    <3>1. u.cmd = "write" => v.block = u.block /\ v.data = call.data
      BY <1>9
    <3> QED BY <1>6, <1>17, <2>2, <3>1
  <2>4. CASE e = d
    BY <1>2, <1>3, <1>9, <1>13, <2>3, <2>4 DEF Late
  <2> QED BY <2>1, <2>4
<1>22. CASE call.cmd = "write"
  <2>1. /\ pc' = "check" /\ v.bsy /\ v.left = 0 /\ v.block = call.block /\ v.data = call.data
    <3>1. pc' = "check" /\ v.bsy
      BY <1>16, <1>17, <1>22, <1>24
    <3>2. v.left = 0 /\ v.block = call.block /\ v.data = call.data
      BY <1>9, <1>17, <1>22
    <3> QED BY <3>1, <3>2
  <2>2. Answering' /\ Answered'
    BY <1>1, <1>2, <1>13, <1>22, <2>1 DEF Answering, Answered, Places
  <2> QED BY <1>19, <1>20, <1>21, <2>2
<1>23. CASE call.cmd # "write"
  <2>1. buf' = Append(buf, x) /\ Len(buf') = Len(buf) + 1
    BY <1>2, <1>14, <1>15, <1>23
  <2>2. call.cmd = "read" => ReadSoFar'
    <3> SUFFICES ASSUME ReadSoFar PROVE ReadSoFar'
      BY <1>4
    <3>1. \A i \in 1 .. Len(buf) : buf'[i] = medium[d][call.block + i - 1]
      BY <1>2, <1>5, <1>14, <2>1 DEF ReadSoFar
    <3>2. buf'[Len(buf) + 1] = x /\ u.block = call.block + (Len(buf) + 1) - 1
      BY <1>2, <1>4, <1>5, <1>14, <2>1 DEF u
    <3>3. \A i \in 1 .. Len(buf') : buf'[i] = medium[d][call.block + i - 1]
      BY <1>5, <2>1, <3>1, <3>2 DEF x
    <3>4. buf' = [i \in 1 .. Len(buf') |-> buf'[i]]
      BY <1>18
    <3> QED BY <1>1, <3>3, <3>4 DEF ReadSoFar
  <2>3. v.left = call.count - Len(buf')
    BY <1>5, <1>9, <1>17, <2>1
  <2>4. CASE Len(buf') < call.count
    <3>1. call.cmd = "read" /\ pc' = "sync"
      BY <1>2, <1>5, <1>16, <1>23, <2>1, <2>4 DEF Called
    <3>2. v.left > 0 /\ v.block = call.block + Len(buf') /\ v.cmd = call.cmd /\ ~v.drq
      BY <1>5, <1>9, <1>17, <2>1, <2>3, <2>4, <3>1
    <3>3. Answering' /\ Answered'
      BY <1>1, <1>3, <1>13, <2>2, <2>3, <3>1, <3>2 DEF Answering, Answered, Places
    <3> QED BY <1>19, <1>20, <1>21, <3>3
  <2>5. CASE ~(Len(buf') < call.count)
    <3>1. Len(buf') = call.count /\ u.left = 1
      BY <1>5, <1>17, <2>1, <2>5
    <3>2. ~v.bsy /\ pc' = "check"
      BY <1>16, <1>17, <1>23, <1>24, <2>5, <3>1
    <3>3. Answering' /\ Answered'
      BY <1>1, <1>13, <1>23, <2>2, <3>1, <3>2 DEF Answering, Answered, Places
    <3> QED BY <1>19, <1>20, <1>21, <3>3
  <2> QED BY <2>4, <2>5
<1> QED BY <1>22, <1>23

-----------------------------------------------------------------------------
LEMMA AtaStep == AtaInv /\ [AtaNext]_ataVars => AtaInv'
<1> SUFFICES ASSUME AtaInv, [AtaNext]_ataVars PROVE AtaInv'
  OBVIOUS
<1>1. CASE UNCHANGED ataVars
  BY <1>1 DEF AtaInv, AtaTypeOK, Called, Late, Selected, Answering, Answered, Free, ReadSoFar,
              ataVars, hostVars
<1>2. CASE AtaNext
  BY <1>2, DrivesKeep, CallKeeps, PollKeeps, SelectKeeps, CommandKeeps, TransferKeeps
     DEF AtaNext, Driver
<1> QED BY <1>1, <1>2

(* A read that succeeds has read the blocks it was called for, of the drive  *)
(* it was called for, and a block only ever holds what some write to it was  *)
(* called with: no command that was given up answers a later one.            *)
THEOREM Moves == AtaSpec => []MovesTheBlock
<1>1. AtaInv => MovesTheBlock
  <2> SUFFICES ASSUME AtaInv PROVE MovesTheBlock
    OBVIOUS
  <2>1. ReadsTheBlock
    BY DEF AtaInv, Answered, ReadSoFar, ReadsTheBlock
  <2>2. WritesTheBlock
    BY DEF AtaInv, Late, Answered, WritesTheBlock
  <2> QED BY <2>1, <2>2 DEF MovesTheBlock
<1> QED BY <1>1, AtaStarts, AtaStep, PTL DEF AtaSpec

(***************************************************************************)
(* The file system comes up whole                                          *)
(***************************************************************************)

Names == ToSet(Seeds) \cup UserFiles \cup {Root}

Disk ==
  [present : BOOLEAN, signed : BOOLEAN, root : SUBSET Names, used : SUBSET Names, full : BOOLEAN]

BootTypeOK ==
  /\ disk \in [Place -> Disk]
  /\ mounted \in Place \cup {NoDrive}
  /\ stage \in {"super", "bitmap", "root", "seed"} => mounted \in Place
  /\ todo \in Seq(STRING)

(* The format of this drive is under way.                                    *)
InFormat(d) == stage \in {"bitmap", "root"} /\ d = mounted

(* A drive without a signature has no files, so that a bitmap is only        *)
(* cleared that had none; and only a drive with a signature gets files.      *)
FormatKeeps ==
  /\ \A d \in Place \ (misread \cup halfway) :
       /\ disk[d].root \subseteq disk[d].used
       /\ ~disk[d].signed \/ InFormat(d) => disk[d].root = {}
       /\ disk[d].signed => Root \in disk[d].used \/ InFormat(d)
  /\ stage \in {"bitmap", "root", "seed"} => disk[mounted].signed
  /\ stage = "up" /\ mounted # NoDrive => disk[mounted].signed

(* What is not left to seed is there, or nothing more can be created.        *)
SeededSoFar ==
  stage = "seed" /\ todo # <<>> =>
    \E k \in 1 .. Len(Seeds) :
      /\ todo = SubSeq(Seeds, k, Len(Seeds))
      /\ HasRoom => \A i \in 1 .. k - 1 : Seeds[i] \in disk[mounted].root

BootInv == BootTypeOK /\ FormatKeeps /\ SeededSoFar /\ TreeComesFirst

LEMMA BootStarts == BootInit => BootInv
<1> SUFFICES ASSUME BootInit PROVE BootInv
  OBVIOUS
<1>1. {Unformatted, Empty} \subseteq Disk
  <2>1. Unformatted \in Disk
    BY DEF Unformatted, Disk
  <2>2. Empty \in Disk
    BY <2>1 DEF Empty, Disk
  <2> QED BY <2>1, <2>2
<1>2. BootTypeOK
  BY <1>1 DEF BootInit, BootTypeOK
<1>3. \A d \in Place : disk[d].root = {} /\ ~disk[d].signed
  BY DEF BootInit, Unformatted, Empty
<1>4. FormatKeeps /\ SeededSoFar /\ TreeComesFirst
  BY <1>3 DEF BootInit, FormatKeeps, SeededSoFar, TreeComesFirst, InFormat
<1> QED BY <1>2, <1>4 DEF BootInv

(* The init's steps, and a stop, that write nothing.                         *)
LEMMA LooksKeep == BootInv /\ (Found \/ NotFound \/ MountFirst \/ SeedingEnds \/ Stop) => BootInv'
<1> SUFFICES ASSUME BootInv, Found \/ NotFound \/ MountFirst \/ SeedingEnds \/ Stop PROVE BootInv'
  OBVIOUS
<1> USE DEF BootInv
<1>1. disk' = disk /\ misread' = misread
  BY DEF Found, NotFound, MountFirst, SeedingEnds, Stop, Restarts, Mounts
<1>2. TreeComesFirst'
  BY <1>1 DEF TreeComesFirst
<1>3. CASE Found
  <2>1. /\ mounted' = next_dsk /\ next_dsk \in Place /\ stage' = "seed" /\ stage = "check"
        /\ disk[next_dsk].signed /\ halfway' = halfway
        /\ todo' = <<>> \/ todo' = Seeds
    BY <1>3 DEF Found, Mounts, ToSeed
  <2>5. todo' \in Seq(STRING)
    <3>1. <<>> \in Seq(STRING) /\ Seeds \in Seq(STRING)
      BY BootAssumption
    <3> QED BY <2>1, <3>1, Zenon
  <2>2. BootTypeOK'
    BY <1>1, <2>1, <2>5 DEF BootTypeOK
  <2>3. FormatKeeps'
    BY <1>1, <2>1 DEF FormatKeeps, InFormat
  <2>4. SeededSoFar'
    <3>1. CASE todo' = Seeds /\ Seeds # <<>>
      <4>1. Seeds = SubSeq(Seeds, 1, Len(Seeds)) /\ 1 \in 1 .. Len(Seeds)
        BY <3>1, BootAssumption
      <4> QED BY <3>1, <4>1 DEF SeededSoFar
    <3> QED BY <2>1, <3>1 DEF SeededSoFar
  <2> QED BY <1>2, <2>2, <2>3, <2>4
<1>4. CASE NotFound
  BY <1>1, <1>2, <1>4 DEF NotFound, BootTypeOK, FormatKeeps, InFormat, SeededSoFar, HasRoom
<1>5. CASE MountFirst
  <2>1. /\ stage = "check" /\ halfway' = halfway /\ todo' = todo
        /\ \/ mounted' = 1 /\ stage' = "super"
           \/ mounted' = NoDrive /\ stage' = "up"
    BY <1>5 DEF MountFirst
  <2>2. 1 \in Place
    BY BootAssumption DEF Place
  <2> QED BY <1>1, <1>2, <2>1, <2>2 DEF BootTypeOK, FormatKeeps, InFormat, SeededSoFar, HasRoom
<1>6. CASE SeedingEnds
  <2>1. stage = "seed" /\ stage' = "up" /\ UNCHANGED <<mounted, todo, halfway>>
    BY <1>6 DEF SeedingEnds
  <2> QED BY <1>1, <1>2, <2>1 DEF BootTypeOK, FormatKeeps, InFormat, SeededSoFar, HasRoom
<1>7. CASE Stop
  <2>1. /\ mounted' = NoDrive /\ stage' = "check" /\ todo' = <<>>
        /\ halfway' = IF stage \in {"bitmap", "root"} THEN halfway \cup {mounted} ELSE halfway
    BY <1>7 DEF Stop, Restarts
  <2>2. FormatKeeps'
    BY <1>1, <2>1 DEF FormatKeeps, InFormat
  <2> QED BY <1>1, <1>2, <2>1, <2>2 DEF BootTypeOK, SeededSoFar, HasRoom
<1> QED BY <1>3, <1>4, <1>5, <1>6, <1>7

LEMMA FormatStepKeeps == BootInv /\ (FormatSuper \/ FormatBitmap \/ FormatRoot) => BootInv'
<1> SUFFICES ASSUME BootInv, FormatSuper \/ FormatBitmap \/ FormatRoot PROVE BootInv'
  OBVIOUS
<1> USE DEF BootInv
<1>1. mounted' = mounted /\ mounted \in Place /\ halfway' = halfway /\ disk \in [Place -> Disk]
  BY DEF FormatSuper, FormatBitmap, FormatRoot, Mounts, BootTypeOK
<1>2. disk[mounted] \in Disk
  BY <1>1
<1>3. CASE FormatSuper
  <2> DEFINE r == [disk[mounted] EXCEPT !.signed = TRUE]
  <2>1. r \in Disk /\ r.root = disk[mounted].root /\ r.used = disk[mounted].used /\ r.signed
    BY <1>2 DEF Disk
  <2>2. disk' = [disk EXCEPT ![mounted] = r]
    BY <1>1, <1>3 DEF FormatSuper
  <2>3. disk' \in [Place -> Disk] /\ disk'[mounted] = r /\ \A d \in Place : d # mounted => disk'[d] = disk[d]
    BY <1>1, <2>1, <2>2
  <2>4. /\ stage = "super" /\ stage' = "bitmap" /\ todo' = todo
        /\ misread' = IF disk[mounted].signed THEN misread \cup {mounted} ELSE misread
    BY <1>3 DEF FormatSuper
  <2> HIDE DEF r
  <2>5. BootTypeOK' /\ SeededSoFar'
    BY <1>1, <2>3, <2>4 DEF BootTypeOK, SeededSoFar, HasRoom
  <2>6. FormatKeeps'
    BY <1>1, <2>1, <2>3, <2>4 DEF FormatKeeps, InFormat
  <2>7. TreeComesFirst'
    BY <1>1, <2>1, <2>3 DEF TreeComesFirst
  <2> QED BY <2>5, <2>6, <2>7
<1>4. CASE FormatBitmap
  <2> DEFINE r == [disk[mounted] EXCEPT !.used = {}, !.full = FALSE]
  <2>1. r \in Disk /\ r.root = disk[mounted].root /\ r.used = {} /\ r.signed = disk[mounted].signed
    BY <1>2 DEF Disk
  <2>2. disk' = [disk EXCEPT ![mounted] = r]
    BY <1>1, <1>4 DEF FormatBitmap
  <2>3. disk' \in [Place -> Disk] /\ disk'[mounted] = r /\ \A d \in Place : d # mounted => disk'[d] = disk[d]
    BY <1>1, <2>1, <2>2
  <2>4. stage = "bitmap" /\ stage' = "root" /\ todo' = todo /\ misread' = misread
    BY <1>4 DEF FormatBitmap
  <2> HIDE DEF r
  <2>5. BootTypeOK' /\ SeededSoFar'
    BY <1>1, <2>3, <2>4 DEF BootTypeOK, SeededSoFar, HasRoom
  <2>6. FormatKeeps'
    BY <1>1, <2>1, <2>3, <2>4 DEF FormatKeeps, InFormat
  <2>7. TreeComesFirst'
    BY <1>1, <2>1, <2>3 DEF TreeComesFirst
  <2> QED BY <2>5, <2>6, <2>7
<1>5. CASE FormatRoot
  <2> DEFINE r == [disk[mounted] EXCEPT !.used = disk[mounted].used \cup {Root}]
  <2>1. /\ r \in Disk /\ r.root = disk[mounted].root /\ r.used = disk[mounted].used \cup {Root}
        /\ r.signed = disk[mounted].signed
    BY <1>2 DEF Disk, Names
  <2>2. disk' = [disk EXCEPT ![mounted] = r]
    BY <1>1, <1>5 DEF FormatRoot, UsedByRoot
  <2>3. disk' \in [Place -> Disk] /\ disk'[mounted] = r /\ \A d \in Place : d # mounted => disk'[d] = disk[d]
    BY <1>1, <2>1, <2>2
  <2>4. stage = "root" /\ stage' = "seed" /\ misread' = misread /\ (todo' = <<>> \/ todo' = Seeds)
    BY <1>5 DEF FormatRoot, Mounts, ToSeed
  <2> HIDE DEF r
  <2>9. todo' \in Seq(STRING)
    <3>1. <<>> \in Seq(STRING) /\ Seeds \in Seq(STRING)
      BY BootAssumption
    <3> QED BY <2>4, <3>1, Zenon
  <2>5. BootTypeOK'
    BY <1>1, <2>3, <2>4, <2>9 DEF BootTypeOK
  <2>6. FormatKeeps'
    BY <1>1, <2>1, <2>3, <2>4 DEF FormatKeeps, InFormat
  <2>7. TreeComesFirst'
    BY <1>1, <2>1, <2>3 DEF TreeComesFirst
  <2>8. SeededSoFar'
    <3>1. CASE todo' = Seeds /\ Seeds # <<>>
      <4>1. Seeds = SubSeq(Seeds, 1, Len(Seeds)) /\ 1 \in 1 .. Len(Seeds)
        BY <3>1, BootAssumption
      <4> QED BY <3>1, <4>1 DEF SeededSoFar
    <3> QED BY <2>4, <3>1 DEF SeededSoFar
  <2> QED BY <2>5, <2>6, <2>7, <2>8
<1> QED BY <1>3, <1>4, <1>5

(***************************************************************************)
(* Seeding                                                                 *)
(***************************************************************************)

LEMMA BootLeast ==
  ASSUME NEW S \in SUBSET Nat, S # {}
  PROVE  \E x \in S : \A m \in S : x <= m
<1> DEFINE R == OpToRel(<, Nat)
<1>1. PICK x \in S : \A m \in S : ~(<<m, x>> \in R)
  BY NatLessThanWellFounded, WFMin
<1>2. \A m \in S : ~(m < x)
  BY <1>1 DEF OpToRel
<1> QED BY <1>2

(* What comes before the first place of a name comes before each of them.    *)
LEMMA BeforeIsBefore ==
  ASSUME NEW k \in 1 .. Len(Seeds)
  PROVE  Before(Seeds[k]) \subseteq {Seeds[i] : i \in 1 .. k - 1}
<1> DEFINE I == {i \in 1 .. Len(Seeds) : Seeds[i] = Seeds[k]}
<1>1. Len(Seeds) \in Nat
  BY BootAssumption
<1>2. I \in SUBSET Nat /\ k \in I
  BY <1>1
<1>3. PICK x \in I : \A m \in I : x <= m
  BY <1>2, BootLeast
<1>4. Min(I) \in I /\ Min(I) <= k
  BY <1>2, <1>3 DEF Min
<1>5. SelectInSeq(Seeds, LAMBDA g : g = Seeds[k]) = Min(I)
  BY <1>2 DEF SelectInSeq
<1>6. Before(Seeds[k]) = {Seeds[i] : i \in 1 .. Min(I) - 1}
  BY <1>5 DEF Before
<1>7. 1 .. Min(I) - 1 \subseteq 1 .. k - 1
  <2>1. Min(I) \in Nat /\ k \in Nat
    BY <1>2, <1>4
  <2> HIDE DEF I
  <2> QED BY <1>4, <2>1
<1> QED BY <1>6, <1>7

LEMMA SeedsBefore == Before(Welcome) \subseteq ToSet(Seeds)
<1>1. PICK k \in 1 .. Len(Seeds) : Seeds[k] = Welcome
  BY BootAssumption DEF ToSet
<1>2. Before(Seeds[k]) \subseteq {Seeds[i] : i \in 1 .. k - 1}
  BY BeforeIsBefore
<1>3. {Seeds[i] : i \in 1 .. k - 1} \subseteq ToSet(Seeds)
  BY BootAssumption DEF ToSet
<1> QED BY <1>1, <1>2, <1>3

(* A change of a drive's file names and marks alone.                         *)
LEMMA OtherNames ==
  ASSUME BootInv, mounted \in Place, stage \in {"seed", "up"}, NEW r \in Disk,
         r.signed = disk[mounted].signed,
         mounted \notin misread \cup halfway =>
           /\ r.root \subseteq r.used
           /\ Root \in disk[mounted].used => Root \in r.used,
         Welcome \in r.root => Before(Welcome) \subseteq r.root,
         disk' = [disk EXCEPT ![mounted] = r],
         UNCHANGED <<mounted, stage, misread, halfway>>
  PROVE  disk' \in [Place -> Disk] /\ disk'[mounted] = r /\ FormatKeeps' /\ TreeComesFirst'
<1>1. disk \in [Place -> Disk]
  BY DEF BootInv, BootTypeOK
<1>2. disk' \in [Place -> Disk] /\ disk'[mounted] = r /\ \A d \in Place : d # mounted => disk'[d] = disk[d]
  BY <1>1
<1>3. disk[mounted].signed
  BY DEF BootInv, FormatKeeps, NoDrive, Place
<1>4. FormatKeeps'
  <2>1. ASSUME NEW d \in Place \ (misread \cup halfway)
        PROVE  /\ disk'[d].root \subseteq disk'[d].used
               /\ ~disk'[d].signed => disk'[d].root = {}
               /\ disk'[d].signed => Root \in disk'[d].used
    <3>1. CASE d = mounted
      BY <1>2, <1>3, <2>1, <3>1 DEF BootInv, FormatKeeps, InFormat
    <3>2. CASE d # mounted
      BY <1>2, <2>1, <3>2 DEF BootInv, FormatKeeps, InFormat
    <3> QED BY <3>1, <3>2
  <2>2. ~InFormat(mounted)' /\ \A d \in Place : ~InFormat(d)'
    BY DEF InFormat
  <2>3. disk'[mounted].signed
    BY <1>2, <1>3
  <2> QED BY <2>1, <2>2, <2>3 DEF FormatKeeps
<1>5. TreeComesFirst'
  BY <1>2 DEF BootInv, TreeComesFirst
<1> QED BY <1>2, <1>4, <1>5

(* Where the seeding stands, and where it does after the next name.          *)
LEMMA SeedsInOrder ==
  ASSUME BootInv, stage = "seed", todo # <<>>, todo' = Tail(todo)
  PROVE  /\ todo' \in Seq(STRING) /\ NextSeed \in Names
         /\ HasRoom /\ NextSeed = Welcome => Before(Welcome) \subseteq disk[mounted].root
         /\ todo' # <<>> => \E k \in 1 .. Len(Seeds) :
              /\ todo' = SubSeq(Seeds, k, Len(Seeds))
              /\ HasRoom => \A i \in 1 .. k - 1 : Seeds[i] \in disk[mounted].root \cup {NextSeed}
<1>1. PICK k \in 1 .. Len(Seeds) :
        /\ todo = SubSeq(Seeds, k, Len(Seeds))
        /\ HasRoom => \A i \in 1 .. k - 1 : Seeds[i] \in disk[mounted].root
  BY DEF BootInv, SeededSoFar
<1>2. Seeds \in Seq(STRING) /\ Len(Seeds) \in Nat /\ todo \in Seq(STRING)
  BY BootAssumption DEF BootInv, BootTypeOK
<1>3. NextSeed = Seeds[k] /\ Tail(todo) = SubSeq(Seeds, k + 1, Len(Seeds))
  BY <1>1, <1>2 DEF NextSeed
<1>4. NextSeed \in Names
  BY <1>2, <1>3 DEF Names, ToSet
<1>5. HasRoom /\ NextSeed = Welcome => Before(Welcome) \subseteq disk[mounted].root
  <2> SUFFICES ASSUME HasRoom, Seeds[k] = Welcome PROVE Before(Welcome) \subseteq disk[mounted].root
    BY <1>3
  <2>1. Before(Seeds[k]) \subseteq {Seeds[i] : i \in 1 .. k - 1}
    BY BeforeIsBefore
  <2>2. {Seeds[i] : i \in 1 .. k - 1} \subseteq disk[mounted].root
    BY <1>1
  <2> QED BY <2>1, <2>2, Zenon
<1>6. todo' \in Seq(STRING)
  BY <1>2
<1>7. ASSUME todo' # <<>>
      PROVE  \E l \in 1 .. Len(Seeds) :
               /\ todo' = SubSeq(Seeds, l, Len(Seeds))
               /\ HasRoom => \A i \in 1 .. l - 1 : Seeds[i] \in disk[mounted].root \cup {NextSeed}
  <2>1. todo' = SubSeq(Seeds, k + 1, Len(Seeds)) /\ k + 1 \in 1 .. Len(Seeds)
    BY <1>2, <1>3, <1>7
  <2>2. HasRoom => \A i \in 1 .. (k + 1) - 1 : Seeds[i] \in disk[mounted].root \cup {NextSeed}
    BY <1>1, <1>3
  <2> QED BY <2>1, <2>2
<1> QED BY <1>4, <1>5, <1>6, <1>7

LEMMA SeedKeeps == BootInv /\ (Seed \/ SeedThere \/ SeedFails) => BootInv'
<1> SUFFICES ASSUME BootInv, Seed \/ SeedThere \/ SeedFails PROVE BootInv'
  OBVIOUS
<1>1. /\ stage = "seed" /\ todo # <<>> /\ todo' = Tail(todo)
      /\ UNCHANGED <<mounted, stage, misread, halfway>>
  BY DEF Seed, SeedThere, SeedFails
<1>2. /\ todo' \in Seq(STRING) /\ NextSeed \in Names
      /\ HasRoom /\ NextSeed = Welcome => Before(Welcome) \subseteq disk[mounted].root
      /\ todo' # <<>> => \E k \in 1 .. Len(Seeds) :
           /\ todo' = SubSeq(Seeds, k, Len(Seeds))
           /\ HasRoom => \A i \in 1 .. k - 1 : Seeds[i] \in disk[mounted].root \cup {NextSeed}
  BY <1>1, SeedsInOrder
<1>3. mounted \in Place /\ disk \in [Place -> Disk] /\ disk[mounted] \in Disk
  BY <1>1 DEF BootInv, BootTypeOK
<1>4. disk[mounted].root \subseteq disk[mounted].used \/ mounted \in misread \cup halfway
  BY <1>3 DEF BootInv, FormatKeeps
<1>5. Welcome \in disk[mounted].root => Before(Welcome) \subseteq disk[mounted].root
  BY <1>3 DEF BootInv, TreeComesFirst
<1>6. ASSUME disk' \in [Place -> Disk], FormatKeeps', TreeComesFirst',
             HasRoom' => HasRoom /\ disk'[mounted].root = disk[mounted].root \cup {NextSeed}
      PROVE  BootInv'
  <2>1. BootTypeOK'
    BY <1>1, <1>2, <1>3, <1>6 DEF BootTypeOK
  <2>2. SeededSoFar'
    BY <1>1, <1>2, <1>6 DEF SeededSoFar
  <2> QED BY <1>6, <2>1, <2>2 DEF BootInv
<1>7. CASE Seed
  <2> DEFINE r == [disk[mounted] EXCEPT !.root = disk[mounted].root \cup {NextSeed},
                                       !.used = disk[mounted].used \cup {NextSeed}]
  <2>1. /\ r \in Disk /\ r.root = disk[mounted].root \cup {NextSeed}
        /\ r.used = disk[mounted].used \cup {NextSeed} /\ r.signed = disk[mounted].signed
    BY <1>2, <1>3 DEF Disk
  <2>2. HasRoom /\ disk' = [disk EXCEPT ![mounted] = r]
    BY <1>3, <1>7 DEF Seed, Disk
  <2> HIDE DEF r
  <2>3. /\ mounted \notin misread \cup halfway =>
             r.root \subseteq r.used /\ (Root \in disk[mounted].used => Root \in r.used)
        /\ Welcome \in r.root => Before(Welcome) \subseteq r.root
    BY <1>2, <1>4, <1>5, <2>1, <2>2
  <2>4. disk' \in [Place -> Disk] /\ disk'[mounted] = r /\ FormatKeeps' /\ TreeComesFirst'
    BY <1>1, <1>3, <2>1, <2>2, <2>3, OtherNames
  <2> QED BY <1>6, <2>1, <2>2, <2>4
<1>8. CASE SeedThere
  <2>1. disk' = disk /\ NextSeed \in disk[mounted].root
    BY <1>8 DEF SeedThere
  <2>2. FormatKeeps' /\ TreeComesFirst'
    BY <1>1, <2>1 DEF BootInv, FormatKeeps, InFormat, TreeComesFirst
  <2>3. HasRoom' = HasRoom /\ disk'[mounted].root = disk[mounted].root \cup {NextSeed}
    BY <1>1, <2>1 DEF HasRoom
  <2> QED BY <1>3, <1>6, <2>1, <2>2, <2>3
<1>9. CASE SeedFails
  <2> DEFINE r == [disk[mounted] EXCEPT !.full = TRUE]
  <2>1. /\ r \in Disk /\ r.root = disk[mounted].root /\ r.used = disk[mounted].used
        /\ r.signed = disk[mounted].signed /\ r.full
    BY <1>3 DEF Disk
  <2>2. disk' = [disk EXCEPT ![mounted] = r]
    BY <1>3, <1>9 DEF SeedFails
  <2> HIDE DEF r
  <2>3. disk' \in [Place -> Disk] /\ disk'[mounted] = r /\ FormatKeeps' /\ TreeComesFirst'
    BY <1>1, <1>3, <1>4, <1>5, <2>1, <2>2, OtherNames
  <2>4. ~HasRoom'
    BY <1>1, <2>1, <2>3 DEF HasRoom
  <2> QED BY <1>6, <2>3, <2>4
<1> QED BY <1>7, <1>8, <1>9

LEMMA UserKeeps == BootInv /\ (UserCreates \/ UserFills \/ UserDeletes) => BootInv'
<1> SUFFICES ASSUME BootInv, UserCreates \/ UserFills \/ UserDeletes PROVE BootInv'
  OBVIOUS
<1>1. stage = "up" /\ mounted # NoDrive /\ UNCHANGED <<mounted, stage, todo, misread, halfway>>
  BY DEF UserCreates, UserFills, UserDeletes
<1>2. mounted \in Place /\ disk \in [Place -> Disk] /\ disk[mounted] \in Disk
  BY <1>1 DEF BootInv, BootTypeOK
<1>3. disk[mounted].root \subseteq disk[mounted].used \/ mounted \in misread \cup halfway
  BY <1>2 DEF BootInv, FormatKeeps
<1>4. Welcome \in disk[mounted].root => Before(Welcome) \subseteq disk[mounted].root
  BY <1>2 DEF BootInv, TreeComesFirst
<1>5. ASSUME disk' \in [Place -> Disk], FormatKeeps', TreeComesFirst'
      PROVE  BootInv'
  BY <1>1, <1>5 DEF BootInv, BootTypeOK, SeededSoFar
<1>6. CASE UserCreates
  <2>1. PICK f \in UserFiles \ disk[mounted].root :
          disk' = [disk EXCEPT ![mounted].root = @ \cup {f}, ![mounted].used = @ \cup {f}]
    BY <1>6 DEF UserCreates
  <2>2. f \in Names /\ f # Welcome
    BY BootAssumption DEF Names
  <2> DEFINE r == [disk[mounted] EXCEPT !.root = disk[mounted].root \cup {f},
                                       !.used = disk[mounted].used \cup {f}]
  <2>3. /\ r \in Disk /\ r.root = disk[mounted].root \cup {f}
        /\ r.used = disk[mounted].used \cup {f} /\ r.signed = disk[mounted].signed
    BY <1>2, <2>2 DEF Disk
  <2>4. disk' = [disk EXCEPT ![mounted] = r]
    BY <1>2, <2>1 DEF Disk
  <2> HIDE DEF r
  <2>5. disk' \in [Place -> Disk] /\ FormatKeeps' /\ TreeComesFirst'
    BY <1>1, <1>2, <1>3, <1>4, <2>2, <2>3, <2>4, OtherNames
  <2> QED BY <1>5, <2>5
<1>7. CASE UserFills
  <2> DEFINE r == [disk[mounted] EXCEPT !.full = TRUE]
  <2>1. /\ r \in Disk /\ r.root = disk[mounted].root /\ r.used = disk[mounted].used
        /\ r.signed = disk[mounted].signed
    BY <1>2 DEF Disk
  <2>2. disk' = [disk EXCEPT ![mounted] = r]
    BY <1>2, <1>7 DEF UserFills
  <2> HIDE DEF r
  <2>3. disk' \in [Place -> Disk] /\ FormatKeeps' /\ TreeComesFirst'
    BY <1>1, <1>2, <1>3, <1>4, <2>1, <2>2, OtherNames
  <2> QED BY <1>5, <2>3
<1>8. CASE UserDeletes
  <2>1. PICK f \in (UserFiles \cup {Welcome}) \cap disk[mounted].root :
          disk' = [disk EXCEPT ![mounted].root = @ \ {f}, ![mounted].used = @ \ {f},
                               ![mounted].full = FALSE]
    BY <1>8 DEF UserDeletes
  <2> DEFINE r == [disk[mounted] EXCEPT !.root = disk[mounted].root \ {f},
                                       !.used = disk[mounted].used \ {f}, !.full = FALSE]
  <2>2. /\ r \in Disk /\ r.root = disk[mounted].root \ {f}
        /\ r.used = disk[mounted].used \ {f} /\ r.signed = disk[mounted].signed
    BY <1>2 DEF Disk
  <2>3. disk' = [disk EXCEPT ![mounted] = r]
    BY <1>2, <2>1 DEF Disk
  <2> HIDE DEF r
  <2>4. f # Root
    BY <2>1, BootAssumption DEF Root
  <2>5. Welcome \in r.root => Before(Welcome) \subseteq r.root
    BY <1>4, <2>1, <2>2, SeedsBefore, BootAssumption
  <2>6. disk' \in [Place -> Disk] /\ FormatKeeps' /\ TreeComesFirst'
    BY <1>1, <1>2, <1>3, <2>2, <2>3, <2>4, <2>5, OtherNames
  <2> QED BY <1>5, <2>6
<1> QED BY <1>6, <1>7, <1>8

LEMMA StopInSeedKeeps == BootInv /\ StopInSeed => BootInv'
<1> SUFFICES ASSUME BootInv, StopInSeed PROVE BootInv'
  OBVIOUS
<1> DEFINE r == [disk[mounted] EXCEPT !.used = disk[mounted].used \cup {Head(todo)}]
<1>1. /\ stage = "seed" /\ todo # <<>> /\ mounted' = NoDrive /\ stage' = "check" /\ todo' = <<>>
      /\ UNCHANGED <<misread, halfway>>
  BY DEF StopInSeed, Restarts
<1>2. mounted \in Place /\ disk \in [Place -> Disk] /\ disk[mounted] \in Disk
  BY <1>1 DEF BootInv, BootTypeOK
<1>3. PICK k \in 1 .. Len(Seeds) : todo = SubSeq(Seeds, k, Len(Seeds))
  BY <1>1 DEF BootInv, SeededSoFar
<1>4. Head(todo) = Seeds[k] /\ Seeds[k] \in Names
  BY <1>3, BootAssumption DEF Names, ToSet
<1>5. /\ r \in Disk /\ r.root = disk[mounted].root /\ disk[mounted].used \subseteq r.used
      /\ r.signed = disk[mounted].signed
  BY <1>2, <1>4 DEF Disk
<1>6. disk' = [disk EXCEPT ![mounted] = r]
  BY <1>2 DEF StopInSeed, NextSeed
<1> HIDE DEF r
<1>7. disk' \in [Place -> Disk] /\ disk'[mounted] = r /\ \A d \in Place : d # mounted => disk'[d] = disk[d]
  BY <1>2, <1>5, <1>6
<1>8. BootTypeOK' /\ SeededSoFar'
  BY <1>1, <1>7 DEF BootTypeOK, SeededSoFar, HasRoom
<1>9. FormatKeeps'
  BY <1>1, <1>5, <1>7 DEF BootInv, FormatKeeps, InFormat
<1>10. TreeComesFirst'
  BY <1>5, <1>7 DEF BootInv, TreeComesFirst
<1> QED BY <1>8, <1>9, <1>10 DEF BootInv

-----------------------------------------------------------------------------
LEMMA BootStep == BootInv /\ [BootNext]_bootVars => BootInv'
<1> SUFFICES ASSUME BootInv, [BootNext]_bootVars PROVE BootInv'
  OBVIOUS
<1>1. CASE UNCHANGED bootVars
  BY <1>1 DEF BootInv, BootTypeOK, FormatKeeps, InFormat, SeededSoFar, HasRoom, TreeComesFirst, bootVars
<1>2. CASE BootNext
  BY <1>2, LooksKeep, FormatStepKeeps, SeedKeeps, UserKeeps, StopInSeedKeeps DEF BootNext
<1> QED BY <1>1, <1>2

(* Wherever a start of the machine was cut short, what a drive's root leads  *)
(* to is marked as used, and the file of welcome is not there without the    *)
(* directories: unless a format was stopped, or made of a drive with files.  *)
THEOREM ComesUp == BootSpec => []ComesUpWhole
<1>1. BootInv => ComesUpWhole
  BY DEF BootInv, FormatKeeps, InFormat, ComesUpWhole, LinkedIsUsed
<1> QED BY <1>1, BootStarts, BootStep, PTL DEF BootSpec
(***************************************************************************)
(* The blocks of bitmap                                                    *)
(***************************************************************************)

DataAreaInv ==
  /\ n \in Sizes /\ b \in Nat
  /\ n >= BitmapArea => b * BitsPerBlock <= n - BitmapArea + BitsPerBlock - 1
  /\ state = "done" => Round(b) = b

LEMMA Divides ==
  ASSUME NEW x \in Nat, NEW d \in Nat \ {0}
  PROVE  x \div d \in Nat /\ (x \div d) * d <= x /\ x < (x \div d) * d + d
<1>1. x = d * (x \div d) + (x % d) /\ x % d \in 0 .. d - 1 /\ x \div d \in Int
  OBVIOUS
<1>2. PICK q \in Int, r \in 0 .. d - 1 : q = x \div d /\ r = x % d /\ x = d * q + r
  BY <1>1
<1>3. q >= 0
  <2> SUFFICES ASSUME q <= -1 PROVE FALSE
    BY <1>2
  <2>1. d * q <= d * (-1)
    BY <1>2
  <2>2. d * (-1) = -d
    OBVIOUS
  <2> QED BY <1>2, <2>1, <2>2
<1>4. d * q = q * d
  BY <1>2
<1> QED BY <1>2, <1>3, <1>4

LEMMA RoundIs ==
  ASSUME DataAreaInv, n >= BitmapArea
  PROVE  LET x == n - BitmapArea - b + BitsPerBlock - 1
         IN  /\ x \in Nat /\ Round(b) \in Nat
             /\ Round(b) * BitsPerBlock <= x
             /\ x < Round(b) * BitsPerBlock + BitsPerBlock
<1> DEFINE x == n - BitmapArea - b + BitsPerBlock - 1
<1>1. /\ n \in 0 .. Width - 1 /\ b \in Nat /\ BitmapArea \in Nat
      /\ BitsPerBlock \in Nat \ {0} /\ BitsPerBlock <= BitmapArea /\ Width \in Nat \ {0}
  BY SizesAssumption DEF DataAreaInv
<1>2. b <= b * BitsPerBlock
  <2>1. BitsPerBlock >= 1
    BY <1>1
  <2> QED BY <1>1, <2>1
<1>3. x \in Nat /\ x < Width
  BY <1>1, <1>2 DEF DataAreaInv
<1>4. n - (BitmapArea + b) + BitsPerBlock - 1 = x
  BY <1>1
<1> HIDE DEF x
<1>5. x % Width = x
  BY <1>1, <1>3
<1>6. Round(b) = x \div BitsPerBlock
  BY <1>4, <1>5 DEF Round
<1>7. x \div BitsPerBlock \in Nat /\ (x \div BitsPerBlock) * BitsPerBlock <= x
      /\ x < (x \div BitsPerBlock) * BitsPerBlock + BitsPerBlock
  BY <1>1, <1>3, Divides
<1> QED BY <1>3, <1>6, <1>7 DEF x

LEMMA RoundIsNat ==
  ASSUME n \in Sizes, b \in Nat
  PROVE  Round(b) \in Nat
<1> DEFINE y == n - (BitmapArea + b) + BitsPerBlock - 1
<1>1. /\ n \in Nat /\ b \in Nat
      /\ BitmapArea \in Nat /\ BitsPerBlock \in Nat \ {0} /\ Width \in Nat \ {0}
  BY SizesAssumption
<1>2. y \in Int
  BY <1>1
<1> HIDE DEF y
<1>3. y % Width \in Nat
  BY <1>1, <1>2
<1>4. Round(b) = (y % Width) \div BitsPerBlock
  BY DEF Round, y
<1> QED BY <1>1, <1>3, <1>4, Divides

LEMMA RoundsKeep ==
  /\ DataAreaInit => DataAreaInv
  /\ DataAreaInv /\ [DataAreaNext]_dataAreaVars => DataAreaInv'
<1>1. DataAreaInit => DataAreaInv
  <2> SUFFICES ASSUME DataAreaInit PROVE DataAreaInv
    OBVIOUS
  <2>1. n \in Nat /\ BitmapArea \in Nat /\ BitsPerBlock \in Nat \ {0} /\ b = 0
    BY SizesAssumption DEF DataAreaInit
  <2>2. 0 * BitsPerBlock = 0
    BY <2>1
  <2> QED BY <2>1, <2>2 DEF DataAreaInit, DataAreaInv
<1>2. ASSUME DataAreaInv, DataAreaTurn PROVE DataAreaInv'
  <2>1. n' = n /\ b' = Round(b) /\ n \in Sizes /\ b \in Nat
    BY <1>2 DEF DataAreaTurn, DataAreaInv
  <2>2. b' \in Nat
    BY <2>1, RoundIsNat
  <2>3. ASSUME n >= BitmapArea
        PROVE  b' * BitsPerBlock <= n - BitmapArea + BitsPerBlock - 1
    <3> DEFINE x == n - BitmapArea - b + BitsPerBlock - 1
    <3>1. x \in Nat /\ Round(b) * BitsPerBlock <= x
      BY <1>2, <2>3, RoundIs
    <3>2. x <= n - BitmapArea + BitsPerBlock - 1
      BY <2>1, SizesAssumption
    <3>3. Round(b) * BitsPerBlock \in Nat /\ n - BitmapArea + BitsPerBlock - 1 \in Int
      BY <2>1, <2>2, SizesAssumption
    <3> HIDE DEF x
    <3> QED BY <2>1, <3>1, <3>2, <3>3
  <2>4. state' = "done" => Round(b') = b'
    BY <1>2, <2>1 DEF DataAreaTurn, Round
  <2>5. state' = "done" => Round(b)' = b'
    <3>1. state' = "done" => b' = b /\ n' = n /\ Round(b) = b
      BY <1>2, <2>1 DEF DataAreaTurn
    <3> QED BY <3>1 DEF Round
  <2> QED BY <2>1, <2>2, <2>3, <2>5 DEF DataAreaInv
<1>3. ASSUME DataAreaInv, UNCHANGED dataAreaVars PROVE DataAreaInv'
  BY <1>3 DEF DataAreaInv, dataAreaVars, Round
<1> QED BY <1>1, <1>2, <1>3 DEF DataAreaNext, DataAreaDone

LEMMA DoneCovers ==
  ASSUME DataAreaInv PROVE Covers
<1> SUFFICES ASSUME state = "done", n >= BitmapArea
             PROVE  /\ n - DataArea <= b * BitsPerBlock
                    /\ b > 0 => n - DataArea > (b - 1) * BitsPerBlock
  BY DEF Covers
<1> DEFINE x == n - BitmapArea - b + BitsPerBlock - 1
           m == b * BitsPerBlock
<1>1. x \in Nat /\ m <= x /\ x < m + BitsPerBlock
  BY RoundIs DEF DataAreaInv
<1>2. b \in Nat /\ n \in Nat /\ BitmapArea \in Nat /\ BitsPerBlock \in Nat
  BY SizesAssumption DEF DataAreaInv
<1>3. m \in Nat /\ (b - 1) * BitsPerBlock = m - BitsPerBlock
  BY <1>2
<1> HIDE DEF m
<1> QED BY <1>1, <1>2, <1>3 DEF DataArea, m

(* On a device of any size data_area answers with just the blocks of bitmap  *)
(* that the data blocks after them need (super_block.rs 94-115).             *)
THEOREM AlwaysCovers == DataAreaSpec => []Covers
<1>1. DataAreaInit => DataAreaInv
  BY RoundsKeep
<1>2. DataAreaInv /\ [DataAreaNext]_dataAreaVars => DataAreaInv'
  BY RoundsKeep
<1>3. DataAreaInv => Covers
  BY DoneCovers
<1> QED BY <1>1, <1>2, <1>3, PTL DEF DataAreaSpec

LEMMA UnstableIsNotCovered ==
  ASSUME DataAreaInv, Covers, n >= BitmapArea, Unstable(n), state = "done"
  PROVE  FALSE
<1>1. PICK k \in 1 .. Width : n - BitmapArea = (k - 1) * BitsPerBlock + k
  BY DEF Unstable
<1>2. b \in Nat /\ n \in Nat /\ BitmapArea \in Nat /\ BitsPerBlock \in Nat /\ k \in Nat /\ k >= 1
  BY SizesAssumption DEF DataAreaInv
<1>3. /\ n - BitmapArea - b <= b * BitsPerBlock
      /\ b > 0 => n - BitmapArea - b > (b - 1) * BitsPerBlock
  BY <1>2 DEF Covers, DataArea
<1>4. CASE b >= k
  <2>1. (k - 1) * BitsPerBlock <= (b - 1) * BitsPerBlock
    BY <1>2, <1>4
  <2>2. n - BitmapArea - b <= (k - 1) * BitsPerBlock
    BY <1>1, <1>2, <1>4
  <2>3. b > 0
    BY <1>2, <1>4
  <2> QED BY <1>2, <1>3, <2>1, <2>2, <2>3
<1>5. CASE b <= k - 1
  <2>1. b * BitsPerBlock <= (k - 1) * BitsPerBlock
    BY <1>2, <1>5
  <2>2. n - BitmapArea - b > (k - 1) * BitsPerBlock
    BY <1>1, <1>2, <1>5
  <2> QED BY <1>2, <1>3, <2>1, <2>2
<1> QED BY <1>2, <1>4, <1>5

(* And at the unstable sizes it answers nothing: the second half of         *)
(* StopsWhenStable.                                                         *)
THEOREM NoneWhenUnstable ==
  DataAreaSpec => [](state = "done" /\ n >= BitmapArea => ~Unstable(n))
<1>1. DataAreaInit => DataAreaInv
  BY RoundsKeep
<1>2. DataAreaInv /\ [DataAreaNext]_dataAreaVars => DataAreaInv'
  BY RoundsKeep
<1>3. DataAreaInv => (state = "done" /\ n >= BitmapArea => ~Unstable(n))
  BY DoneCovers, UnstableIsNotCovered
<1> QED BY <1>1, <1>2, <1>3, PTL DEF DataAreaSpec
=============================================================================
