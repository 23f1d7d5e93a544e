----------------------------- MODULE BlockStore -----------------------------
(***************************************************************************)
(* What MFS is promised by the block device under it (the trait            *)
(* BlockDeviceIO of fs/block_device.rs, called through Block::read and     *)
(* Block::write of fs/block.rs): a map from addresses to blocks in which   *)
(* a read returns the block, and a write that answered Ok is the block     *)
(* until the next one.  A write that answered Err, and a write made to the *)
(* drive behind the file system's back, are in limbo: they may come to     *)
(* light with any later access, and are forgotten at the next good write.  *)
(***************************************************************************)
EXTENDS Integers

CONSTANTS
  BlockCount, \* Number of blocks of the device
  Block,      \* The contents a block can have
  Zero        \* The zeroed buffer Block::read starts from

VARIABLES
  store,  \* store[a]: the block a read of address a returns
  limbo,  \* limbo[a]: the contents that may still come to light at a
  reply   \* The answer to the last call: [ok, block]

vars == <<store, limbo, reply>>

Addr == 0 .. BlockCount - 1
Reply == [ok : BOOLEAN, block : Block]

Ok(b) == [ok |-> TRUE, block |-> b]
Err   == [ok |-> FALSE, block |-> Zero]

TypeOK ==
  /\ store \in [Addr -> Block]
  /\ limbo \in [Addr -> SUBSET Block]
  /\ reply \in Reply

Init ==
  /\ store \in [Addr -> Block]
  /\ limbo = [a \in Addr |-> {}]
  /\ reply = Ok(Zero)

(* At address c nothing changes, or what was in limbo there comes to light. *)
Settles(c) ==
  \/ store'[c] = store[c] /\ limbo'[c] = limbo[c]
  \/ store'[c] \in limbo[c] /\ limbo'[c] = {}

Changes ==
  /\ store' \in [Addr -> Block]
  /\ limbo' \in [Addr -> SUBSET Block]

Read(a) ==
  /\ Changes
  /\ \A c \in Addr : Settles(c)
  /\ reply' = Ok(store'[a])

(* An access to one address may bring others to light: a slot is reused. *)
Write(a, b) ==
  /\ Changes
  /\ \A c \in Addr \ {a} : Settles(c)
  /\ store'[a] = b /\ limbo'[a] = {}
  /\ reply' = Ok(Zero)

(* The device is taken away and put back. *)
Remount ==
  /\ Changes
  /\ \A c \in Addr : Settles(c)
  /\ UNCHANGED reply

(* A call that fails changes no block of the store. *)
Fail ==
  /\ reply' = Err
  /\ UNCHANGED <<store, limbo>>

(* Content b reaches the device in a call that reports nothing about it:   *)
(* seen at once, or left in limbo (which it empties when b is what is seen). *)
Unreported(a, b) ==
  /\ reply' \in {Err, reply}
  /\ \/ store' = [store EXCEPT ![a] = b] /\ limbo' = limbo
     \/ limbo' = [limbo EXCEPT ![a] = {b} \ {store[a]}] /\ store' = store

Next ==
  \/ \E a \in Addr : Read(a)
  \/ \E a \in Addr, b \in Block : Write(a, b) \/ Unreported(a, b)
  \/ Fail
  \/ Remount

Spec == Init /\ [][Next]_vars
=============================================================================
