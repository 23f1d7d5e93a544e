----------------------------- MODULE SuperBlock -----------------------------
(***************************************************************************)
(* SuperBlock::data_area of fs/super_block.rs: how many bitmap blocks a    *)
(* device of n blocks needs, found by iterating until two rounds agree.    *)
(* The count and the blocks it describes share the device, so each round   *)
(* moves the other.  Arithmetic is that of u32 in a release build: it      *)
(* wraps at Width.                                                         *)
(***************************************************************************)
EXTENDS Integers

CONSTANTS
  BitmapArea,   \* SuperBlock::bitmap_area
  BitsPerBlock, \* block_size * 8
  Width,        \* 2^32 in the code
  Sizes         \* The device sizes tried, in blocks

(* The blocks before the bitmap, 8194 of them, outnumber the bits of a block. *)
ASSUME SizesAssumption ==
  /\ BitmapArea \in Nat /\ BitsPerBlock \in 1 .. BitmapArea /\ Width \in Nat \ {0}
  /\ Sizes \subseteq 0 .. Width - 1

VARIABLES n, p, b, state

dataAreaVars == <<n, p, b, state>>

DataAreaInit ==
  /\ n \in Sizes
  /\ p = 0 /\ b = 0
  /\ state = "loop"

(* Mutants: rounding down; the blocks of bitmap do not count as blocks of  *)
(* the device (and so the rounds do not meet).                             *)
RoundDown(c) == ((n - (BitmapArea + c)) % Width) \div BitsPerBlock
RoundOneMore(c) ==
  ((n - (BitmapArea + BitsPerBlock * c) + BitsPerBlock - 1) % Width) \div BitsPerBlock

(* The blocks of bitmap needed when c blocks are set apart for it. *)
Round(c) == ((n - (BitmapArea + c) + BitsPerBlock - 1) % Width) \div BitsPerBlock

(* One turn of the loop, which stops when the count did not move. *)
DataAreaTurn ==
  /\ state = "loop"
  /\ p' = b
  /\ b' = Round(b)
  /\ state' = IF Round(b) = b THEN "done" ELSE "loop"
  /\ UNCHANGED n

DataAreaDone == state = "done" /\ UNCHANGED dataAreaVars

DataAreaNext == DataAreaTurn \/ DataAreaDone

(* The loop is plain sequential code: it goes on as long as it can. *)
DataAreaSpec == DataAreaInit /\ [][DataAreaNext]_dataAreaVars /\ WF_dataAreaVars(DataAreaTurn)

-----------------------------------------------------------------------------
(* What data_area answers. *)
DataArea == BitmapArea + b

(* The data blocks of the answer all have a bit, and no bitmap block is    *)
(* without one that has, on a device that holds the reserved blocks.       *)
Covers ==
  state = "done" /\ n >= BitmapArea
    => /\ n - DataArea <= b * BitsPerBlock
       /\ b > 0 => n - DataArea > (b - 1) * BitsPerBlock

(* The sizes at which one more bitmap block takes the last block that      *)
(* needed it: with k of them one too many, with k - 1 one too few.         *)
Unstable(size) ==
  \E k \in 1 .. Width : size - BitmapArea = (k - 1) * BitsPerBlock + k

(* The loop comes to an answer on every device that holds the reserved     *)
(* blocks, except at the unstable sizes, where it never does: there two    *)
(* counts follow each other for ever.                                      *)
StopsWhenStable ==
  /\ (n >= BitmapArea /\ ~Unstable(n)) ~> (state = "done")
  /\ [](state = "done" /\ n >= BitmapArea => ~Unstable(n))
=============================================================================
