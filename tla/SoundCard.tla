----------------------------- MODULE SoundCard -----------------------------
(***************************************************************************)
(* /dev/snd/buffer and the two sound drivers, sys/snd.  A sound is written *)
(* in pieces, the first with a RIFF header that tells its length; the      *)
(* driver queues what it is given and plays it block by block by DMA, the  *)
(* card's interrupt asking for the next.  Writes run with interrupts off.  *)
(*                                                                         *)
(* The bytes of the data are numbered as they are given to the driver, so  *)
(* that the state tells where each of them is.  The AC97 goes round a ring *)
(* of blocks up to the last valid one; the SB16 plays one block again and  *)
(* again, and is taken to wait for its interrupt to be answered.           *)
(* The rate, the format and the volume are left out.                       *)
(***************************************************************************)
EXTENDS Integers, SequencesExt

CONSTANTS
  BlockLen,     \* Bytes of a block, 32 KB
  SampleLen,    \* Bytes of the AC97's samples, 2
  BDL,          \* Blocks of the AC97's ring, 32
  HeaderLen,    \* Bytes of a RIFF header, 44
  PieceMax,     \* Bound: data bytes of one write
  LengthMax,    \* Bound: data_len of a header
  GivenMax      \* Bound: data bytes given to the driver

ASSUME SoundAssumption ==
  /\ {BlockLen, SampleLen, BDL, HeaderLen, PieceMax} \subseteq Nat \ {0}
  /\ BDL > 1 /\ BlockLen % SampleLen = 0
  /\ {LengthMax, GivenMax} \subseteq Nat

VARIABLES
  device,      \* "AC97" or "SB16"
  data_len,    \* Of the SoundConfig: what is still to come of the sound
  buffer,      \* Of the driver
  is_playing,
  blocks, index, lvi,     \* The driver's ring and the last valid index
  civ,         \* The card's current index
  dma,         \* "off", "on", or "waits" after the last valid block
  status,      \* The card asks for service
  given,       \* History: bytes given to the driver
  heard        \* History: the last byte that was played

driverState == <<buffer, is_playing, blocks, index, lvi, civ, dma, status>>
soundVars == <<device, data_len, driverState, given, heard>>

AC97 == device = "AC97"

SoundInit ==
  /\ device \in {"AC97", "SB16"}
  /\ data_len = 0 /\ buffer = <<>> /\ is_playing = FALSE
  /\ blocks = [i \in 0 .. BDL - 1 |-> <<>>] /\ index = 0 /\ lvi = 0
  /\ civ = 0 /\ dma = "off" /\ status = FALSE
  /\ given = 0 /\ heard = 0

Smaller(a, b) == IF a < b THEN a ELSE b

-----------------------------------------------------------------------------
(* The drivers.  A silent block has no numbered bytes.                       *)

(* Mutant: what goes into the block stays in the buffer. *)
rest_stays(b) == IF Len(b) <= BlockLen THEN <<>> ELSE SubSeq(b, BlockLen, Len(b))

Rest(b) == SubSeq(b, BlockLen + 1, Len(b))

Piece(b) == SubSeq(b, 1, Smaller(BlockLen, Len(b)))

(* What of block s the card plays: the AC97 is told a number of samples.     *)
Played(s) == IF AC97 THEN SubSeq(s, 1, Len(s) - (Len(s) % SampleLen)) ELSE s

(* Block i is filled from buffer b and the AC97 told that it is the last     *)
(* valid one, upon which it goes on if it waits for another.                 *)
Fill(bs, i, b) ==
  /\ blocks' = [bs EXCEPT ![i] = Piece(b)]
  /\ buffer' = Rest(b)
  /\ index' = IF AC97 THEN (i + 1) % BDL ELSE 0
  /\ lvi' = i

(* play with b in the buffer and bs in the blocks *)
Start(bs, b) ==
  /\ Fill(bs, 0, b)
  /\ is_playing' = TRUE /\ civ' = 0 /\ dma' = "on"
  /\ status' = (status /\ ~AC97)

Keep(b) ==
  /\ buffer' = b
  /\ UNCHANGED <<is_playing, blocks, index, lvi, civ, dma, status>>

Silent == [i \in 0 .. BDL - 1 |-> <<>>]

(* stop, and then play with `new` as what is written: the AC97's does        *)
(* nothing when nothing plays, and what waits to be a block stays.           *)
StopAndPlay(new) ==
  LET stays == AC97 /\ ~is_playing
      b == IF stays THEN buffer \o new ELSE new
      bs == IF stays THEN blocks ELSE Silent
  IN IF Len(b) >= BlockLen THEN Start(bs, b)
     ELSE /\ buffer' = b /\ blocks' = bs
          /\ is_playing' = FALSE /\ dma' = "off"
          /\ UNCHANGED <<index, lvi, civ, status>>

Play(new) ==
  LET b == buffer \o new
  IN IF is_playing \/ Len(b) < BlockLen THEN Keep(b) ELSE Start(blocks, b)

-----------------------------------------------------------------------------
(* SoundBuffer::write *)

Give(k) == [i \in 1 .. k |-> given + i]

Took(k) ==
  /\ given + k <= GivenMax /\ given' = given + k
  /\ UNCHANGED <<device, heard>>

(* No bytes, or a header of which nothing can be made: the configuration     *)
(* stays, and the stop.                                                      *)
WriteNothing ==
  /\ buffer' = IF AC97 /\ ~is_playing THEN buffer ELSE <<>>
  /\ blocks' = IF AC97 /\ ~is_playing THEN blocks ELSE Silent
  /\ is_playing' = FALSE /\ dma' = "off"
  /\ UNCHANGED <<data_len, index, lvi, civ, status>> /\ Took(0)

(* A header that announces d bytes, and k bytes behind it: data_len loses    *)
(* what is taken, up to `j`, without the header.                             *)
WriteHeader ==
  \E d \in 0 .. LengthMax, k \in 0 .. PieceMax :
     LET j == Smaller(HeaderLen + k, HeaderLen + d)
         taken == IF d > 0 THEN j - HeaderLen ELSE k
     IN /\ data_len' = IF d > 0 THEN d - (j - HeaderLen) ELSE 0
        /\ StopAndPlay(Give(taken)) /\ Took(taken)

(* More of the sound; what is behind its end is dropped. *)
WriteMore ==
  /\ data_len > 0
  /\ \E k \in 1 .. PieceMax :
       LET j == Smaller(k, data_len)
       IN data_len' = data_len - j /\ Play(Give(j)) /\ Took(j)

(* No sound is being written: the piece is one of its own. *)
WriteRaw ==
  /\ data_len = 0
  /\ \E k \in 1 .. PieceMax : StopAndPlay(Give(k)) /\ Took(k)
  /\ UNCHANGED data_len

WriteSound == WriteNothing \/ WriteHeader \/ WriteMore \/ WriteRaw

-----------------------------------------------------------------------------
(* The card plays its block and asks for the next; the AC97 stops after the  *)
(* last valid one until there is another.                                    *)
PlayBlock ==
  /\ dma = "on" /\ (AC97 \/ ~status)
  /\ heard' = IF Played(blocks[civ]) = <<>> THEN heard ELSE Last(Played(blocks[civ]))
  /\ status' = TRUE
  /\ IF ~AC97 THEN UNCHANGED <<civ, dma>>
     ELSE IF civ = lvi THEN dma' = "waits" /\ UNCHANGED civ
     ELSE civ' = (civ + 1) % BDL /\ UNCHANGED dma
  /\ UNCHANGED <<device, data_len, buffer, is_playing, blocks, index, lvi, given>>

(* handle_interrupt: the sound is at its end, and the AC97's stop leaves the *)
(* blocks silent, or the next block is filled.                               *)
EndOfSound ==
  /\ buffer = <<>>
  /\ is_playing' = FALSE
  /\ dma' = IF is_playing \/ ~AC97 THEN "off" ELSE dma
  /\ blocks' = IF AC97 /\ is_playing THEN Silent ELSE blocks
  /\ buffer' = <<>>
  /\ UNCHANGED <<index, lvi, civ>>

NextBlock ==
  /\ buffer # <<>>
  /\ Fill(blocks, index, buffer)
  /\ IF dma = "waits" /\ index # civ
     THEN dma' = "on" /\ civ' = (civ + 1) % BDL
     ELSE UNCHANGED <<dma, civ>>
  /\ UNCHANGED is_playing

handle_interrupt ==
  /\ status /\ status' = FALSE
  /\ EndOfSound \/ NextBlock
  /\ UNCHANGED <<device, data_len, given, heard>>

SoundNext == WriteSound \/ PlayBlock \/ handle_interrupt

(* The card plays and its interrupt is taken. *)
SoundFairness == WF_soundVars(PlayBlock) /\ WF_soundVars(handle_interrupt)

SoundSpec == SoundInit /\ [][SoundNext]_soundVars /\ SoundFairness

-----------------------------------------------------------------------------
(* What is still to be heard: the card's block if it was not played, the     *)
(* buffer, and what will be given.                                           *)
ToHear ==
  (IF dma = "on" /\ ~status THEN Played(blocks[civ]) ELSE <<>>) \o buffer \o <<given + 1>>

Increasing(s) == \A i \in 1 .. Len(s) - 1 : s[i] < s[i + 1]

(* Whatever stops, new sounds and late interrupts come in between, no byte   *)
(* is heard twice and none before one that was written before it.            *)
HeardInOrder == Increasing(<<heard>> \o ToHear)

(* A driver that plays is not left waiting: the card plays a block or asks   *)
(* for the next one; and a driver that does not play has the card off.       *)
GoesOn == IF is_playing THEN dma = "on" \/ status ELSE dma = "off"

(* The count of what is to come never wraps. *)
LengthCounts == data_len \in 0 .. LengthMax

(* What plays comes to its end when nobody writes more. *)
SoundEnds == is_playing ~> ~is_playing

SoundServed == [](HeardInOrder /\ GoesOn /\ LengthCounts) /\ SoundEnds
=============================================================================
