----------------------------- MODULE MCMfsFile ------------------------------
(* Blocks of two bytes and files of four, five or six, so that a write ends *)
(* inside a block, at its end and in the next ones; a short buffer,        *)
(* and a long one whose bytes differ from it where there are two bytes.    *)
EXTENDS MfsFile

Old == CHOOSE x \in Byte : TRUE
New == CHOOSE y \in Byte : Byte = {Old} \/ y # Old
ShortAndLong == {<<Old>>, <<New, New, New>>}

(* A buffer that takes a second and a third block, when the disk may have  *)
(* no more than the second.                                                *)
ShortAndLonger == {<<Old>>, <<New, New, New, New>>}

(* Names and handles are only ever compared for equality. *)
Interchangeable == Permutations(Name) \cup Permutations(Handle)
=============================================================================
