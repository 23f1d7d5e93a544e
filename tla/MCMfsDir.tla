------------------------------ MODULE MCMfsDir ------------------------------
(* Blocks of five bytes.  With Apart, two short entries, or one long one,   *)
(* leave a block a byte short of full; with Exact, a short and a *)
(* long entry fill it to the last byte.                                    *)
EXTENDS MfsDir
CONSTANTS a, b, c, d
Apart == [n \in Name |-> IF n \in {c, d} THEN 4 ELSE 2]
Exact == [n \in Name |-> IF n \in {c, d} THEN 3 ELSE 2]

(* Names of one length are only ever compared for equality. *)
SameLength == Permutations({a, b}) \cup Permutations({c, d})
=============================================================================
