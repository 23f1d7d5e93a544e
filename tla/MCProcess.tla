----------------------------- MODULE MCProcess ------------------------------
(* Three pages under two paths of page tables, which share their first     *)
(* table; binaries with no page, with two, with a page that two segments   *)
(* share, and with one that turns out bad after its first segment.         *)
EXTENDS Process, TLC

CONSTANTS code, stack, args, t1, t2, t3

Paths == (code :> <<t1, t2>>) @@ (stack :> <<t1, t3>>) @@ (args :> <<t1, t3>>)

Bin(pages, good) == [pages |-> pages, good |-> good]
Whole == {Bin(<<>>, TRUE), Bin(<<code, stack>>, TRUE), Bin(<<code>>, FALSE)}
Overlapping == {Bin(<<code, code>>, TRUE)}
Every == Whole \cup Overlapping
=============================================================================
