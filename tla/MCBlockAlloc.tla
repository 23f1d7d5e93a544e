---------------------------- MODULE MCBlockAlloc ----------------------------
(* Three data blocks in one bitmap block of four bits, one of them past    *)
(* the end of the device, and a scan of two bitmap blocks, the second of   *)
(* which is the root directory; it and two files; two stops, after which   *)
(* the count may be two short, and the scan go on into data.               *)
EXTENDS BlockAlloc
=============================================================================
