---------------------------- MODULE MCRangeStore ----------------------------
(***************************************************************************)
(* Three handlers, two ranges of different lengths.                        *)
(***************************************************************************)
EXTENDS RangeStore, TLC

CONSTANTS k1, k2

TwoKeys == {k1, k2}
TwoLengths == k1 :> 1 @@ k2 :> 3
=============================================================================
