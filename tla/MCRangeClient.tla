--------------------------- MODULE MCRangeClient ---------------------------
(***************************************************************************)
(* Instance of RangeClient: five pages of two bytes, two to a chunk, so    *)
(* that two chunks are equally long and the last is shorter; four fetches. *)
(***************************************************************************)
EXTENDS RangeClient
=============================================================================
