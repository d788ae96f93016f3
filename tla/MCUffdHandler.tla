---------------------------- MODULE MCUffdHandler ----------------------------
(***************************************************************************)
(* Two vCPUs, two pages: a fault and a removal of the same page, and of    *)
(* different ones.                                                         *)
(***************************************************************************)
EXTENDS UffdHandler
=============================================================================
