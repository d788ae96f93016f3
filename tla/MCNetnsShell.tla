---------------------------- MODULE MCNetnsShell ---------------------------
(***************************************************************************)
(* Instance of NetnsShell: two threads make three networks, so that the    *)
(* last batch is smaller than the first; one clean-up command may fail.    *)
(***************************************************************************)
EXTENDS NetnsShell
=============================================================================
