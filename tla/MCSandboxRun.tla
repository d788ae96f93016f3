---------------------------- MODULE MCSandboxRun ----------------------------
(***************************************************************************)
(* Two sandboxes, two runs one after the other: one sandbox can fail while *)
(* the other one is already there, and the second run meets what the first *)
(* one left behind.                                                        *)
(***************************************************************************)
EXTENDS SandboxRun
=============================================================================
