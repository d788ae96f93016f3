---------------------------- MODULE MCBenchGate ----------------------------
(***************************************************************************)
(* Instances of BenchGate: 4 workers share 5 operations, so that one       *)
(* worker has an operation more than the others.                           *)
(***************************************************************************)
EXTENDS BenchGate
=============================================================================
