------------------------------ MODULE RunArgs -------------------------------
(***************************************************************************)
(* What a run of restore-motivation is asked for, and the worker threads   *)
(* run_external and run_external_with_prepare make for it.                 *)
(***************************************************************************)
EXTENDS IterationSplit

CONSTANTS
    Total,         \* operations to measure (-t)
    Concurrency    \* threads asked for (-c)

\* parse_args refuses -t 0 and -c 0.
ASSUME RunConfig == Total \in Nat \ {0} /\ Concurrency \in Nat \ {0}

NumWorkers == worker_count(Total, Concurrency)
Workers == 0..(NumWorkers - 1)
=============================================================================
