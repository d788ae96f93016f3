----------------------------- MODULE BenchGate -----------------------------
(***************************************************************************)
(* run_external and run_external_with_prepare of restore-motivation/src/   *)
(* ops/mod.rs: worker threads prepare, meet at a start gate, measure their *)
(* operations, meet at a finish gate and are joined by the main thread.    *)
(*                                                                         *)
(* A gate is a mutex and a condition variable.  A section that holds the   *)
(* mutex is one action; a thread in cvar.wait runs again only once it is   *)
(* out of the condition variable's set of sleepers, and then tests its     *)
(* condition anew.                                                         *)
(***************************************************************************)
EXTENDS RunArgs, Sequences, FiniteSets

CONSTANT PreparedOpFails  \* a prepared operation may return Err when measured

ASSUME RunFlag == PreparedOpFails \in BOOLEAN

Count(w) == iteration_count(Total, NumWorkers, w)
Offset(w) == iteration_offset(Total, NumWorkers, w)

MainThread == -1
Threads == Workers \cup {MainThread}

VARIABLES
    with_prepare,                         \* which of the two functions runs
    ready_workers, start, failure,        \* StartState
    start_cvar,                           \* threads asleep at the start gate
    finished_workers, release_workers,    \* FinishState
    finish_cvar,                          \* threads asleep at the finish gate
    run_origin,                           \* the OnceLock is set
    pc,                                   \* pc[w]: where worker w is
    results,                              \* results[w]: ids measured by w
    main,                                 \* where the main thread is
    joined, all_results                   \* handles joined, and what they gave

startVars == <<ready_workers, start, failure, start_cvar, run_origin>>
finishVars == <<finished_workers, release_workers, finish_cvar>>
workerVars == <<pc, results>>
mainVars == <<main, joined, all_results>>
vars == <<with_prepare, startVars, finishVars, workerVars, mainVars>>

Init ==
    /\ with_prepare \in BOOLEAN
    /\ ready_workers = 0 /\ start = FALSE /\ failure = FALSE
    /\ finished_workers = 0 /\ release_workers = FALSE
    /\ start_cvar = {} /\ finish_cvar = {}
    /\ run_origin = FALSE
    /\ pc = [w \in Workers |-> IF with_prepare THEN "prepare" ELSE "arrive"]
    /\ results = [w \in Workers |-> <<>>]
    /\ main = "gate" /\ joined = 0 /\ all_results = <<>>

-----------------------------------------------------------------------------
(***************************************************************************)
(* The workers.                                                            *)
(***************************************************************************)
PrepareOk(w) ==
    /\ pc[w] = "prepare"
    /\ pc' = [pc EXCEPT ![w] = "arrive"]
    /\ UNCHANGED <<with_prepare, startVars, finishVars, results, mainVars>>

\* Faulty variant: nobody is told of the failure.
PrepareFailsSilently(w) ==
    /\ pc[w] = "prepare"
    /\ pc' = [pc EXCEPT ![w] = "failed"]
    /\ failure' = TRUE
    /\ start_cvar' = start_cvar
    /\ UNCHANGED <<with_prepare, ready_workers, start, run_origin, finishVars,
                   results, mainVars>>

\* The first error is kept for everybody at the gate, then the thread ends.
PrepareFails(w) ==
    /\ pc[w] = "prepare"
    /\ pc' = [pc EXCEPT ![w] = "failed"]
    /\ failure' = TRUE
    /\ start_cvar' = {}
    /\ UNCHANGED <<with_prepare, ready_workers, start, run_origin, finishVars,
                   results, mainVars>>

\* Where the loop at the start gate leads: a failure ends the thread.
GateLeadsTo ==
    IF failure THEN "failed" ELSE IF start THEN "origin" ELSE "startgate"

MoveTo(w, loc) == pc' = [pc EXCEPT ![w] = loc]

Asleep(w, loc, gate) == IF loc = gate THEN {w} ELSE {}

Arrive(w) ==
    /\ pc[w] = "arrive"
    /\ ready_workers' = ready_workers + 1
    /\ MoveTo(w, GateLeadsTo)
    /\ start_cvar' = Asleep(w, GateLeadsTo, "startgate")
    /\ UNCHANGED <<with_prepare, start, failure, run_origin, finishVars,
                   results, mainVars>>

WakeAtStart(w) ==
    /\ pc[w] = "startgate" /\ w \notin start_cvar
    /\ MoveTo(w, GateLeadsTo)
    /\ start_cvar' = start_cvar \cup Asleep(w, GateLeadsTo, "startgate")
    /\ UNCHANGED <<with_prepare, ready_workers, start, failure, run_origin,
                   finishVars, results, mainVars>>

\* run_origin.get(), "run origin missing" when it is not there.
ReadOrigin(w) ==
    /\ pc[w] = "origin"
    /\ MoveTo(w, IF run_origin THEN "run" ELSE "failed")
    /\ UNCHANGED <<with_prepare, startVars, finishVars, results, mainVars>>

RunOp(w) ==
    /\ pc[w] = "run" /\ Len(results[w]) < Count(w)
    /\ results' = [results EXCEPT ![w] = Append(@, Offset(w) + Len(@))]
    /\ UNCHANGED <<with_prepare, startVars, finishVars, pc, mainVars>>

OpFails(w) ==
    /\ with_prepare => PreparedOpFails
    /\ pc[w] = "run" /\ Len(results[w]) < Count(w)
    /\ MoveTo(w, "failed")
    /\ UNCHANGED <<with_prepare, startVars, finishVars, results, mainVars>>

\* run_external returns the results at once.
ReturnResults(w) ==
    /\ ~with_prepare
    /\ pc[w] = "run" /\ Len(results[w]) = Count(w)
    /\ MoveTo(w, "done")
    /\ UNCHANGED <<with_prepare, startVars, finishVars, results, mainVars>>

FinishLeadsTo == IF release_workers THEN "done" ELSE "finishgate"

\* Faulty variant: a worker returns without waiting for its release.
FinishRunAtOnce(w) ==
    /\ with_prepare
    /\ pc[w] = "run" /\ Len(results[w]) = Count(w)
    /\ finished_workers' = finished_workers + 1
    /\ MoveTo(w, "done")
    /\ finish_cvar' = {}
    /\ UNCHANGED <<with_prepare, startVars, release_workers, results,
                   mainVars>>

FinishRun(w) ==
    /\ with_prepare
    /\ pc[w] = "run" /\ Len(results[w]) = Count(w)
    /\ finished_workers' = finished_workers + 1
    /\ MoveTo(w, FinishLeadsTo)
    /\ finish_cvar' = Asleep(w, FinishLeadsTo, "finishgate")
    /\ UNCHANGED <<with_prepare, startVars, release_workers, results,
                   mainVars>>

WakeAtFinish(w) ==
    /\ pc[w] = "finishgate" /\ w \notin finish_cvar
    /\ MoveTo(w, FinishLeadsTo)
    /\ finish_cvar' = finish_cvar \cup Asleep(w, FinishLeadsTo, "finishgate")
    /\ UNCHANGED <<with_prepare, startVars, finished_workers, release_workers,
                   results, mainVars>>

-----------------------------------------------------------------------------
(***************************************************************************)
(* The main thread.  capture_current_process_usage may fail at each of its *)
(* calls; main then returns the error and notifies nobody.                 *)
(***************************************************************************)
GateOpens == ready_workers >= NumWorkers \/ failure

WaitForReady ==
    /\ main = "gate" /\ MainThread \notin start_cvar
    /\ ~GateOpens
    /\ start_cvar' = start_cvar \cup {MainThread}
    /\ UNCHANGED <<with_prepare, ready_workers, start, failure, run_origin,
                   finishVars, workerVars, mainVars>>

\* Only run_external sets the origin after a failure as well.
OpenGate ==
    /\ main = "gate" /\ MainThread \notin start_cvar
    /\ GateOpens
    /\ run_origin' = (~failure \/ ~with_prepare)
    /\ start' = ~failure
    /\ start_cvar' = {}
    /\ main' = IF with_prepare /\ ~failure THEN "finish" ELSE "join"
    /\ UNCHANGED <<with_prepare, ready_workers, failure, finishVars,
                   workerVars, joined, all_results>>

UsageFailsAtGate ==
    /\ main = "gate" /\ MainThread \notin start_cvar
    /\ GateOpens
    /\ main' = "error"
    /\ UNCHANGED <<with_prepare, startVars, finishVars, workerVars, joined,
                   all_results>>

WaitForFinished ==
    /\ main = "finish" /\ MainThread \notin finish_cvar
    /\ finished_workers < NumWorkers
    /\ finish_cvar' = finish_cvar \cup {MainThread}
    /\ UNCHANGED <<with_prepare, startVars, finished_workers, release_workers,
                   workerVars, mainVars>>

\* total_after is looked at only when the workers have been released.
ReleaseWorkers ==
    /\ main = "finish" /\ MainThread \notin finish_cvar
    /\ finished_workers >= NumWorkers
    /\ release_workers' = TRUE
    /\ finish_cvar' = {}
    /\ main' \in {"join", "error"}
    /\ UNCHANGED <<with_prepare, startVars, finished_workers, workerVars,
                   joined, all_results>>

\* handle.join(), in thread order; the first error is main's result.
JoinOk ==
    /\ main = "join" /\ joined < NumWorkers
    /\ pc[joined] = "done"
    /\ joined' = joined + 1
    /\ all_results' = all_results \o results[joined]
    /\ UNCHANGED <<with_prepare, startVars, finishVars, workerVars, main>>

JoinFailed ==
    /\ main = "join" /\ joined < NumWorkers
    /\ pc[joined] = "failed"
    /\ main' = "error"
    /\ UNCHANGED <<with_prepare, startVars, finishVars, workerVars, joined,
                   all_results>>

Finish ==
    /\ main = "join" /\ joined = NumWorkers
    /\ main' \in IF ~start THEN {"error"}
                 ELSE IF with_prepare THEN {"ok"} ELSE {"ok", "error"}
    /\ UNCHANGED <<with_prepare, startVars, finishVars, workerVars, joined,
                   all_results>>

-----------------------------------------------------------------------------
\* Condvar::wait may return without a notification.
SpuriousWakeup ==
    /\ \/ \E t \in start_cvar :
            start_cvar' = start_cvar \ {t} /\ UNCHANGED finish_cvar
       \/ \E t \in finish_cvar :
            finish_cvar' = finish_cvar \ {t} /\ UNCHANGED start_cvar
    /\ UNCHANGED <<with_prepare, ready_workers, start, failure, run_origin,
                   finished_workers, release_workers, workerVars, mainVars>>

\* main returns to the process, which ends.
Exit == main \in {"ok", "error"} /\ UNCHANGED vars

Worker(w) ==
    \/ PrepareOk(w) \/ PrepareFails(w)
    \/ Arrive(w) \/ WakeAtStart(w) \/ ReadOrigin(w)
    \/ RunOp(w) \/ OpFails(w)
    \/ ReturnResults(w) \/ FinishRun(w) \/ WakeAtFinish(w)

Main ==
    \/ WaitForReady \/ OpenGate \/ UsageFailsAtGate
    \/ WaitForFinished \/ ReleaseWorkers
    \/ JoinOk \/ JoinFailed \/ Finish

Next == (\E w \in Workers : Worker(w)) \/ Main \/ SpuriousWakeup \/ Exit

Spec == Init /\ [][Next]_vars

(***************************************************************************)
(* Every thread is scheduled, and an operation that is measured returns.   *)
(***************************************************************************)
FairSpec == Spec /\ WF_vars(Main) /\ \A w \in Workers : WF_vars(Worker(w))

-----------------------------------------------------------------------------
(***************************************************************************)
(* Properties.                                                             *)
(***************************************************************************)

(***************************************************************************)
(* A run that reports success (404-417, 558-569) holds one row for each    *)
(* instance id below total, in order, whatever thread measured it, and no  *)
(* worker failed.                                                          *)
(***************************************************************************)
ResultsComplete ==
    main = "ok" =>
        /\ all_results = [i \in 1..Total |-> i - 1]
        /\ \A w \in Workers : pc[w] = "done"

(***************************************************************************)
(* The benchmark comes to a result: main returns rows, or the error that   *)
(* main.rs:85-88 prints before it exits.                                   *)
(***************************************************************************)
BenchEnds == <>(main \in {"ok", "error"})

\* A worker prepares until it is at the gate, and waits there until it has
\* read the run's origin.
Phase(loc) ==
    CASE loc \in {"prepare", "arrive"} -> "prepare"
      [] loc \in {"startgate", "origin"} -> "gate"
      [] loc = "finishgate" -> "finish"
      [] OTHER -> loc

Gate == INSTANCE WorkerGate WITH
            phase <- [w \in Workers |-> Phase(pc[w])],
            started <- start,
            released <- release_workers \/ ~with_prepare

(***************************************************************************)
(* With its mutexes and condition variables the driver implements          *)
(* WorkerGate, and whatever is built upon the gates may rely on its steps: *)
(* nobody measures before all are ready (350-370, 478-495), and the finish *)
(* gate (511-555) keeps teardown out of the measured window.               *)
(***************************************************************************)
ImplementsGate == Gate!GateSpec
=============================================================================
