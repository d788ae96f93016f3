----------------------------- MODULE WorkerGate ----------------------------
(***************************************************************************)
(* What the two gates of restore-motivation/src/ops/mod.rs promise the     *)
(* operations behind them, without mutexes and condition variables: nobody *)
(* starts before all are ready, nobody leaves before all have finished,    *)
(* and a failed preparation sends everybody home.  BenchGate implements    *)
(* this; PreparedRun builds the measured operations upon it.               *)
(***************************************************************************)
EXTENDS Naturals

CONSTANT NumWorkers
Crew == 0..(NumWorkers - 1)

VARIABLES
    phase,       \* phase[w]: prepare, gate, run, finish, done or failed
    started,     \* the start gate has been opened
    failure,     \* a preparation has failed
    released,    \* the finish gate is open; from the start without one
    main,        \* the main thread: gate, finish, join, ok or error
    joined       \* workers joined so far

gateVars == <<phase, started, failure, released, main, joined>>

GateInit ==
    /\ phase = [w \in Crew |-> "prepare"]
    /\ started = FALSE /\ failure = FALSE
    /\ released \in BOOLEAN
    /\ main = "gate" /\ joined = 0

Go(w, from, to) == phase[w] = from /\ phase' = [phase EXCEPT ![w] = to]

MainStays == UNCHANGED <<started, released, main, joined>>

\* A worker that arrives after somebody's failure leaves at once.
Ready(w) ==
    /\ Go(w, "prepare", IF failure THEN "failed" ELSE "gate")
    /\ MainStays /\ UNCHANGED failure

PrepareFailed(w) ==
    /\ Go(w, "prepare", "failed") /\ failure' = TRUE /\ MainStays

Begin(w) == started /\ Go(w, "gate", "run") /\ MainStays /\ UNCHANGED failure

GiveUp(w) == failure /\ Go(w, "gate", "failed") /\ MainStays /\ UNCHANGED failure

Finished(w) ==
    /\ Go(w, "run", IF released THEN "done" ELSE "finish")
    /\ MainStays /\ UNCHANGED failure

OpFailed(w) == Go(w, "run", "failed") /\ MainStays /\ UNCHANGED failure

Leave(w) ==
    released /\ Go(w, "finish", "done") /\ MainStays /\ UNCHANGED failure

\* main looks at the gate; reading the process's usage may fail.
OpenStart ==
    /\ main = "gate"
    /\ failure \/ \A w \in Crew : phase[w] = "gate"
    /\ \/ /\ started' = ~failure
          /\ main' = IF failure \/ released THEN "join" ELSE "finish"
       \/ main' = "error" /\ UNCHANGED started
    /\ UNCHANGED <<phase, failure, released, joined>>

OpenFinish ==
    /\ main = "finish"
    /\ \A w \in Crew : phase[w] = "finish"
    /\ released' = TRUE
    /\ main' \in {"join", "error"}
    /\ UNCHANGED <<phase, started, failure, joined>>

\* Workers are joined in order, and the first error is the run's.
Join ==
    /\ main = "join" /\ joined < NumWorkers
    /\ phase[joined] \in {"done", "failed"}
    /\ IF phase[joined] = "done"
       THEN joined' = joined + 1 /\ UNCHANGED main
       ELSE main' = "error" /\ UNCHANGED joined
    /\ UNCHANGED <<phase, started, failure, released>>

Report ==
    /\ main = "join" /\ joined = NumWorkers
    /\ main' \in {"error"} \cup (IF started THEN {"ok"} ELSE {})
    /\ UNCHANGED <<phase, started, failure, released, joined>>

GateWorker(w) ==
    \/ Ready(w) \/ PrepareFailed(w) \/ Begin(w) \/ GiveUp(w)
    \/ Finished(w) \/ OpFailed(w) \/ Leave(w)

GateMain == OpenStart \/ OpenFinish \/ Join \/ Report

GateSpec ==
    GateInit /\ [][GateMain \/ \E w \in Crew : GateWorker(w)]_gateVars
=============================================================================
