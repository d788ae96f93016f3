---------------------------- MODULE NetnsShell -----------------------------
(***************************************************************************)
(* The two operations that measure the network set-up itself               *)
(* (restore-motivation/src/ops/netns):                                     *)
(*   netns_step_shell  step_shell::run: batches of threads that take the   *)
(*                     stages of HostNet in step, with a barrier after     *)
(*                     each stage, and remove what they made;              *)
(*   netns_full_shell  full_shell::run, called by the workers of           *)
(*                     run_external: each call makes and removes one       *)
(*                     network by itself.                                  *)
(* The main thread joins its threads in order and ends the process at the  *)
(* first error; threads it has not joined stop where they are.             *)
(***************************************************************************)
EXTENDS HostNet, RunArgs, FiniteSets

CONSTANT MaxIgnored    \* bound: clean-up commands that fail unnoticed

ASSUME ShellBounds == MaxIgnored \in Nat

Instances == 0..(Total - 1)
None == Total    \* no instance

VARIABLES
    step_shell,      \* which of the two operations runs
    next_seq,        \* step_shell: first of the batch; full_shell: NEXT_SEQ
    main_at, spawned, joins,
    at, seq, stage, error, calls,      \* the threads' locals
    count, generation, seen,           \* Barrier, and what a waiter saw of it
    made,                              \* made[i]: what exists for instance i
    ignored                            \* instances with a lost clean-up

batchVars == <<main_at, spawned, joins>>
threadVars == <<at, seq, stage, error, calls>>
barrierVars == <<count, generation, seen>>
shellVars == <<step_shell, next_seq, batchVars, threadVars, barrierVars, made,
          ignored>>

batch_size ==
    LET left == Total - next_seq IN
    IF ~step_shell THEN NumWorkers
    ELSE IF Concurrency < left THEN Concurrency ELSE left

\* Faulty variant: the barrier opens before the last thread has come.
barrier_size_short == batch_size - 1

\* Faulty variant: the barrier counts on a full batch.
barrier_size_full == Concurrency

barrier_size == batch_size

ShellInit ==
    /\ step_shell \in BOOLEAN
    /\ next_seq = 0
    /\ main_at = "detect" /\ spawned = 0 /\ joins = 0
    /\ at = [t \in Workers |-> "none"]
    /\ seq = [t \in Workers |-> None]
    /\ stage = [t \in Workers |-> 1]
    /\ error = [t \in Workers |-> FALSE]
    /\ calls = [t \in Workers |-> 0]
    /\ count = 0 /\ generation = 0 /\ seen = [t \in Workers |-> 0]
    /\ made = [i \in Instances |-> {}]
    /\ ignored = {}

Alive == main_at \notin {"ok", "error"}

-----------------------------------------------------------------------------
(***************************************************************************)
(* The threads.  A measured command fails by itself, because it lacks what *)
(* it needs, or because getrusage fails before or after it.                *)
(***************************************************************************)
\* full_shell::run; the upstream device may not be found.
BeginOp(t) ==
    /\ Alive /\ at[t] = "begin"
    /\ next_seq' = next_seq + 1
    /\ seq' = [seq EXCEPT ![t] = next_seq]
    /\ stage' = [stage EXCEPT ![t] = 1]
    /\ \/ at' = [at EXCEPT ![t] = "stage"] /\ UNCHANGED error
       \/ /\ at' = [at EXCEPT ![t] = "done"]
          /\ error' = [error EXCEPT ![t] = TRUE]
    /\ UNCHANGED <<step_shell, batchVars, calls, barrierVars, made, ignored>>

\* step_shell always meets the barrier next; full_shell stops at an error.
AfterCommand(t, failed) ==
    IF step_shell THEN "barrier"
    ELSE IF failed \/ stage[t] = Len(STAGES) THEN "cleanup" ELSE "stage"

NextStage(t, failed) ==
    IF AfterCommand(t, failed) = "stage" THEN stage[t] + 1
    ELSE IF step_shell THEN stage[t] ELSE 1

CommandOk(t) ==
    /\ Alive /\ at[t] = "stage" /\ ~error[t]
    /\ CommandWorks(made[seq[t]], STAGES[stage[t]])
    /\ made' = [made EXCEPT ![seq[t]] = @ \cup {STAGES[stage[t]]}]
    /\ at' = [at EXCEPT ![t] = AfterCommand(t, FALSE)]
    /\ stage' = [stage EXCEPT ![t] = NextStage(t, FALSE)]
    /\ UNCHANGED <<step_shell, next_seq, batchVars, seq, error, calls,
                   barrierVars, ignored>>

CommandFails(t) ==
    /\ Alive /\ at[t] = "stage" /\ ~error[t]
    /\ \/ UNCHANGED made
       \/ /\ step_shell /\ CommandWorks(made[seq[t]], STAGES[stage[t]])
          /\ made' = [made EXCEPT ![seq[t]] = @ \cup {STAGES[stage[t]]}]
    /\ error' = [error EXCEPT ![t] = TRUE]
    /\ at' = [at EXCEPT ![t] = AfterCommand(t, TRUE)]
    /\ stage' = [stage EXCEPT ![t] = NextStage(t, TRUE)]
    /\ UNCHANGED <<step_shell, next_seq, batchVars, seq, calls, barrierVars,
                   ignored>>

\* The last to arrive opens the barrier for its generation.
ArriveAtBarrier(t) ==
    /\ Alive
    /\ at[t] = "barrier" \/ (step_shell /\ at[t] = "stage" /\ error[t])
    /\ seen' = [seen EXCEPT ![t] = generation]
    /\ IF count + 1 = barrier_size
       THEN count' = 0 /\ generation' = generation + 1
       ELSE count' = count + 1 /\ UNCHANGED generation
    /\ at' = [at EXCEPT ![t] = "wait"]
    /\ UNCHANGED <<step_shell, next_seq, batchVars, seq, stage, error, calls,
                   made, ignored>>

PassBarrier(t) ==
    /\ Alive /\ at[t] = "wait" /\ generation # seen[t]
    /\ IF stage[t] < Len(STAGES)
       THEN /\ at' = [at EXCEPT ![t] = "stage"]
            /\ stage' = [stage EXCEPT ![t] = @ + 1]
       ELSE /\ at' = [at EXCEPT ![t] = "cleanup"]
            /\ stage' = [stage EXCEPT ![t] = 1]
    /\ UNCHANGED <<step_shell, next_seq, batchVars, seq, error, calls,
                   barrierVars, made, ignored>>

\* cleanup: stage counts its commands now; nobody looks at their results.
CleanupCommand(t) ==
    /\ Alive /\ at[t] = "cleanup" /\ stage[t] <= Len(cleanup)
    /\ \/ /\ made' = [made EXCEPT ![seq[t]] = After(@, cleanup[stage[t]])]
          /\ UNCHANGED ignored
       \/ /\ Cardinality(ignored) < MaxIgnored
          /\ ignored' = ignored \cup {seq[t]}
          /\ UNCHANGED made
    /\ stage' = [stage EXCEPT ![t] = @ + 1]
    /\ UNCHANGED <<step_shell, next_seq, batchVars, at, seq, error, calls,
                   barrierVars>>

(***************************************************************************)
(* run_external's worker ends at an error, its own or getrusage's after    *)
(* the call, or when it has its share.                                     *)
(***************************************************************************)
EndInstance(t) ==
    /\ Alive /\ at[t] = "cleanup" /\ stage[t] > Len(cleanup)
    /\ error' \in {[error EXCEPT ![t] = @ \/ e] :
                      e \in IF step_shell THEN {FALSE} ELSE BOOLEAN}
    /\ calls' = [calls EXCEPT ![t] =
                     IF step_shell \/ error'[t] THEN @ ELSE @ + 1]
    /\ at' = [at EXCEPT ![t] =
                IF \/ step_shell \/ error'[t]
                   \/ calls'[t] = iteration_count(Total, NumWorkers, t)
                THEN "done" ELSE "begin"]
    /\ UNCHANGED <<step_shell, next_seq, batchVars, seq, stage, barrierVars,
                   made, ignored>>

-----------------------------------------------------------------------------
(***************************************************************************)
(* The main thread.                                                        *)
(***************************************************************************)
Start ==
    /\ main_at = "detect"
    /\ main_at' \in {"spawn", "error"}
    /\ UNCHANGED <<step_shell, next_seq, spawned, joins, threadVars,
                   barrierVars, made, ignored>>

Spawn ==
    /\ main_at = "spawn" /\ spawned < batch_size
    /\ at' = [at EXCEPT ![spawned] = IF step_shell THEN "stage" ELSE "begin"]
    /\ seq' = [seq EXCEPT ![spawned] =
                 IF step_shell THEN next_seq + spawned ELSE @]
    /\ stage' = [stage EXCEPT ![spawned] = 1]
    /\ error' = [error EXCEPT ![spawned] = FALSE]
    /\ calls' = [calls EXCEPT ![spawned] = 0]
    /\ spawned' = spawned + 1
    /\ main_at' = IF spawned' = batch_size THEN "join" ELSE "spawn"
    /\ UNCHANGED <<step_shell, next_seq, joins, barrierVars, made, ignored>>

JoinThread ==
    /\ main_at = "join" /\ joins < spawned
    /\ at[joins] = "done" /\ ~error[joins]
    /\ joins' = joins + 1
    /\ UNCHANGED <<step_shell, next_seq, main_at, spawned, threadVars,
                   barrierVars, made, ignored>>

\* join()?? and with it the end of the process; nobody joins the others.
JoinThreadFailed ==
    /\ main_at = "join" /\ joins < spawned
    /\ at[joins] = "done" /\ error[joins]
    /\ main_at' = "error"
    /\ UNCHANGED <<step_shell, next_seq, spawned, joins, threadVars,
                   barrierVars, made, ignored>>

\* A new batch has a new barrier.
NextBatch ==
    /\ main_at = "join" /\ joins = spawned
    /\ step_shell /\ next_seq + batch_size < Total
    /\ next_seq' = next_seq + batch_size
    /\ main_at' = "spawn" /\ spawned' = 0 /\ joins' = 0
    /\ count' = 0 /\ generation' = 0 /\ seen' = [t \in Workers |-> 0]
    /\ UNCHANGED <<step_shell, threadVars, made, ignored>>

\* The usage of the whole run may be unavailable.
FinishShell ==
    /\ main_at = "join" /\ joins = spawned
    /\ step_shell => next_seq + batch_size = Total
    /\ main_at' \in {"ok", "error"}
    /\ UNCHANGED <<step_shell, next_seq, spawned, joins, threadVars,
                   barrierVars, made, ignored>>

ShellExit == ~Alive /\ UNCHANGED shellVars

Thread(t) ==
    \/ BeginOp(t) \/ CommandOk(t) \/ CommandFails(t)
    \/ ArriveAtBarrier(t) \/ PassBarrier(t)
    \/ CleanupCommand(t) \/ EndInstance(t)

ShellMain ==
    \/ Start \/ Spawn \/ JoinThread \/ JoinThreadFailed
    \/ NextBatch \/ FinishShell

ShellNext == (\E t \in Workers : Thread(t)) \/ ShellMain \/ ShellExit

ShellSpec == ShellInit /\ [][ShellNext]_shellVars

\* Threads are scheduled and the commands they run come to an end.
ShellFairSpec ==
    /\ ShellSpec /\ WF_shellVars(ShellMain)
    /\ \A t \in Workers : WF_shellVars(Thread(t))

-----------------------------------------------------------------------------
(***************************************************************************)
(* Properties.                                                             *)
(***************************************************************************)
AtStage(t) == at[t] \in {"stage", "barrier"}

(***************************************************************************)
(* The threads of a batch measure the same stage (step_shell.rs:35-55): no *)
(* command of a stage, and no clean-up, runs while another thread of the   *)
(* batch is still to finish an earlier one, whoever has failed.            *)
(***************************************************************************)
StagesAligned ==
    step_shell =>
        \A t, u \in Workers :
            /\ AtStage(t) /\ AtStage(u) => stage[t] = stage[u]
            /\ at[t] = "cleanup" => ~AtStage(u)
            /\ AtStage(t) /\ stage[t] > 1 => spawned = batch_size

(***************************************************************************)
(* Whatever exists on the host belongs to exactly one thread that is still *)
(* at work on it, unless a clean-up command failed unnoticed.  So a run    *)
(* that ends well leaves nothing, a batch starts on a clean host, and an   *)
(* error (step_shell.rs:66-69, mod.rs:404-410) leaves only what belongs to *)
(* threads main did not wait for.                                          *)
(***************************************************************************)
NetworksOwned ==
    \A i \in Instances \ ignored :
        made[i] # {} =>
            LET owners == {t \in Workers : seq[t] = i
                              /\ at[t] \notin {"none", "begin", "done"}} IN
            Cardinality(owners) = 1 /\ \A t \in owners : t >= joins

(***************************************************************************)
(* Both operations come to a result: a thread that failed still meets the  *)
(* others at every barrier (step_shell.rs:36, 54), and the last batch,     *)
(* which may be smaller, has a barrier of its own size (21-22).            *)
(***************************************************************************)
ShellEnds == <>(main_at \in {"ok", "error"})
=============================================================================
