--------------------------- MODULE BenchGateProofs --------------------------
(***************************************************************************)
(* What holds of the benchmark driver for any number of operations and of  *)
(* threads: its mutexes and condition variables implement WorkerGate, and  *)
(* a run that reports success has measured every operation once.  The last *)
(* part is about the operations that measure the network set-up, whose     *)
(* threads keep step and own the networks they make (NetnsShell).          *)
(***************************************************************************)
EXTENDS BenchGate, NetnsShell, FiniteSetTheorems, SequenceTheorems, TLAPS

-----------------------------------------------------------------------------
(***************************************************************************)
(* The inductive invariant.                                                *)
(***************************************************************************)
Locations == {"prepare", "arrive", "startgate", "origin", "run", "finishgate",
              "done", "failed"}

BenchType ==
    /\ with_prepare \in BOOLEAN /\ start \in BOOLEAN /\ failure \in BOOLEAN
    /\ release_workers \in BOOLEAN /\ run_origin \in BOOLEAN
    /\ ready_workers \in Nat /\ finished_workers \in Nat
    /\ pc \in [Workers -> Locations]
    /\ main \in {"gate", "finish", "join", "ok", "error"}
    /\ joined \in 0..NumWorkers

\* The flags change with the main thread's progress, and a worker past the
\* start gate has seen start.
FlagsFollowMain ==
    /\ main = "gate" => ~start /\ ~release_workers
    /\ main = "finish" => with_prepare /\ ~release_workers
    /\ main = "ok" => joined = NumWorkers
    /\ start => run_origin
    /\ \A w \in Workers : pc[w] = "origin" => start

\* A worker is counted at a gate only when it has come to it.
Arrived == {w \in Workers : pc[w] \notin {"prepare", "arrive"}}
Through == {w \in Workers : pc[w] \in {"finishgate", "done"}}

ArrivalsCounted == ready_workers <= Cardinality(Arrived)
FinishesCounted == finished_workers <= Cardinality(Through)

\* Before the start gate opens, only a failure ends a thread.
FailuresKnown ==
    main = "gate" =>
        \A w \in Workers :
            \/ pc[w] \in {"prepare", "arrive", "startgate"}
            \/ pc[w] = "failed" /\ failure

\* Only an open finish gate is left.
LeftReleased ==
    \A w \in Workers : pc[w] = "done" => release_workers \/ ~with_prepare

GatesInv ==
    /\ BenchType /\ FlagsFollowMain
    /\ ArrivalsCounted /\ FinishesCounted /\ FailuresKnown /\ LeftReleased

\* A worker's results carry its own ids, in order.
OwnIds ==
    /\ results \in [Workers -> Seq(Nat)]
    /\ \A w \in Workers :
        /\ Len(results[w]) <= Count(w)
        /\ \A i \in 1..Len(results[w]) : results[w][i] = Offset(w) + (i - 1)
        /\ pc[w] \in {"finishgate", "done"} => Len(results[w]) = Count(w)

\* Joining keeps the order: the rows so far are the ids below the next offset.
RowsInOrder ==
    /\ all_results = [i \in 1..Offset(joined) |-> i - 1]
    /\ \A w \in 0..(joined - 1) : pc[w] = "done"

BenchInv == GatesInv /\ OwnIds /\ RowsInOrder

-----------------------------------------------------------------------------
(***************************************************************************)
(* The division of the operations among the workers.                       *)
(***************************************************************************)

\* There are as many workers as asked for, but no more than operations.
LEMMA SomeWorkers ==
    NumWorkers \in Nat /\ NumWorkers > 0 /\ NumWorkers <= Total /\ Total \in Nat
BY RunConfig DEF NumWorkers, worker_count

LEMMA Division ==
    ASSUME NEW t \in Nat, NEW n \in Nat, n > 0
    PROVE  /\ t \div n \in Nat /\ t % n \in Nat /\ t % n < n
           /\ t = n * (t \div n) + (t % n)
OBVIOUS

LEMMA Distributes ==
    ASSUME NEW w \in Nat, NEW b \in Nat
    PROVE  (w + 1) * b = w * b + b /\ w * b \in Nat
OBVIOUS

\* The shares are adjacent, the first begins at 0 and the last ends at total.
LEMMA SharesAdjacent ==
    /\ Offset(0) = 0 /\ Offset(NumWorkers) = Total
    /\ \A w \in Workers :
          /\ Offset(w) \in Nat /\ Count(w) \in Nat
          /\ Offset(w + 1) = Offset(w) + Count(w)
<1>1. PICK b \in Nat, r \in Nat :
         /\ b = Total \div NumWorkers /\ r = Total % NumWorkers
         /\ r < NumWorkers /\ Total = NumWorkers * b + r
  BY SomeWorkers, Division
<1>2. \A w : Offset(w) = w * b + (IF w < r THEN w ELSE r)
  BY <1>1 DEF Offset, iteration_offset
<1>3. \A w : Count(w) = b + (IF w < r THEN 1 ELSE 0)
  BY <1>1 DEF Count, iteration_count
<1>4. Offset(0) = 0
  <2>1. 0 * b = 0
    OBVIOUS
  <2> QED
    BY <1>2, <2>1
<1>5. Offset(NumWorkers) = Total
  <2>1. ~(NumWorkers < r)
    BY <1>1, SomeWorkers
  <2>2. Offset(NumWorkers) = NumWorkers * b + r
    BY <1>2, <2>1
  <2> QED
    BY <1>1, <2>2
<1>6. ASSUME NEW w \in Workers
      PROVE  /\ Offset(w) \in Nat /\ Count(w) \in Nat
             /\ Offset(w + 1) = Offset(w) + Count(w)
  <2>1. w \in Nat
    BY SomeWorkers DEF Workers
  <2>2. PICK x \in Nat : x = w * b /\ (w + 1) * b = x + b
    BY <2>1, Distributes
  <2>3. /\ Offset(w) = x + (IF w < r THEN w ELSE r)
        /\ Offset(w + 1) = (x + b) + (IF w + 1 < r THEN w + 1 ELSE r)
    BY <1>2, <2>2
  <2>4. PICK o1 \in Nat, o2 \in Nat, c \in Nat :
           o1 = Offset(w) /\ o2 = Offset(w + 1) /\ c = Count(w)
    BY <1>3, <2>1, <2>3
  <2>5. CASE w < r
    <3>1. o1 = x + w /\ c = b + 1
      BY <1>3, <2>3, <2>4, <2>5
    <3>2. (IF w + 1 < r THEN w + 1 ELSE r) = w + 1
      BY <2>1, <2>5
    <3> QED
      BY <2>1, <2>3, <2>4, <3>1, <3>2
  <2>6. CASE ~(w < r)
    <3>1. o1 = x + r /\ c = b
      BY <1>3, <2>3, <2>4, <2>6
    <3>2. (IF w + 1 < r THEN w + 1 ELSE r) = r
      BY <2>1, <2>6
    <3> QED
      BY <2>1, <2>3, <2>4, <3>1, <3>2
  <2> QED
    BY <2>5, <2>6
<1> QED
  BY <1>4, <1>5, <1>6

-----------------------------------------------------------------------------
(***************************************************************************)
(* Counting the workers at a gate.                                         *)
(***************************************************************************)

\* A gate that has counted NumWorkers has counted everybody.
LEMMA AllCounted ==
    ASSUME NEW S, S \subseteq Workers
    PROVE  /\ IsFiniteSet(S) /\ Cardinality(S) \in Nat
           /\ Cardinality(S) >= NumWorkers => S = Workers
<1>1. IsFiniteSet(Workers) /\ Cardinality(Workers) = NumWorkers
  BY SomeWorkers, FS_Interval DEF Workers
<1>2. IsFiniteSet(S) /\ Cardinality(S) <= Cardinality(Workers)
  BY <1>1, FS_Subset
<1>3. Cardinality(S) \in Nat
  BY <1>2, FS_CardinalityType
<1>4. ASSUME Cardinality(S) >= NumWorkers
      PROVE  S = Workers
  <2>1. Cardinality(S) = Cardinality(Workers)
    BY <1>1, <1>2, <1>3, <1>4, SomeWorkers
  <2> QED
    BY <1>1, <2>1, FS_Subset
<1> QED
  BY <1>2, <1>3, <1>4

\* A count stays covered when the set grows, and may be raised by one when a
\* newcomer is in it.
LEMMA CountCovered ==
    ASSUME NEW S, NEW T, S \subseteq T, T \subseteq Workers,
           NEW n \in Nat, n <= Cardinality(S)
    PROVE  /\ n <= Cardinality(T)
           /\ \A w \in T \ S : n + 1 <= Cardinality(T)
<1>1. PICK s \in Nat, t \in Nat :
         /\ s = Cardinality(S) /\ t = Cardinality(T) /\ IsFiniteSet(T)
  BY AllCounted
<1>2. s <= t
  BY <1>1, FS_Subset
<1>3. ASSUME NEW w \in T \ S
      PROVE  n + 1 <= Cardinality(T)
  <2>1. s # t
    BY <1>1, <1>3, FS_Subset
  <2> QED
    BY <1>1, <1>2, <2>1
<1> QED
  BY <1>1, <1>2, <1>3

-----------------------------------------------------------------------------
(***************************************************************************)
(* The gates.                                                              *)
(***************************************************************************)
LEMMA GatesInitially == Init => GatesInv
<1> SUFFICES ASSUME Init PROVE GatesInv
  OBVIOUS
<1>1. pc \in [Workers -> {"prepare", "arrive"}]
  BY DEF Init
<1>2. BenchType
  <2>1. pc \in [Workers -> Locations]
    BY <1>1 DEF Locations
  <2>2. joined \in 0..NumWorkers
    BY SomeWorkers DEF Init
  <2> QED
    BY <2>1, <2>2 DEF Init, BenchType
<1>3. FlagsFollowMain /\ FailuresKnown /\ LeftReleased
  BY <1>1 DEF Init, FlagsFollowMain, FailuresKnown, LeftReleased
<1>4. ArrivalsCounted /\ FinishesCounted
  <2>1. Cardinality(Arrived) \in Nat /\ Cardinality(Through) \in Nat
    BY AllCounted DEF Arrived, Through
  <2> QED
    BY <2>1 DEF Init, ArrivalsCounted, FinishesCounted
<1> QED
  BY <1>2, <1>3, <1>4 DEF GatesInv

\* What a worker's step may do to where the worker is.
MayMove(from, loc) ==
    /\ from \notin {"done", "failed"} /\ loc \in Locations
    /\ from \notin {"prepare", "arrive"} => loc \notin {"prepare", "arrive"}
    /\ from = "finishgate" => loc \in {"finishgate", "done"}
    /\ loc = "origin" => start
    /\ from \in {"prepare", "arrive", "startgate"}
          => \/ loc \in {"arrive", "startgate", "origin"}
             \/ loc = "failed" /\ failure'
    /\ loc = "done" => release_workers \/ ~with_prepare

LEMMA GateLeads ==
    ASSUME BenchType, failure' = failure, NEW from \in {"arrive", "startgate"}
    PROVE  MayMove(from, GateLeadsTo)
<1>1. CASE failure
  <2>1. GateLeadsTo = "failed" /\ failure'
    BY <1>1 DEF GateLeadsTo
  <2> QED
    BY <2>1 DEF MayMove, Locations
<1>2. CASE ~failure /\ start
  <2>1. GateLeadsTo = "origin"
    BY <1>2 DEF GateLeadsTo
  <2> QED
    BY <1>2, <2>1 DEF MayMove, Locations, BenchType
<1>3. CASE ~failure /\ ~start
  <2>1. GateLeadsTo = "startgate"
    BY <1>3 DEF GateLeadsTo
  <2> QED
    BY <2>1 DEF MayMove, Locations, BenchType
<1> QED
  BY <1>1, <1>2, <1>3

LEMMA WorkerMoves ==
    ASSUME GatesInv, NEW w \in Workers, Worker(w)
    PROVE  /\ UNCHANGED <<with_prepare, start, release_workers, run_origin,
                          mainVars>>
           /\ failure' \in BOOLEAN /\ (failure => failure')
           /\ \E loc : MayMove(pc[w], loc) /\ pc' = [pc EXCEPT ![w] = loc]
<1> USE DEF GatesInv, BenchType, Locations, mainVars, MayMove
<1>1. CASE PrepareOk(w)
  <2>1. MayMove(pc[w], "arrive")
    BY <1>1 DEF PrepareOk, startVars
  <2> QED
    BY <1>1, <2>1 DEF PrepareOk, startVars, finishVars
<1>2. CASE PrepareFails(w)
  <2>1. MayMove(pc[w], "failed")
    BY <1>2 DEF PrepareFails
  <2> QED
    BY <1>2, <2>1 DEF PrepareFails, finishVars
<1>3. CASE Arrive(w)
  <2>1. MayMove(pc[w], GateLeadsTo)
    <3>1. pc[w] \in {"arrive", "startgate"} /\ failure' = failure
      BY <1>3 DEF Arrive
    <3> QED
      BY <3>1, GateLeads
  <2> QED
    BY <1>3, <2>1 DEF Arrive, MoveTo, finishVars
<1>4. CASE WakeAtStart(w)
  <2>1. MayMove(pc[w], GateLeadsTo)
    <3>1. pc[w] \in {"arrive", "startgate"} /\ failure' = failure
      BY <1>4 DEF WakeAtStart
    <3> QED
      BY <3>1, GateLeads
  <2> QED
    BY <1>4, <2>1 DEF WakeAtStart, MoveTo, finishVars
<1>5. CASE ReadOrigin(w)
  BY <1>5 DEF ReadOrigin, MoveTo, startVars, finishVars
<1>6. CASE RunOp(w)
  <2>1. pc' = [pc EXCEPT ![w] = "run"]
    BY <1>6 DEF RunOp
  <2> QED
    BY <1>6, <2>1 DEF RunOp, startVars, finishVars
<1>7. CASE OpFails(w)
  BY <1>7 DEF OpFails, MoveTo, startVars, finishVars
<1>8. CASE ReturnResults(w)
  BY <1>8 DEF ReturnResults, MoveTo, startVars, finishVars
<1>9. CASE FinishRun(w)
  BY <1>9 DEF FinishRun, FinishLeadsTo, MoveTo, startVars
<1>10. CASE WakeAtFinish(w)
  BY <1>10 DEF WakeAtFinish, FinishLeadsTo, MoveTo, startVars
<1> QED
  BY <1>1, <1>2, <1>3, <1>4, <1>5, <1>6, <1>7, <1>8, <1>9, <1>10 DEF Worker

\* A worker is counted in the same step in which it comes to a gate.
LEMMA WorkerCounts ==
    ASSUME GatesInv, NEW w \in Workers, Worker(w)
    PROVE  /\ ready_workers' \in Nat /\ finished_workers' \in Nat
           /\ ArrivalsCounted' /\ FinishesCounted'
<1>1. PICK loc : MayMove(pc[w], loc) /\ pc' = [pc EXCEPT ![w] = loc]
  BY WorkerMoves
<1>2. /\ Arrived \subseteq Arrived' /\ Through \subseteq Through'
      /\ Arrived' \subseteq Workers /\ Through' \subseteq Workers
  BY <1>1 DEF GatesInv, BenchType, MayMove, Arrived, Through
<1>3. PICK a \in Nat, f \in Nat :
         /\ a = ready_workers /\ f = finished_workers
         /\ a <= Cardinality(Arrived) /\ f <= Cardinality(Through)
  BY DEF GatesInv, BenchType, ArrivalsCounted, FinishesCounted
<1>4. a <= Cardinality(Arrived') /\ f <= Cardinality(Through')
  BY <1>2, <1>3, CountCovered
<1>5. ASSUME pc[w] = "arrive", loc \notin {"prepare", "arrive"}
      PROVE  a + 1 <= Cardinality(Arrived')
  <2>1. w \in Arrived' \ Arrived
    BY <1>1, <1>5 DEF GatesInv, BenchType, Arrived
  <2> QED
    BY <1>2, <1>3, <2>1, CountCovered
<1>6. ASSUME pc[w] = "run", loc \in {"finishgate", "done"}
      PROVE  f + 1 <= Cardinality(Through')
  <2>1. w \in Through' \ Through
    BY <1>1, <1>6 DEF GatesInv, BenchType, Through
  <2> QED
    BY <1>2, <1>3, <2>1, CountCovered
<1>7. CASE Arrive(w)
  <2>1. /\ ready_workers' = a + 1 /\ finished_workers' = f
        /\ pc[w] = "arrive" /\ pc' = [pc EXCEPT ![w] = GateLeadsTo]
    BY <1>3, <1>7 DEF Arrive, MoveTo, finishVars
  <2>2. loc \notin {"prepare", "arrive"}
    <3>1. loc = GateLeadsTo
      BY <1>1, <2>1 DEF GatesInv, BenchType
    <3> QED
      BY <3>1 DEF GateLeadsTo
  <2> QED
    BY <1>4, <1>5, <2>1, <2>2 DEF ArrivalsCounted, FinishesCounted
<1>8. CASE FinishRun(w)
  <2>1. /\ ready_workers' = a /\ finished_workers' = f + 1
        /\ pc[w] = "run" /\ pc' = [pc EXCEPT ![w] = FinishLeadsTo]
    BY <1>3, <1>8 DEF FinishRun, MoveTo, startVars
  <2>2. loc \in {"finishgate", "done"}
    <3>1. loc = FinishLeadsTo
      BY <1>1, <2>1 DEF GatesInv, BenchType
    <3> QED
      BY <3>1 DEF FinishLeadsTo
  <2> QED
    BY <1>4, <1>6, <2>1, <2>2 DEF ArrivalsCounted, FinishesCounted
<1>9. CASE ~Arrive(w) /\ ~FinishRun(w)
  <2>1. ready_workers' = a /\ finished_workers' = f
    BY <1>3, <1>9 DEF Worker, PrepareOk, PrepareFails, WakeAtStart, ReadOrigin,
       RunOp, OpFails, ReturnResults, WakeAtFinish, startVars, finishVars
  <2> QED
    BY <1>4, <2>1 DEF ArrivalsCounted, FinishesCounted
<1> QED
  BY <1>7, <1>8, <1>9

LEMMA GatesWorkerStep ==
    ASSUME GatesInv, NEW w \in Workers, Worker(w)
    PROVE  GatesInv'
<1>1. PICK loc : MayMove(pc[w], loc) /\ pc' = [pc EXCEPT ![w] = loc]
  BY WorkerMoves
<1>2. /\ UNCHANGED <<with_prepare, start, release_workers, run_origin, mainVars>>
      /\ failure' \in BOOLEAN /\ (failure => failure')
  BY WorkerMoves
<1>3. BenchType'
  BY <1>1, <1>2, WorkerCounts DEF GatesInv, BenchType, MayMove, mainVars
<1>4. FlagsFollowMain'
  BY <1>1, <1>2 DEF GatesInv, BenchType, FlagsFollowMain, MayMove, mainVars
<1>5. FailuresKnown'
  <2>1. ASSUME main = "gate", NEW u \in Workers
        PROVE  \/ pc'[u] \in {"prepare", "arrive", "startgate"}
               \/ pc'[u] = "failed" /\ failure'
    <3>1. ~start
      BY <2>1 DEF GatesInv, FlagsFollowMain
    <3>2. CASE u = w
      <4>1. pc'[u] = loc /\ loc # "origin"
        BY <1>1, <3>1, <3>2 DEF GatesInv, BenchType, MayMove
      <4>2. pc[w] \in {"prepare", "arrive", "startgate"}
        BY <1>1, <2>1 DEF GatesInv, FailuresKnown, MayMove
      <4> QED
        BY <1>1, <4>1, <4>2 DEF MayMove
    <3>3. CASE u # w
      BY <1>1, <1>2, <2>1, <3>3 DEF GatesInv, BenchType, FailuresKnown
    <3> QED
      BY <3>2, <3>3
  <2> QED
    BY <1>2, <2>1 DEF FailuresKnown, mainVars
<1>6. LeftReleased'
  BY <1>1, <1>2 DEF GatesInv, BenchType, LeftReleased, MayMove
<1> QED
  BY <1>3, <1>4, <1>5, <1>6, WorkerCounts DEF GatesInv

LEMMA GatesMainStep ==
    ASSUME GatesInv, Main
    PROVE  GatesInv'
<1>1. /\ UNCHANGED <<with_prepare, ready_workers, failure, finished_workers,
                     pc, results>>
      /\ main # "gate" => main' # "gate" /\ UNCHANGED <<start, run_origin>>
  BY DEF Main, WaitForReady, OpenGate, UsageFailsAtGate, WaitForFinished,
         ReleaseWorkers, JoinOk, JoinFailed, Finish, startVars, finishVars,
         workerVars, mainVars
<1>2. ArrivalsCounted' /\ FinishesCounted' /\ FailuresKnown'
  BY <1>1 DEF GatesInv, ArrivalsCounted, FinishesCounted, Arrived, Through,
     FailuresKnown
<1> USE DEF GatesInv, BenchType, FlagsFollowMain, LeftReleased
<1>3. CASE WaitForReady
  BY <1>1, <1>2, <1>3 DEF WaitForReady, finishVars, mainVars
<1>4. CASE OpenGate
  <2>1. CASE failure
    <3>1. main' = "join" /\ start' = FALSE /\ run_origin' \in BOOLEAN
      BY <1>4, <2>1 DEF OpenGate
    <3> QED
      BY <1>1, <1>2, <1>4, <3>1 DEF OpenGate, finishVars
  <2>2. CASE ~failure
    <3>1. /\ main' = IF with_prepare THEN "finish" ELSE "join"
          /\ start' = TRUE /\ run_origin' = TRUE
      BY <1>4, <2>2 DEF OpenGate
    <3> QED
      BY <1>1, <1>2, <1>4, <3>1 DEF OpenGate, finishVars
  <2> QED
    BY <2>1, <2>2
<1>5. CASE UsageFailsAtGate
  BY <1>1, <1>2, <1>5 DEF UsageFailsAtGate, startVars, finishVars
<1>6. CASE WaitForFinished
  BY <1>1, <1>2, <1>6 DEF WaitForFinished, startVars, mainVars
<1>7. CASE ReleaseWorkers
  BY <1>1, <1>2, <1>7 DEF ReleaseWorkers, startVars
<1>8. CASE JoinOk
  BY <1>1, <1>2, <1>8, SomeWorkers DEF JoinOk, startVars, finishVars
<1>9. CASE JoinFailed
  BY <1>1, <1>2, <1>9 DEF JoinFailed, startVars, finishVars
<1>10. CASE Finish
  BY <1>1, <1>2, <1>10 DEF Finish, startVars, finishVars
<1> QED
  BY <1>3, <1>4, <1>5, <1>6, <1>7, <1>8, <1>9, <1>10 DEF Main

\* Everything but who sleeps at which condition variable.
awakeVars == <<with_prepare, ready_workers, start, failure, run_origin,
               finished_workers, release_workers, pc, results, mainVars>>

\* A step is a worker's, main's, or changes at most who sleeps.
LEMMA StepKinds ==
    ASSUME [Next]_vars
    PROVE  \/ \E w \in Workers : Worker(w)
           \/ Main
           \/ UNCHANGED awakeVars
BY DEF Next, SpuriousWakeup, Exit, vars, awakeVars, startVars, finishVars,
       workerVars, mainVars

LEMMA GatesStep == GatesInv /\ [Next]_vars => GatesInv'
<1> SUFFICES ASSUME GatesInv, [Next]_vars PROVE GatesInv'
  OBVIOUS
<1>1. ASSUME UNCHANGED awakeVars
      PROVE  GatesInv'
  BY <1>1 DEF awakeVars, mainVars, GatesInv, BenchType, FlagsFollowMain,
     ArrivalsCounted, FinishesCounted, Arrived, Through, FailuresKnown,
     LeftReleased
<1> QED
  BY <1>1, StepKinds, GatesWorkerStep, GatesMainStep

-----------------------------------------------------------------------------
(***************************************************************************)
(* Every step of the driver is a step of WorkerGate, or none.              *)
(***************************************************************************)
PhaseOf == [w \in Workers |-> Phase(pc[w])]

LEMMA Phases ==
    /\ Phase("prepare") = "prepare" /\ Phase("arrive") = "prepare"
    /\ Phase("startgate") = "gate" /\ Phase("origin") = "gate"
    /\ Phase("run") = "run" /\ Phase("finishgate") = "finish"
    /\ Phase("done") = "done" /\ Phase("failed") = "failed"
BY DEF Phase

LEMMA CrewIsWorkers == Gate!Crew = Workers
BY DEF Gate!Crew, Workers

\* A worker's move shows in its phase alone.
LEMMA PhaseMoves ==
    ASSUME pc \in [Workers -> Locations], NEW w \in Workers, NEW loc \in Locations,
           pc' = [pc EXCEPT ![w] = loc]
    PROVE  /\ PhaseOf[w] = Phase(pc[w])
           /\ PhaseOf' = [PhaseOf EXCEPT ![w] = Phase(loc)]
BY DEF PhaseOf

\* What is the same to WorkerGate.
LEMMA GateStutters ==
    ASSUME PhaseOf' = PhaseOf,
           UNCHANGED <<with_prepare, start, failure, release_workers, main, joined>>
    PROVE  UNCHANGED Gate!gateVars
BY DEF PhaseOf, Gate!gateVars

LEMMA GateGoes ==
    ASSUME pc \in [Workers -> Locations], NEW w \in Workers, NEW loc \in Locations,
           pc' = [pc EXCEPT ![w] = loc]
    PROVE  Gate!Go(w, Phase(pc[w]), Phase(loc))
BY PhaseMoves DEF PhaseOf, Gate!Go

\* Moves between two places of one phase.
LEMMA PhaseStays ==
    ASSUME pc \in [Workers -> Locations], NEW w \in Workers, NEW loc \in Locations,
           pc' = [pc EXCEPT ![w] = loc], Phase(loc) = Phase(pc[w])
    PROVE  PhaseOf' = PhaseOf
BY PhaseMoves DEF PhaseOf

LEMMA WorkerImplements ==
    ASSUME GatesInv, NEW w \in Workers, Worker(w)
    PROVE  Gate!GateWorker(w) \/ UNCHANGED Gate!gateVars
<1>1. pc \in [Workers -> Locations]
  BY DEF GatesInv, BenchType
<1>2. /\ UNCHANGED <<with_prepare, start, release_workers, main, joined>>
      /\ Gate!MainStays
  BY WorkerMoves DEF mainVars, Gate!MainStays
<1>3. ASSUME NEW loc \in Locations, pc' = [pc EXCEPT ![w] = loc],
             failure' = failure, Phase(loc) = Phase(pc[w])
      PROVE  UNCHANGED Gate!gateVars
  BY <1>1, <1>2, <1>3, PhaseStays, GateStutters
<1> USE DEF Locations
<1>4. CASE PrepareOk(w)
  BY <1>3, <1>4, Phases DEF PrepareOk, startVars
<1>5. CASE PrepareFails(w)
  <2>1. Gate!Go(w, "prepare", "failed")
    BY <1>1, <1>5, GateGoes, Phases DEF PrepareFails
  <2>2. Gate!PrepareFailed(w)
    BY <1>2, <1>5, <2>1 DEF PrepareFails, Gate!PrepareFailed
  <2> QED
    BY <2>2 DEF Gate!GateWorker
<1>6. CASE Arrive(w)
  <2>1. /\ pc[w] = "arrive" /\ pc' = [pc EXCEPT ![w] = GateLeadsTo]
        /\ failure' = failure
    BY <1>6 DEF Arrive, MoveTo
  <2>2. Gate!Ready(w)
    <3>1. CASE failure
      <4>1. pc' = [pc EXCEPT ![w] = "failed"]
        BY <2>1, <3>1 DEF GateLeadsTo
      <4>2. Gate!Go(w, "prepare", "failed")
        BY <1>1, <2>1, <4>1, GateGoes, Phases
      <4> QED
        BY <1>2, <2>1, <3>1, <4>2 DEF Gate!Ready
    <3>2. CASE ~failure
      <4>1. PICK loc \in {"origin", "startgate"} : pc' = [pc EXCEPT ![w] = loc]
        BY <2>1, <3>2 DEF GateLeadsTo
      <4>2. Gate!Go(w, "prepare", "gate")
        BY <1>1, <2>1, <4>1, GateGoes, Phases
      <4> QED
        BY <1>2, <2>1, <3>2, <4>2 DEF Gate!Ready
    <3> QED
      BY <3>1, <3>2
  <2> QED
    BY <2>2 DEF Gate!GateWorker
<1>7. CASE WakeAtStart(w)
  <2>1. /\ pc[w] = "startgate" /\ pc' = [pc EXCEPT ![w] = GateLeadsTo]
        /\ failure' = failure
    BY <1>7 DEF WakeAtStart, MoveTo
  <2>2. CASE failure
    <3>1. pc' = [pc EXCEPT ![w] = "failed"]
      BY <2>1, <2>2 DEF GateLeadsTo
    <3>2. Gate!Go(w, "gate", "failed")
      BY <1>1, <2>1, <3>1, GateGoes, Phases
    <3>3. Gate!GiveUp(w)
      BY <1>2, <2>1, <2>2, <3>2 DEF Gate!GiveUp
    <3> QED
      BY <3>3 DEF Gate!GateWorker
  <2>3. CASE ~failure
    <3>1. PICK loc \in {"origin", "startgate"} : pc' = [pc EXCEPT ![w] = loc]
      BY <2>1, <2>3 DEF GateLeadsTo
    <3>2. Phase(loc) = Phase(pc[w])
      BY <2>1, <3>1, Phases
    <3> QED
      BY <1>3, <2>1, <3>1, <3>2
  <2> QED
    BY <2>2, <2>3
<1>8. CASE ReadOrigin(w)
  <2>1. start /\ run_origin
    BY <1>8 DEF ReadOrigin, GatesInv, FlagsFollowMain
  <2>2. /\ pc[w] = "origin" /\ pc' = [pc EXCEPT ![w] = "run"]
        /\ failure' = failure
    BY <1>8, <2>1 DEF ReadOrigin, MoveTo, startVars
  <2>3. Gate!Go(w, "gate", "run")
    BY <1>1, <2>2, GateGoes, Phases
  <2>4. Gate!Begin(w)
    BY <1>2, <2>1, <2>2, <2>3 DEF Gate!Begin
  <2> QED
    BY <2>4 DEF Gate!GateWorker
<1>9. CASE RunOp(w)
  <2>1. PhaseOf' = PhaseOf /\ failure' = failure
    BY <1>9 DEF RunOp, PhaseOf, startVars
  <2> QED
    BY <1>2, <2>1, GateStutters
<1>10. CASE OpFails(w)
  <2>1. /\ pc[w] = "run" /\ pc' = [pc EXCEPT ![w] = "failed"]
        /\ failure' = failure
    BY <1>10 DEF OpFails, MoveTo, startVars
  <2>2. Gate!Go(w, "run", "failed")
    BY <1>1, <2>1, GateGoes, Phases
  <2> QED
    BY <1>2, <2>1, <2>2 DEF Gate!OpFailed, Gate!GateWorker
<1>11. CASE ReturnResults(w)
  <2>1. /\ pc[w] = "run" /\ pc' = [pc EXCEPT ![w] = "done"]
        /\ failure' = failure /\ ~with_prepare
    BY <1>11 DEF ReturnResults, MoveTo, startVars
  <2>2. Gate!Go(w, "run", "done")
    BY <1>1, <2>1, GateGoes, Phases
  <2>3. Gate!Finished(w)
    BY <1>2, <2>1, <2>2 DEF Gate!Finished
  <2> QED
    BY <2>3 DEF Gate!GateWorker
<1>12. CASE FinishRun(w)
  <2>1. /\ pc[w] = "run" /\ pc' = [pc EXCEPT ![w] = FinishLeadsTo]
        /\ failure' = failure /\ with_prepare
    BY <1>12 DEF FinishRun, MoveTo, startVars
  <2>2. Gate!Finished(w)
    <3>1. CASE release_workers
      <4>1. Gate!Go(w, "run", "done")
        BY <1>1, <2>1, <3>1, GateGoes, Phases DEF FinishLeadsTo
      <4> QED
        BY <1>2, <2>1, <3>1, <4>1 DEF Gate!Finished
    <3>2. CASE ~release_workers
      <4>1. Gate!Go(w, "run", "finish")
        BY <1>1, <2>1, <3>2, GateGoes, Phases DEF FinishLeadsTo
      <4> QED
        BY <1>2, <2>1, <3>2, <4>1 DEF Gate!Finished
    <3> QED
      BY <3>1, <3>2
  <2> QED
    BY <2>2 DEF Gate!GateWorker
<1>13. CASE WakeAtFinish(w)
  <2>1. /\ pc[w] = "finishgate" /\ pc' = [pc EXCEPT ![w] = FinishLeadsTo]
        /\ failure' = failure
    BY <1>13 DEF WakeAtFinish, MoveTo, startVars
  <2>2. CASE release_workers
    <3>1. Gate!Go(w, "finish", "done")
      BY <1>1, <2>1, <2>2, GateGoes, Phases DEF FinishLeadsTo
    <3>2. Gate!Leave(w)
      BY <1>2, <2>1, <2>2, <3>1 DEF Gate!Leave
    <3> QED
      BY <3>2 DEF Gate!GateWorker
  <2>3. CASE ~release_workers
    BY <1>3, <2>1, <2>3 DEF FinishLeadsTo
  <2> QED
    BY <2>2, <2>3
<1> QED
  BY <1>4, <1>5, <1>6, <1>7, <1>8, <1>9, <1>10, <1>11, <1>12, <1>13 DEF Worker

\* A gate that main finds full has all workers at it.
LEMMA StartGateFull ==
    ASSUME GatesInv, main = "gate", GateOpens, ~failure
    PROVE  \A w \in Workers : pc[w] = "startgate"
<1>1. PICK a \in Nat : a = ready_workers /\ a <= Cardinality(Arrived)
  BY DEF GatesInv, BenchType, ArrivalsCounted
<1>2. Arrived = Workers
  <2>1. Arrived \subseteq Workers
    BY DEF Arrived
  <2>2. a >= NumWorkers
    BY <1>1 DEF GateOpens
  <2>3. PICK n \in Nat : n = Cardinality(Arrived)
    BY <2>1, AllCounted
  <2>4. n >= NumWorkers
    BY <1>1, <2>2, <2>3, SomeWorkers
  <2> QED
    BY <2>1, <2>3, <2>4, AllCounted
<1> QED
  BY <1>2 DEF Arrived, GatesInv, FailuresKnown

LEMMA FinishGateFull ==
    ASSUME GatesInv, main = "finish", finished_workers >= NumWorkers
    PROVE  \A w \in Workers : pc[w] = "finishgate"
<1>1. PICK f \in Nat : f = finished_workers /\ f <= Cardinality(Through)
  BY DEF GatesInv, BenchType, FinishesCounted
<1>2. Through = Workers
  <2>1. Through \subseteq Workers
    BY DEF Through
  <2>2. PICK n \in Nat : n = Cardinality(Through)
    BY <2>1, AllCounted
  <2>3. n >= NumWorkers
    BY <1>1, <2>2, SomeWorkers
  <2> QED
    BY <2>1, <2>2, <2>3, AllCounted
<1>3. with_prepare /\ ~release_workers
  BY DEF GatesInv, FlagsFollowMain
<1> QED
  BY <1>2, <1>3 DEF Through, GatesInv, LeftReleased

LEMMA MainImplements ==
    ASSUME GatesInv, Main
    PROVE  Gate!GateMain \/ UNCHANGED Gate!gateVars
<1>1. PhaseOf' = PhaseOf /\ UNCHANGED <<with_prepare, failure>>
  BY DEF Main, WaitForReady, OpenGate, UsageFailsAtGate, WaitForFinished,
         ReleaseWorkers, JoinOk, JoinFailed, Finish, startVars, workerVars,
         PhaseOf
<1>2. \A w \in Workers : PhaseOf[w] = Phase(pc[w])
  BY DEF PhaseOf
<1>3. CASE WaitForReady \/ WaitForFinished
  <2>1. UNCHANGED <<start, release_workers, main, joined>>
    BY <1>3 DEF WaitForReady, WaitForFinished, startVars, finishVars, mainVars
  <2> QED
    BY <1>1, <2>1, GateStutters
<1>4. CASE OpenGate \/ UsageFailsAtGate
  <2>1. /\ main = "gate" /\ GateOpens
        /\ UNCHANGED <<release_workers, joined>>
    BY <1>4 DEF OpenGate, UsageFailsAtGate, finishVars
  <2>2. failure \/ \A w \in Gate!Crew : PhaseOf[w] = "gate"
    BY <1>2, <2>1, StartGateFull, CrewIsWorkers, Phases
  <2>3. \/ /\ start' = ~failure
           /\ main' = IF failure \/ (release_workers \/ ~with_prepare)
                      THEN "join" ELSE "finish"
        \/ main' = "error" /\ UNCHANGED start
    <3>1. ~release_workers
      BY <2>1 DEF GatesInv, FlagsFollowMain
    <3>2. CASE OpenGate
      <4>1. CASE with_prepare /\ ~failure
        BY <3>1, <3>2, <4>1 DEF OpenGate
      <4>2. CASE ~(with_prepare /\ ~failure)
        BY <3>1, <3>2, <4>2 DEF OpenGate
      <4> QED
        BY <4>1, <4>2
    <3>3. CASE UsageFailsAtGate
      BY <3>3 DEF UsageFailsAtGate, startVars
    <3> QED
      BY <1>4, <3>2, <3>3
  <2>4. Gate!OpenStart
    BY <1>1, <2>1, <2>2, <2>3 DEF Gate!OpenStart, PhaseOf
  <2> QED
    BY <2>4 DEF Gate!GateMain
<1>5. CASE ReleaseWorkers
  <2>1. \A w \in Gate!Crew : PhaseOf[w] = "finish"
    BY <1>2, <1>5, FinishGateFull, CrewIsWorkers, Phases DEF ReleaseWorkers
  <2>2. Gate!OpenFinish
    BY <1>1, <1>5, <2>1 DEF ReleaseWorkers, startVars, Gate!OpenFinish, PhaseOf
  <2> QED
    BY <2>2 DEF Gate!GateMain
<1>6. CASE JoinOk \/ JoinFailed
  <2>1. /\ main = "join" /\ joined < NumWorkers
        /\ UNCHANGED <<start, release_workers>>
    BY <1>6 DEF JoinOk, JoinFailed, startVars, finishVars
  <2>2. PhaseOf[joined] = Phase(pc[joined])
    BY <1>2, <2>1, SomeWorkers DEF GatesInv, BenchType, Workers
  <2>3. CASE JoinOk
    <3>1. /\ PhaseOf[joined] = "done" /\ joined' = joined + 1
          /\ UNCHANGED main
      BY <2>2, <2>3, Phases DEF JoinOk
    <3> QED
      BY <1>1, <2>1, <3>1 DEF Gate!Join, Gate!GateMain, PhaseOf
  <2>4. CASE JoinFailed
    <3>1. /\ PhaseOf[joined] = "failed" /\ main' = "error"
          /\ UNCHANGED joined
      BY <2>2, <2>4, Phases DEF JoinFailed
    <3> QED
      BY <1>1, <2>1, <3>1 DEF Gate!Join, Gate!GateMain, PhaseOf
  <2> QED
    BY <1>6, <2>3, <2>4
<1>7. CASE Finish
  <2>1. /\ main = "join" /\ joined = NumWorkers
        /\ UNCHANGED <<start, release_workers, joined>>
    BY <1>7 DEF Finish, startVars, finishVars
  <2>2. main' \in {"error"} \cup (IF start THEN {"ok"} ELSE {})
    BY <1>7 DEF Finish
  <2> QED
    BY <1>1, <2>1, <2>2 DEF Gate!Report, Gate!GateMain, PhaseOf
<1> QED
  BY <1>3, <1>4, <1>5, <1>6, <1>7 DEF Main

(***************************************************************************)
(* For any number of operations and threads, with and without preparation, *)
(* every run of run_external and run_external_with_prepare (ops/mod.rs) is *)
(* a run of WorkerGate: what PreparedRun builds upon is what the mutexes   *)
(* and condition variables give.                                           *)
(***************************************************************************)
THEOREM DriverImplementsGate == Spec => ImplementsGate
<1>1. Init => Gate!GateInit
  <2> SUFFICES ASSUME Init PROVE Gate!GateInit
    OBVIOUS
  <2>1. [w \in Workers |-> Phase(pc[w])] = [w \in Gate!Crew |-> "prepare"]
    BY Phases, CrewIsWorkers DEF Init
  <2>2. (release_workers \/ ~with_prepare) \in BOOLEAN
    BY DEF Init
  <2> QED
    BY <2>1, <2>2 DEF Init, Gate!GateInit
<1>2. GatesInv /\ [Next]_vars =>
         [Gate!GateMain \/ \E w \in Gate!Crew : Gate!GateWorker(w)]_(Gate!gateVars)
  <2> SUFFICES ASSUME GatesInv, [Next]_vars
               PROVE  \/ Gate!GateMain
                      \/ \E w \in Gate!Crew : Gate!GateWorker(w)
                      \/ UNCHANGED Gate!gateVars
    OBVIOUS
  <2>1. ASSUME UNCHANGED awakeVars
        PROVE  UNCHANGED Gate!gateVars
    <3>1. PhaseOf' = PhaseOf
      BY <2>1 DEF awakeVars, PhaseOf
    <3> QED
      BY <2>1, <3>1, GateStutters DEF awakeVars, mainVars
  <2> QED
    BY <2>1, StepKinds, WorkerImplements, MainImplements, CrewIsWorkers
<1> QED
  BY <1>1, <1>2, GatesInitially, GatesStep, PTL
     DEF Spec, ImplementsGate, Gate!GateSpec

-----------------------------------------------------------------------------
(***************************************************************************)
(* The rows.                                                               *)
(***************************************************************************)

\* The ids below o, followed by those from o on.
LEMMA ConcatIds ==
    ASSUME NEW o \in Nat, NEW c \in Nat, NEW r \in Seq(Nat), Len(r) = c,
           \A i \in 1..c : r[i] = o + (i - 1)
    PROVE  [i \in 1..o |-> i - 1] \o r = [i \in 1..(o + c) |-> i - 1]
<1> DEFINE low == [i \in 1..o |-> i - 1]
           all == [i \in 1..(o + c) |-> i - 1]
<1>1. low \in Seq(Nat) /\ Len(low) = o /\ all \in Seq(Nat) /\ Len(all) = o + c
  OBVIOUS
<1>2. /\ low \o r \in Seq(Nat) /\ Len(low \o r) = o + c
      /\ \A i \in 1..(o + c) : (low \o r)[i] = IF i <= o THEN low[i] ELSE r[i - o]
  <2>1. ASSUME NEW f \in Seq(Nat), Len(f) = o
        PROVE  /\ f \o r \in Seq(Nat) /\ Len(f \o r) = o + c
               /\ \A i \in 1..(o + c) : (f \o r)[i] = IF i <= o THEN f[i] ELSE r[i - o]
    BY <2>1, ConcatProperties
  <2> HIDE DEF low
  <2> QED
    BY <1>1, <2>1
<1>3. ASSUME NEW i \in 1..(o + c)
      PROVE  (low \o r)[i] = all[i]
  <2>1. CASE i <= o
    BY <1>2, <2>1
  <2>2. CASE i > o
    <3>1. i - o \in 1..c /\ r[i - o] = o + ((i - o) - 1)
      BY <2>2
    <3> QED
      BY <1>2, <2>2, <3>1
  <2> QED
    BY <2>1, <2>2
<1> HIDE DEF low, all
<1>4. low \o r = all
  BY <1>1, <1>2, <1>3, SeqEqual
<1> QED
  BY <1>4 DEF low, all

LEMMA RowsInitially == Init => OwnIds /\ RowsInOrder
<1> SUFFICES ASSUME Init PROVE OwnIds /\ RowsInOrder
  OBVIOUS
<1>1. pc \in [Workers -> {"prepare", "arrive"}]
  BY DEF Init
<1>2. OwnIds
  <2>1. results \in [Workers -> Seq(Nat)] /\ \A w \in Workers : Len(results[w]) = 0
    BY DEF Init
  <2>2. ASSUME NEW w \in Workers
        PROVE  /\ Len(results[w]) <= Count(w) /\ 1..Len(results[w]) = {}
               /\ pc[w] \notin {"finishgate", "done"}
    <3>1. Len(results[w]) = 0 /\ Count(w) \in Nat
      BY <2>1, SharesAdjacent
    <3> QED
      BY <1>1, <3>1
  <2> QED
    BY <2>1, <2>2 DEF OwnIds
<1>3. RowsInOrder
  <2>1. Offset(joined) = 0 /\ joined = 0 /\ all_results = <<>>
    BY SharesAdjacent DEF Init
  <2>2. [i \in 1..0 |-> i - 1] = <<>>
    OBVIOUS
  <2> QED
    BY <2>1, <2>2 DEF RowsInOrder
<1> QED
  BY <1>2, <1>3

LEMMA OwnIdsWorkerStep ==
    ASSUME GatesInv, OwnIds, NEW w \in Workers, Worker(w)
    PROVE  OwnIds'
<1>1. PICK loc : MayMove(pc[w], loc) /\ pc' = [pc EXCEPT ![w] = loc]
  BY WorkerMoves
<1>2. Count(w) \in Nat /\ Offset(w) \in Nat
  BY SharesAdjacent
<1>3. CASE RunOp(w)
  <2>1. PICK n \in Nat : n = Len(results[w]) /\ n < Count(w) /\ results[w] \in Seq(Nat)
    BY <1>3 DEF RunOp, OwnIds
  <2>2. results' = [results EXCEPT ![w] = Append(results[w], Offset(w) + n)]
    BY <1>3, <2>1 DEF RunOp
  <2>3. /\ Append(results[w], Offset(w) + n) \in Seq(Nat)
        /\ Len(Append(results[w], Offset(w) + n)) = n + 1
        /\ \A i \in 1..n : Append(results[w], Offset(w) + n)[i] = results[w][i]
        /\ Append(results[w], Offset(w) + n)[n + 1] = Offset(w) + n
    BY <1>2, <2>1, AppendProperties
  <2>4. results' \in [Workers -> Seq(Nat)]
    BY <2>2, <2>3 DEF OwnIds
  <2>5. ASSUME NEW u \in Workers
        PROVE  /\ Len(results'[u]) <= Count(u)
               /\ \A i \in 1..Len(results'[u]) : results'[u][i] = Offset(u) + (i - 1)
               /\ pc'[u] \in {"finishgate", "done"} => Len(results'[u]) = Count(u)
    <3>1. pc' = pc /\ pc[w] = "run"
      BY <1>3 DEF RunOp
    <3>2. CASE u = w
      <4>1. results'[u] = Append(results[w], Offset(w) + n)
        BY <2>2, <3>2 DEF OwnIds
      <4>2. ASSUME NEW i \in 1..(n + 1)
            PROVE  results'[u][i] = Offset(w) + (i - 1)
        <5>1. CASE i = n + 1
          BY <1>2, <2>3, <4>1, <5>1
        <5>2. CASE i \in 1..n
          <6>1. results[w][i] = Offset(w) + (i - 1)
            BY <2>1, <5>2 DEF OwnIds
          <6> QED
            BY <2>3, <4>1, <5>2, <6>1
        <5> QED
          BY <5>1, <5>2
      <4>3. Len(results'[u]) = n + 1 /\ n + 1 <= Count(w)
        BY <1>2, <2>1, <2>3, <4>1
      <4>4. pc'[u] = "run"
        BY <3>1, <3>2
      <4> QED
        BY <3>2, <4>2, <4>3, <4>4
    <3>3. CASE u # w
      BY <2>2, <3>1, <3>3 DEF OwnIds
    <3> QED
      BY <3>2, <3>3
  <2> QED
    BY <2>4, <2>5 DEF OwnIds
<1>4. CASE ~RunOp(w)
  <2>1. results' = results
    BY <1>4 DEF Worker, PrepareOk, PrepareFails, Arrive, WakeAtStart, ReadOrigin,
       OpFails, ReturnResults, FinishRun, WakeAtFinish
  <2>2. ASSUME loc \in {"finishgate", "done"}
        PROVE  Len(results[w]) = Count(w)
    <3>1. \/ pc[w] = "finishgate"
          \/ Len(results[w]) = Count(w)
          \/ pc'[w] \notin {"finishgate", "done"}
      BY <1>1, <1>4 DEF Worker, PrepareOk, PrepareFails, Arrive, WakeAtStart,
         ReadOrigin, OpFails, ReturnResults, FinishRun, WakeAtFinish, MoveTo,
         GateLeadsTo, GatesInv, BenchType
    <3>2. pc'[w] = loc
      BY <1>1 DEF GatesInv, BenchType
    <3> QED
      BY <2>2, <3>1, <3>2 DEF OwnIds
  <2> QED
    BY <1>1, <2>1, <2>2 DEF OwnIds, GatesInv, BenchType
<1> QED
  BY <1>3, <1>4

LEMMA RowsStep ==
    GatesInv /\ OwnIds /\ RowsInOrder /\ [Next]_vars => (OwnIds /\ RowsInOrder)'
<1> SUFFICES ASSUME GatesInv, OwnIds, RowsInOrder, [Next]_vars
             PROVE  OwnIds' /\ RowsInOrder'
  OBVIOUS
<1>1. ASSUME NEW w \in Workers, Worker(w)
      PROVE  OwnIds' /\ RowsInOrder'
  <2>1. PICK loc : MayMove(pc[w], loc) /\ pc' = [pc EXCEPT ![w] = loc]
    BY <1>1, WorkerMoves
  <2>2. UNCHANGED <<joined, all_results>>
    BY <1>1, WorkerMoves DEF mainVars
  <2>3. ASSUME NEW u \in 0..(joined - 1)
        PROVE  pc'[u] = "done"
    <3>1. pc[u] = "done" /\ u # w
      BY <2>1 DEF RowsInOrder, MayMove
    <3>2. u \in Workers
      BY SomeWorkers DEF GatesInv, BenchType, Workers
    <3> QED
      BY <2>1, <3>1, <3>2 DEF GatesInv, BenchType
  <2> QED
    BY <1>1, <2>2, <2>3, OwnIdsWorkerStep DEF RowsInOrder
<1>2. CASE Main
  <2>1. UNCHANGED <<pc, results>>
    BY <1>2 DEF Main, WaitForReady, OpenGate, UsageFailsAtGate, WaitForFinished,
       ReleaseWorkers, JoinOk, JoinFailed, Finish, workerVars
  <2>2. OwnIds'
    BY <2>1 DEF OwnIds
  <2>3. CASE JoinOk
    <3>1. joined \in Workers /\ joined' = joined + 1 /\ pc[joined] = "done"
      BY <2>3, SomeWorkers DEF JoinOk, GatesInv, BenchType, Workers
    <3>2. PICK o \in Nat, c \in Nat :
             o = Offset(joined) /\ c = Count(joined) /\ Offset(joined + 1) = o + c
      BY <3>1, SharesAdjacent
    <3>3. /\ results[joined] \in Seq(Nat) /\ Len(results[joined]) = c
          /\ \A i \in 1..c : results[joined][i] = o + (i - 1)
      BY <3>1, <3>2 DEF OwnIds
    <3>4. all_results' = [i \in 1..o |-> i - 1] \o results[joined]
      BY <2>3, <3>2 DEF JoinOk, RowsInOrder
    <3>5. all_results' = [i \in 1..(o + c) |-> i - 1]
      BY <3>3, <3>4, ConcatIds
    <3>6. Offset(joined') = o + c
      BY <3>1, <3>2
    <3>7. \A u \in 0..(joined' - 1) : pc'[u] = "done"
      BY <2>1, <3>1, SomeWorkers DEF RowsInOrder, Workers
    <3> QED
      BY <2>2, <3>5, <3>6, <3>7 DEF RowsInOrder
  <2>4. CASE ~JoinOk
    <3>1. UNCHANGED <<joined, all_results>>
      BY <1>2, <2>4 DEF Main, WaitForReady, OpenGate, UsageFailsAtGate,
         WaitForFinished, ReleaseWorkers, JoinFailed, Finish, mainVars
    <3> QED
      BY <2>1, <2>2, <3>1 DEF RowsInOrder
  <2> QED
    BY <2>3, <2>4
<1>3. ASSUME UNCHANGED awakeVars
      PROVE  OwnIds' /\ RowsInOrder'
  BY <1>3 DEF awakeVars, mainVars, OwnIds, RowsInOrder
<1> QED
  BY <1>1, <1>2, <1>3, StepKinds

(***************************************************************************)
(* For any number of operations and threads the driver keeps its           *)
(* bookkeeping (ops/mod.rs): counts never run ahead of the workers at the  *)
(* gates, flags follow main, and ids stay in their worker's share.         *)
(***************************************************************************)
THEOREM BenchInductive == Spec => []BenchInv
<1>1. Init => BenchInv
  BY GatesInitially, RowsInitially DEF BenchInv
<1>2. BenchInv /\ [Next]_vars => BenchInv'
  BY GatesStep, RowsStep DEF BenchInv
<1> QED
  BY <1>1, <1>2, PTL DEF Spec

(***************************************************************************)
(* For any number of operations and threads, a run that reports success    *)
(* (ops/mod.rs) has one row for every operation, in order, and no worker   *)
(* failed: iteration_offset and iteration_count share out 0..total-1.      *)
(***************************************************************************)
THEOREM EveryOperationMeasured == Spec => []ResultsComplete
<1>1. BenchInv => ResultsComplete
  <2> SUFFICES ASSUME BenchInv, main = "ok"
               PROVE  /\ all_results = [i \in 1..Total |-> i - 1]
                      /\ \A w \in Workers : pc[w] = "done"
    BY DEF ResultsComplete
  <2>1. joined = NumWorkers
    BY DEF BenchInv, GatesInv, FlagsFollowMain
  <2> QED
    BY <2>1, SharesAdjacent DEF BenchInv, RowsInOrder, Workers
<1> QED
  BY <1>1, BenchInductive, PTL

-----------------------------------------------------------------------------
(***************************************************************************)
(* The networks of netns_step_shell and netns_full_shell (NetnsShell).  At *)
(* first the inductive invariant.                                          *)
(***************************************************************************)
ShellPlaces == {"none", "begin", "stage", "barrier", "wait", "cleanup", "done"}
Active(t) == at[t] \notin {"none", "begin", "done"}

ShellTyped ==
    /\ step_shell \in BOOLEAN
    /\ main_at \in {"detect", "spawn", "join", "ok", "error"}
    /\ next_seq \in Nat /\ spawned \in Nat /\ joins \in Nat
    /\ at \in [Workers -> ShellPlaces]
    /\ stage \in [Workers -> Nat] /\ seq \in [Workers -> Nat]
    /\ count \in Nat /\ generation \in Nat /\ seen \in [Workers -> Nat]
    /\ DOMAIN made = Instances

\* How far main has come with the threads of the batch.
BatchFits ==
    /\ step_shell => next_seq < Total
    /\ joins <= spawned /\ spawned <= batch_size
    /\ main_at = "detect" => spawned = 0
    /\ main_at = "spawn" => spawned < batch_size /\ joins = 0
    /\ main_at = "join" => spawned = batch_size
    /\ \A t \in Workers : t >= spawned => at[t] \in {"none", "done"}
    /\ \A t \in Workers : t < joins => at[t] = "done"
    /\ \A t \in Workers :
          IF step_shell THEN at[t] # "begin" ELSE at[t] \notin {"barrier", "wait"}

\* The barrier has opened once for each stage that is over; count is the
\* number of threads that wait for it to open again.
Waiting == {t \in Workers : at[t] = "wait" /\ seen[t] = generation}
BarrierFits ==
    step_shell =>
        /\ count = Cardinality(Waiting) /\ count < batch_size
        /\ generation > 0 => spawned = batch_size
        /\ \A t \in Workers :
              /\ at[t] \in {"stage", "barrier", "wait"} => stage[t] <= 13
              /\ at[t] \in {"stage", "barrier"} => stage[t] = generation + 1
              /\ at[t] = "wait" =>
                    \/ seen[t] = generation /\ stage[t] = generation + 1
                    \/ seen[t] + 1 = generation /\ stage[t] = generation
              /\ at[t] = "cleanup" => generation = 13

\* A network is the business of one thread, from its first command to its
\* last, and the commands of a clean-up leave nothing together.
OneOwner ==
    /\ \A t \in Workers : Active(t) =>
          IF step_shell THEN seq[t] = next_seq + t ELSE seq[t] < next_seq
    /\ \A t, u \in Workers :
          Active(t) /\ Active(u) /\ seq[t] = seq[u] => t = u
    /\ \A i \in Instances \ ignored :
          made[i] # {} => \E t \in Workers : Active(t) /\ seq[t] = i
    /\ \A t \in Workers :
          at[t] = "cleanup" /\ seq[t] \in Instances \ ignored =>
              /\ stage[t] >= 2 => "host_nat" \notin made[seq[t]]
              /\ stage[t] >= 4 => made[seq[t]] = {}

ShellInv == ShellTyped /\ BatchFits /\ BarrierFits /\ OneOwner

LEMMA ShellIs ==
    /\ NumWorkers \in Nat \ {0}
    /\ NumWorkers = IF Concurrency < Total THEN Concurrency ELSE Total
    /\ Len(STAGES) = 13 /\ Len(cleanup) = 3
    /\ cleanup[1] = "delete_host_nat" /\ cleanup[2] = "link_del"
    /\ cleanup[3] = "netns_del"
<1>1. /\ NumWorkers \in Nat \ {0}
      /\ NumWorkers = IF Concurrency < Total THEN Concurrency ELSE Total
    BY RunConfig DEF NumWorkers, worker_count
<1> QED BY <1>1 DEF STAGES, cleanup

LEMMA WorkersCounted ==
    ASSUME NEW n \in 0..NumWorkers
    PROVE  /\ 0..(n - 1) \subseteq Workers /\ IsFiniteSet(Workers)
           /\ IsFiniteSet(0..(n - 1)) /\ Cardinality(0..(n - 1)) = n
<1>1. n \in Int /\ 0 \in Int /\ n - 1 \in Int /\ NumWorkers - 1 \in Int /\ n >= 0
    BY ShellIs
<1>2. IsFiniteSet(0..(NumWorkers - 1)) /\ IsFiniteSet(0..(n - 1))
    BY <1>1, FS_Interval
<1>3. Cardinality(0..(n - 1)) = IF 0 > n - 1 THEN 0 ELSE (n - 1) - 0 + 1
    BY <1>1, FS_Interval
<1> QED BY <1>1, <1>2, <1>3, ShellIs DEF Workers

\* A batch is not empty and has no more threads than there are workers.
LEMMA BatchSize ==
    ASSUME ShellTyped, step_shell => next_seq < Total
    PROVE  /\ batch_size \in 1..NumWorkers
           /\ step_shell => next_seq + batch_size <= Total
<1>2. CASE step_shell
    <2>1. next_seq \in Nat /\ next_seq < Total
        BY <1>2 DEF ShellTyped
    <2>2. batch_size = IF Concurrency < Total - next_seq
                             THEN Concurrency ELSE Total - next_seq
        BY <1>2 DEF batch_size
    <2> QED BY <2>1, <2>2, ShellIs, RunConfig
<1>3. CASE ~step_shell
    <2>1. batch_size = NumWorkers
        BY <1>3 DEF batch_size
    <2> QED BY <1>3, <2>1, ShellIs
<1> QED BY <1>2, <1>3

LEMMA ShellInitially == ShellInit => ShellInv
<1> SUFFICES ASSUME ShellInit PROVE ShellInv
    OBVIOUS
<1>1. ShellTyped
    BY ShellIs, RunConfig DEF ShellInit, ShellTyped, ShellPlaces, None
<1>2. step_shell => next_seq < Total
    BY RunConfig DEF ShellInit
<1>3. BatchFits
    <2>1. /\ spawned = 0 /\ joins = 0 /\ main_at = "detect"
          /\ \A t \in Workers : at[t] = "none" /\ ~(t < 0)
        BY ShellIs DEF ShellInit, Workers
    <2> QED BY <1>1, <1>2, <2>1, BatchSize DEF BatchFits
<1>4. Waiting = {}
    BY ShellIs DEF ShellInit, Waiting
<1>5. BarrierFits
    BY <1>1, <1>2, <1>4, BatchSize, ShellIs, FS_EmptySet
    DEF ShellInit, BarrierFits
<1>6. OneOwner
    BY ShellIs DEF ShellInit, OneOwner, Active
<1> QED BY <1>1, <1>3, <1>5, <1>6 DEF ShellInv

-----------------------------------------------------------------------------
(***************************************************************************)
(* What a step of one thread leaves true.                                  *)
(***************************************************************************)
LEMMA BatchKept ==
    ASSUME ShellInv, NEW t \in Workers, at[t] \notin {"none", "done"}, NEW p,
           at' = [at EXCEPT ![t] = p],
           IF step_shell THEN p # "begin" ELSE p \notin {"barrier", "wait"},
           UNCHANGED <<step_shell, main_at, spawned, joins>>,
           next_seq' = next_seq \/ ~step_shell
    PROVE  BatchFits'
<1>1. batch_size' = batch_size
    BY DEF batch_size
<1>2. \A u \in Workers : at'[u] = IF u = t THEN p ELSE at[u]
    BY DEF ShellInv, ShellTyped
<1>3. t < spawned /\ ~(t < joins)
    BY DEF ShellInv, ShellTyped, BatchFits, Workers
<1> QED BY <1>1, <1>2, <1>3 DEF ShellInv, BatchFits, Workers

\* A thread goes on with its network, or has left nothing of it.
LEMMA OwnerKept ==
    ASSUME ShellInv, NEW t \in Workers, Active(t), NEW p,
           at' = [at EXCEPT ![t] = p], UNCHANGED <<step_shell, seq, next_seq>>,
           \A u \in Workers : u # t => stage'[u] = stage[u],
           ignored \subseteq ignored',
           \A i \in Instances : i # seq[t] => made'[i] = made[i],
           \/ p \notin {"none", "begin", "done"}
           \/ seq[t] \in Instances \ ignored' => made'[seq[t]] = {},
           p = "cleanup" /\ seq[t] \in Instances \ ignored' =>
               /\ stage'[t] >= 2 => "host_nat" \notin made'[seq[t]]
               /\ stage'[t] >= 4 => made'[seq[t]] = {}
    PROVE  OneOwner'
<1>1. \A u \in Workers : at'[u] = IF u = t THEN p ELSE at[u]
    BY DEF ShellInv, ShellTyped
<1>2. \A u \in Workers : Active(u)' => Active(u)
    BY <1>1 DEF Active
<1>3. \A u \in Workers : Active(u)' =>
          IF step_shell' THEN seq'[u] = next_seq' + u ELSE seq'[u] < next_seq'
    BY <1>2 DEF ShellInv, OneOwner
<1>4. \A u, v \in Workers :
          Active(u)' /\ Active(v)' /\ seq'[u] = seq'[v] => u = v
    BY <1>2 DEF ShellInv, OneOwner
<1>5. ASSUME NEW i \in Instances \ ignored', made'[i] # {}
      PROVE  \E u \in Workers : Active(u)' /\ seq'[u] = i
    <2>1. CASE i = seq[t]
        BY <1>1, <1>5, <2>1 DEF Active
    <2>2. CASE i # seq[t]
        <3>1. PICK u \in Workers : Active(u) /\ seq[u] = i
            BY <1>5, <2>2 DEF ShellInv, OneOwner
        <3> QED BY <1>1, <2>2, <3>1 DEF Active
    <2> QED BY <2>1, <2>2
<1>6. ASSUME NEW u \in Workers, at'[u] = "cleanup",
             seq'[u] \in Instances \ ignored'
      PROVE  /\ stage'[u] >= 2 => "host_nat" \notin made'[seq'[u]]
             /\ stage'[u] >= 4 => made'[seq'[u]] = {}
    <2>1. CASE u = t
        BY <1>1, <1>6, <2>1
    <2>2. CASE u # t
        <3>1. at[u] = "cleanup" /\ seq[u] # seq[t]
            BY <1>1, <1>6, <2>2 DEF ShellInv, OneOwner, Active
        <3> QED BY <1>6, <2>2, <3>1 DEF ShellInv, OneOwner
    <2> QED BY <2>1, <2>2
<1> QED BY <1>3, <1>4, <1>5, <1>6 DEF OneOwner

\* A step that is not of the barrier.
LEMMA BarrierKept ==
    ASSUME ShellInv, NEW t \in Workers, at[t] # "wait", NEW p,
           at' = [at EXCEPT ![t] = p], p # "wait",
           UNCHANGED <<step_shell, spawned, count, generation, seen>>,
           next_seq' = next_seq \/ ~step_shell,
           \A u \in Workers : u # t => stage'[u] = stage[u],
           step_shell /\ p \in {"stage", "barrier"} =>
               stage'[t] = generation + 1 /\ stage'[t] <= 13,
           step_shell /\ p = "cleanup" => generation = 13
    PROVE  BarrierFits'
<1> SUFFICES ASSUME step_shell PROVE BarrierFits'
    BY DEF BarrierFits
<1>1. batch_size' = batch_size
    BY DEF batch_size
<1>2. \A u \in Workers : at'[u] = IF u = t THEN p ELSE at[u]
    BY DEF ShellInv, ShellTyped
<1>3. Waiting' = Waiting
    BY <1>2 DEF Waiting
<1> QED BY <1>1, <1>2, <1>3 DEF ShellInv, BarrierFits

LEMMA BeginOpStep ==
    ASSUME ShellInv, NEW t \in Workers, BeginOp(t) PROVE ShellInv'
<1>1. PICK p \in {"stage", "done"} : at' = [at EXCEPT ![t] = p]
    BY DEF BeginOp
<1>2. /\ at[t] = "begin" /\ next_seq' = next_seq + 1
      /\ seq' = [seq EXCEPT ![t] = next_seq]
      /\ stage' = [stage EXCEPT ![t] = 1]
      /\ UNCHANGED <<step_shell, main_at, spawned, joins, count, generation, seen,
                     made, ignored>>
    BY DEF BeginOp, batchVars, barrierVars
<1>3. ~step_shell /\ step_shell \in BOOLEAN
    BY <1>2 DEF ShellInv, ShellTyped, BatchFits
<1>4. ShellTyped'
    BY <1>1, <1>2 DEF ShellInv, ShellTyped, ShellPlaces
<1>5. BatchFits'
    BY <1>1, <1>2, <1>3, BatchKept
<1>6. BarrierFits'
    BY <1>2, <1>3 DEF BarrierFits
<1>7. OneOwner'
    <2>1. \A u \in Workers :
             /\ at'[u] = IF u = t THEN p ELSE at[u]
             /\ seq'[u] = IF u = t THEN next_seq ELSE seq[u]
             /\ u # t => stage'[u] = stage[u]
        BY <1>1, <1>2 DEF ShellInv, ShellTyped
    <2>2. \A u \in Workers : Active(u) => seq[u] < next_seq /\ u # t
        BY <1>2, <1>3 DEF ShellInv, OneOwner, Active
    <2>3. \A u \in Workers : u # t => (Active(u)' <=> Active(u))
        BY <2>1 DEF Active
    <2>4. \A u \in Workers : Active(u)' => seq'[u] < next_seq'
        BY <1>2, <2>1, <2>2, <2>3 DEF ShellInv, ShellTyped
    <2>5. ASSUME NEW u \in Workers, NEW v \in Workers, Active(u)', Active(v)',
                 seq'[u] = seq'[v]
          PROVE  u = v
        <3>1. CASE u # t /\ v # t
            BY <2>1, <2>3, <2>5, <3>1 DEF ShellInv, OneOwner
        <3>2. CASE u = t /\ v # t
            BY <2>1, <2>2, <2>3, <2>5, <3>2 DEF ShellInv, ShellTyped
        <3>3. CASE u # t /\ v = t
            BY <2>1, <2>2, <2>3, <2>5, <3>3 DEF ShellInv, ShellTyped
        <3> QED BY <3>1, <3>2, <3>3
    <2>6. ASSUME NEW i \in Instances \ ignored', made'[i] # {}
          PROVE  \E u \in Workers : Active(u)' /\ seq'[u] = i
        <3>1. PICK u \in Workers : Active(u) /\ seq[u] = i
            BY <1>2, <2>6 DEF ShellInv, OneOwner
        <3> QED BY <2>1, <2>2, <2>3, <3>1
    <2>7. ASSUME NEW u \in Workers, at'[u] = "cleanup",
                 seq'[u] \in Instances \ ignored'
          PROVE  /\ stage'[u] >= 2 => "host_nat" \notin made'[seq'[u]]
                 /\ stage'[u] >= 4 => made'[seq'[u]] = {}
        <3>1. u # t
            BY <2>1, <2>7
        <3> QED BY <1>2, <2>1, <2>7, <3>1 DEF ShellInv, OneOwner
    <2> QED BY <1>2, <1>3, <2>4, <2>5, <2>6, <2>7 DEF OneOwner
<1> QED BY <1>4, <1>5, <1>6, <1>7 DEF ShellInv

\* Whether its command worked or not, a thread goes on to the barrier, the
\* next stage or the clean-up.
LEMMA CommandStep ==
    ASSUME ShellInv, NEW t \in Workers, CommandOk(t) \/ CommandFails(t)
    PROVE  ShellInv'
<1>a. PICK failed \in BOOLEAN :
         /\ at' = [at EXCEPT ![t] = AfterCommand(t, failed)]
         /\ stage' = [stage EXCEPT ![t] = NextStage(t, failed)]
    BY DEF CommandOk, CommandFails
<1>b. PICK p, k : p = AfterCommand(t, failed) /\ k = NextStage(t, failed)
    OBVIOUS
<1>1. /\ at' = [at EXCEPT ![t] = p] /\ stage' = [stage EXCEPT ![t] = k]
      /\ step_shell => p = "barrier" /\ k = stage[t]
      /\ ~step_shell => \/ p = "cleanup" /\ k = 1
                        \/ p = "stage" /\ k = stage[t] + 1
    BY <1>a, <1>b DEF AfterCommand, NextStage
<1>c. \/ made' = made
      \/ made' = [made EXCEPT ![seq[t]] = @ \cup {STAGES[stage[t]]}]
    BY DEF CommandOk, CommandFails
<1>2. /\ at[t] = "stage"
      /\ UNCHANGED <<step_shell, next_seq, main_at, spawned, joins, seq, count,
                     generation, seen, ignored>>
    BY DEF CommandOk, CommandFails, batchVars,
        barrierVars
<1>3. step_shell \in BOOLEAN /\ stage[t] \in Nat
    BY DEF ShellInv, ShellTyped
<1>4. /\ p \in {"barrier", "cleanup", "stage"} /\ k \in Nat
      /\ \A u \in Workers : u # t => stage'[u] = stage[u]
      /\ stage'[t] = k /\ stage' \in [Workers -> Nat]
      /\ \A i \in Instances : i # seq[t] => made'[i] = made[i]
      /\ DOMAIN made' = DOMAIN made
    BY <1>1, <1>3, <1>c DEF ShellInv, ShellTyped
<1>5. ShellTyped'
    BY <1>1, <1>2, <1>4 DEF ShellInv, ShellTyped, ShellPlaces
<1>6. BatchFits'
    BY <1>1, <1>2, <1>3, BatchKept
<1>7. BarrierFits'
    <2>1. step_shell => stage[t] = generation + 1 /\ stage[t] <= 13
        BY <1>2 DEF ShellInv, BarrierFits
    <2> QED BY <1>1, <1>2, <1>3, <1>4, <2>1, BarrierKept
<1>8. OneOwner'
    <2>1. /\ Active(t) /\ p \notin {"none", "begin", "done"}
          /\ p = "cleanup" => ~(stage'[t] >= 2) /\ ~(stage'[t] >= 4)
        BY <1>1, <1>2, <1>3, <1>4 DEF Active
    <2> QED BY <1>1, <1>2, <1>4, <2>1, OwnerKept
<1> QED BY <1>5, <1>6, <1>7, <1>8 DEF ShellInv

\* The thread is counted, or opens the barrier for all of the batch.
LEMMA ArriveStep ==
    ASSUME ShellInv, NEW t \in Workers, ArriveAtBarrier(t)
    PROVE  ShellInv'
<1>1. /\ at[t] \in {"stage", "barrier"} /\ at' = [at EXCEPT ![t] = "wait"]
      /\ seen' = [seen EXCEPT ![t] = generation]
      /\ UNCHANGED <<step_shell, next_seq, main_at, spawned, joins, seq, stage,
                     made, ignored>>
      /\ IF count + 1 = batch_size
         THEN count' = 0 /\ generation' = generation + 1
         ELSE count' = count + 1 /\ UNCHANGED generation
    BY DEF ArriveAtBarrier, barrier_size, batchVars
<1>2. step_shell \in BOOLEAN /\ step_shell
    BY DEF ArriveAtBarrier, ShellInv, ShellTyped, BatchFits
<1>3. ShellTyped'
    BY <1>1 DEF ShellInv, ShellTyped, ShellPlaces
<1>4. BatchFits'
    BY <1>1, <1>2, BatchKept
<1>5. OneOwner'
    <2>1. Active(t)
        BY <1>1 DEF Active
    <2> QED BY <1>1, <2>1, OwnerKept
<1>6. BarrierFits'
    <2>1. /\ \A u \in Workers : at'[u] = IF u = t THEN "wait" ELSE at[u]
          /\ \A u \in Workers : seen'[u] = IF u = t THEN generation ELSE seen[u]
          /\ stage' = stage /\ batch_size' = batch_size
        BY <1>1 DEF ShellInv, ShellTyped, batch_size
    <2>2. /\ stage[t] = generation + 1 /\ stage[t] <= 13 /\ t \notin Waiting
          /\ count = Cardinality(Waiting) /\ count < batch_size
          /\ generation > 0 => spawned = batch_size
          /\ count \in Nat /\ generation \in Nat
        BY <1>1, <1>2 DEF ShellInv, ShellTyped, BarrierFits, Waiting
    <2>3. /\ batch_size \in 1..NumWorkers /\ spawned \in Nat
          /\ spawned <= batch_size
        BY BatchSize DEF ShellInv, ShellTyped, BatchFits
    <2>4. /\ IsFiniteSet(Waiting) /\ IsFiniteSet(Waiting \cup {t})
          /\ Cardinality(Waiting \cup {t}) = count + 1
        <3>1. IsFiniteSet(Workers) /\ Waiting \subseteq Workers
            BY WorkersCounted, ShellIs DEF Waiting
        <3>2. IsFiniteSet(Waiting)
            BY <3>1, FS_Subset
        <3> QED BY <2>2, <3>2, FS_AddElement
    <2>5. Waiting \cup {t} \subseteq 0..(spawned - 1)
        BY <1>1, <2>3 DEF ShellInv, BatchFits, Waiting, Workers
    <2>6. CASE count + 1 # batch_size
        <3>1. count' = count + 1 /\ generation' = generation
            BY <1>1, <2>6
        <3>2. Waiting' = Waiting \cup {t}
            BY <2>1, <3>1 DEF Waiting
        <3>3. count' < batch_size
            BY <2>2, <2>3, <2>6, <3>1
        <3> QED
            BY <1>1, <1>2, <2>1, <2>2, <2>4, <3>1, <3>2, <3>3
            DEF ShellInv, BarrierFits
    <2>7. CASE count + 1 = batch_size
        <3>1. count' = 0 /\ generation' = generation + 1
            BY <1>1, <2>7
        <3>2. spawned = batch_size /\ Waiting \cup {t} = 0..(spawned - 1)
            <4>5. spawned \in 0..NumWorkers
                BY <2>3, ShellIs
            <4>1. IsFiniteSet(0..(spawned - 1)) /\ Cardinality(0..(spawned - 1)) = spawned
                BY <4>5, WorkersCounted
            <4>2. Cardinality(Waiting \cup {t}) <= Cardinality(0..(spawned - 1))
                BY <2>5, <4>1, FS_Subset
            <4>3. spawned = batch_size
                BY <2>3, <2>4, <2>7, <4>1, <4>2
            <4> QED BY <2>4, <2>5, <2>7, <4>1, <4>3, FS_Subset
        <3>3. \A u \in Workers : u < spawned => u \in Waiting \cup {t}
            BY <2>3, <3>2 DEF Workers
        <3>4. ASSUME NEW u \in Workers, at'[u] \notin {"none", "done"}
              PROVE  /\ at'[u] = "wait" /\ seen'[u] = generation
                     /\ stage'[u] = generation + 1
            <4>1. u < spawned
                BY <1>1, <2>1, <2>3, <2>5, <3>4
                DEF ShellInv, BatchFits, Workers
            <4> QED
                BY <1>2, <2>1, <2>2, <3>3, <4>1
                DEF ShellInv, ShellTyped, BarrierFits, Waiting
        <3>5. Waiting' = {}
            BY <2>2, <3>1, <3>4 DEF Waiting
        <3>6. count' = Cardinality(Waiting') /\ count' < batch_size
            BY <2>3, <3>1, <3>5, FS_EmptySet
        <3> QED
            BY <1>1, <1>2, <2>1, <2>2, <3>1, <3>2, <3>4, <3>6 DEF BarrierFits
    <2> QED BY <2>6, <2>7
<1> QED BY <1>3, <1>4, <1>5, <1>6 DEF ShellInv

LEMMA PassStep ==
    ASSUME ShellInv, NEW t \in Workers, PassBarrier(t)
    PROVE  ShellInv'
<1>1. PICK p, k :
         /\ at' = [at EXCEPT ![t] = p] /\ stage' = [stage EXCEPT ![t] = k]
         /\ \/ stage[t] < 13 /\ p = "stage" /\ k = stage[t] + 1
            \/ ~(stage[t] < 13) /\ p = "cleanup" /\ k = 1
    <2>1. CASE stage[t] < 13
        BY <2>1, ShellIs DEF PassBarrier
    <2>2. CASE ~(stage[t] < 13)
        BY <2>2, ShellIs DEF PassBarrier
    <2> QED BY <2>1, <2>2
<1>2. /\ at[t] = "wait" /\ generation # seen[t]
      /\ UNCHANGED <<step_shell, next_seq, main_at, spawned, joins, seq, count,
                     generation, seen, made, ignored>>
    BY DEF PassBarrier, batchVars, barrierVars
<1>3. /\ step_shell \in BOOLEAN /\ step_shell /\ stage[t] \in Nat
      /\ stage[t] = generation /\ generation \in Nat /\ generation <= 13
    <2>1. step_shell \in BOOLEAN /\ step_shell /\ stage[t] \in Nat /\ generation \in Nat
        BY <1>2 DEF ShellInv, ShellTyped, BatchFits
    <2>2. stage[t] = generation /\ stage[t] <= 13
        BY <1>2, <2>1 DEF ShellInv, BarrierFits
    <2> QED BY <2>1, <2>2
<1>4. /\ p \in {"stage", "cleanup"} /\ k \in Nat /\ stage'[t] = k
      /\ \A u \in Workers : u # t => stage'[u] = stage[u]
      /\ stage' \in [Workers -> Nat]
    BY <1>1, <1>3 DEF ShellInv, ShellTyped
<1>5. ShellTyped'
    BY <1>1, <1>2, <1>4 DEF ShellInv, ShellTyped, ShellPlaces
<1>6. BatchFits'
    BY <1>1, <1>2, <1>4, BatchKept
<1>7. OneOwner'
    <2>1. /\ Active(t) /\ p \notin {"none", "begin", "done"}
          /\ p = "cleanup" => ~(stage'[t] >= 2) /\ ~(stage'[t] >= 4)
        BY <1>1, <1>2, <1>4 DEF Active
    <2> QED BY <1>1, <1>2, <1>4, <2>1, OwnerKept
<1>8. BarrierFits'
    <2>1. \A u \in Workers : at'[u] = IF u = t THEN p ELSE at[u]
        BY <1>1 DEF ShellInv, ShellTyped
    <2>2. Waiting' = Waiting /\ batch_size' = batch_size
        BY <1>2, <1>4, <2>1 DEF Waiting, batch_size
    <2> QED
        BY <1>1, <1>2, <1>3, <1>4, <2>1, <2>2 DEF ShellInv, BarrierFits
<1> QED BY <1>5, <1>6, <1>7, <1>8 DEF ShellInv

LEMMA CleanupStep ==
    ASSUME ShellInv, NEW t \in Workers, CleanupCommand(t)
    PROVE  ShellInv'
<1>1. /\ at[t] = "cleanup" /\ stage[t] <= 3
      /\ stage' = [stage EXCEPT ![t] = stage[t] + 1]
      /\ UNCHANGED <<step_shell, next_seq, main_at, spawned, joins, at, seq, count,
                     generation, seen>>
      /\ \/ /\ made' = [made EXCEPT ![seq[t]] =
                            After(@, cleanup[stage[t]])]
            /\ ignored' = ignored
         \/ ignored' = ignored \cup {seq[t]} /\ made' = made
    BY ShellIs DEF CleanupCommand, batchVars, barrierVars
<1>2. /\ stage[t] \in Nat /\ stage' \in [Workers -> Nat]
      /\ stage'[t] = stage[t] + 1
      /\ \A u \in Workers : u # t => stage'[u] = stage[u]
      /\ DOMAIN made' = DOMAIN made /\ at' = [at EXCEPT ![t] = "cleanup"]
      /\ \A i \in Instances : i # seq[t] => made'[i] = made[i]
      /\ ignored \subseteq ignored'
    BY <1>1 DEF ShellInv, ShellTyped
<1>3. ShellTyped'
    BY <1>1, <1>2 DEF ShellInv, ShellTyped
<1>4. BatchFits'
    BY ONLY ShellInv, t \in Workers, <1>1, <1>2, BatchKept
<1>5. BarrierFits'
    <2>1. step_shell => generation = 13
        BY <1>1 DEF ShellInv, BarrierFits
    <2> QED
        BY ONLY ShellInv, t \in Workers, <1>1, <1>2, <2>1, BarrierKept
<1>6. OneOwner'
    <2>1. ASSUME seq[t] \in Instances \ ignored'
          PROVE  /\ stage'[t] >= 2 => "host_nat" \notin made'[seq[t]]
                 /\ stage'[t] >= 4 => made'[seq[t]] = {}
        <3> DEFINE old == made[seq[t]]
                   new == made'[seq[t]]
        <3>1. new = After(old, cleanup[stage[t]])
            BY <1>1, <2>1 DEF ShellInv, ShellTyped
        <3>2. stage[t] >= 2 => "host_nat" \notin old
            BY <1>1, <1>2, <2>1 DEF ShellInv, OneOwner
        <3> HIDE DEF old, new
        <3>6. CASE stage[t] = 0
            BY <1>2, <3>6
        <3>3. CASE stage[t] = 1
            <4>1. new = old \ {"host_nat"}
                BY <3>1, <3>3, ShellIs DEF After
            <4> QED BY <1>2, <3>3, <4>1 DEF new
        <3>4. CASE stage[t] = 2
            <4>1. new = old \ VethStages
                BY <3>1, <3>4, ShellIs DEF After
            <4> QED BY <1>2, <3>2, <3>4, <4>1 DEF new
        <3>5. CASE stage[t] = 3
            <4>1. new = old \cap {"host_nat"}
                BY <3>1, <3>5, ShellIs DEF After
            <4>2. new = {}
                BY <3>2, <3>5, <4>1
            <4> QED BY <4>2 DEF new
        <3> QED BY <1>1, <1>2, <3>3, <3>4, <3>5, <3>6
    <2>2. Active(t)
        BY <1>1 DEF Active
    <2> QED BY <1>1, <1>2, <2>1, <2>2, OwnerKept
<1> QED BY <1>3, <1>4, <1>5, <1>6 DEF ShellInv

LEMMA EndStep ==
    ASSUME ShellInv, NEW t \in Workers, EndInstance(t)
    PROVE  ShellInv'
<1>1. PICK p \in {"done", "begin"} :
         at' = [at EXCEPT ![t] = p] /\ (step_shell => p = "done")
    BY DEF EndInstance
<1>2. /\ at[t] = "cleanup" /\ stage[t] > 3
      /\ UNCHANGED <<step_shell, next_seq, main_at, spawned, joins, seq, stage,
                     count, generation, seen, made, ignored>>
    BY ShellIs DEF EndInstance, batchVars, barrierVars
<1>3. ShellTyped'
    BY <1>1, <1>2 DEF ShellInv, ShellTyped, ShellPlaces
<1>4. BatchFits'
    BY <1>1, <1>2, BatchKept
<1>5. BarrierFits'
    BY <1>1, <1>2, BarrierKept
<1>6. OneOwner'
    <2>1. Active(t) /\ stage[t] >= 4
        BY <1>2 DEF Active, ShellInv, ShellTyped
    <2>2. seq[t] \in Instances \ ignored => made[seq[t]] = {}
        BY <1>2, <2>1 DEF ShellInv, OneOwner
    <2> QED BY <1>1, <1>2, <2>1, <2>2, OwnerKept
<1> QED BY <1>3, <1>4, <1>5, <1>6 DEF ShellInv

-----------------------------------------------------------------------------
(***************************************************************************)
(* The steps of main, and the theorems.                                    *)
(***************************************************************************)
\* A step of main alone: what threads do does not depend on it.
LEMMA MainOnly ==
    ASSUME ShellInv, BatchFits', main_at' \in {"spawn", "join", "ok", "error"},
           joins' \in Nat,
           UNCHANGED <<step_shell, next_seq, spawned, at, seq, stage, count,
                       generation, seen, made, ignored>>
    PROVE  ShellInv'
<1>1. ShellTyped'
    BY DEF ShellInv, ShellTyped
<1>2. BarrierFits'
    BY DEF ShellInv, BarrierFits, Waiting, batch_size
<1>3. OneOwner'
    BY DEF ShellInv, OneOwner, Active
<1> QED BY <1>1, <1>2, <1>3 DEF ShellInv

LEMMA SpawnStep == ShellInv /\ Spawn => ShellInv'
<1> SUFFICES ASSUME ShellInv, Spawn PROVE ShellInv'
    OBVIOUS
<1> DEFINE n == batch_size
<1>0. PICK t \in Workers : t = spawned
    <2>1. n \in 1..NumWorkers /\ spawned < n /\ spawned \in Nat
        BY BatchSize DEF Spawn, ShellInv, ShellTyped, BatchFits
    <2>2. spawned \in Workers
        BY <2>1, SomeWorkers DEF Workers
    <2> QED BY <2>2
<1>1. /\ main_at = "spawn" /\ t < n /\ n \in 1..NumWorkers /\ t \in Workers
      /\ joins = 0 /\ t \in Nat /\ step_shell \in BOOLEAN /\ next_seq \in Nat
    BY <1>0, BatchSize DEF Spawn, ShellInv, ShellTyped, BatchFits
<1>2. PICK p, s :
         /\ at' = [at EXCEPT ![t] = p] /\ seq' = [seq EXCEPT ![t] = s]
         /\ step_shell => p = "stage" /\ s = next_seq + t
         /\ ~step_shell => p = "begin" /\ s = seq[t]
    BY <1>0, <1>1 DEF Spawn
<1>3. /\ stage' = [stage EXCEPT ![t] = 1] /\ spawned' = t + 1
      /\ main_at' = IF t + 1 = n THEN "join" ELSE "spawn"
      /\ UNCHANGED <<step_shell, next_seq, joins, count, generation, seen, made,
                     ignored>>
      /\ n' = n
    BY <1>0 DEF Spawn, barrierVars, batch_size
<1> HIDE DEF n
<1>4. /\ at[t] \in {"none", "done"} /\ s \in Nat /\ p \in ShellPlaces
      /\ \A u \in Workers :
            /\ at'[u] = IF u = t THEN p ELSE at[u]
            /\ seq'[u] = IF u = t THEN s ELSE seq[u]
            /\ stage'[u] = IF u = t THEN 1 ELSE stage[u]
    BY <1>0, <1>1, <1>2, <1>3 DEF ShellInv, ShellTyped, BatchFits, ShellPlaces
<1>5. ShellTyped'
    BY <1>1, <1>2, <1>3, <1>4 DEF ShellInv, ShellTyped
<1>6. BatchFits'
    <2>1. \A u \in Workers : u >= t + 1 => u >= t /\ u # t
        BY <1>1 DEF Workers
    <2>2. \A u \in Workers : ~(u < 0)
        BY DEF Workers
    <2>3. t + 1 <= n /\ (t + 1 # n => t + 1 < n)
        BY <1>1
    <2> QED
        BY <1>0, <1>1, <1>2, <1>3, <1>4, <2>1, <2>2, <2>3
        DEF ShellInv, BatchFits, n
<1>7. BarrierFits'
    <2> SUFFICES ASSUME step_shell PROVE BarrierFits'
        BY <1>3 DEF BarrierFits
    <2>1. generation = 0
        BY <1>0, <1>1 DEF ShellInv, ShellTyped, BarrierFits, n
    <2>2. Waiting' = Waiting
        BY <1>2, <1>3, <1>4 DEF Waiting
    <2> QED
        BY <1>1, <1>2, <1>3, <1>4, <2>1, <2>2 DEF ShellInv, BarrierFits, n
<1>8. OneOwner'
    <2>1. \A u \in Workers : u # t => (Active(u)' <=> Active(u))
        BY <1>4 DEF Active
    <2>2. ~Active(t) /\ (~step_shell => ~Active(t)')
        BY <1>1, <1>2, <1>4 DEF Active
    <2>3. \A u \in Workers : Active(u)' =>
              IF step_shell' THEN seq'[u] = next_seq' + u
                             ELSE seq'[u] < next_seq'
        BY <1>1, <1>2, <1>3, <1>4, <2>1, <2>2 DEF ShellInv, OneOwner
    <2>4. ASSUME NEW u \in Workers, NEW v \in Workers, Active(u)', Active(v)',
                 seq'[u] = seq'[v]
          PROVE  u = v
        <3>1. CASE step_shell
            BY <1>1, <1>3, <2>3, <2>4, <3>1 DEF Workers
        <3>2. CASE ~step_shell
            BY <1>4, <2>1, <2>2, <2>4, <3>2 DEF ShellInv, OneOwner
        <3> QED BY <3>1, <3>2
    <2>5. ASSUME NEW i \in Instances \ ignored', made'[i] # {}
          PROVE  \E u \in Workers : Active(u)' /\ seq'[u] = i
        <3>1. PICK u \in Workers : Active(u) /\ seq[u] = i
            BY <1>3, <2>5 DEF ShellInv, OneOwner
        <3> QED BY <1>4, <2>1, <2>2, <3>1
    <2>6. ASSUME NEW u \in Workers, at'[u] = "cleanup",
                 seq'[u] \in Instances \ ignored'
          PROVE  /\ stage'[u] >= 2 => "host_nat" \notin made'[seq'[u]]
                 /\ stage'[u] >= 4 => made'[seq'[u]] = {}
        <3>1. u # t
            BY <1>1, <1>2, <1>4, <2>6
        <3> QED BY <1>3, <1>4, <2>6, <3>1 DEF ShellInv, OneOwner
    <2> QED BY <2>3, <2>4, <2>5, <2>6 DEF OneOwner
<1> QED BY <1>5, <1>6, <1>7, <1>8 DEF ShellInv

LEMMA NextBatchStep == ShellInv /\ NextBatch => ShellInv'
<1> SUFFICES ASSUME ShellInv, NextBatch PROVE ShellInv'
    OBVIOUS
<1>1. /\ step_shell /\ next_seq' = next_seq + batch_size /\ next_seq' < Total
      /\ main_at' = "spawn" /\ spawned' = 0 /\ joins' = 0
      /\ count' = 0 /\ generation' = 0 /\ seen' = [t \in Workers |-> 0]
      /\ UNCHANGED <<step_shell, at, seq, stage, made, ignored>>
    BY ShellIs DEF NextBatch, threadVars
<1>2. \A t \in Workers : at[t] \in {"none", "done"}
    BY DEF NextBatch, ShellInv, ShellTyped, BatchFits, Workers
<1>3. ShellTyped'
    BY <1>1, BatchSize, ShellIs DEF ShellInv, ShellTyped, BatchFits
<1>4. batch_size' \in 1..NumWorkers
    <2>1. next_seq' \in Nat /\ batch_size' =
             IF Concurrency < Total - next_seq' THEN Concurrency
                                                ELSE Total - next_seq'
        BY <1>1, <1>3 DEF batch_size, ShellTyped
    <2> QED BY <1>1, <2>1, ShellIs, RunConfig
<1>5. BatchFits'
    <2>1. \A t \in Workers : ~(t < 0)
        BY DEF Workers
    <2> QED BY <1>1, <1>2, <1>4, <2>1, ShellIs DEF ShellInv, BatchFits
<1>6. BarrierFits'
    <2>1. Waiting' = {}
        BY <1>1, <1>2 DEF Waiting
    <2> QED BY <1>1, <1>2, <1>4, <2>1, FS_EmptySet, ShellIs DEF BarrierFits
<1>7. OneOwner'
    BY <1>1, <1>2 DEF ShellInv, OneOwner, Active
<1> QED BY <1>3, <1>5, <1>6, <1>7 DEF ShellInv

LEMMA MainStep == ShellInv /\ ShellMain => ShellInv'
<1> SUFFICES ASSUME ShellInv, ShellMain PROVE ShellInv'
    OBVIOUS
<1>1. CASE Start
    <2>1. /\ main_at' \in {"spawn", "error"} /\ spawned = 0 /\ joins = 0
          /\ UNCHANGED <<step_shell, next_seq, spawned, joins, at, seq, stage,
                         count, generation, seen, made, ignored>>
        BY <1>1
        DEF Start, ShellInv, ShellTyped, BatchFits, threadVars,
            barrierVars
    <2>2. 0 < batch_size /\ batch_size' = batch_size
        BY <2>1, BatchSize, ShellIs
        DEF ShellInv, BatchFits, batch_size
    <2>3. BatchFits'
        BY <2>1, <2>2 DEF ShellInv, BatchFits
    <2> QED BY <2>1, <2>3, MainOnly DEF ShellInv, ShellTyped
<1>2. CASE JoinThread
    <2>1. /\ main_at = "join" /\ joins < spawned /\ at[joins] = "done"
          /\ joins' = joins + 1
          /\ UNCHANGED <<step_shell, next_seq, main_at, spawned, at, seq, stage,
                         count, generation, seen, made, ignored>>
        BY <1>2 DEF JoinThread, threadVars, barrierVars
    <2>2. /\ joins \in Nat /\ spawned \in Nat
          /\ \A t \in Workers : t < joins + 1 => t < joins \/ t = joins
        BY DEF ShellInv, ShellTyped, Workers
    <2>3. batch_size' = batch_size
        BY <2>1 DEF batch_size
    <2>4. BatchFits'
        BY <2>1, <2>2, <2>3 DEF ShellInv, BatchFits
    <2> QED BY <2>1, <2>2, <2>4, MainOnly
<1>3. CASE JoinThreadFailed \/ FinishShell
    <2>1. /\ main_at' \in {"ok", "error"}
          /\ UNCHANGED <<step_shell, next_seq, spawned, joins, at, seq, stage,
                         count, generation, seen, made, ignored>>
        BY <1>3
        DEF JoinThreadFailed, FinishShell, threadVars, barrierVars
    <2>2. batch_size' = batch_size
        BY <2>1 DEF batch_size
    <2>3. BatchFits'
        BY <2>1, <2>2 DEF ShellInv, BatchFits
    <2> QED BY <2>1, <2>3, MainOnly DEF ShellInv, ShellTyped
<1> QED BY <1>1, <1>2, <1>3, SpawnStep, NextBatchStep DEF ShellMain

LEMMA ShellKept == ShellInv /\ [ShellNext]_(shellVars) => ShellInv'
<1> SUFFICES ASSUME ShellInv, [ShellNext]_(shellVars) PROVE ShellInv'
    OBVIOUS
<1>1. ASSUME NEW t \in Workers, Thread(t) PROVE ShellInv'
    BY <1>1, BeginOpStep, CommandStep, ArriveStep, PassStep, CleanupStep,
       EndStep
    DEF Thread
<1>2. CASE UNCHANGED shellVars
    <2>1. UNCHANGED <<step_shell, next_seq, main_at, spawned, joins, at, seq,
                      stage, count, generation, seen, made, ignored>>
        BY <1>2
        DEF shellVars, batchVars, threadVars, barrierVars
    <2>2. ShellTyped'
        BY <2>1 DEF ShellInv, ShellTyped
    <2>3. BatchFits' /\ BarrierFits'
        BY <2>1 DEF ShellInv, BatchFits, BarrierFits, Waiting, batch_size
    <2>4. OneOwner'
        BY <2>1 DEF ShellInv, OneOwner, Active
    <2> QED BY <2>2, <2>3, <2>4 DEF ShellInv
<1> QED BY <1>1, <1>2, MainStep, ShellIs DEF ShellNext, ShellExit

LEMMA ShellAlways == ShellSpec => []ShellInv
<1> QED BY ShellInitially, ShellKept, PTL DEF ShellSpec

(***************************************************************************)
(* For any numbers of networks and of threads, whoever fails: the threads  *)
(* of a batch of netns_step_shell measure the same stage, and none cleans  *)
(* up while another measures (step_shell.rs:35-55).                        *)
(***************************************************************************)
THEOREM StagesKeepStep == ShellSpec => []StagesAligned
<1>1. ShellInv => StagesAligned
    <2> SUFFICES ASSUME ShellInv, step_shell,
                        NEW t \in Workers, NEW u \in Workers
                 PROVE  /\ AtStage(t) /\ AtStage(u) =>
                              stage[t] = stage[u]
                        /\ at[t] = "cleanup" => ~AtStage(u)
                        /\ AtStage(t) /\ stage[t] > 1 =>
                              spawned = batch_size
        BY ShellIs DEF StagesAligned
    <2> QED BY DEF ShellInv, ShellTyped, BarrierFits, AtStage
<1> QED BY <1>1, ShellAlways, PTL

(***************************************************************************)
(* What exists on the host belongs to exactly one thread that is at work   *)
(* on it and was not joined, unless a clean-up command failed unnoticed:   *)
(* for both operations, any numbers of networks and of threads, and every  *)
(* error path (step_shell.rs:66-69, full_shell.rs, mod.rs:404-410).        *)
(***************************************************************************)
THEOREM NetworksAreOwned == ShellSpec => []NetworksOwned
<1>1. ShellInv => NetworksOwned
    <2> SUFFICES ASSUME ShellInv, NEW i \in Instances \ ignored,
                        made[i] # {}
                 PROVE  LET owners == {t \in Workers : seq[t] = i
                                /\ at[t] \notin {"none", "begin", "done"}} IN
                        /\ Cardinality(owners) = 1
                        /\ \A t \in owners : t >= joins
        BY DEF NetworksOwned
    <2>1. PICK t \in Workers : Active(t) /\ seq[t] = i
        BY DEF ShellInv, OneOwner
    <2>2. {u \in Workers : seq[u] = i /\ at[u] \notin {"none", "begin", "done"}}
             = {t}
        BY <2>1 DEF ShellInv, OneOwner, Active
    <2>3. Cardinality({t}) = 1
        BY FS_Singleton
    <2>4. t >= joins
        BY <2>1 DEF ShellInv, ShellTyped, BatchFits, Active, Workers
    <2> QED BY <2>2, <2>3, <2>4
<1> QED BY <1>1, ShellAlways, PTL
=============================================================================
