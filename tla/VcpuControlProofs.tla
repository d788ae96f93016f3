------------------------- MODULE VcpuControlProofs -------------------------
(***************************************************************************)
(* What holds of the control of vCPU threads for any number of them and of *)
(* operations.  The channels may hold answers nobody waited for; what is   *)
(* shown here is why an operation that returns Ok has not read one.        *)
(***************************************************************************)
EXTENDS VcpuControl, WellFoundedInduction, SequenceTheorems, TLAPS

-----------------------------------------------------------------------------
(***************************************************************************)
(* The inductive invariant.                                                *)
(***************************************************************************)
Kinds == {"Resumed", "Paused", "SavedState", "DumpedCpuConfig", "Error",
          "NotAllowed", "ExitedOk", "ExitedError"}
ExitKinds == {"ExitedOk", "ExitedError"}
Responses == [kind : Kinds, run : Nat]
Modes == {"none", "barrier", "paused", "running", "exited_ok", "exited_error",
          "finished"}

ControlType ==
    /\ op \in Ops \union {"starting", "none", "dropping", "dropped"}
    /\ step \in Nat /\ handles \in 0..N
    /\ got \in Seq(Responses)
    /\ events \in [Vcpus -> Seq(Ops \union {"Finish"})]
    /\ responses \in [Vcpus -> Seq(Responses)]
    /\ mode \in [Vcpus -> Modes]
    /\ runs \in [Vcpus -> Nat]
    /\ disturbed \in BOOLEAN /\ lost_exit \in BOOLEAN
    /\ result.ok \in BOOLEAN

\* Operations are possible: the VM was started and is not going away.
Working == state # "NotStarted" /\ op \in Ops \union {"none"}

\* Before, there is nothing in the channels; only Drop sends Finish.
Stages ==
    /\ state = "NotStarted" =>
         /\ op \notin Ops /\ ~result.ok
         /\ \A v \in Vcpus : responses[v] = <<>> /\ mode[v] \notin {"paused",
                                "running", "exited_ok", "exited_error"}
         /\ op \in {"starting", "none"} => \A v \in Vcpus : events[v] = <<>>
    /\ op = "starting" => state = "NotStarted"
    /\ Working =>
         \A v \in Vcpus :
             /\ mode[v] \in {"paused", "running", "exited_ok", "exited_error"}
             /\ events[v] \in Seq(Ops)

Alive(v) == mode[v] \in {"paused", "running"}

\* The operation has sent v its event and has not received the response.
Out(v) == op \in Ops /\ v < step /\ step <= v + N

\* What a thread's answer to the operation says of the thread.
Answers(v, r) ==
    /\ op = "Resume" => r.kind = "Resumed" /\ mode[v] = "running"
    /\ op = "Pause" => r.kind = "Paused" /\ mode[v] = "paused"
    /\ op = "SaveState" /\ r.kind = "SavedState" =>
            mode[v] = "paused" /\ r.run = runs[v]

\* An answer given before the thread exited.
AnsweredRunning(r) ==
    /\ op # "Pause"
    /\ op = "Resume" => r.kind = "Resumed"
    /\ op = "SaveState" => r.kind # "SavedState"

\* v's channels hold what the operation under way has put there, and the exit.
InStep(v) ==
    \/ /\ Alive(v)
       /\ \/ ~Out(v) /\ events[v] = <<>> /\ responses[v] = <<>>
          \/ /\ Out(v) /\ responses[v] = <<>>
             /\ Len(events[v]) = 1 /\ events[v][1] = op
          \/ /\ Out(v) /\ events[v] = <<>>
             /\ Len(responses[v]) = 1 /\ Answers(v, responses[v][1])
    \/ /\ Exited(v)
       /\ \/ responses[v] = <<>>
          \/ Len(responses[v]) = 1 /\ responses[v][1].kind \in ExitKinds
          \/ /\ Out(v) /\ Len(responses[v]) = 2
             /\ AnsweredRunning(responses[v][1])
             /\ responses[v][2].kind \in ExitKinds

\* No operation gets past a vCPU that has exited and whose exit was received.
Dead(v) == Exited(v) /\ responses[v] = <<>>

\* A channel that is out of step is behind a dead vCPU.
StaleBehindDead ==
    ~disturbed /\ Working /\ exit_code = "none" =>
        \A v \in Vcpus : InStep(v) \/ \E u \in Vcpus : u < v /\ Dead(u)

\* The operation o has had its effect on v, and nothing will undo it.
Done(o, v, r) ==
    /\ o = "Pause" => mode[v] = "paused" /\ events[v] = <<>>
    /\ o = "Resume" => Exited(v) \/ (mode[v] = "running" /\ events[v] = <<>>)
    /\ o = "SaveState" => /\ mode[v] = "paused" /\ events[v] = <<>>
                          /\ r = [kind |-> "SavedState", run |-> runs[v]]

AllSoFar == \A j \in 1..Len(got) : got[j].kind = Wanted(op)

Progress ==
    op \in Ops =>
        /\ step >= 1 /\ step <= N + N /\ exit_code = "none"
        /\ Len(got) = IF step <= N THEN 0 ELSE step - N - 1
        /\ ~disturbed /\ AllSoFar =>
               \A j \in 1..Len(got) : ~Dead(j) /\ Done(op, j, got[j])

OkIsDone ==
    ~disturbed /\ op = "none" /\ result.ok =>
        /\ Len(got) = N
        /\ \A v \in Vcpus : Done(result.op, v, got[v])

\* The response of an exit with an error is in its channel until received.
ErrorsKept ==
    /\ ~lost_exit /\ exit_code = "none" =>
          \A v \in Vcpus : mode[v] = "exited_error" => HasError(v)
    /\ op # "dropped" => \A v \in Vcpus : mode[v] # "none" => v <= handles

ControlInv ==
    /\ ControlType /\ Stages /\ StaleBehindDead /\ Progress
    /\ OkIsDone /\ ErrorsKept /\ ErrorExitReported

-----------------------------------------------------------------------------
(***************************************************************************)
(* Channels.                                                               *)
(***************************************************************************)
LEMMA WantedIs ==
    /\ Wanted("Resume") = "Resumed" /\ Wanted("Pause") = "Paused"
    /\ Wanted("SaveState") = "SavedState"
    /\ Wanted("DumpCpuConfig") = "DumpedCpuConfig"
BY DEF Wanted

LEMMA ShortSequences ==
    ASSUME NEW S, NEW s \in Seq(S)
    PROVE  /\ Len(s) \in Nat
           /\ s = <<>> <=> Len(s) = 0
           /\ s # <<>> => /\ Head(s) = s[1] /\ Head(s) \in S
                          /\ Tail(s) \in Seq(S) /\ Len(Tail(s)) = Len(s) - 1
                          /\ \A k \in 1..(Len(s) - 1) : Tail(s)[k] = s[k + 1]
<1>1. Len(s) \in Nat /\ (s = <<>> <=> Len(s) = 0)
  BY LenProperties, EmptySeq
<1>2. ASSUME s # <<>>
      PROVE  /\ Head(s) = s[1] /\ Head(s) \in S
             /\ Tail(s) \in Seq(S) /\ Len(Tail(s)) = Len(s) - 1
             /\ \A k \in 1..(Len(s) - 1) : Tail(s)[k] = s[k + 1]
  BY <1>2, HeadTailProperties
<1> QED
  BY <1>1, <1>2

LEMMA TailEmpty ==
    ASSUME NEW S, NEW s \in Seq(S), s # <<>>
    PROVE  Tail(s) = <<>> <=> Len(s) = 1
<1>1. Tail(s) \in Seq(S) /\ Len(Tail(s)) = Len(s) - 1 /\ Len(s) \in Nat
  BY ShortSequences
<1>2. Tail(s) = <<>> <=> Len(Tail(s)) = 0
  BY <1>1, EmptySeq
<1>3. Len(Tail(s)) = 0 <=> Len(s) = 1
  BY <1>1
<1> QED
  BY <1>2, <1>3

\* A response that a thread adds to its channel.
LEMMA ReplyAdds ==
    ASSUME ControlType, NEW v \in Vcpus, NEW kind \in Kinds, Reply(v, kind)
    PROVE  /\ Response(kind, v) \in Responses
           /\ responses' \in [Vcpus -> Seq(Responses)]
           /\ Len(responses'[v]) = Len(responses[v]) + 1
           /\ responses'[v][Len(responses[v]) + 1] = Response(kind, v)
           /\ \A k \in 1..Len(responses[v]) : responses'[v][k] = responses[v][k]
           /\ \A u \in Vcpus \ {v} : responses'[u] = responses[u]
<1>1. Response(kind, v) \in Responses /\ responses[v] \in Seq(Responses)
  BY DEF Response, Responses, ControlType
<1>2. responses' = [responses EXCEPT ![v] = Append(responses[v], Response(kind, v))]
  BY DEF Reply
<1>3. /\ responses'[v] = Append(responses[v], Response(kind, v))
      /\ \A u \in Vcpus \ {v} : responses'[u] = responses[u]
  BY <1>2 DEF ControlType
<1>4. /\ Append(responses[v], Response(kind, v)) \in Seq(Responses)
      /\ Len(Append(responses[v], Response(kind, v))) = Len(responses[v]) + 1
      /\ \A k \in 1..Len(responses[v]) :
            Append(responses[v], Response(kind, v))[k] = responses[v][k]
      /\ Append(responses[v], Response(kind, v))[Len(responses[v]) + 1]
            = Response(kind, v)
  BY <1>1, AppendProperties
<1>5. responses' \in [Vcpus -> Seq(Responses)]
  BY <1>2, <1>4 DEF ControlType
<1> QED
  BY <1>1, <1>3, <1>4, <1>5

\* An event that a thread takes from its channel.
LEMMA PopTakes ==
    ASSUME ControlType, NEW v \in Vcpus, events[v] # <<>>, Pop(v)
    PROVE  /\ events' \in [Vcpus -> Seq(Ops \union {"Finish"})]
           /\ events'[v] = Tail(events[v])
           /\ events[v] \in Seq(Ops) => events'[v] \in Seq(Ops)
           /\ Len(events[v]) = 1 => events'[v] = <<>>
           /\ \A u \in Vcpus \ {v} : events'[u] = events[u]
<1>1. /\ events[v] \in Seq(Ops \union {"Finish"})
      /\ Tail(events[v]) \in Seq(Ops \union {"Finish"})
      /\ Len(Tail(events[v])) = Len(events[v]) - 1
  BY ShortSequences DEF ControlType
<1>2. /\ events'[v] = Tail(events[v])
      /\ \A u \in Vcpus \ {v} : events'[u] = events[u]
      /\ events' \in [Vcpus -> Seq(Ops \union {"Finish"})]
  BY <1>1 DEF Pop, ControlType
<1>3. events[v] \in Seq(Ops) => events'[v] \in Seq(Ops)
  BY <1>2, ShortSequences
<1>4. Len(events[v]) = 1 => events'[v] = <<>>
  <2>1. Len(events[v]) = 1 => Len(Tail(events[v])) = 0
    BY <1>1
  <2> QED
    BY <1>1, <1>2, <2>1, ShortSequences
<1> QED
  BY <1>2, <1>3, <1>4

LEMMA SomeVcpus == N \in Nat /\ N >= 1 /\ \A v \in Vcpus : v \in Nat /\ 1 <= v /\ v <= N
BY VcpuAssumption DEF Vcpus

-----------------------------------------------------------------------------
(***************************************************************************)
(* Types and stages.                                                       *)
(***************************************************************************)
LEMMA ControlInitially == Init => ControlInv
<1> SUFFICES ASSUME Init PROVE ControlInv
  OBVIOUS
<1>1. ControlType
  <2>1. /\ events \in [Vcpus -> Seq(Ops \union {"Finish"})]
        /\ responses \in [Vcpus -> Seq(Responses)]
        /\ mode \in [Vcpus -> Modes] /\ runs \in [Vcpus -> Nat]
        /\ got \in Seq(Responses)
    BY DEF Init, Modes
  <2>2. result.ok = FALSE
    BY DEF Init, NoResult
  <2>3. step \in Nat /\ handles \in 0..N
    BY SomeVcpus DEF Init
  <2> QED
    BY <2>1, <2>2, <2>3 DEF Init, ControlType
<1>2. Stages
  BY DEF Init, Stages, Ops, NoResult, Working
<1>3. StaleBehindDead /\ Progress /\ OkIsDone /\ ErrorExitReported
  BY DEF Init, StaleBehindDead, Progress, OkIsDone, ErrorExitReported, Working, Ops
<1>4. ErrorsKept
  BY DEF Init, ErrorsKept
<1> QED
  BY <1>1, <1>2, <1>3, <1>4 DEF ControlInv

\* What a thread answers.
LEMMA VcpuReplies ==
    ASSUME NEW v \in Vcpus
    PROVE  /\ HandleResume(v) => Reply(v, "Resumed")
           /\ HandlePause(v) => Reply(v, "Paused")
           /\ HandleRead(v) => \E kind \in Kinds \ ExitKinds :
                 /\ Reply(v, kind)
                 /\ kind = "SavedState" => mode[v] = "paused"
           /\ Exit(v) => \E kind \in ExitKinds :
                 /\ Reply(v, kind)
                 /\ mode' = [mode EXCEPT ![v] = IF kind = "ExitedOk"
                                THEN "exited_ok" ELSE "exited_error"]
<1>1. ASSUME HandleRead(v)
      PROVE  \E kind \in Kinds \ ExitKinds :
                 /\ Reply(v, kind)
                 /\ kind = "SavedState" => mode[v] = "paused"
  <2>1. CASE mode[v] = "paused"
    <3>1. PICK kind \in {Wanted(Head(events[v])), "Error"} : Reply(v, kind)
      BY <1>1, <2>1 DEF HandleRead
    <3>2. Wanted(Head(events[v])) \in {"SavedState", "DumpedCpuConfig"}
      BY <1>1, WantedIs DEF HandleRead
    <3>3. kind \in Kinds \ ExitKinds
      BY <3>1, <3>2 DEF Kinds, ExitKinds
    <3> QED
      BY <2>1, <3>1, <3>3
  <2>2. CASE mode[v] # "paused"
    <3>1. Reply(v, "NotAllowed")
      BY <1>1, <2>2 DEF HandleRead
    <3>2. "NotAllowed" \in Kinds \ ExitKinds
      BY DEF Kinds, ExitKinds
    <3> QED
      BY <3>1, <3>2
  <2> QED
    BY <2>1, <2>2
<1>2. ASSUME Exit(v)
      PROVE  \E kind \in ExitKinds :
                 /\ Reply(v, kind)
                 /\ mode' = [mode EXCEPT ![v] = IF kind = "ExitedOk"
                                THEN "exited_ok" ELSE "exited_error"]
  <2>1. PICK how \in {"ok", "error"} :
           /\ mode' = [mode EXCEPT ![v] = IF how = "ok" THEN "exited_ok"
                                          ELSE "exited_error"]
           /\ Reply(v, IF how = "ok" THEN "ExitedOk" ELSE "ExitedError")
    BY <1>2 DEF Exit
  <2>2. CASE how = "ok"
    <3>1. Reply(v, "ExitedOk") /\ mode' = [mode EXCEPT ![v] = "exited_ok"]
      BY <2>1, <2>2
    <3> QED
      BY <3>1 DEF ExitKinds
  <2>3. CASE how = "error"
    <3>1. Reply(v, "ExitedError") /\ mode' = [mode EXCEPT ![v] = "exited_error"]
      BY <2>1, <2>3
    <3> QED
      BY <3>1 DEF ExitKinds
  <2> QED
    BY <2>1, <2>2, <2>3
<1> QED
  BY <1>1, <1>2 DEF HandleResume, HandlePause

LEMMA ControlTypeVcpu ==
    ASSUME ControlType, NEW v \in Vcpus, Vcpu(v) \/ Exit(v)
    PROVE  ControlType'
<1>1. UNCHANGED <<op, step, handles, got, disturbed, lost_exit, result>>
  BY DEF Vcpu, HandleResume, HandlePause, HandleRead, HandleFinish, Exit, vmm,
         history
<1>2. runs' \in [Vcpus -> Nat]
  BY DEF Vcpu, HandleResume, HandlePause, HandleRead, HandleFinish, Exit, threads,
         ControlType
<1>3. mode' \in [Vcpus -> Modes]
  BY DEF Vcpu, HandleResume, HandlePause, HandleRead, HandleFinish, Exit, threads,
         ControlType, Modes
<1>4. events' \in [Vcpus -> Seq(Ops \union {"Finish"})]
  <2>1. CASE Vcpu(v)
    BY <2>1, PopTakes DEF Vcpu, HandleResume, HandlePause, HandleRead, HandleFinish
  <2>2. CASE Exit(v)
    BY <2>2 DEF Exit, ControlType
  <2> QED
    BY <2>1, <2>2
<1>5. responses' \in [Vcpus -> Seq(Responses)]
  <2>1. ASSUME NEW kind \in Kinds, Reply(v, kind)
        PROVE  responses' \in [Vcpus -> Seq(Responses)]
    BY <2>1, ReplyAdds
  <2>2. CASE HandleResume(v) \/ HandlePause(v) \/ HandleRead(v) \/ Exit(v)
    BY <2>1, <2>2, VcpuReplies DEF Kinds, ExitKinds
  <2>3. CASE HandleFinish(v)
    BY <2>3 DEF HandleFinish, ControlType
  <2> QED
    BY <2>1, <2>2, <2>3 DEF Vcpu
<1> QED
  BY <1>1, <1>2, <1>3, <1>4, <1>5 DEF ControlType

\* Where there is an error response there is a first one.
LEMMA FirstErrorThere ==
    ASSUME NEW v, Len(responses[v]) \in Nat, HasError(v)
    PROVE  FirstError(v) \in 1..Len(responses[v])
<1> DEFINE Err == {k \in 1..Len(responses[v]) : responses[v][k].kind = "ExitedError"}
<1>1. Err \subseteq Nat /\ Err # {}
  BY DEF HasError
<1>2. PICK k \in Err : \A j \in Err : k <= j
  <2>1. PICK k \in Err : \A j \in Err : <<j, k>> \notin OpToRel(<, Nat)
    BY <1>1, NatLessThanWellFounded, WFMin
  <2>2. ASSUME NEW j \in Err PROVE k <= j
    <3>1. ~(j < k)
      BY <1>1, <2>1 DEF OpToRel
    <3> QED
      BY <1>1, <3>1
  <2> QED
    BY <2>2
<1>3. /\ k \in 1..Len(responses[v]) /\ responses[v][k].kind = "ExitedError"
      /\ \A j \in 1..(k - 1) : responses[v][j].kind # "ExitedError"
  BY <1>2
<1> QED
  BY <1>3 DEF FirstError

\* Receiving takes the oldest response of the handle it has come to.
LEMMA Received ==
    ASSUME ControlType, Progress, RecvResponse
    PROVE  /\ op \in Ops /\ Current \in Vcpus /\ step = Current + N
           /\ responses[Current] \in Seq(Responses) /\ responses[Current] # <<>>
           /\ Head(responses[Current]) \in Responses
           /\ Head(responses[Current]) = responses[Current][1]
           /\ got' = Append(got, Head(responses[Current]))
           /\ got' \in Seq(Responses) /\ Len(got') = Current
           /\ Len(got) = Current - 1
           /\ \A j \in 1..(Current - 1) : got'[j] = got[j]
           /\ got'[Current] = Head(responses[Current])
           /\ step' = step + 1
           /\ responses' \in [Vcpus -> Seq(Responses)]
           /\ responses'[Current] = Tail(responses[Current])
           /\ \A u \in Vcpus \ {Current} : responses'[u] = responses[u]
           /\ UNCHANGED <<exit_code, handles, events, mode, runs, disturbed, errors>>
<1>1. op \in Ops /\ Current \in Vcpus /\ step = Current + N
  BY SomeVcpus DEF RecvResponse, Receiving, Progress, ControlType, Current, Vcpus
<1>2. Len(got) = Current - 1
  BY <1>1, SomeVcpus DEF Progress, Current, RecvResponse, Receiving
<1>3. /\ responses[Current] \in Seq(Responses) /\ responses[Current] # <<>>
      /\ got' = Append(got, Head(responses[Current])) /\ step' = step + 1
      /\ responses' = [responses EXCEPT ![Current] = Tail(responses[Current])]
      /\ UNCHANGED <<exit_code, handles, events, mode, runs, disturbed, errors>>
  BY <1>1 DEF RecvResponse, ControlType, threads
<1>4. /\ Head(responses[Current]) \in Responses
      /\ Head(responses[Current]) = responses[Current][1]
      /\ Tail(responses[Current]) \in Seq(Responses)
  BY <1>3, ShortSequences
<1>5. /\ got' \in Seq(Responses) /\ Len(got') = Len(got) + 1
      /\ \A j \in 1..Len(got) : got'[j] = got[j]
      /\ got'[Len(got) + 1] = Head(responses[Current])
  BY <1>3, <1>4, AppendProperties DEF ControlType
<1>6. Current \in Nat /\ Len(got) + 1 = Current
  BY <1>1, <1>2, SomeVcpus
<1>7. /\ responses' \in [Vcpus -> Seq(Responses)]
      /\ responses'[Current] = Tail(responses[Current])
      /\ \A u \in Vcpus \ {Current} : responses'[u] = responses[u]
  BY <1>1, <1>3, <1>4 DEF ControlType
<1> QED
  BY <1>1, <1>2, <1>3, <1>4, <1>5, <1>6, <1>7

\* How it goes on.
LEMMA ReceivedThen ==
    ASSUME RecvResponse, NEW r, r = Head(responses[Current])
    PROVE  \/ /\ StopsAt(r) /\ op' = "none"
              /\ result' = [op |-> op, ok |-> FALSE] /\ state' = state
           \/ /\ ~StopsAt(r) /\ Current # N /\ UNCHANGED <<op, result, state>>
           \/ /\ ~StopsAt(r) /\ Current = N /\ op' = "none"
              /\ result' = [op |-> op, ok |-> AllWanted(got')]
              /\ state' \in {"Running", "Paused", state}
<1>1. CASE StopsAt(r)
  <2>1. Return(FALSE)
    BY <1>1 DEF RecvResponse
  <2> QED
    BY <1>1, <2>1 DEF Return
<1>2. CASE ~StopsAt(r) /\ Current = N
  <2>1. Return(AllWanted(got'))
    BY <1>2 DEF RecvResponse
  <2>2. state' \in {"Running", "Paused", state}
    BY <2>1 DEF Return
  <2> QED
    BY <1>2, <2>1, <2>2 DEF Return
<1>3. CASE ~StopsAt(r) /\ Current # N
  BY <1>3 DEF RecvResponse
<1> QED
  BY <1>1, <1>2, <1>3

\* A send that fails leaves nothing behind, or the answers of living vCPUs.
LEMMA SendFailed ==
    ASSUME ControlType, Progress, SendFails
    PROVE  /\ op \in Ops /\ step \in Vcpus /\ op' = "none"
           /\ result'.ok = FALSE /\ state' = state /\ disturbed' \in BOOLEAN
           /\ events' = events \/
                events' = [events EXCEPT ![step] = Append(events[step], op)]
           /\ ~disturbed' => ~disturbed /\ step = 1 /\ events' = events
           /\ UNCHANGED <<exit_code, handles, got, responses, step, mode, runs,
                          lost_exit, errors>>
<1>1. op \in Ops /\ step \in Vcpus
  BY SomeVcpus DEF SendFails, Sending, Progress, ControlType, Vcpus
<1>2. op' = "none" /\ result'.ok = FALSE /\ state' = state
  BY DEF SendFails, Return
<1>3. PICK queued \in BOOLEAN :
         /\ events' = IF queued THEN [events EXCEPT ![step] = Append(@, op)]
                      ELSE events
         /\ disturbed' = (disturbed \/ queued \/ step > 1)
  BY DEF SendFails
<1>4. step > 1 \/ step = 1
  BY <1>1, SomeVcpus
<1>5. ~disturbed' => ~disturbed /\ step = 1 /\ events' = events
  BY <1>3, <1>4
<1>6. disturbed' \in BOOLEAN
  BY <1>3
<1> QED
  BY <1>1, <1>2, <1>3, <1>5, <1>6 DEF SendFails, threads

LEMMA ControlTypeVmm ==
    ASSUME ControlType, Progress, [Next]_vars,
           ~\E v \in Vcpus : Vcpu(v) \/ Exit(v)
    PROVE  ControlType'
<1>1. CASE StartVcpu
  <2>1. handles + 1 \in 0..N /\ handles' = handles + 1
    BY <1>1, SomeVcpus DEF StartVcpu, ControlType
  <2>2. mode' \in [Vcpus -> Modes]
    BY <1>1 DEF StartVcpu, ControlType, Modes
  <2> QED
    BY <1>1, <2>1, <2>2 DEF StartVcpu, ControlType, channels, history
<1>2. CASE StartFails
  BY <1>2 DEF StartFails, ControlType, channels, threads, history
<1>3. CASE BarrierOpens
  <2>1. mode' \in [Vcpus -> Modes]
    BY <1>3 DEF BarrierOpens, Modes
  <2> QED
    BY <1>3, <2>1 DEF BarrierOpens, ControlType, channels, history
<1>4. ASSUME NEW o \in Ops, Begin(o) PROVE ControlType'
  BY <1>4 DEF Begin, ControlType, channels, threads
<1>5. CASE SendEvent
  <2>1. step \in Vcpus /\ op \in Ops
    BY <1>5, SomeVcpus DEF SendEvent, Sending, Progress, ControlType, Vcpus
  <2>2. Append(events[step], op) \in Seq(Ops \union {"Finish"})
    BY <2>1, AppendProperties DEF ControlType
  <2>3. events' \in [Vcpus -> Seq(Ops \union {"Finish"})]
    BY <1>5, <2>1, <2>2 DEF SendEvent, ControlType
  <2> QED
    BY <1>5, <2>3 DEF SendEvent, ControlType, threads, history
<1>6. CASE RecvResponse
  <2>1. op' \in {op, "none"} /\ result'.ok \in BOOLEAN
    <3>1. PICK r : r = Head(responses[Current])
      OBVIOUS
    <3>2. (AllWanted(got')) \in BOOLEAN
      BY DEF AllWanted
    <3>3. result' = result \/ result'.ok = FALSE \/ result'.ok = AllWanted(got')
      BY <1>6, <3>1, ReceivedThen
    <3> QED
      BY <1>6, <3>1, <3>2, <3>3, ReceivedThen DEF ControlType
  <2>2. lost_exit' \in BOOLEAN
    BY <1>6 DEF RecvResponse
  <2>3. /\ got' \in Seq(Responses) /\ step' \in Nat
        /\ responses' \in [Vcpus -> Seq(Responses)]
        /\ UNCHANGED <<handles, events, mode, runs, disturbed>>
    BY <1>6, Received DEF ControlType
  <2> QED
    BY <2>1, <2>2, <2>3 DEF ControlType
<1>7. CASE RecvTimeout
  <2>1. op' = "none" /\ result'.ok = FALSE
    BY <1>7 DEF RecvTimeout, Return
  <2>2. disturbed' \in BOOLEAN
    BY <1>7 DEF RecvTimeout
  <2> QED
    BY <1>7, <2>1, <2>2 DEF RecvTimeout, ControlType, channels, threads
<1>8. CASE Process
  <2>1. \A v \in Vcpus : responses'[v] \in Seq(Responses)
    <3>1. ASSUME NEW v \in Vcpus, HasError(v)
          PROVE  SubSeq(responses[v], FirstError(v) + 1, Len(responses[v]))
                     \in Seq(Responses)
      <4>1. responses[v] \in Seq(Responses) /\ Len(responses[v]) \in Nat
        BY LenProperties DEF ControlType
      <4>2. FirstError(v) \in 1..Len(responses[v])
        BY <3>1, <4>1, FirstErrorThere
      <4>3. /\ FirstError(v) + 1 \in Int /\ Len(responses[v]) \in Int
            /\ \A i \in (FirstError(v) + 1)..Len(responses[v]) :
                  i \in 1..Len(responses[v])
        BY <4>1, <4>2
      <4>4. \A i \in (FirstError(v) + 1)..Len(responses[v]) :
               responses[v][i] \in Responses
        BY <4>1, <4>3, ElementOfSeq
      <4> QED
        BY <4>3, <4>4, SubSeqProperties
    <3> QED
      BY <1>8, <3>1 DEF Process, ControlType
  <2>2. responses' \in [Vcpus -> Seq(Responses)]
    BY <1>8, <2>1 DEF Process
  <2> QED
    BY <1>8, <2>2 DEF Process, ControlType, threads
<1>9. CASE DropBegin
  <2>1. \A v \in Vcpus : Append(events[v], "Finish") \in Seq(Ops \union {"Finish"})
    BY AppendProperties DEF ControlType
  <2>2. PICK failed : events' = [v \in Vcpus |->
           IF v <= handles /\ v \notin failed
           THEN Append(events[v], "Finish") ELSE events[v]]
    BY <1>9 DEF DropBegin
  <2>3. events' \in [Vcpus -> Seq(Ops \union {"Finish"})]
    BY <2>1, <2>2 DEF ControlType
  <2> QED
    BY <1>9, <2>3 DEF DropBegin, ControlType, threads
<1>10. CASE DropEnd
  BY <1>10, SomeVcpus DEF DropEnd, ControlType, channels, threads, history
<1>11. CASE JoinBlocks \/ Dropped \/ ExitEvent \/ UNCHANGED vars
  BY <1>11 DEF JoinBlocks, Dropped, ExitEvent, vars, vmm, channels, threads,
     history, ControlType
<1>12. CASE SendFails
  <2>1. /\ op \in Ops /\ step \in Vcpus
        /\ events' = events \/
             events' = [events EXCEPT ![step] = Append(events[step], op)]
    BY <1>12, SendFailed
  <2>2. Append(events[step], op) \in Seq(Ops \union {"Finish"})
    BY <2>1, AppendProperties DEF ControlType
  <2>3. events' \in [Vcpus -> Seq(Ops \union {"Finish"})]
    BY <2>1, <2>2 DEF ControlType
  <2> QED
    BY <1>12, <2>3, SendFailed DEF ControlType
<1> QED
  BY <1>1, <1>2, <1>3, <1>4, <1>5, <1>6, <1>7, <1>8, <1>9, <1>10, <1>11, <1>12
     DEF Next, Vmm

\* A thread acts only when the VM was started, and it stays what it is for the
\* VMM thread until Drop.
LEMMA VcpuStages ==
    ASSUME ControlType, Stages, NEW v \in Vcpus, Vcpu(v) \/ Exit(v)
    PROVE  /\ UNCHANGED <<vmm, history>> /\ state # "NotStarted"
           /\ Stages'
<1>1. /\ UNCHANGED <<vmm, history>>
      /\ mode[v] \in {"paused", "running", "exited_ok", "exited_error"}
  BY DEF Vcpu, HandleResume, HandlePause, HandleRead, HandleFinish, Exit
<1>2. state # "NotStarted"
  BY <1>1 DEF Stages
<1>3. UNCHANGED <<state, op, result>>
  BY <1>1 DEF vmm, history
<1>4. ASSUME Working, NEW u \in Vcpus
      PROVE  /\ mode'[u] \in {"paused", "running", "exited_ok", "exited_error"}
             /\ events'[u] \in Seq(Ops)
  <2>1. /\ mode[u] \in {"paused", "running", "exited_ok", "exited_error"}
        /\ events[u] \in Seq(Ops) /\ events[v] \in Seq(Ops)
    BY <1>4 DEF Stages
  <2>2. CASE Vcpu(v)
    <3>1. events[v] # <<>> /\ Pop(v)
      BY <2>2 DEF Vcpu, HandleResume, HandlePause, HandleRead, HandleFinish
    <3>2. Head(events[v]) # "Finish"
      BY <2>1, <3>1, ShortSequences DEF Ops
    <3>3. mode'[u] \in {"paused", "running", "exited_ok", "exited_error"}
      BY <2>1, <2>2, <3>2 DEF Vcpu, HandleResume, HandlePause, HandleRead,
         HandleFinish, threads, ControlType
    <3>4. events'[u] \in Seq(Ops)
      BY <2>1, <3>1, PopTakes
    <3> QED
      BY <3>3, <3>4
  <2>3. CASE Exit(v)
    BY <2>1, <2>3 DEF Exit, ControlType
  <2> QED
    BY <2>2, <2>3
<1>5. Stages'
  BY <1>2, <1>3, <1>4 DEF Stages, Working
<1> QED
  BY <1>1, <1>2, <1>5

LEMMA VmmStages ==
    ASSUME ControlType, Stages, Progress, [Next]_vars,
           ~\E v \in Vcpus : Vcpu(v) \/ Exit(v)
    PROVE  Stages'
<1>1. CASE StartVcpu
  BY <1>1 DEF StartVcpu, Stages, Working, ControlType, channels, history, Ops
<1>2. CASE StartFails
  BY <1>2 DEF StartFails, Stages, Working, channels, threads, history, Ops
<1>3. CASE BarrierOpens
  <2>1. \A v \in Vcpus : events[v] = <<>> /\ <<>> \in Seq(Ops)
    BY <1>3 DEF BarrierOpens, Stages
  <2> QED
    BY <1>3, <2>1 DEF BarrierOpens, Stages, channels
<1>4. ASSUME NEW o \in Ops, Begin(o) PROVE Stages'
  BY <1>4 DEF Begin, Idle, Stages, Working, channels, threads, Ops
<1>5. CASE SendEvent
  <2>1. step \in Vcpus /\ op \in Ops /\ state # "NotStarted"
    BY <1>5, SomeVcpus
       DEF SendEvent, Sending, Progress, ControlType, Vcpus, Stages
  <2>2. Working /\ events[step] \in Seq(Ops)
    BY <2>1 DEF Working, Stages
  <2>3. Append(events[step], op) \in Seq(Ops)
    BY <2>1, <2>2, AppendProperties
  <2>4. \A v \in Vcpus : events'[v] \in Seq(Ops)
    BY <1>5, <2>1, <2>2, <2>3 DEF SendEvent, ControlType, Stages
  <2> QED
    BY <1>5, <2>1, <2>2, <2>4 DEF SendEvent, Stages, Working, threads, Ops
<1>6. CASE RecvResponse
  <2>1. op \in Ops /\ state # "NotStarted" /\ UNCHANGED <<events, mode>>
    BY <1>6, Received DEF Stages
  <2>2. PICK r : r = Head(responses[Current])
    OBVIOUS
  <2>3. op' \in {op, "none"} /\ state' # "NotStarted"
    BY <1>6, <2>1, <2>2, ReceivedThen
  <2> QED
    BY <2>1, <2>3 DEF Stages, Working, Ops
<1>7. CASE RecvTimeout
  <2>1. op \in Ops /\ state # "NotStarted" /\ UNCHANGED <<events, mode>>
    BY <1>7 DEF RecvTimeout, Receiving, Stages, channels, threads
  <2>2. op' = "none" /\ state' = state
    BY <1>7 DEF RecvTimeout, Return
  <2> QED
    BY <2>1, <2>2 DEF Stages, Working, Ops
<1>8. CASE Process
  <2>1. UNCHANGED <<state, op, events, mode, result>>
    BY <1>8 DEF Process, threads
  <2>2. ASSUME state = "NotStarted", NEW v \in Vcpus
        PROVE  responses'[v] = <<>>
    <3>1. \A u \in Vcpus : responses[u] = <<>>
      BY <2>2 DEF Stages
    <3>2. \A u \in Vcpus : Len(responses[u]) = 0
      BY <3>1
    <3>3. \A u \in Vcpus : ~HasError(u)
      BY <3>2 DEF HasError
    <3> QED
      BY <1>8, <3>1, <3>3 DEF Process
  <2> QED
    BY <2>1, <2>2 DEF Stages, Working
<1>9. CASE DropBegin
  BY <1>9 DEF DropBegin, Stages, Working, threads, Ops
<1>10. CASE DropEnd
  BY <1>10 DEF DropEnd, Stages, Working, channels, threads, history, Ops
<1>11. CASE JoinBlocks \/ Dropped \/ ExitEvent \/ UNCHANGED vars
  BY <1>11 DEF JoinBlocks, Dropped, ExitEvent, vars, vmm, channels, threads,
     history, Stages, Working
<1>12. CASE SendFails
  <2>1. /\ op \in Ops /\ step \in Vcpus /\ op' = "none" /\ state' = state
        /\ mode' = mode
        /\ events' = events \/
             events' = [events EXCEPT ![step] = Append(events[step], op)]
    BY <1>12, SendFailed
  <2>2. state # "NotStarted" /\ Working
    BY <2>1 DEF Stages, Working
  <2>3. Append(events[step], op) \in Seq(Ops)
    BY <2>1, <2>2, AppendProperties DEF Stages
  <2>4. \A v \in Vcpus : events'[v] \in Seq(Ops)
    BY <2>1, <2>2, <2>3 DEF Stages, ControlType
  <2> QED
    BY <2>1, <2>2, <2>4 DEF Stages, Working, Ops
<1> QED
  BY <1>1, <1>2, <1>3, <1>4, <1>5, <1>6, <1>7, <1>8, <1>9, <1>10, <1>11, <1>12
     DEF Next, Vmm

-----------------------------------------------------------------------------
(***************************************************************************)
(* The threads' steps and what the operations rely on.                     *)
(***************************************************************************)

\* A thread's step leaves the others alone and keeps its own channel in step.
LEMMA VcpuInStep ==
    ASSUME ControlType, Stages, Working, NEW v \in Vcpus, Vcpu(v) \/ Exit(v)
    PROVE  /\ \A u \in Vcpus \ {v} : (InStep(u) => InStep(u)') /\ (Dead(u) => Dead(u)')
           /\ InStep(v) => InStep(v)'
           /\ Dead(v) => Dead(v)'
           /\ \A u \in Vcpus : Dead(u)' => Dead(u)
           /\ \A u \in Vcpus : \A o, r : Done(o, u, r) => Done(o, u, r)'
<1>1. UNCHANGED <<op, step, state, exit_code>>
  BY VcpuStages DEF vmm
<1>2. \A u \in Vcpus : Out(u)' <=> Out(u)
  BY <1>1 DEF Out
<1>3. ASSUME NEW u \in Vcpus \ {v}
      PROVE  /\ mode'[u] = mode[u] /\ runs'[u] = runs[u]
             /\ events'[u] = events[u] /\ responses'[u] = responses[u]
  <2>1. mode'[u] = mode[u] /\ runs'[u] = runs[u]
    BY <1>3 DEF Vcpu, HandleResume, HandlePause, HandleRead, HandleFinish, Exit,
       threads, ControlType
  <2>2. events'[u] = events[u]
    BY <1>3 DEF Vcpu, HandleResume, HandlePause, HandleRead, HandleFinish, Exit,
       Pop, ControlType
  <2>3. responses'[u] = responses[u]
    BY <1>3 DEF Vcpu, HandleResume, HandlePause, HandleRead, HandleFinish, Exit,
       Reply, ControlType
  <2> QED
    BY <2>1, <2>2, <2>3
<1>4. \A u \in Vcpus \ {v} : /\ InStep(u) => InStep(u)'
                             /\ Dead(u) <=> Dead(u)'
                             /\ \A o, r : Done(o, u, r) => Done(o, u, r)'
  BY <1>1, <1>2, <1>3 DEF InStep, Alive, Exited, Answers, AnsweredRunning, Dead, Done
<1>5. PICK l \in Nat : /\ l = Len(responses[v]) /\ responses[v] \in Seq(Responses)
                       /\ events[v] \in Seq(Ops)
  BY ShortSequences DEF ControlType, Stages
<1> DEFINE Keeps == /\ InStep(v) => InStep(v)'
                    /\ Dead(v) <=> Dead(v)'
                    /\ \A o, r : Done(o, v, r) => Done(o, v, r)'
<1>6. ASSUME HandleResume(v) \/ HandlePause(v) \/ HandleRead(v)
      PROVE  Keeps
  <2>1. Alive(v) /\ events[v] # <<>> /\ Pop(v)
    BY <1>6 DEF HandleResume, HandlePause, HandleRead, Alive
  <2>2. PICK kind \in Kinds :
           /\ Reply(v, kind)
           /\ HandleResume(v) => kind = "Resumed"
           /\ HandlePause(v) => kind = "Paused"
           /\ HandleRead(v) /\ kind = "SavedState" => mode[v] = "paused"
    BY <1>6, VcpuReplies DEF HandleResume, HandlePause, HandleRead, Kinds
  <2>3. /\ Len(responses'[v]) = l + 1
        /\ responses'[v][l + 1] = [kind |-> kind, run |-> runs[v]]
        /\ responses' \in [Vcpus -> Seq(Responses)]
    BY <1>5, <2>2, ReplyAdds DEF Response
  <2>4. Alive(v)' /\ mode' \in [Vcpus -> Modes]
    BY <1>6 DEF HandleResume, HandlePause, HandleRead, Alive, threads, ControlType,
       Modes
  <2>5. ~Exited(v) /\ ~Exited(v)'
    BY <2>1, <2>4 DEF Alive, Exited
  <2>6. \A o, r : Done(o, v, r) => o \notin {"Pause", "Resume", "SaveState"}
    BY <2>1, <2>5 DEF Done
  <2>7. ASSUME InStep(v) PROVE InStep(v)'
    <3>1. /\ Out(v) /\ responses[v] = <<>>
          /\ Len(events[v]) = 1 /\ events[v][1] = op
      BY <2>1, <2>5, <2>7 DEF InStep
    <3>2. l = 0 /\ events'[v] = <<>> /\ Head(events[v]) = op
      BY <1>5, <2>1, <3>1, PopTakes, ShortSequences
    <3>3. Answers(v, responses[v][1])'
      <4>1. /\ responses'[v][1].kind = kind /\ responses'[v][1].run = runs[v]
        BY <2>3, <3>2
      <4>2. CASE HandleResume(v)
        <5>1. op = "Resume" /\ mode'[v] = "running" /\ kind = "Resumed"
          BY <2>2, <3>2, <4>2 DEF HandleResume, ControlType
        <5> QED
          BY <1>1, <4>1, <5>1 DEF Answers
      <4>3. CASE HandlePause(v)
        <5>1. op = "Pause" /\ mode'[v] = "paused" /\ kind = "Paused"
          BY <2>2, <3>2, <4>3 DEF HandlePause, ControlType
        <5> QED
          BY <1>1, <4>1, <5>1 DEF Answers
      <4>4. CASE HandleRead(v)
        <5>1. /\ op \in {"SaveState", "DumpCpuConfig"}
              /\ UNCHANGED <<mode, runs>>
              /\ kind = "SavedState" => mode[v] = "paused"
          BY <2>2, <3>2, <4>4 DEF HandleRead, threads
        <5> QED
          BY <1>1, <4>1, <5>1 DEF Answers
      <4> QED
        BY <1>6, <4>2, <4>3, <4>4
    <3> QED
      BY <1>2, <2>3, <2>4, <3>1, <3>2, <3>3 DEF InStep
  <2>8. \A o, r : Done(o, v, r) => Done(o, v, r)'
    BY <2>6 DEF Done
  <2> QED
    BY <2>5, <2>7, <2>8 DEF Dead
<1>7. ASSUME HandleFinish(v)
      PROVE  Keeps
  <2>1. events[v] # <<>> /\ Head(events[v]) # "Finish"
    BY <1>5, <1>7, ShortSequences DEF HandleFinish, Ops
  <2>2. UNCHANGED <<mode, runs, responses>> /\ Exited(v)
    BY <1>7, <2>1 DEF HandleFinish, Exited
  <2>3. Exited(v)' /\ ~Alive(v) /\ mode[v] # "paused"
    BY <2>2 DEF Exited, Alive
  <2>4. \A o, r : Done(o, v, r) => Done(o, v, r)'
    BY <2>2, <2>3 DEF Done
  <2>5. InStep(v) => InStep(v)'
    BY <1>1, <1>2, <2>2, <2>3 DEF InStep, AnsweredRunning
  <2> QED
    BY <2>2, <2>3, <2>4, <2>5 DEF Dead
<1>8. ASSUME Exit(v)
      PROVE  Keeps
  <2>1. PICK kind \in ExitKinds :
           /\ Reply(v, kind)
           /\ mode' = [mode EXCEPT ![v] = IF kind = "ExitedOk"
                                THEN "exited_ok" ELSE "exited_error"]
    BY <1>8, VcpuReplies
  <2>2. mode[v] = "running" /\ ~Exited(v) /\ Exited(v)'
    BY <1>8, <2>1 DEF Exit, Exited, ControlType
  <2>3. kind \in Kinds
    BY <2>1 DEF ExitKinds, Kinds
  <2>4. /\ Len(responses'[v]) = l + 1 /\ responses'[v][l + 1].kind = kind
        /\ \A k \in 1..l : responses'[v][k] = responses[v][k]
        /\ responses' \in [Vcpus -> Seq(Responses)]
    <3>1. Response(kind, v).kind = kind
      BY DEF Response
    <3> QED
      BY <1>5, <2>1, <2>3, <3>1, ReplyAdds
  <2>5. responses'[v] # <<>>
    BY <1>5, <2>4, ShortSequences
  <2>6. \A o, r : Done(o, v, r) => Done(o, v, r)'
    BY <2>2 DEF Done
  <2>7. ASSUME InStep(v) PROVE InStep(v)'
    <3>1. CASE responses[v] = <<>>
      <4>1. l = 0
        BY <1>5, <3>1
      <4> QED
        BY <2>1, <2>2, <2>4, <4>1 DEF InStep
    <3>2. CASE responses[v] # <<>>
      <4>1. Out(v) /\ l = 1 /\ Answers(v, responses[v][1])
        BY <1>5, <2>2, <2>7, <3>2 DEF InStep
      <4>2. AnsweredRunning(responses[v][1])'
        BY <1>1, <2>2, <2>4, <4>1 DEF Answers, AnsweredRunning
      <4>3. Len(responses'[v]) = 2 /\ responses'[v][2].kind \in ExitKinds
        BY <2>1, <2>4, <4>1
      <4> QED
        BY <1>2, <2>2, <4>1, <4>2, <4>3 DEF InStep
    <3> QED
      BY <3>1, <3>2
  <2> QED
    BY <2>2, <2>5, <2>6, <2>7 DEF Dead
<1>9. Keeps
  BY <1>6, <1>7, <1>8 DEF Vcpu
<1> QED
  BY <1>4, <1>9

LEMMA OpsWork ==
    ASSUME Stages, op \in Ops \/ (op = "none" /\ result.ok)
    PROVE  Working
BY DEF Stages, Working

LEMMA GotFrom ==
    ASSUME ControlType, Progress, op \in Ops
    PROVE  1..Len(got) \subseteq Vcpus
BY SomeVcpus DEF ControlType, Progress, Vcpus

LEMMA VcpuKeeps ==
    ASSUME ControlType, Stages, StaleBehindDead, Progress, OkIsDone,
           NEW v \in Vcpus, Vcpu(v) \/ Exit(v)
    PROVE  StaleBehindDead' /\ Progress' /\ OkIsDone'
<1>1. UNCHANGED <<state, exit_code, op, step, got, disturbed, result>>
  BY VcpuStages DEF vmm, history
<1>2. StaleBehindDead'
  <2> SUFFICES ASSUME ~disturbed, Working, exit_code = "none", NEW u \in Vcpus
               PROVE  InStep(u)' \/ \E d \in Vcpus : d < u /\ Dead(d)'
    BY <1>1 DEF StaleBehindDead, Working
  <2>1. InStep(u) \/ \E d \in Vcpus : d < u /\ Dead(d)
    BY DEF StaleBehindDead
  <2> QED
    BY <2>1, VcpuInStep
<1>3. Progress'
  <2> SUFFICES ASSUME op \in Ops
               PROVE  Progress'
    BY <1>1 DEF Progress
  <2>1. ASSUME ~disturbed, AllSoFar, NEW j \in 1..Len(got)
        PROVE  ~Dead(j)' /\ Done(op, j, got[j])'
    <3>1. ~Dead(j) /\ Done(op, j, got[j]) /\ j \in Vcpus
      BY <2>1, GotFrom DEF Progress
    <3>2. PICK o, x : o = op /\ x = got[j]
      OBVIOUS
    <3>3. Done(o, j, x)'
      BY <3>1, <3>2, VcpuInStep, OpsWork
    <3>4. Done(op, j, got[j])'
      BY <1>1, <3>2, <3>3 DEF Done
    <3> QED
      BY <3>1, <3>4, VcpuInStep, OpsWork
  <2>2. AllSoFar' = AllSoFar
    BY <1>1 DEF AllSoFar
  <2> QED
    BY <1>1, <2>1, <2>2 DEF Progress
<1>4. OkIsDone'
  <2> SUFFICES ASSUME ~disturbed, op = "none", result.ok, NEW u \in Vcpus
               PROVE  Len(got) = N /\ Done(result.op, u, got[u])'
    BY <1>1 DEF OkIsDone
  <2>1. Len(got) = N /\ Done(result.op, u, got[u])
    BY DEF OkIsDone
  <2>2. PICK o, x : o = result.op /\ x = got[u]
    OBVIOUS
  <2>3. Done(o, u, x)'
    BY <2>1, <2>2, VcpuInStep, OpsWork
  <2> QED
    BY <1>1, <2>1, <2>2, <2>3 DEF Done
<1> QED
  BY <1>2, <1>3, <1>4

-----------------------------------------------------------------------------
(***************************************************************************)
(* Receiving.                                                              *)
(***************************************************************************)

\* A response that a channel in step holds: the wanted one has had its effect,
\* and one that stops the operation was an exit.
LEMMA ReceivedInStep ==
    ASSUME ControlType, Progress, RecvResponse, NEW c, c = Current, InStep(c),
           NEW o, o = op, NEW r, r = Head(responses[c])
    PROVE  /\ r.kind = Wanted(o) => ~Dead(c)' /\ Done(o, c, r)'
           /\ StopsAt(r) => Dead(c)'
           /\ Exited(c) =>
                \/ responses'[c] = <<>>
                \/ /\ Len(responses'[c]) = 1
                   /\ responses'[c][1].kind \in ExitKinds
           /\ Alive(c) => events[c] = <<>> /\ responses'[c] = <<>>
<1>1. /\ c \in Vcpus /\ op \in Ops /\ step = c + N
      /\ responses[c] \in Seq(Responses) /\ responses[c] # <<>>
      /\ r = responses[c][1] /\ r \in Responses
      /\ responses'[c] = Tail(responses[c]) /\ responses'[c] \in Seq(Responses)
      /\ UNCHANGED <<events, mode, runs>>
  BY Received
<1>2. PICK l \in Nat :
         /\ l = Len(responses[c]) /\ Len(responses'[c]) = l - 1 /\ l # 0
         /\ \A k \in 1..(l - 1) : responses'[c][k] = responses[c][k + 1]
         /\ responses'[c] = <<>> <=> l = 1
  <2>1. PICK l \in Nat :
           /\ l = Len(responses[c]) /\ Len(responses'[c]) = l - 1 /\ l # 0
           /\ \A k \in 1..(l - 1) : responses'[c][k] = responses[c][k + 1]
    BY <1>1, ShortSequences
  <2>2. responses'[c] = <<>> <=> Len(responses[c]) = 1
    BY <1>1, TailEmpty
  <2> QED
    BY <2>1, <2>2
<1>3. PICK s : s = r.kind /\ s \in Kinds
  BY <1>1 DEF Responses
<1>4. Exited(c)' <=> Exited(c)
  BY <1>1 DEF Exited
<1>5. CASE Alive(c)
  <2>1. ~Exited(c)
    BY <1>5 DEF Alive, Exited
  <2>2. events[c] = <<>> /\ l = 1 /\ Answers(c, r)
    BY <1>1, <1>2, <2>1 DEF InStep
  <2>3. ~StopsAt(r)
    BY <2>2, WantedIs DEF Answers, StopsAt
  <2>4. ASSUME r.kind = Wanted(op) PROVE Done(o, c, r)'
    <3>1. CASE op = "SaveState"
      <4>1. r.kind = "SavedState" /\ r.run = runs[c] /\ mode[c] = "paused"
        BY <2>2, <2>4, <3>1, WantedIs DEF Answers
      <4>2. r = [kind |-> "SavedState", run |-> runs[c]]
        BY <1>1, <4>1 DEF Responses
      <4> QED
        BY <1>1, <2>2, <3>1, <4>1, <4>2 DEF Done
    <3>2. CASE op # "SaveState"
      BY <1>1, <2>2, <3>2 DEF Done, Answers
    <3> QED
      BY <3>1, <3>2
  <2> QED
    BY <1>2, <1>4, <2>1, <2>2, <2>3, <2>4 DEF Dead
<1>6. CASE Exited(c)
  <2>1. ~Alive(c)
    BY <1>6 DEF Alive, Exited
  <2>2. CASE l = 1
    <3>1. s \in ExitKinds
      BY <1>1, <1>2, <1>3, <2>1, <2>2 DEF InStep
    <3>2. r.kind # Wanted(op)
      BY <1>1, <1>3, <3>1, WantedIs DEF Ops, ExitKinds
    <3> QED
      BY <1>2, <1>4, <1>6, <2>1, <2>2, <3>2 DEF Dead
  <2>3. CASE l # 1
    <3>1. /\ l = 2 /\ AnsweredRunning(r) /\ responses[c][2].kind \in ExitKinds
      BY <1>1, <1>2, <2>1, <2>3 DEF InStep
    <3>2. Len(responses'[c]) = 1 /\ responses'[c][1].kind \in ExitKinds
      BY <1>2, <3>1
    <3>3. ~StopsAt(r)
      BY <3>1, WantedIs DEF AnsweredRunning, StopsAt
    <3>4. r.kind = Wanted(op) => o \notin {"Pause", "SaveState"}
      BY <3>1, WantedIs DEF AnsweredRunning
    <3>5. r.kind = Wanted(op) => Done(o, c, r)'
      BY <1>4, <1>6, <3>4 DEF Done
    <3> QED
      BY <1>2, <2>1, <2>3, <3>2, <3>3, <3>5 DEF Dead
  <2> QED
    BY <2>2, <2>3
<1> QED
  BY <1>5, <1>6 DEF InStep

\* The other handles' channels and threads are as they were.
LEMMA ReceivedOthers ==
    ASSUME ControlType, Progress, RecvResponse, NEW c, c = Current,
           NEW u \in Vcpus, u # c
    PROVE  /\ Dead(u)' <=> Dead(u)
           /\ \A o, x : Done(o, u, x) => Done(o, u, x)'
           /\ InStep(u) /\ (Out(u)' <=> Out(u)) /\ op' = op => InStep(u)'
           /\ InStep(u) /\ ~Out(u)' /\ ~Out(u) => InStep(u)'
<1>1. responses'[u] = responses[u] /\ UNCHANGED <<events, mode, runs>>
  BY Received
<1>2. (Dead(u)' <=> Dead(u)) /\ \A o, x : Done(o, u, x) => Done(o, u, x)'
  BY <1>1 DEF Dead, Exited, Done
<1>3. ASSUME InStep(u), Out(u)' <=> Out(u), op' = op PROVE InStep(u)'
  BY <1>1, <1>3 DEF InStep, Alive, Exited, Answers, AnsweredRunning
<1>4. ASSUME InStep(u), ~Out(u)', ~Out(u) PROVE InStep(u)'
  BY <1>1, <1>4 DEF InStep, Alive, Exited
<1> QED
  BY <1>2, <1>3, <1>4

\* Either the channel is in step, or an earlier vCPU is dead and stays so.
LEMMA ReceivedFrom ==
    ASSUME ControlType, Stages, StaleBehindDead, Progress, RecvResponse, ~disturbed,
           NEW c, c = Current
    PROVE  InStep(c) \/ \E u \in Vcpus : u < c /\ Dead(u) /\ Dead(u)'
<1>1. c \in Vcpus /\ op \in Ops /\ responses[c] # <<>>
  BY Received
<1>2. Working /\ exit_code = "none"
  BY <1>1, OpsWork DEF Progress
<1>3. InStep(c) \/ \E u \in Vcpus : u < c /\ Dead(u)
  BY <1>1, <1>2 DEF StaleBehindDead
<1>4. \A u \in Vcpus : u < c => u # c
  BY <1>1, SomeVcpus
<1> QED
  BY <1>3, <1>4, ReceivedOthers

\* As long as the responses are the wanted ones, the operation is done for the
\* vCPUs it has heard from.
LEMMA ReceivedAll ==
    ASSUME ControlType, Stages, StaleBehindDead, Progress, RecvResponse, ~disturbed,
           NEW c, c = Current, NEW o, o = op, AllWanted(got')
    PROVE  \A j \in 1..c : ~Dead(j)' /\ \A x : x = got'[j] => Done(o, j, x)'
<1>1. /\ c \in Vcpus /\ op \in Ops /\ Len(got') = c /\ Len(got) = c - 1
      /\ \A j \in 1..(c - 1) : got'[j] = got[j]
      /\ got'[c] = Head(responses[c])
  BY Received
<1>2. c \in Nat /\ 1 <= c /\ c <= N /\ N \in Nat
  BY <1>1, SomeVcpus
<1>3. \A j \in 1..c : got'[j].kind = Wanted(o)
  BY <1>1 DEF AllWanted
<1>4. AllSoFar
  BY <1>1, <1>2, <1>3 DEF AllSoFar
<1>5. ASSUME NEW j \in 1..(c - 1)
      PROVE  ~Dead(j) /\ ~Dead(j)' /\ \A x : x = got'[j] => Done(o, j, x)'
  <2>1. ~Dead(j) /\ Done(o, j, got[j])
    BY <1>1, <1>4 DEF Progress
  <2>2. j \in Vcpus /\ j # c
    BY <1>2 DEF Vcpus
  <2>3. PICK x : x = got[j] /\ x = got'[j] /\ Done(o, j, x)
    BY <1>1, <2>1
  <2> QED
    BY <2>1, <2>2, <2>3, ReceivedOthers
<1>6. \A u \in Vcpus : u < c => u \in 1..(c - 1)
  BY <1>2, SomeVcpus
<1>7. InStep(c)
  BY <1>5, <1>6, ReceivedFrom
<1>8. PICK r : r = Head(responses[c]) /\ r.kind = Wanted(o) /\ r = got'[c]
  BY <1>1, <1>2, <1>3
<1>9. ~Dead(c)' /\ Done(o, c, r)'
  BY <1>7, <1>8, ReceivedInStep
<1>10. \A j \in 1..c : j \in 1..(c - 1) \/ j = c
  BY <1>2
<1> QED
  BY <1>5, <1>8, <1>9, <1>10

LEMMA RecvKeeps ==
    ASSUME ControlType, Stages, StaleBehindDead, Progress, OkIsDone, RecvResponse
    PROVE  StaleBehindDead' /\ Progress' /\ OkIsDone'
<1>1. PICK c, o, r : c = Current /\ o = op /\ r = Head(responses[c])
  OBVIOUS
<1>2. /\ c \in Vcpus /\ o \in Ops /\ step = c + N /\ step' = step + 1
      /\ Len(got') = c /\ UNCHANGED <<exit_code, disturbed, events, mode>>
  BY <1>1, Received
<1>3. c \in Nat /\ 1 <= c /\ c <= N /\ N \in Nat /\ exit_code = "none"
  BY <1>1, <1>2, SomeVcpus DEF Progress
<1>4. \/ StopsAt(r) /\ op' = "none" /\ ~result'.ok
      \/ ~StopsAt(r) /\ c # N /\ op' = op
      \/ ~StopsAt(r) /\ c = N /\ op' = "none" /\ result'.op = o
                     /\ result'.ok = AllWanted(got')
  BY <1>1, ReceivedThen
<1>5. StaleBehindDead'
  <2> SUFFICES ASSUME ~disturbed, NEW v \in Vcpus
               PROVE  InStep(v)' \/ \E d \in Vcpus : d < v /\ Dead(d)'
    BY <1>2 DEF StaleBehindDead
  <2>1. InStep(v) \/ \E u \in Vcpus : u < v /\ Dead(u)
    BY <1>1, <1>2, <1>3, OpsWork DEF StaleBehindDead
  <2>2. ASSUME NEW u \in Vcpus, u < v, Dead(u) PROVE Dead(u)'
    <3>1. u # c
      BY <1>1, <2>2, Received DEF Dead
    <3> QED
      BY <1>1, <2>2, <3>1, ReceivedOthers
  <2>3. v \in Nat /\ 1 <= v /\ v <= N
    BY SomeVcpus
  <2>4. /\ Out(v) <=> c <= v
        /\ Out(v)' <=> op' \in Ops /\ c + 1 <= v
    BY <1>1, <1>2, <1>3, <2>3 DEF Out
  <2>5. ASSUME InStep(v), v = c PROVE InStep(v)'
    <3>1. ~Out(v)'
      BY <1>3, <2>4, <2>5
    <3>2. CASE Alive(v)
      <4>1. events'[v] = <<>> /\ responses'[v] = <<>> /\ Alive(v)'
        BY <1>1, <1>2, <2>5, <3>2, ReceivedInStep DEF Alive
      <4> QED
        BY <3>1, <4>1 DEF InStep
    <3>3. CASE Exited(v)
      <4>1. /\ Exited(v)'
            /\ \/ responses'[v] = <<>>
               \/ Len(responses'[v]) = 1 /\ responses'[v][1].kind \in ExitKinds
        BY <1>1, <1>2, <2>5, <3>3, ReceivedInStep DEF Exited
      <4> QED
        BY <4>1 DEF InStep
    <3> QED
      BY <2>5, <3>2, <3>3 DEF InStep
  <2>6. ASSUME InStep(v), v # c, op' = op PROVE InStep(v)'
    <3>1. Out(v)' <=> Out(v)
      BY <1>1, <1>2, <1>3, <2>3, <2>4, <2>6
    <3> QED
      BY <1>1, <2>6, <3>1, ReceivedOthers
  <2>7. ASSUME InStep(v), v < c, op' = "none" PROVE InStep(v)'
    <3>1. ~Out(v)' /\ ~Out(v) /\ v # c
      BY <1>3, <2>3, <2>4, <2>7 DEF Ops
    <3> QED
      BY <1>1, <2>7, <3>1, ReceivedOthers
  <2>8. ASSUME v > c, op' = "none" PROVE \E d \in Vcpus : d < v /\ Dead(d)'
    <3>1. StopsAt(r)
      <4>1. c # N
        BY <1>3, <2>3, <2>8
      <4>2. op' # op
        BY <1>1, <1>2, <2>8 DEF Ops
      <4> QED
        BY <1>4, <4>1, <4>2
    <3>2. Dead(c)' \/ \E u \in Vcpus : u < c /\ Dead(u)'
      BY <1>1, <3>1, ReceivedFrom, ReceivedInStep
    <3>3. \A u \in Vcpus : u < c => u < v
      BY <1>3, <2>3, <2>8, SomeVcpus
    <3>4. c < v
      BY <1>3, <2>3, <2>8
    <3> QED
      BY <1>2, <3>2, <3>3, <3>4
  <2>9. v = c \/ v < c \/ v > c
    BY <1>3, <2>3
  <2> QED
    BY <1>4, <2>1, <2>2, <2>5, <2>6, <2>7, <2>8, <2>9
<1>6. ASSUME ~disturbed, AllWanted(got')
      PROVE  \A j \in 1..c : ~Dead(j)' /\ \A x : x = got'[j] => Done(o, j, x)'
  BY <1>1, <1>6, ReceivedAll
<1>7. Progress'
  <2> SUFFICES ASSUME op' \in Ops PROVE Progress'
    BY DEF Progress
  <2>1. op' = op /\ c # N
    BY <1>4 DEF Ops
  <2>2. /\ step' >= 1 /\ step' <= N + N /\ exit_code' = "none"
        /\ Len(got') = IF step' <= N THEN 0 ELSE step' - N - 1
    BY <1>2, <1>3, <2>1
  <2>3. ASSUME ~disturbed, AllSoFar' PROVE AllWanted(got')
    BY <1>2, <2>1, <2>3 DEF AllSoFar, AllWanted
  <2>4. ASSUME ~disturbed, AllSoFar', NEW j \in 1..c
        PROVE  ~Dead(j)' /\ Done(op, j, got[j])'
    <3>1. PICK x : x = got'[j]
      OBVIOUS
    <3>2. ~Dead(j)' /\ Done(o, j, x)'
      BY <1>6, <2>3, <2>4, <3>1
    <3>3. Done(op, j, got[j])'
      BY <1>1, <2>1, <3>1, <3>2 DEF Done
    <3> QED
      BY <3>2, <3>3
  <2> QED
    BY <1>2, <2>2, <2>4 DEF Progress
<1>8. OkIsDone'
  <2> SUFFICES ASSUME ~disturbed, op' = "none", result'.ok PROVE OkIsDone'
    BY <1>2 DEF OkIsDone
  <2>1. c = N /\ result'.op = o /\ AllWanted(got')
    BY <1>1, <1>2, <1>4 DEF Ops
  <2>2. ASSUME NEW v \in Vcpus PROVE Done(result.op, v, got[v])'
    <3>1. PICK x : x = got'[v]
      OBVIOUS
    <3>2. Done(o, v, x)'
      BY <1>6, <2>1, <3>1 DEF Vcpus
    <3> QED
      BY <2>1, <3>1, <3>2 DEF Done
  <2> QED
    BY <1>2, <2>1, <2>2 DEF OkIsDone
<1> QED
  BY <1>5, <1>7, <1>8

-----------------------------------------------------------------------------
(***************************************************************************)
(* The other steps of the VMM thread.                                      *)
(***************************************************************************)

\* A channel in step stays so when the operation changes and v is not involved.
LEMMA IdleInStep ==
    ASSUME NEW v \in Vcpus, InStep(v), ~Out(v), ~Out(v)',
           UNCHANGED <<events, responses, mode>>
    PROVE  InStep(v)'
BY DEF InStep, Alive, Exited

LEMMA BeginKeeps ==
    ASSUME ControlType, Stages, StaleBehindDead, NEW b \in Ops, Begin(b)
    PROVE  StaleBehindDead' /\ Progress' /\ OkIsDone'
<1>1. /\ op = "none" /\ exit_code = "none" /\ state # "NotStarted"
      /\ op' = b /\ step' = 1 /\ got' = <<>>
      /\ UNCHANGED <<state, exit_code, events, responses, mode, disturbed>>
  BY DEF Begin, Idle, channels, threads
<1>2. StaleBehindDead'
  <2> SUFFICES ASSUME ~disturbed, NEW v \in Vcpus
               PROVE  InStep(v)' \/ \E d \in Vcpus : d < v /\ Dead(d)'
    BY <1>1 DEF StaleBehindDead
  <2>1. InStep(v) \/ \E d \in Vcpus : d < v /\ Dead(d)
    BY <1>1 DEF StaleBehindDead, Working
  <2>2. ~Out(v) /\ ~Out(v)'
    BY <1>1, SomeVcpus DEF Out, Ops
  <2>3. \A d \in Vcpus : Dead(d) => Dead(d)'
    BY <1>1 DEF Dead, Exited
  <2> QED
    BY <1>1, <2>1, <2>2, <2>3, IdleInStep
<1>3. Progress'
  <2>1. Len(got') = 0 /\ step' = 1 /\ exit_code' = "none"
    BY <1>1
  <2> QED
    BY <2>1, SomeVcpus DEF Progress
<1>4. OkIsDone'
  BY <1>1 DEF OkIsDone, Ops
<1> QED
  BY <1>2, <1>3, <1>4

LEMMA SendKeeps ==
    ASSUME ControlType, Stages, StaleBehindDead, Progress, SendEvent
    PROVE  StaleBehindDead' /\ Progress' /\ OkIsDone'
<1>1. /\ op \in Ops /\ step' = step + 1
      /\ events' = [events EXCEPT ![step] = Append(events[step], op)]
      /\ UNCHANGED <<state, exit_code, op, got, responses, mode, runs, disturbed>>
  BY DEF SendEvent, Sending, threads, history
<1>2. PICK s : s = step /\ s \in Vcpus /\ s \in Nat /\ 1 <= s /\ s <= N /\ N \in Nat
  <2>1. step \in Vcpus /\ step \in Nat /\ 1 <= step /\ step <= N /\ N \in Nat
    BY SomeVcpus DEF SendEvent, Sending, Progress, ControlType, Vcpus
  <2> QED
    BY <2>1
<1>3. StaleBehindDead'
  <2> SUFFICES ASSUME ~disturbed, Working, exit_code = "none", NEW v \in Vcpus
               PROVE  InStep(v)' \/ \E d \in Vcpus : d < v /\ Dead(d)'
    BY <1>1 DEF StaleBehindDead, Working
  <2>1. InStep(v) \/ \E d \in Vcpus : d < v /\ Dead(d)
    BY DEF StaleBehindDead
  <2>2. \A d \in Vcpus : Dead(d) => Dead(d)'
    BY <1>1 DEF Dead, Exited
  <2>3. v \in Nat /\ 1 <= v /\ v <= N
    BY SomeVcpus
  <2>4. ASSUME InStep(v), v # s PROVE InStep(v)'
    <3>1. events'[v] = events[v]
      BY <1>1, <1>2, <2>4 DEF ControlType
    <3>2. Out(v)' <=> Out(v)
      BY <1>1, <1>2, <2>3, <2>4 DEF Out
    <3> QED
      BY <1>1, <2>4, <3>1, <3>2
         DEF InStep, Alive, Exited, Answers, AnsweredRunning
  <2>5. ASSUME InStep(v), v = s PROVE InStep(v)'
    <3>1. ~Out(v) /\ Out(v)'
      BY <1>1, <1>2, <2>5 DEF Out
    <3>2. CASE Alive(v)
      <4>1. ~Exited(v) /\ Alive(v)'
        BY <1>1, <3>2 DEF Alive, Exited
      <4>2. events[v] = <<>> /\ responses[v] = <<>>
        BY <2>5, <3>1, <4>1 DEF InStep
      <4>3. events'[v] = Append(<<>>, op)
        BY <1>1, <1>2, <2>5, <4>2 DEF ControlType
      <4>4. Len(events'[v]) = 1 /\ events'[v][1] = op'
        <5>1. Len(Append(<<>>, op)) = 1 /\ Append(<<>>, op)[1] = op
          OBVIOUS
        <5> QED
          BY <1>1, <4>3, <5>1
      <4> QED
        BY <1>1, <3>1, <4>1, <4>2, <4>4 DEF InStep
    <3>3. CASE Exited(v)
      <4>1. ~Alive(v) /\ Exited(v)'
        BY <1>1, <3>3 DEF Alive, Exited
      <4> QED
        BY <1>1, <2>5, <3>1, <4>1 DEF InStep
    <3> QED
      BY <2>5, <3>2, <3>3 DEF InStep
  <2> QED
    BY <2>1, <2>2, <2>4, <2>5
<1>4. Progress'
  <2>1. Len(got) = 0 /\ exit_code = "none"
    BY <1>1, <1>2 DEF Progress
  <2>2. /\ step' >= 1 /\ step' <= N + N
        /\ Len(got') = IF step' <= N THEN 0 ELSE step' - N - 1
    BY <1>1, <1>2, <2>1
  <2>3. 1..Len(got)' = {}
    BY <1>1, <2>1
  <2> QED
    BY <1>1, <2>1, <2>2, <2>3 DEF Progress
<1>5. OkIsDone'
  BY <1>1 DEF OkIsDone, Ops
<1> QED
  BY <1>3, <1>4, <1>5

LEMMA TimeoutKeeps ==
    ASSUME ControlType, Stages, StaleBehindDead, Progress, RecvTimeout
    PROVE  StaleBehindDead' /\ Progress' /\ OkIsDone'
<1>1. /\ op \in Ops /\ op' = "none" /\ ~result'.ok /\ state' = state
      /\ responses[Current] = <<>>
      /\ UNCHANGED <<exit_code, events, responses, mode>>
  BY DEF RecvTimeout, Receiving, Return, channels, threads
<1>2. PICK c : c = Current /\ c \in Vcpus /\ step = c + N
  <2>1. Current \in Vcpus /\ step = Current + N
    BY SomeVcpus DEF RecvTimeout, Receiving, Progress, ControlType, Current, Vcpus
  <2> QED
    BY <2>1
<1>3. ~disturbed' => ~disturbed /\ Dead(c) /\ Dead(c)'
  BY <1>1, <1>2 DEF RecvTimeout, Dead, Exited
<1>4. StaleBehindDead'
  <2> SUFFICES ASSUME ~disturbed, Dead(c), Dead(c)', NEW v \in Vcpus
               PROVE  InStep(v)' \/ \E d \in Vcpus : d < v /\ Dead(d)'
    BY <1>3 DEF StaleBehindDead
  <2>1. InStep(v) \/ \E d \in Vcpus : d < v /\ Dead(d)
    BY <1>1, OpsWork DEF StaleBehindDead, Progress
  <2>2. \A d \in Vcpus : Dead(d) => Dead(d)'
    BY <1>1 DEF Dead, Exited
  <2>3. v \in Nat /\ 1 <= v /\ v <= N /\ c \in Nat /\ N \in Nat
    BY <1>2, SomeVcpus
  <2>4. ASSUME v < c, InStep(v) PROVE InStep(v)'
    <3>1. ~Out(v) /\ ~Out(v)'
      BY <1>1, <1>2, <2>3, <2>4 DEF Out, Ops
    <3> QED
      BY <1>1, <2>4, <3>1, IdleInStep
  <2>5. InStep(c)'
    BY DEF Dead, InStep
  <2>6. v < c \/ v = c \/ c < v
    BY <2>3
  <2> QED
    BY <1>2, <2>1, <2>2, <2>4, <2>5, <2>6
<1>5. Progress' /\ OkIsDone'
  BY <1>1 DEF Progress, OkIsDone, Ops
<1> QED
  BY <1>4, <1>5

\* Only a send to the first handle that left no event leaves nothing behind.
LEMMA SendFailsKeeps ==
    ASSUME ControlType, Stages, StaleBehindDead, Progress, SendFails
    PROVE  StaleBehindDead' /\ Progress' /\ OkIsDone'
<1>1. /\ op \in Ops /\ op' = "none" /\ ~result'.ok
      /\ UNCHANGED <<exit_code, responses, mode>>
      /\ ~disturbed' => ~disturbed /\ step = 1 /\ events' = events
  BY SendFailed
<1>2. StaleBehindDead'
  <2> SUFFICES ASSUME ~disturbed, step = 1, events' = events, NEW v \in Vcpus
               PROVE  InStep(v)' \/ \E d \in Vcpus : d < v /\ Dead(d)'
    BY <1>1 DEF StaleBehindDead
  <2>1. InStep(v) \/ \E d \in Vcpus : d < v /\ Dead(d)
    BY <1>1, OpsWork DEF StaleBehindDead, Progress
  <2>2. ~Out(v) /\ ~Out(v)'
    BY <1>1, SomeVcpus DEF Out, Ops
  <2>3. \A d \in Vcpus : Dead(d) => Dead(d)'
    BY <1>1 DEF Dead, Exited
  <2> QED
    BY <1>1, <2>1, <2>2, <2>3, IdleInStep
<1>3. Progress' /\ OkIsDone'
  BY <1>1 DEF Progress, OkIsDone, Ops
<1> QED
  BY <1>2, <1>3

LEMMA VmmKeeps ==
    ASSUME ControlType, Stages, StaleBehindDead, Progress, OkIsDone, [Next]_vars,
           ~\E v \in Vcpus : Vcpu(v) \/ Exit(v)
    PROVE  StaleBehindDead' /\ Progress' /\ OkIsDone'
<1>1. CASE StartVcpu
  <2>1. op' = "starting" /\ state' = "NotStarted"
    BY <1>1 DEF StartVcpu, Stages
  <2> QED
    BY <2>1 DEF StaleBehindDead, Working, Progress, OkIsDone, Ops
<1>2. CASE StartFails
  <2>1. op' = "none" /\ state' = "NotStarted" /\ ~result'.ok
    BY <1>2 DEF StartFails, Stages, history
  <2> QED
    BY <2>1 DEF StaleBehindDead, Working, Progress, OkIsDone, Ops
<1>3. CASE BarrierOpens
  <2>1. /\ op' = "none" /\ ~result'.ok
        /\ \A v \in Vcpus : /\ events'[v] = <<>> /\ responses'[v] = <<>>
                            /\ mode'[v] = "paused"
    BY <1>3 DEF BarrierOpens, Stages, channels, history
  <2>2. \A v \in Vcpus : InStep(v)'
    BY <2>1 DEF InStep, Alive, Out, Ops
  <2> QED
    BY <2>1, <2>2 DEF StaleBehindDead, Progress, OkIsDone, Ops
<1>4. CASE \E b \in Ops : Begin(b)
  BY <1>4, BeginKeeps
<1>5. CASE SendEvent
  BY <1>5, SendKeeps
<1>6. CASE RecvResponse
  BY <1>6, RecvKeeps
<1>7. CASE RecvTimeout
  BY <1>7, TimeoutKeeps
<1>8. CASE Process
  <2>1. /\ exit_code' # "none" /\ op' = "none"
        /\ UNCHANGED <<op, got, events, mode, runs, result, disturbed>>
    BY <1>8 DEF Process, Idle, threads
  <2>2. OkIsDone'
    BY <2>1 DEF OkIsDone, Done, Exited
  <2> QED
    BY <2>1, <2>2 DEF StaleBehindDead, Progress, Ops
<1>9. CASE DropBegin \/ DropEnd
  <2>1. op' \in {"dropping", "dropped"}
    BY <1>9 DEF DropBegin, DropEnd
  <2> QED
    BY <2>1 DEF StaleBehindDead, Working, Progress, OkIsDone, Ops
<1>10. CASE JoinBlocks \/ Dropped \/ ExitEvent \/ UNCHANGED vars
  <2>1. UNCHANGED <<state, exit_code, op, step, got, events, responses, mode,
                    runs, result, disturbed>>
    BY <1>10 DEF JoinBlocks, Dropped, ExitEvent, vars, vmm, channels, threads,
       history
  <2>2. /\ \A v \in Vcpus : (InStep(v)' <=> InStep(v)) /\ (Dead(v)' <=> Dead(v))
        /\ Working' <=> Working
    BY <2>1 DEF InStep, Dead, Exited, Alive, Out, Answers, AnsweredRunning, Working
  <2>3. StaleBehindDead'
    BY <2>1, <2>2 DEF StaleBehindDead
  <2>4. Progress' /\ OkIsDone'
    BY <2>1 DEF Progress, OkIsDone, AllSoFar, Dead, Exited, Done
  <2> QED
    BY <2>3, <2>4
<1>11. CASE SendFails
  BY <1>11, SendFailsKeeps
<1> QED
  BY <1>1, <1>2, <1>3, <1>4, <1>5, <1>6, <1>7, <1>8, <1>9, <1>10, <1>11 DEF Next, Vmm

-----------------------------------------------------------------------------
(***************************************************************************)
(* Exits with an error.                                                    *)
(***************************************************************************)
LEMMA VcpuErrors ==
    ASSUME ControlType, ErrorsKept, ErrorExitReported,
           NEW v \in Vcpus, Vcpu(v) \/ Exit(v)
    PROVE  ErrorsKept' /\ ErrorExitReported'
<1>1. UNCHANGED <<op, handles, exit_code, lost_exit, errors>>
  BY DEF Vcpu, HandleResume, HandlePause, HandleRead, HandleFinish, Exit, vmm, history
<1>2. ErrorExitReported'
  BY <1>1 DEF ErrorExitReported
<1>3. mode[v] # "none" /\ \A u \in Vcpus \ {v} : mode'[u] = mode[u]
  BY DEF Vcpu, HandleResume, HandlePause, HandleRead, HandleFinish, Exit, threads,
         ControlType
<1>4. ASSUME op # "dropped", NEW u \in Vcpus, mode'[u] # "none" PROVE u <= handles
  BY <1>3, <1>4 DEF ErrorsKept
<1>5. ASSUME \A u \in Vcpus : mode[u] = "exited_error" => HasError(u),
             NEW u \in Vcpus, mode'[u] = "exited_error"
      PROVE  HasError(u)'
  <2>1. ASSUME responses'[u] = responses[u], mode'[u] = mode[u] PROVE HasError(u)'
    BY <1>5, <2>1 DEF HasError
  <2>2. CASE u # v
    <3>1. responses'[u] = responses[u]
      BY <2>2 DEF Vcpu, HandleResume, HandlePause, HandleRead, HandleFinish, Exit,
         Reply, ControlType
    <3> QED
      BY <1>3, <2>1, <2>2, <3>1
  <2>3. CASE u = v /\ Vcpu(v)
    <3>1. HandleFinish(v)
      BY <1>5, <2>3 DEF Vcpu, HandleResume, HandlePause, HandleRead, threads,
         ControlType
    <3>2. responses'[u] = responses[u] /\ mode'[u] = mode[u]
      BY <1>5, <2>3, <3>1 DEF HandleFinish, ControlType
    <3> QED
      BY <2>1, <3>2
  <2>4. CASE u = v /\ Exit(v)
    <3>1. PICK kind \in ExitKinds :
             /\ Reply(v, kind)
             /\ mode' = [mode EXCEPT ![v] = IF kind = "ExitedOk"
                                THEN "exited_ok" ELSE "exited_error"]
      BY <2>4, VcpuReplies
    <3>2. kind = "ExitedError" /\ kind \in Kinds
      BY <1>5, <2>4, <3>1 DEF ExitKinds, Kinds, ControlType
    <3>3. PICK l \in Nat : l = Len(responses[v])
      BY ShortSequences DEF ControlType
    <3>4. /\ Len(responses'[v]) = l + 1
          /\ responses'[v][l + 1].kind = "ExitedError"
      <4>1. Response(kind, v).kind = kind
        BY DEF Response
      <4> QED
        BY <3>1, <3>2, <3>3, <4>1, ReplyAdds
    <3> QED
      BY <2>4, <3>3, <3>4 DEF HasError
  <2> QED
    BY <2>2, <2>3, <2>4
<1> QED
  BY <1>1, <1>2, <1>4, <1>5 DEF ErrorsKept

\* An operation that receives the response of an exit has taken note of it.
LEMMA RecvErrors ==
    ASSUME ControlType, Progress, ErrorsKept, ErrorExitReported, RecvResponse
    PROVE  ErrorsKept' /\ ErrorExitReported'
<1>1. PICK c : /\ c = Current /\ c \in Vcpus /\ responses[c] \in Seq(Responses)
               /\ responses[c] # <<>> /\ responses'[c] = Tail(responses[c])
               /\ Head(responses[c]) = responses[c][1]
  BY Received
<1>2. /\ exit_code' = "none" /\ exit_code = "none" /\ op # "dropped"
      /\ UNCHANGED <<handles, mode, errors>>
      /\ \A u \in Vcpus \ {c} : responses'[u] = responses[u]
  BY <1>1, Received DEF Progress, Ops
<1>3. ASSUME ~lost_exit' PROVE ~lost_exit /\ responses[c][1].kind # "ExitedError"
  BY <1>1, <1>3 DEF RecvResponse
<1>4. ASSUME ~lost_exit', NEW u \in Vcpus, mode[u] = "exited_error"
      PROVE  HasError(u)'
  <2>1. HasError(u)
    BY <1>2, <1>3, <1>4 DEF ErrorsKept
  <2>2. CASE u # c
    <3>1. responses'[u] = responses[u]
      BY <1>2, <2>2
    <3> QED
      BY <2>1, <3>1 DEF HasError
  <2>3. CASE u = c
    <3>1. PICK l \in Nat : /\ l = Len(responses[c]) /\ Len(responses'[c]) = l - 1
                           /\ \A k \in 1..(l - 1) :
                                 responses'[c][k] = responses[c][k + 1]
      BY <1>1, ShortSequences
    <3>2. PICK k \in 1..l : responses[c][k].kind = "ExitedError"
      BY <2>1, <2>3, <3>1 DEF HasError
    <3>3. k # 1
      BY <1>3, <1>4, <3>2
    <3>4. PICK j : j = k - 1 /\ j \in 1..(l - 1) /\ j + 1 = k
      BY <3>2, <3>3
    <3>5. responses'[c][j].kind = "ExitedError"
      BY <3>1, <3>2, <3>4
    <3> QED
      BY <2>3, <3>1, <3>4, <3>5 DEF HasError
  <2> QED
    BY <2>2, <2>3
<1>5. ErrorsKept'
  BY <1>2, <1>4 DEF ErrorsKept
<1> QED
  BY <1>2, <1>5 DEF ErrorExitReported

LEMMA VmmErrors ==
    ASSUME ControlType, Stages, Progress, ErrorsKept, ErrorExitReported, [Next]_vars,
           ~\E v \in Vcpus : Vcpu(v) \/ Exit(v)
    PROVE  ErrorsKept' /\ ErrorExitReported'
<1>1. CASE StartVcpu
  <2>1. /\ UNCHANGED <<op, exit_code, lost_exit, errors, responses>>
        /\ op = "starting" /\ handles' = handles + 1 /\ handles \in Nat
        /\ \A u \in Vcpus : \/ mode'[u] = mode[u]
                            \/ u = handles + 1 /\ mode'[u] = "barrier"
    BY <1>1, SomeVcpus DEF StartVcpu, channels, history, ControlType
  <2>2. ASSUME NEW u \in Vcpus, mode'[u] # "none" PROVE u <= handles'
    <3>1. u = handles + 1 \/ u <= handles
      BY <2>1, <2>2 DEF ErrorsKept
    <3> QED
      BY <2>1, <3>1, SomeVcpus
  <2>3. ASSUME NEW u \in Vcpus, mode'[u] = "exited_error" PROVE mode[u] = mode'[u]
    BY <2>1, <2>3
  <2>4. ErrorsKept'
    BY <2>1, <2>2, <2>3 DEF ErrorsKept, HasError
  <2> QED
    BY <2>1, <2>4 DEF ErrorExitReported
<1>2. CASE BarrierOpens
  <2>1. /\ UNCHANGED <<exit_code, lost_exit, errors>> /\ handles' = N
        /\ \A u \in Vcpus : mode'[u] = "paused"
    BY <1>2 DEF BarrierOpens, history
  <2> QED
    BY <2>1, SomeVcpus DEF ErrorsKept, ErrorExitReported
<1>3. CASE RecvResponse
  BY <1>3, RecvErrors
<1>4. CASE Process
  <2>1. /\ exit_code = "none" /\ op = "none" /\ exit_code' # "none"
        /\ UNCHANGED <<op, handles, mode, lost_exit>>
        /\ errors' = {v \in Vcpus : mode[v] = "exited_error"}
    BY <1>4 DEF Process, Idle, threads
  <2>2. ErrorsKept'
    BY <2>1 DEF ErrorsKept
  <2>3. ASSUME exit_code' = "Ok", ~lost_exit' PROVE errors' = {}
    <3>1. \A v \in 1..handles : ~HasError(v)
      BY <1>4, <2>3 DEF Process
    <3>2. ASSUME NEW v \in Vcpus, mode[v] = "exited_error" PROVE FALSE
      <4>1. HasError(v) /\ v <= handles
        BY <2>1, <2>3, <3>2 DEF ErrorsKept
      <4>2. v \in 1..handles
        BY <4>1, SomeVcpus DEF ControlType
      <4> QED
        BY <3>1, <4>1, <4>2
    <3> QED
      BY <2>1, <3>2
  <2> QED
    BY <2>2, <2>3 DEF ErrorExitReported
<1>5. ASSUME UNCHANGED <<exit_code, lost_exit, errors, responses, mode>>,
             op' # "dropped" => op # "dropped" /\ handles' = handles
      PROVE  ErrorsKept' /\ ErrorExitReported'
  BY <1>5 DEF ErrorsKept, ErrorExitReported, HasError
<1>6. CASE StartFails \/ (\E b \in Ops : Begin(b)) \/ SendEvent
  BY <1>5, <1>6 DEF StartFails, Begin, Idle, SendEvent, Sending, channels, threads,
     history, Ops
<1>7. CASE RecvTimeout
  BY <1>5, <1>7 DEF RecvTimeout, Receiving, Return, channels, threads, Ops
<1>8. CASE DropBegin \/ DropEnd
  BY <1>5, <1>8 DEF DropBegin, DropEnd, channels, threads, history
<1>9. CASE JoinBlocks \/ Dropped \/ ExitEvent \/ UNCHANGED vars
  BY <1>5, <1>9 DEF JoinBlocks, Dropped, ExitEvent, vars, vmm, channels, threads,
     history
<1>10. CASE SendFails
  BY <1>5, <1>10, SendFailed DEF Ops
<1> QED
  BY <1>1, <1>2, <1>3, <1>4, <1>6, <1>7, <1>8, <1>9, <1>10
     DEF Next, Vmm

-----------------------------------------------------------------------------
(***************************************************************************)
(* ControlInv holds in every reachable state of the Vmm and its vCPU       *)
(* threads.  Until a timeout or a failed send has left a living vCPU's     *)
(* answer behind, an operation of lib.rs that has received only the        *)
(* responses it wanted so far has had its effect on the vCPUs it heard     *)
(* from, and a response that belongs to another operation is only ever     *)
(* behind a vCPU that has exited and at which every later operation stops. *)
(***************************************************************************)
THEOREM ControlInductive == Spec => []ControlInv
<1>1. Init => ControlInv
  BY ControlInitially
<1>2. ControlInv /\ [Next]_vars => ControlInv'
  <2> SUFFICES ASSUME ControlInv, [Next]_vars PROVE ControlInv'
    OBVIOUS
  <2> USE DEF ControlInv
  <2>1. ASSUME NEW v \in Vcpus, Vcpu(v) \/ Exit(v) PROVE ControlInv'
    BY <2>1, ControlTypeVcpu, VcpuStages, VcpuKeeps, VcpuErrors
  <2>2. CASE ~\E v \in Vcpus : Vcpu(v) \/ Exit(v)
    BY <2>2, ControlTypeVmm, VmmStages, VmmKeeps, VmmErrors
  <2> QED
    BY <2>1, <2>2
<1> QED
  BY <1>1, <1>2, PTL DEF Spec

(***************************************************************************)
(* OkMeansDone for any number of vCPUs and operations: when pause_vm or    *)
(* resume_vm returns Ok, every thread is in the state that the instance is *)
(* said to be in, unless an operation before has timed out on a living     *)
(* vCPU or has failed to send after others had its event.                  *)
(***************************************************************************)
THEOREM OkIsTrue == Spec => []OkMeansDone
<1>1. ControlInv => OkMeansDone
  <2> SUFFICES ASSUME OkIsDone, ~disturbed, NEW o, Returned(o), NEW v \in Vcpus
               PROVE  Done(o, v, got[v])
    BY DEF ControlInv, OkMeansDone, Done
  <2>1. op = "none" /\ result.ok /\ result.op = o
    BY DEF Returned
  <2> QED
    BY <2>1 DEF OkIsDone
<1> QED
  BY <1>1, ControlInductive, PTL

(***************************************************************************)
(* SavedStatesAreCurrent for any number of vCPUs and operations: the       *)
(* states that save_vcpu_states returns are those of threads that are      *)
(* still paused, never what an earlier save_state left in a channel,       *)
(* unless an operation before has timed out on a living vCPU or has failed *)
(* to send after others had its event.                                     *)
(***************************************************************************)
THEOREM SavedStatesOfNow == Spec => []SavedStatesAreCurrent
<1>1. ControlInv => SavedStatesAreCurrent
  <2> SUFFICES ASSUME OkIsDone, ~disturbed, Returned("SaveState")
               PROVE  /\ Len(got) = N
                      /\ \A v \in Vcpus : Done("SaveState", v, got[v])
    BY DEF ControlInv, SavedStatesAreCurrent, Done
  <2>1. op = "none" /\ result.ok /\ result.op = "SaveState"
    BY DEF Returned
  <2> QED
    BY <2>1 DEF OkIsDone
<1> QED
  BY <1>1, ControlInductive, PTL

(***************************************************************************)
(* ErrorExitReported for any number of vCPUs: whoever raised the exit      *)
(* event, process never reports Ok when a vCPU had posted an exit with an  *)
(* error before process looked, unless an operation has received the       *)
(* response that said so.                                                  *)
(***************************************************************************)
THEOREM ErrorsAreReported == Spec => []ErrorExitReported
BY ControlInductive, PTL DEF ControlInv
=============================================================================
