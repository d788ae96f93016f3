---------------------------- MODULE VcpuControl ----------------------------
(***************************************************************************)
(* The control of vCPU threads by struct Vmm of Firecracker, as changed in *)
(* firecracker-build/fc-change-set (vmm/src/lib.rs): start_vcpus,          *)
(* resume_vm, resume_vcpus_after_kick, pause_vm, save_state,               *)
(* dump_cpu_config, the exit event and Drop.                               *)
(*                                                                         *)
(* The VMM thread talks to each vCPU thread over two channels: it sends an *)
(* event to every handle, then receives one response from every handle, in *)
(* order and with a timeout, and stops at the first that disappoints.      *)
(* Responses that were not received stay in their channel.  The vCPU       *)
(* threads (vstate/vcpu) are not part of this repository; they are         *)
(* modelled by the events and responses that lib.rs exchanges with them.   *)
(***************************************************************************)
EXTENDS Integers, Sequences

CONSTANTS
    N,         \* number of vCPUs
    MaxOps,    \* bound on the operations of one behaviour
    Late,      \* a vCPU may take longer than RECV_TIMEOUT_SEC to answer
    SpawnFails,\* starting a thread may fail
    Repeated   \* timeouts and failed sends may happen more than once

ASSUME VcpuAssumption ==
    /\ N \in Nat \ {0} /\ MaxOps \in Nat
    /\ {Late, SpawnFails, Repeated} \subseteq BOOLEAN

Vcpus == 1..N

\* The response each operation waits for; what it sends is its own name.
Ops == {"Resume", "Pause", "SaveState", "DumpCpuConfig"}
Wanted(o) == CASE o = "Resume"        -> "Resumed"
               [] o = "Pause"         -> "Paused"
               [] o = "SaveState"     -> "SavedState"
               [] o = "DumpCpuConfig" -> "DumpedCpuConfig"

VARIABLES
    \* the VMM thread
    state,       \* instance_info.state
    exit_code,   \* shutdown_exit_code
    op,          \* the operation under way, "none", or where the thread is
    step,        \* the handle it has come to
    handles,     \* how many vcpus_handles there are
    got,         \* the responses received by this operation
    \* channels and the event
    events, responses, vcpus_exit_evt,
    \* the vCPU threads
    mode,        \* what the thread is doing
    runs,        \* how often it was resumed
    \* history
    result,      \* the last operation and whether it returned Ok
    ops,         \* how many operations were begun
    disturbed,   \* an operation has left a living vCPU's answer behind
    lost_exit,   \* an operation has received an Exited response
    errors,      \* vCPUs that had said they exited with an error when process
                 \* looked
    untold       \* vCPUs that Drop could not send Finish

vmm == <<state, exit_code, op, step, handles, got>>
channels == <<events, responses, vcpus_exit_evt>>
threads == <<mode, runs>>
history == <<result, ops, disturbed, lost_exit, errors, untold>>
vars == <<vmm, channels, threads, history>>

Response(kind, v) == [kind |-> kind, run |-> runs[v]]
Exited(v) == mode[v] \in {"exited_ok", "exited_error"}
NoResult == [op |-> "none", ok |-> FALSE]

Init ==
    /\ state = "NotStarted" /\ exit_code = "none"
    /\ op = "starting" /\ step = 1 /\ handles = 0 /\ got = <<>>
    /\ events = [v \in Vcpus |-> <<>>]
    /\ responses = [v \in Vcpus |-> <<>>]
    /\ vcpus_exit_evt = FALSE
    /\ mode = [v \in Vcpus |-> "none"]
    /\ runs = [v \in Vcpus |-> 0]
    /\ result = NoResult /\ ops = 0
    /\ disturbed = FALSE /\ lost_exit = FALSE /\ errors = {} /\ untold = {}

-----------------------------------------------------------------------------
(***************************************************************************)
(* start_vcpus: one thread after the other; all of them and the VMM thread *)
(* meet at a barrier for N + 1.                                            *)
(***************************************************************************)
StartVcpu ==
    /\ op = "starting"
    /\ handles < N
    /\ handles' = handles + 1
    /\ mode' = [mode EXCEPT ![handles + 1] = "barrier"]
    /\ UNCHANGED <<state, exit_code, op, step, got, channels, runs, history>>

StartFails ==
    /\ SpawnFails
    /\ op = "starting"
    /\ handles < N
    /\ op' = "none"
    /\ UNCHANGED <<state, exit_code, step, handles, got, channels, threads,
                   history>>

BarrierOpens ==
    /\ op = "starting"
    /\ handles = N
    /\ state' = "Paused"
    /\ mode' = [v \in Vcpus |-> "paused"]
    /\ op' = "none"
    /\ UNCHANGED <<exit_code, step, handles, got, channels, runs, history>>

Idle == op = "none" /\ exit_code = "none"

Begin(o) ==
    /\ Idle /\ state # "NotStarted"
    /\ ops < MaxOps
    /\ ops' = ops + 1
    /\ op' = o
    /\ step' = 1
    /\ got' = <<>>
    /\ UNCHANGED <<state, exit_code, handles, channels, threads, result,
                   disturbed, lost_exit, errors, untold>>

Sending == op \in Ops /\ step <= N
Receiving == op \in Ops /\ step > N
Current == step - N
MayDisturb == Repeated \/ ~disturbed

\* handle.send_event, for the next handle.
SendEvent ==
    /\ Sending
    /\ events' = [events EXCEPT ![step] = Append(@, op)]
    /\ step' = step + 1
    /\ UNCHANGED <<state, exit_code, op, handles, got, responses,
                   vcpus_exit_evt, threads, history>>

\* The operation returns.
Return(ok) ==
    /\ op' = "none"
    /\ result' = [op |-> op, ok |-> ok]
    /\ state' = CASE ok /\ op = "Resume" -> "Running"
                  [] ok /\ op = "Pause"  -> "Paused"
                  [] OTHER               -> state

\* send_event fails and the operation returns at once, without receiving.  The
\* handles before have their event and will answer it; whether this one has,
\* depends on where send_event (external) failed.
SendFails ==
    /\ Sending
    /\ \E queued \in BOOLEAN :
        /\ events' = IF queued THEN [events EXCEPT ![step] = Append(@, op)]
                     ELSE events
        /\ queued \/ step > 1 => MayDisturb
        /\ disturbed' = (disturbed \/ queued \/ step > 1)
    /\ Return(FALSE)
    /\ UNCHANGED <<exit_code, step, handles, got, responses, vcpus_exit_evt,
                   threads, ops, lost_exit, errors, untold>>

\* resume_vm and pause_vm end at the first wrong response; save_vcpu_states and
\* dump_cpu_config receive all responses before they look at them.
StopsAt(r) == op \in {"Resume", "Pause"} /\ r.kind # Wanted(op)

\* Faulty variant: only the last response is looked at.
AllWantedLast(rs) == rs[Len(rs)].kind = Wanted(op)

AllWanted(rs) == \A k \in 1..Len(rs) : rs[k].kind = Wanted(op)

\* Faulty variant: the responses of the last vCPU are not waited for.
RecvResponseOneLess ==
    /\ Receiving
    /\ responses[Current] # <<>>
    /\ LET r == Head(responses[Current]) IN
        /\ got' = Append(got, r)
        /\ lost_exit' = (lost_exit \/ r.kind \in {"ExitedOk", "ExitedError"})
        /\ IF StopsAt(r) THEN Return(FALSE)
           ELSE IF Current >= N - 1 THEN Return(AllWanted(got'))
           ELSE UNCHANGED <<op, result, state>>
    /\ responses' = [responses EXCEPT ![Current] = Tail(@)]
    /\ step' = step + 1
    /\ UNCHANGED <<exit_code, handles, events, vcpus_exit_evt, threads, ops,
                   disturbed, errors, untold>>

\* recv_timeout finds a response in time.
RecvResponse ==
    /\ Receiving
    /\ responses[Current] # <<>>
    /\ LET r == Head(responses[Current]) IN
        /\ got' = Append(got, r)
        /\ lost_exit' = (lost_exit \/ r.kind \in {"ExitedOk", "ExitedError"})
        /\ IF StopsAt(r) THEN Return(FALSE)
           ELSE IF Current = N THEN Return(AllWanted(got'))
           ELSE UNCHANGED <<op, result, state>>
    /\ responses' = [responses EXCEPT ![Current] = Tail(@)]
    /\ step' = step + 1
    /\ UNCHANGED <<exit_code, handles, events, vcpus_exit_evt, threads, ops,
                   disturbed, errors, untold>>

\* Faulty variant: recv without a timeout.
RecvForever ==
    /\ Receiving
    /\ responses[Current] = <<>>
    /\ UNCHANGED vars

\* recv_timeout gives up: always an error, and nobody receives from the
\* handles that come after.
RecvTimeout ==
    /\ Receiving
    /\ responses[Current] = <<>>
    /\ (Late /\ MayDisturb) \/ Exited(Current)
    /\ Return(FALSE)
    /\ disturbed' = (disturbed \/ ~Exited(Current))
    /\ UNCHANGED <<exit_code, step, handles, got, channels, threads, ops,
                   lost_exit, errors, untold>>

(***************************************************************************)
(* process: the exit event.  Responses are drained, handle by handle, up   *)
(* to the first exit with an error.                                        *)
(***************************************************************************)
HasError(v) == \E k \in 1..Len(responses[v]) :
                    responses[v][k].kind = "ExitedError"
FirstError(v) == CHOOSE k \in 1..Len(responses[v]) :
    /\ responses[v][k].kind = "ExitedError"
    /\ \A j \in 1..(k - 1) : responses[v][j].kind # "ExitedError"

\* Faulty variant: the first exit status found is reported.
ProcessFirst ==
    /\ Idle
    /\ vcpus_exit_evt
    /\ vcpus_exit_evt' = FALSE
    /\ exit_code' = IF HasError(1) \/ (\E v \in 1..handles : HasError(v) /\
                        ~\E u \in 1..(v - 1) : mode[u] = "exited_ok")
                    THEN "Error" ELSE "Ok"
    /\ responses' = [v \in Vcpus |-> <<>>]
    /\ errors' = {v \in Vcpus : mode[v] = "exited_error"}
    /\ UNCHANGED <<state, op, step, handles, got, events, threads, result, ops,
                   disturbed, lost_exit, untold>>

Process ==
    /\ Idle
    /\ vcpus_exit_evt
    /\ vcpus_exit_evt' = FALSE
    /\ exit_code' = IF \E v \in 1..handles : HasError(v) THEN "Error" ELSE "Ok"
    /\ responses' = [v \in Vcpus |->
            IF \E u \in 1..(v - 1) : HasError(u) THEN responses[v]
            ELSE IF HasError(v)
            THEN SubSeq(responses[v], FirstError(v) + 1, Len(responses[v]))
            ELSE <<>>]
    /\ errors' = {v \in Vcpus : mode[v] = "exited_error"}
    /\ UNCHANGED <<state, op, step, handles, got, events, threads, result, ops,
                   disturbed, lost_exit, untold>>

(***************************************************************************)
(* Drop: Finish to every handle, then every thread is joined.  A Finish    *)
(* that cannot be sent is logged, and the thread is joined all the same.   *)
(* The Vmm is dropped after the exit event, or by its owner, or after a    *)
(* failed start.                                                           *)
(***************************************************************************)
\* Faulty variant: Finish is only sent when the VM was not shut down.
DropBeginNoFinish ==
    /\ op = "none"
    /\ op' = "dropping"
    /\ events' = [v \in Vcpus |->
            IF v <= handles /\ exit_code = "none" THEN Append(events[v], "Finish")
            ELSE events[v]]
    /\ UNCHANGED <<state, exit_code, step, handles, got, responses,
                   vcpus_exit_evt, threads, history>>

DropBegin ==
    /\ op = "none"
    /\ op' = "dropping"
    /\ \E failed \in SUBSET (1..handles) :
        /\ failed # {} => MayDisturb
        /\ untold' = failed
        /\ events' = [v \in Vcpus |->
                IF v <= handles /\ v \notin failed
                THEN Append(events[v], "Finish") ELSE events[v]]
    /\ UNCHANGED <<state, exit_code, step, handles, got, responses,
                   vcpus_exit_evt, threads, result, ops, disturbed, lost_exit,
                   errors>>

DropEnd ==
    /\ op = "dropping"
    /\ \A v \in 1..handles : mode[v] = "finished"
    /\ op' = "dropped"
    /\ handles' = 0
    /\ UNCHANGED <<state, exit_code, step, got, channels, threads, history>>

\* After StartFails the threads that were started are still at the barrier and
\* do not see Finish; others were not sent it.  The join blocks.
JoinBlocks ==
    /\ op = "dropping"
    /\ \E v \in 1..handles : mode[v] = "barrier" \/ v \in untold
    /\ UNCHANGED vars

Dropped == op = "dropped" /\ UNCHANGED vars

-----------------------------------------------------------------------------
(***************************************************************************)
(* The vCPU threads (external).                                            *)
(***************************************************************************)
Pop(v) == events' = [events EXCEPT ![v] = Tail(@)]
Reply(v, kind) ==
    responses' = [responses EXCEPT ![v] = Append(@, Response(kind, v))]

HandleResume(v) ==
    /\ events[v] # <<>> /\ Head(events[v]) = "Resume"
    /\ mode[v] \in {"paused", "running"}
    /\ mode' = [mode EXCEPT ![v] = "running"]
    /\ runs' = [runs EXCEPT ![v] = IF mode[v] = "paused" THEN @ + 1 ELSE @]
    /\ Pop(v) /\ Reply(v, "Resumed")
    /\ UNCHANGED <<vmm, vcpus_exit_evt, history>>

HandlePause(v) ==
    /\ events[v] # <<>> /\ Head(events[v]) = "Pause"
    /\ mode[v] \in {"paused", "running"}
    /\ mode' = [mode EXCEPT ![v] = "paused"]
    /\ Pop(v) /\ Reply(v, "Paused")
    /\ UNCHANGED <<vmm, vcpus_exit_evt, runs, history>>

\* Reading registers is allowed, and may fail, while the vCPU is paused.
HandleRead(v) ==
    /\ events[v] # <<>> /\ Head(events[v]) \in {"SaveState", "DumpCpuConfig"}
    /\ mode[v] \in {"paused", "running"}
    /\ Pop(v)
    /\ \E kind \in IF mode[v] = "paused"
                    THEN {Wanted(Head(events[v])), "Error"} ELSE {"NotAllowed"} :
            Reply(v, kind)
    /\ UNCHANGED <<vmm, vcpus_exit_evt, threads, history>>

\* A vCPU that has exited answers nothing and waits for Finish.
HandleFinish(v) ==
    /\ events[v] # <<>>
    /\ mode[v] \in {"paused", "running"} => Head(events[v]) = "Finish"
    /\ mode[v] \in {"paused", "running", "exited_ok", "exited_error"}
    /\ Pop(v)
    /\ mode' = IF Head(events[v]) = "Finish"
               THEN [mode EXCEPT ![v] = "finished"] ELSE mode
    /\ UNCHANGED <<vmm, responses, vcpus_exit_evt, runs, history>>

\* The guest shuts down, or KVM_RUN fails: the thread posts its exit code.
Exit(v) ==
    /\ mode[v] = "running"
    /\ \E how \in {"ok", "error"} :
        /\ mode' = [mode EXCEPT ![v] = IF how = "ok" THEN "exited_ok"
                                       ELSE "exited_error"]
        /\ Reply(v, IF how = "ok" THEN "ExitedOk" ELSE "ExitedError")
    /\ UNCHANGED <<vmm, events, vcpus_exit_evt, runs, history>>

\* The exit event is raised by a vCPU, before or after it has posted its exit
\* code, or by a device when no vCPU exits at all.
ExitEvent ==
    /\ state # "NotStarted" /\ op # "dropped"
    /\ ~vcpus_exit_evt
    /\ vcpus_exit_evt' = TRUE
    /\ UNCHANGED <<vmm, events, responses, threads, history>>

-----------------------------------------------------------------------------
Vmm ==
    \/ StartVcpu \/ StartFails \/ BarrierOpens
    \/ SendEvent \/ SendFails \/ RecvResponse \/ RecvTimeout
    \/ Process \/ DropEnd
Vcpu(v) ==
    HandleResume(v) \/ HandlePause(v) \/ HandleRead(v) \/ HandleFinish(v)

Next ==
    \/ Vmm \/ DropBegin \/ (\E o \in Ops : Begin(o)) \/ JoinBlocks \/ Dropped
    \/ ExitEvent
    \/ \E v \in Vcpus : Vcpu(v) \/ Exit(v)

Spec == Init /\ [][Next]_vars

(***************************************************************************)
(* Threads are scheduled.  An event loop that was told to stop drops its   *)
(* Vmm; nobody has to call an operation.                                   *)
(***************************************************************************)
FairSpec ==
    /\ Spec
    /\ WF_vars(Vmm) /\ WF_vars(DropBegin /\ exit_code # "none")
    /\ \A v \in Vcpus : WF_vars(Vcpu(v))

-----------------------------------------------------------------------------
(***************************************************************************)
(* Properties.                                                             *)
(***************************************************************************)
Returned(o) == op = "none" /\ result = [op |-> o, ok |-> TRUE]

(***************************************************************************)
(* What pause_vm and resume_vm report is so: Ok means that every thread is *)
(* in the state the instance is said to be in, whichever vCPUs exit        *)
(* meanwhile and wherever earlier operations stopped at a wrong response.  *)
(* Not so once an operation has left the answer of a living vCPU behind,   *)
(* by a timeout or a send that failed after other vCPUs had the event: the *)
(* next operation of the same kind takes that answer for its own.          *)
(***************************************************************************)
OkMeansDone == ~disturbed =>
    /\ Returned("Pause") => \A v \in Vcpus : mode[v] = "paused"
    /\ Returned("Resume") =>
            \A v \in Vcpus : mode[v] = "running" \/ Exited(v)

(***************************************************************************)
(* save_vcpu_states returns one state per vCPU, each taken from a thread   *)
(* that is still paused and has not run since: never the answer to an      *)
(* earlier request.  With the same exception: an answer that a timeout or  *)
(* a failed send has left behind may be returned.                          *)
(***************************************************************************)
SavedStatesAreCurrent == ~disturbed /\ Returned("SaveState") =>
    /\ Len(got) = N
    /\ \A v \in Vcpus : /\ mode[v] = "paused"
                         /\ got[v] = [kind |-> "SavedState", run |-> runs[v]]

(***************************************************************************)
(* When a vCPU has posted an exit with an error by the time process looks, *)
(* the error is what it reports, also when the event was raised by another *)
(* vCPU that exited successfully or by a device, and whatever responses    *)
(* are in front of it, unless an operation had received the response that  *)
(* says so.  (An error that is posted after process has looked is not      *)
(* reported.)                                                              *)
(***************************************************************************)
ErrorExitReported == exit_code = "Ok" /\ ~lost_exit => errors = {}

(***************************************************************************)
(* The Vmm of a VM that was started goes away: the exit event leads to     *)
(* Drop, and Drop joins every thread, whatever events and responses are    *)
(* still in the channels.  Not so when a Finish could not be sent, or      *)
(* after a failed start_vcpus, whose threads wait at the barrier.          *)
(***************************************************************************)
VmmEnds ==
    vcpus_exit_evt \/ (op = "dropping" /\ state # "NotStarted")
        ~> op = "dropped" \/ untold # {}

(***************************************************************************)
(* Every operation returns, also when a vCPU has exited and will never     *)
(* answer.                                                                 *)
(***************************************************************************)
OperationReturns == op \in Ops ~> op = "none"
=============================================================================
