---------------------------- MODULE PreparedRun ----------------------------
(***************************************************************************)
(* The operations of restore-motivation that are measured upon a prepared  *)
(* context: every step of restoring a VM (ops/vm_restore), mapping guest   *)
(* memory (ops/guest_memory.rs) and starting a Firecracker process         *)
(* (ops/create_firecracker.rs), most of them inside a network namespace of *)
(* their own (ops/netns/vm.rs).                                            *)
(*                                                                         *)
(* A worker prepares one context for each of its iterations, meets the     *)
(* others at the gates of WorkerGate, measures, and drops its contexts.    *)
(* The network set-up is HostNet's.  When the main thread returns, the     *)
(* process ends and the workers that are left stop where they are.         *)
(***************************************************************************)
EXTENDS WorkerGate, HostNet, IterationSplit, FiniteSets, SequencesExt

CONSTANTS
    Total,        \* operations to measure
    Ops,          \* the operations to choose from, of those in OpTable
    ATTEMPTS,     \* looks at the API socket before giving up (100)
    MaxIgnored    \* bound: failures that nobody looks at

ASSUME PreparedConfig ==
    /\ NumWorkers \in Nat \ {0} /\ Total \in Nat /\ NumWorkers <= Total
    /\ ATTEMPTS \in Nat /\ MaxIgnored \in Nat

Instances == 0..(Total - 1)
NoNetns == Total      \* the context has no namespace
Root == Total         \* the namespace the process was started in

iterations(w) == iteration_count(Total, NumWorkers, w)

-----------------------------------------------------------------------------
(***************************************************************************)
(* The steps of restoring a VM, and which of them each operation takes     *)
(* while it prepares (inside its namespace, and after leaving it) and      *)
(* while it is measured.  keeps: the context goes to completed_contexts    *)
(* and lives on until the worker's runner is dropped.                      *)
(***************************************************************************)
Operation(netns, prepare, late, measure, keeps) ==
    [netns |-> netns, prepare |-> prepare, late |-> late,
     measure |-> measure, keeps |-> keeps]

\* Firecracker's build_microvm_from_snapshot takes the steps of
\* build_device_restore_context and restores the devices.
build_vm == <<"kvm", "vm">>
build_device_restore_context ==
    build_vm \o <<"vcpus", "memory", "vcpu_states", "vm_state">>
build_paused_vmm_from_snapshot ==
    build_device_restore_context \o <<"devices">>

guest_memory == Operation("none", <<>>, <<>>, <<"mmap">>, FALSE)
restore_kvm == Operation("none", <<>>, <<>>, <<"kvm">>, FALSE)
vm_new == Operation("none", <<"kvm">>, <<>>, <<"vm">>, FALSE)
create_vcpus == Operation("none", build_vm, <<>>, <<"vcpus">>, FALSE)
restore_memory_regions ==
    Operation("none", build_vm \o <<"mmap">>, <<>>, <<"memory">>, TRUE)
restore_vcpu_states ==
    Operation("none", <<"mmap">> \o build_vm \o <<"vcpus", "memory">>, <<>>,
              <<"vcpu_states">>, TRUE)
restore_state ==
    Operation("none", <<"mmap">> \o build_vm
                        \o <<"vcpus", "memory", "vcpu_states">>, <<>>,
              <<"vm_state">>, TRUE)
device_restore(netns) ==
    Operation(netns, <<"mmap">> \o build_device_restore_context, <<>>,
              <<"devices">>, TRUE)
kick_virtio(netns) ==
    Operation(netns, <<"mmap">> \o build_paused_vmm_from_snapshot, <<>>,
              <<"kick">>, TRUE)

\* Faulty variant: the devices have not been kicked.
resume_vcpus_unkicked(netns) ==
    Operation(netns, <<"mmap">> \o build_paused_vmm_from_snapshot, <<>>,
              <<"resume">>, TRUE)

resume_vcpus(netns) ==
    Operation(netns, <<"mmap">> \o build_paused_vmm_from_snapshot,
              <<"kick">>, <<"resume">>, TRUE)
resume_vm(netns) ==
    Operation(netns, <<"mmap">> \o build_paused_vmm_from_snapshot, <<>>,
              <<"kick", "resume">>, TRUE)
create_firecracker(netns) == Operation(netns, <<>>, <<>>, <<"spawn">>, FALSE)

(***************************************************************************)
(* get_op.  device_restore_block stands for the other kinds of device      *)
(* without a namespace too, device_restore for device_restore_net.         *)
(***************************************************************************)
OpTable == [
    guest_memory |-> guest_memory,
    kvm_create_vm |-> restore_kvm,
    vm_new |-> vm_new,
    create_vcpus |-> create_vcpus,
    restore_memory_regions |-> restore_memory_regions,
    restore_vcpu_states |-> restore_vcpu_states,
    restore_state |-> restore_state,
    device_restore_block |-> device_restore("none"),
    device_restore |-> device_restore("minimal"),
    device_restore_full_netns |-> device_restore("full"),
    kick_virtio |-> kick_virtio("minimal"),
    kick_virtio_full_netns |-> kick_virtio("full"),
    resume_vcpus |-> resume_vcpus("minimal"),
    resume_vcpus_full_netns |-> resume_vcpus("full"),
    resume_vm |-> resume_vm("minimal"),
    resume_vm_full_netns |-> resume_vm("full"),
    create_firecracker |-> create_firecracker("none"),
    create_firecracker_full_netns |-> create_firecracker("full")]

ASSUME OpsKnown == Ops \subseteq DOMAIN OpTable

VARIABLES
    op,          \* the operation of this run
    next_seq,    \* NEXT_SEQ of netns/vm.rs
    made, side,  \* the host: HostNet's `made', and where its host side is
    ignored,     \* namespaces with a failure behind `let _ ='
    thr          \* the workers' locals

hostVars == <<next_seq, made, side, ignored>>
vars == <<gateVars, op, hostVars, thr>>

Mode == OpTable[op].netns
Stages == IF Mode = "full" THEN STAGES ELSE MINIMAL_STAGES

\* Faulty variant: after an error the full set-up is left to the host.
Cleanup_minimal == <<"netns_del">>

Cleanup == IF Mode = "full" THEN cleanup ELSE <<"netns_del">>

NoContext == [seq |-> NoNetns, root |-> Root, steps |-> <<>>]

Init ==
    /\ GateInit /\ released = FALSE
    /\ op \in Ops
    /\ next_seq = 0 /\ ignored = {}
    /\ made = [i \in Instances |-> {}]
    /\ side = [i \in Instances |-> Root]
    /\ thr = [w \in Crew |->
                [at |-> "iter", cur |-> Root, ctx |-> NoContext, idx |-> 1,
                 contexts |-> <<>>, completed |-> <<>>, doomed |-> <<>>,
                 err |-> FALSE, child |-> "none", sock |-> FALSE]]

-----------------------------------------------------------------------------
Alive == main \notin {"ok", "error"}

At(w, loc) == Alive /\ thr[w].at = loc
\* t with the locals that are assigned to.
With(t, locals) ==
    [f \in DOMAIN t |-> IF f \in DOMAIN locals THEN locals[f] ELSE t[f]]

Set(w, locals) == thr' = [thr EXCEPT ![w] = With(@, locals)]
Local(w, locals) == Set(w, locals) /\ UNCHANGED <<gateVars, op, hostVars>>

\* The context in the worker's hands, if it holds one, as a sequence.
InHand(w) == IF thr[w].ctx.seq = NoNetns THEN <<>> ELSE <<thr[w].ctx>>

\* Dropping a context does something when it has a namespace.
Doomed(dropped) == IF Mode = "none" THEN <<>> ELSE dropped

(***************************************************************************)
(* `?': the function returns and drops what it holds: the context it works *)
(* on, unless that is in completed_contexts by then, and its two queues,   *)
(* front to back.                                                          *)
(***************************************************************************)
Return(w, dropped) ==
    [at |-> "drop", idx |-> 0, doomed |-> Doomed(dropped),
     err |-> TRUE, ctx |-> NoContext, contexts |-> <<>>, completed |-> <<>>]

Fail(w) ==
    LET t == thr[w] IN
    Return(w, IF phase[w] = "run" /\ OpTable[op].keeps
              THEN t.contexts \o t.completed \o InHand(w)
              ELSE InHand(w) \o t.contexts \o t.completed)

\* A command whose failure nobody looks at.
MayIgnore(i) ==
    /\ i \in ignored \/ Cardinality(ignored) < MaxIgnored
    /\ ignored' = ignored \cup {i}

-----------------------------------------------------------------------------
(***************************************************************************)
(* Preparation.                                                            *)
(***************************************************************************)
\* /proc/self/ns/net is the namespace the thread is in just then.
NewContext(w) ==
    /\ At(w, "iter") /\ Len(thr[w].contexts) < iterations(w)
    /\ IF Mode = "none"
       THEN Local(w, [at |-> "build", ctx |-> NoContext])
       ELSE /\ next_seq' = next_seq + 1
            /\ side' = [side EXCEPT ![next_seq] = thr[w].cur]
            /\ Set(w, [at |-> "stage", idx |-> 1,
                       ctx |-> [NoContext EXCEPT !.seq = next_seq,
                                                 !.root = thr[w].cur]])
            /\ UNCHANGED <<gateVars, op, made, ignored>>

\* The stale socket, the current namespace or the upstream device.
NewContextFails(w) ==
    /\ At(w, "iter") /\ Len(thr[w].contexts) < iterations(w)
    /\ Local(w, Fail(w))

StageOk(w) ==
    LET t == thr[w] IN
    /\ At(w, "stage") /\ t.idx <= Len(Stages)
    /\ CommandWorks(made[t.ctx.seq], Stages[t.idx])
    /\ made' = [made EXCEPT ![t.ctx.seq] = @ \cup {Stages[t.idx]}]
    /\ Set(w, [idx |-> t.idx + 1])
    /\ UNCHANGED <<gateVars, op, next_seq, side, ignored>>

\* A stage or open_named_netns fails; the context does not exist yet.
SetupFails(w) ==
    At(w, "stage") /\ Local(w, [at |-> "undo", idx |-> 1])

Cleaned(w, i, command) ==
    IF command # "netns_del" /\ thr[w].cur # side[i] THEN made[i]
    ELSE After(made[i], command)

CleanupCommand(w, i) ==
    \/ /\ made' = [made EXCEPT ![i] = Cleaned(w, i, Cleanup[thr[w].idx])]
       /\ UNCHANGED ignored
    \/ MayIgnore(i) /\ UNCHANGED made

Undo(w) ==
    /\ At(w, "undo")
    /\ CleanupCommand(w, thr[w].ctx.seq)
    /\ Set(w, IF thr[w].idx < Len(Cleanup) THEN [idx |-> thr[w].idx + 1]
              ELSE Return(w, thr[w].contexts))
    /\ UNCHANGED <<gateVars, op, next_seq, side>>

\* create_firecracker builds nothing and does not enter.
KeepNetns(w) ==
    /\ At(w, "stage") /\ thr[w].idx > Len(Stages)
    /\ OpTable[op].prepare = <<>>
    /\ Local(w, [at |-> "push"])

Enter(w) ==
    /\ At(w, "stage") /\ thr[w].idx > Len(Stages)
    /\ OpTable[op].prepare # <<>>
    /\ \/ Local(w, [at |-> "build", cur |-> thr[w].ctx.seq])
       \/ Local(w, Fail(w))

Build(w) ==
    /\ At(w, "build")
    /\ Local(w, [at |-> IF Mode = "none" THEN "push" ELSE "leave",
                 ctx |-> [thr[w].ctx EXCEPT !.steps = OpTable[op].prepare]])

\* Loading fails inside the namespace, building is followed by leave().
BuildFails(w) ==
    /\ At(w, "build")
    /\ \/ Local(w, Fail(w))
       \/ Mode # "none" /\ Local(w, [at |-> "leave", err |-> TRUE])

LeaveAfterBuild(w) ==
    LET t == thr[w]
        next == IF t.err THEN Fail(w) ELSE [at |-> "push"] IN
    /\ At(w, "leave")
    /\ \/ /\ thr' = [thr EXCEPT ![w] =
                         With([@ EXCEPT !.cur = t.ctx.root], next)]
          /\ UNCHANGED ignored
       \/ MayIgnore(t.ctx.seq) /\ Set(w, next)
    /\ UNCHANGED <<gateVars, op, next_seq, made, side>>

Push(w) ==
    LET t == thr[w]
        built == [t.ctx EXCEPT !.steps = @ \o OpTable[op].late] IN
    /\ At(w, "push")
    /\ Local(w, [at |-> "iter", ctx |-> NoContext,
                 contexts |-> Append(t.contexts, built)])

Prepared(w) ==
    /\ At(w, "iter") /\ Len(thr[w].contexts) = iterations(w)
    /\ ~failure /\ Ready(w) /\ Set(w, [at |-> "gate"])
    /\ UNCHANGED <<op, hostVars>>

\* At the gate somebody's failure is noticed; the runner is dropped.
SendHome(w) ==
    /\ failure
    /\ \/ At(w, "gate")
       \/ At(w, "iter") /\ Len(thr[w].contexts) = iterations(w)
    /\ Local(w, Fail(w))

-----------------------------------------------------------------------------
(***************************************************************************)
(* The measured operation.                                                 *)
(***************************************************************************)
BeginRun(w) ==
    At(w, "gate") /\ Begin(w) /\ Set(w, [at |-> "next"])
        /\ UNCHANGED <<op, hostVars>>

PopContext(w) ==
    LET t == thr[w] IN
    /\ At(w, "next") /\ t.contexts # <<>>
    /\ Local(w, [at |-> IF Mode = "none" THEN "op" ELSE "enter",
                 ctx |-> Head(t.contexts), contexts |-> Tail(t.contexts)])

EnterForOp(w) ==
    /\ At(w, "enter")
    /\ \/ Local(w, [at |-> "op", cur |-> thr[w].ctx.seq])
       \/ Local(w, Fail(w))

OpEnds(w) == IF Mode = "none" THEN "after" ELSE "leaveop"

\* Kicking the devices has no result.
OpSteps(w) ==
    /\ At(w, "op") /\ OpTable[op].measure # <<"spawn">>
    /\ \/ Local(w, [at |-> OpEnds(w),
                    ctx |-> [thr[w].ctx EXCEPT
                               !.steps = @ \o OpTable[op].measure]])
       \/ /\ OpTable[op].measure # <<"kick">>
          /\ Local(w, [at |-> OpEnds(w), err |-> TRUE])

\* Faulty variant: after the operation the thread stays where it is.
LeaveAfterOpNot(w) ==
    /\ At(w, "leaveop")
    /\ \/ Local(w, [at |-> "after"])
       \/ Local(w, [at |-> "after", err |-> TRUE])

\* leave() is looked at here, but both errors end the same way.
LeaveAfterOp(w) ==
    /\ At(w, "leaveop")
    /\ \/ Local(w, [at |-> "after", cur |-> thr[w].ctx.root])
       \/ Local(w, [at |-> "after", err |-> TRUE])

\* completed_contexts, or the end of run_once with the namespace in it.
AfterOp(w) ==
    LET t == thr[w] IN
    /\ At(w, "after")
    /\ Local(w, IF t.err THEN Fail(w)
                ELSE IF OpTable[op].keeps
                THEN [at |-> "next", ctx |-> NoContext,
                      completed |-> Append(t.completed, t.ctx)]
                ELSE [at |-> "drop", idx |-> 0, ctx |-> NoContext,
                      doomed |-> Doomed(<<t.ctx>>)])

AllMeasured(w) ==
    /\ At(w, "next") /\ thr[w].contexts = <<>>
    /\ Finished(w) /\ Set(w, [at |-> "finish"])
    /\ UNCHANGED <<op, hostVars>>

Released(w) ==
    /\ At(w, "finish") /\ released
    /\ Local(w, [Fail(w) EXCEPT !.err = FALSE])

-----------------------------------------------------------------------------
(***************************************************************************)
(* create_firecracker: the process, its API socket and the wait for it.    *)
(***************************************************************************)
Spawn(w) ==
    /\ At(w, "op") /\ OpTable[op].measure = <<"spawn">>
    /\ \/ Local(w, [at |-> "await", child |-> "running", idx |-> 1])
       \/ Local(w, [at |-> OpEnds(w), err |-> TRUE])

\* The process itself, outside this program.
ChildListens(w) ==
    /\ Alive /\ thr[w].child = "running" /\ ~thr[w].sock
    /\ Local(w, [sock |-> TRUE])

ChildExits(w) ==
    /\ Alive /\ thr[w].child = "running"
    /\ Local(w, [child |-> "zombie"])

\* Faulty variant: an early exit is reported without cleaning up.
WaitForApiSocketReturns(w) ==
    /\ At(w, "await")
    /\ IF thr[w].child = "zombie" \/ thr[w].idx > ATTEMPTS
       THEN Local(w, [at |-> OpEnds(w), err |-> TRUE])
       ELSE \/ thr[w].sock /\ Local(w, [at |-> "reap"])
            \/ thr[w].sock /\ Local(w, [at |-> "reap", err |-> TRUE])
            \/ Local(w, [idx |-> thr[w].idx + 1])

\* Exited, connected, refused for good, or one attempt less.
WaitForApiSocket(w) ==
    /\ At(w, "await")
    /\ IF thr[w].child = "zombie" \/ thr[w].idx > ATTEMPTS
       THEN Local(w, [at |-> "reap", err |-> TRUE])
       ELSE \/ thr[w].sock /\ Local(w, [at |-> "reap"])
            \/ thr[w].sock /\ Local(w, [at |-> "reap", err |-> TRUE])
            \/ Local(w, [idx |-> thr[w].idx + 1])

\* kill() may fail; wait() then lasts until the process ends by itself.
KillChild(w) ==
    /\ At(w, "reap") /\ thr[w].child = "running"
    /\ \/ Local(w, [at |-> "waitpid", child |-> "zombie"])
       \/ Local(w, [at |-> "waitpid", err |-> TRUE])

ReapChild(w) ==
    /\ At(w, "reap") \/ At(w, "waitpid")
    /\ thr[w].child = "zombie"
    /\ \/ Local(w, [at |-> OpEnds(w), child |-> "none", sock |-> FALSE])
       \/ Local(w, [at |-> OpEnds(w), child |-> "none", err |-> TRUE])

-----------------------------------------------------------------------------
(***************************************************************************)
(* Drop for VmNetnsContext: back to the namespace it was made in, whatever *)
(* the result, then the commands.  The VM goes with its context.           *)
(***************************************************************************)
DropLeave(w) ==
    LET t == thr[w] IN
    /\ At(w, "drop") /\ t.doomed # <<>> /\ t.idx = 0
    /\ \/ /\ Set(w, [idx |-> 1, cur |-> Head(t.doomed).root])
          /\ UNCHANGED ignored
       \/ MayIgnore(Head(t.doomed).seq) /\ Set(w, [idx |-> 1])
    /\ UNCHANGED <<gateVars, op, next_seq, made, side>>

DropCleanup(w) ==
    LET t == thr[w] IN
    /\ At(w, "drop") /\ t.doomed # <<>> /\ t.idx > 0
    /\ CleanupCommand(w, Head(t.doomed).seq)
    /\ Set(w, IF t.idx < Len(Cleanup) THEN [idx |-> t.idx + 1]
              ELSE [idx |-> 0, doomed |-> Tail(t.doomed)])
    /\ UNCHANGED <<gateVars, op, next_seq, side>>

\* Nothing is left to drop: on with the loop, or the thread ends.
Dropped(w) ==
    /\ At(w, "drop") /\ thr[w].doomed = <<>>
    /\ IF phase[w] = "run" /\ ~thr[w].err
       THEN Local(w, [at |-> "next"])
       ELSE /\ Set(w, [at |-> "ended"])
            /\ CASE phase[w] = "prepare" -> PrepareFailed(w)
                 [] phase[w] = "gate" -> GiveUp(w)
                 [] phase[w] = "run" -> OpFailed(w)
                 [] phase[w] = "finish" -> Leave(w)
            /\ UNCHANGED <<op, hostVars>>

-----------------------------------------------------------------------------
Worker(w) ==
    \/ NewContext(w) \/ NewContextFails(w) \/ StageOk(w) \/ SetupFails(w)
    \/ Undo(w) \/ KeepNetns(w) \/ Enter(w) \/ Build(w) \/ BuildFails(w)
    \/ LeaveAfterBuild(w) \/ Push(w) \/ Prepared(w) \/ SendHome(w)
    \/ BeginRun(w) \/ PopContext(w)
    \/ EnterForOp(w) \/ OpSteps(w) \/ LeaveAfterOp(w) \/ AfterOp(w)
    \/ AllMeasured(w) \/ Released(w) \/ Spawn(w) \/ WaitForApiSocket(w)
    \/ KillChild(w) \/ ReapChild(w) \/ DropLeave(w) \/ DropCleanup(w)
    \/ Dropped(w)

Child(w) == ChildListens(w) \/ ChildExits(w)

Main == GateMain /\ UNCHANGED <<op, hostVars, thr>>

\* The process has ended, or main waits for a worker whose operation failed.
Stopped ==
    /\ ~Alive \/ (main = "finish" /\ \E w \in Crew : phase[w] = "failed")
    /\ UNCHANGED vars

Next == (\E w \in Crew : Worker(w) \/ Child(w)) \/ Main \/ Stopped

Spec == Init /\ [][Next]_vars

-----------------------------------------------------------------------------
(***************************************************************************)
(* Properties.                                                             *)
(***************************************************************************)
ContextsOf(w) ==
    {thr[w].ctx} \cup Range(thr[w].contexts) \cup Range(thr[w].completed)
        \cup Range(thr[w].doomed)

\* What a step of the restore path builds upon.
Before(step) ==
    CASE step \in {"kvm", "mmap"} -> {}
      [] step = "vm" -> {"kvm"}
      [] step = "vcpus" -> {"vm"}
      [] step = "memory" -> {"vm", "mmap"}
      [] step = "vcpu_states" -> {"vcpus", "memory"}
      [] step = "vm_state" -> {"vcpu_states"}
      [] step = "devices" -> {"vm_state"}
      [] step = "kick" -> {"devices"}
      [] step = "resume" -> {"kick"}

(***************************************************************************)
(* No VM is handed to a step before the steps it builds upon, and none     *)
(* takes a step twice: each operation measures its step on a VM in the     *)
(* state restore_common.rs:131-162 would have it in, and vCPUs resume      *)
(* "after virtio devices have already been kicked" (resume_vcpus.rs:22).   *)
(***************************************************************************)
RestoreInOrder ==
    \A w \in Crew : \A c \in ContextsOf(w) : \A n \in 1..Len(c.steps) :
        LET earlier == {c.steps[m] : m \in 1..(n - 1)} IN
        Before(c.steps[n]) \subseteq earlier /\ c.steps[n] \notin earlier

(***************************************************************************)
(* A worker builds and measures in the namespace of the context in its     *)
(* hands, is back in the root namespace between contexts, and puts the     *)
(* host side of its networks there, unless a leave() failed that nobody    *)
(* looked at (device_restore.rs:62-67, 80-82 and its siblings).            *)
(***************************************************************************)
InTheRightNamespace ==
    \A w \in Crew :
        LET t == thr[w] IN
        /\ t.at \in {"build", "op", "await", "reap", "waitpid"} =>
              t.cur = t.ctx.seq
        /\ ignored = {} /\ t.at \in {"iter", "stage", "push", "gate", "next",
                                     "finish", "ended"} => t.cur = Root
        /\ ignored = {} => \A i \in Instances : side[i] = Root

(***************************************************************************)
(* What exists on the host belongs to exactly one context of a worker that *)
(* has not ended, unless a clean-up failed unnoticed: every error path of  *)
(* preparation and measurement gives back what it took, and a process that *)
(* ends early (mod.rs:572-580) leaves only what belongs to workers it did  *)
(* not wait for.  And nothing goes too early: a worker at the finish gate  *)
(* still has every context its operation keeps, so that no VM and no       *)
(* namespace is torn down while others measure ("the per-op timing         *)
(* reflects only the resume path, not VMM teardown", resume_vm.rs:81-82;   *)
(* mod.rs:545-555).                                                        *)
(***************************************************************************)
ContextsOwned ==
    /\ \A i \in Instances \ ignored :
          made[i] # {} =>
              LET owners == {w \in Crew : phase[w] \notin {"done", "failed"}
                                /\ \E c \in ContextsOf(w) : c.seq = i} IN
              Cardinality(owners) = 1 /\ \A w \in owners : w >= joined
    /\ \A w \in Crew :
          phase[w] = "finish" /\ ~released /\ OpTable[op].keeps =>
              Len(thr[w].completed) = iterations(w)

(***************************************************************************)
(* create_firecracker leaves no process behind, however it fails, and no   *)
(* socket unless it says so (create_firecracker.rs:60-75, 174-202).        *)
(***************************************************************************)
ChildGone ==
    \A w \in Crew :
        LET t == thr[w] IN
        t.at \notin {"await", "reap", "waitpid"} =>
            t.child = "none" /\ (t.sock => t.err)
=============================================================================
