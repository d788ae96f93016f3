---------------------------- MODULE UffdHandler ----------------------------
(***************************************************************************)
(* The page-fault loop shared by on_demand_handler.rs and                  *)
(* remote_range_handler.rs (firecracker examples/uffd): the closure passed *)
(* to Runtime::run, with serve_pf, copy_from_ptr and unregister_range.     *)
(*                                                                         *)
(* Around it, as the handler sees them: vCPU threads that fault on missing *)
(* pages, the balloon that removes pages from the VMM thread, and the      *)
(* kernel's userfaultfd: its queue has no order the handler may rely on,   *)
(* a copy is refused with EAGAIN while a removal is under way, and a page  *)
(* that is not registered cannot be copied into.                           *)
(***************************************************************************)
EXTENDS Integers, Sequences, SequencesExt

CONSTANTS
    Vcpus,         \* vCPU threads of the guest
    Pages,         \* guest pages behind the userfaultfd
    NoPage,
    MaxFaults,     \* bound on the faults of one behaviour
    MaxRemoves     \* bound on the balloon removals of one behaviour

ASSUME NoPageNotPage == NoPage \notin Pages
ASSUME FaultBounds == MaxFaults \in Nat /\ MaxRemoves \in Nat

VARIABLES
    present,       \* pages that are mapped in the guest
    registered,    \* pages still registered with the userfaultfd
    waiting,       \* waiting[v]: the page vCPU v is blocked on, or NoPage
    woken,         \* the blocked vCPUs that were woken and have yet to run
    balloon,       \* [page, stage]: the VMM thread inside madvise
    queue,         \* events the userfaultfd has for the handler
    pc,            \* the handler: "poll", "read", "handle" or "panicked"
    events,        \* events_to_handle
    deferred,      \* deferred_events
    copied_pages,
    copies,        \* pages the kernel really copied, for comparison
    faults, removes

kernelVars == <<present, registered, waiting, woken, balloon, queue, faults,
                removes>>
vars == <<kernelVars, pc, events, deferred, copied_pages, copies>>

NoRemoval == [page |-> NoPage, stage |-> "idle"]
Pagefault(v, p) == [type |-> "pagefault", vcpu |-> v, page |-> p]
Removed(p) == [type |-> "remove", page |-> p]

Init ==
    /\ present = {} /\ registered = Pages
    /\ waiting = [v \in Vcpus |-> NoPage] /\ woken = {}
    /\ balloon = NoRemoval
    /\ queue = {}
    /\ pc = "poll" /\ events = <<>> /\ deferred = <<>>
    /\ copied_pages = 0 /\ copies = 0
    /\ faults = 0 /\ removes = 0

(***************************************************************************)
(* The guest and the VMM.                                                  *)
(***************************************************************************)
\* A vCPU touches a missing page and blocks with its event in the queue.
Fault(v, p) ==
    /\ waiting[v] = NoPage
    /\ p \in registered \ present
    /\ faults < MaxFaults
    /\ faults' = faults + 1
    /\ waiting' = [waiting EXCEPT ![v] = p]
    /\ queue' = queue \union {Pagefault(v, p)}
    /\ UNCHANGED <<present, registered, woken, balloon, removes, pc, events,
                   deferred, copied_pages, copies>>

\* A missing page that is no longer registered is zero-filled by the kernel.
ZeroFill(v, p) ==
    /\ waiting[v] = NoPage
    /\ p \notin registered \union present
    /\ present' = present \union {p}
    /\ UNCHANGED <<registered, waiting, woken, balloon, queue, faults, removes,
                   pc, events, deferred, copied_pages, copies>>

\* A copy into p, or the end of p's registration, wakes who waits for p.
Blocked(p) == {v \in Vcpus : waiting[v] = p}

\* A woken vCPU retries its access; the event it raised leaves the queue if
\* nobody has read it.
Resume(v) ==
    /\ v \in woken
    /\ woken' = woken \ {v}
    /\ waiting' = [waiting EXCEPT ![v] = NoPage]
    /\ queue' = queue \ {Pagefault(v, waiting[v])}
    /\ UNCHANGED <<present, registered, balloon, faults, removes, pc, events,
                   deferred, copied_pages, copies>>

\* madvise(MADV_DONTNEED) by the balloon: queue a remove event, wait until
\* it is read, let copies through again, drop the page.
Inflate(p) ==
    /\ balloon = NoRemoval
    /\ p \in registered
    /\ removes < MaxRemoves
    /\ removes' = removes + 1
    /\ balloon' = [page |-> p, stage |-> "queued"]
    /\ queue' = queue \union {Removed(p)}
    /\ UNCHANGED <<present, registered, waiting, woken, faults, pc, events,
                   deferred, copied_pages, copies>>

Unblock ==
    /\ balloon.stage = "read"
    /\ balloon' = [balloon EXCEPT !.stage = "zap"]
    /\ UNCHANGED <<present, registered, waiting, woken, queue, faults, removes,
                   pc, events, deferred, copied_pages, copies>>

Zap ==
    /\ balloon.stage = "zap"
    /\ present' = present \ {balloon.page}
    /\ balloon' = NoRemoval
    /\ UNCHANGED <<registered, waiting, woken, queue, faults, removes, pc,
                   events, deferred, copied_pages, copies>>

Removing == balloon.stage \in {"queued", "read"}

(***************************************************************************)
(* The handler.                                                            *)
(***************************************************************************)
\* Runtime::run calls the closure when poll reports the userfaultfd.
Dispatch ==
    /\ pc = "poll"
    /\ queue # {}
    /\ pc' = "read"
    /\ events' = <<>>
    /\ UNCHANGED <<kernelVars, deferred, copied_pages, copies>>

\* while let Some(event) = read_event()
ReadEvent(e) ==
    /\ pc = "read"
    /\ queue' = queue \ {e}
    /\ events' = Append(events, e)
    /\ balloon' = IF e.type = "remove" THEN [balloon EXCEPT !.stage = "read"]
                                       ELSE balloon
    /\ UNCHANGED <<present, registered, waiting, woken, faults, removes, pc,
                   deferred, copied_pages, copies>>

ReadNone ==
    /\ pc = "read"
    /\ queue = {}
    /\ pc' = "handle"
    /\ UNCHANGED <<kernelVars, events, deferred, copied_pages, copies>>

NextIs(type) == pc = "handle" /\ events # <<>> /\ Head(events).type = type

\* serve_pf returned true: the page was copied, or it was there (EEXIST).
ServePagefault ==
    LET p == Head(events).page IN
    /\ NextIs("pagefault")
    /\ ~Removing
    /\ p \in registered
    /\ copied_pages' = copied_pages + 1
    /\ copies' = IF p \in present THEN copies ELSE copies + 1
    /\ woken' = IF p \in present THEN woken ELSE woken \union Blocked(p)
    /\ present' = present \union {p}
    /\ events' = Tail(events)
    /\ UNCHANGED <<registered, waiting, balloon, queue, faults, removes, pc,
                   deferred>>

\* Faulty variant: a copy that met a removal is given up.
DropPagefault ==
    /\ NextIs("pagefault")
    /\ Removing
    /\ deferred' = deferred
    /\ events' = Tail(events)
    /\ UNCHANGED <<kernelVars, pc, copied_pages, copies>>

\* serve_pf returned false: EAGAIN, the event is kept for the next round.
DeferPagefault ==
    /\ NextIs("pagefault")
    /\ Removing
    /\ deferred' = Append(deferred, Head(events))
    /\ events' = Tail(events)
    /\ UNCHANGED <<kernelVars, pc, copied_pages, copies>>

\* Any other error of the copy panics, and the panic hook kills Firecracker.
PanicPagefault ==
    /\ NextIs("pagefault")
    /\ ~Removing
    /\ Head(events).page \notin registered
    /\ pc' = "panicked"
    /\ UNCHANGED <<kernelVars, events, deferred, copied_pages, copies>>

\* unregister_range; it also wakes the vCPUs blocked on the range.
HandleRemove ==
    /\ NextIs("remove")
    /\ registered' = registered \ {Head(events).page}
    /\ woken' = woken \union Blocked(Head(events).page)
    /\ events' = Tail(events)
    /\ UNCHANGED <<present, waiting, balloon, queue, faults, removes, pc,
                   deferred, copied_pages, copies>>

\* The round is over: start the next one with what was deferred, or return.
EndRound ==
    /\ pc = "handle"
    /\ events = <<>>
    /\ events' = deferred
    /\ deferred' = <<>>
    /\ pc' = IF deferred = <<>> THEN "poll" ELSE "read"
    /\ UNCHANGED <<kernelVars, copied_pages, copies>>

\* Nothing is left to do: the guest and the balloon have used their bounds up.
Quiet ==
    /\ \/ pc = "panicked"
       \/ pc = "poll" /\ queue = {}
    /\ UNCHANGED vars

Handle ==
    \/ Dispatch \/ (\E e \in queue : ReadEvent(e)) \/ ReadNone
    \/ ServePagefault \/ DeferPagefault \/ PanicPagefault
    \/ HandleRemove \/ EndRound

Kernel == Unblock \/ Zap \/ \E v \in Vcpus : Resume(v)

Next ==
    \/ \E v \in Vcpus, p \in Pages : Fault(v, p) \/ ZeroFill(v, p)
    \/ \E p \in Pages : Inflate(p)
    \/ Kernel \/ Handle \/ Quiet

Spec == Init /\ [][Next]_vars

\* The handler is a thread that runs, and the kernel completes what it woke.
FairSpec ==
    /\ Spec
    /\ WF_vars(Handle) /\ WF_vars(Unblock) /\ WF_vars(Zap)
    /\ \A v \in Vcpus : WF_vars(Resume(v))

----------------------------------------------------------------------------
Held == ToSet(events) \union ToSet(deferred)

(***************************************************************************)
(* No fault is lost between rounds: a vCPU that is blocked and was not     *)
(* woken has its event in the queue, among the events to handle or among   *)
(* the deferred ones.  None is counted twice either: COPIED_PAGES is the   *)
(* number of faults answered, which may exceed the pages copied.           *)
(***************************************************************************)
NoLostFault ==
    /\ \A v \in Vcpus : waiting[v] # NoPage /\ v \notin woken =>
          Pagefault(v, waiting[v]) \in queue \union Held
    /\ copies <= copied_pages /\ copied_pages <= faults

(***************************************************************************)
(* A blocked vCPU runs on, however copies and removals interleave, unless  *)
(* the handler panicked (and so killed the VM).                            *)
(***************************************************************************)
EveryFaultResolved ==
    \A v \in Vcpus : waiting[v] # NoPage ~> waiting[v] = NoPage \/ pc = "panicked"
=============================================================================
