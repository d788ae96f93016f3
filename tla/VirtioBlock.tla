---------------------------- MODULE VirtioBlock ----------------------------
(***************************************************************************)
(* The virtio block device of firecracker-build/fc-change-set              *)
(* (vmm/src/devices/virtio/block/virtio: device.rs, request.rs, trace.rs). *)
(*                                                                         *)
(* The driver in the guest puts descriptor chains into the available ring. *)
(* The VMM's event loop runs a handler per event (queue, rate limiter,     *)
(* completion): it pops chains, checks them, charges the rate limiter and  *)
(* hands the request to the file engine, which executes it (Sync) or       *)
(* queues it for io_uring (Async).  Meanwhile the guest posts more and the *)
(* kernel completes what was submitted.  prepare_save and Drop drain it.   *)
(*                                                                         *)
(* A chain is named by its place in the available ring.  The ring, the     *)
(* rate limiter and the engine are other files of Firecracker, which are   *)
(* not in the repository; they are modelled by how the device uses them.   *)
(***************************************************************************)
EXTENDS Integers, Sequences, FiniteSets

CONSTANTS
    Chains,       \* the chains a driver may post
    MaxReqs,      \* bound on the chains of one behaviour
    MaxSaves,     \* bound on the snapshots of one behaviour
    Engines,      \* subset of {"Sync", "Async"}
    RingSize,     \* requests the io_uring takes
    OpsBudget, BytesBudget,   \* buckets of the rate limiter
    NumSectors,   \* nsectors, of the first image and of the others
    SECTOR_SIZE, VIRTIO_BLK_ID_BYTES,
    U64           \* 2^64

ASSUME BlockAssumption ==
    /\ MaxReqs \in Nat /\ MaxSaves \in Nat /\ RingSize \in Nat \ {0}
    /\ Engines \subseteq {"Sync", "Async"}
    /\ OpsBudget \in Nat \ {0} /\ BytesBudget \in Nat
    /\ NumSectors \subseteq Nat /\ NumSectors # {}
    /\ {SECTOR_SIZE, VIRTIO_BLK_ID_BYTES, U64} \subseteq Nat \ {0}
    /\ \A n \in NumSectors : n * SECTOR_SIZE < U64

\* What a chain may be; the fields are those of Request::parse below.
ChainTypes == {"In", "Out", "Flush", "GetDeviceID", "Unsupported"}
ASSUME ChainAssumption ==
    \A c \in Chains :
        /\ c.type \in ChainTypes /\ c.head_wo \in BOOLEAN
        /\ c.sector \in 0..(U64 - 1) /\ c.len \in Nat
        /\ c.data \in {"none", "ro", "wo"}
        /\ c.status \in {"wo", "ro", "empty", "missing", "unmapped"}

Ids == 1..MaxReqs

VARIABLES
    \* guest memory: rings and status bytes
    avail,        \* the chains posted so far
    next_avail,   \* how many of them the device has popped
    used,         \* chains in the used ring
    used_idx,     \* how many of those the driver may look at
    status,       \* status byte per chain, "none" if it was not written
    \* the device
    engine, nsectors, is_io_engine_throttled,
    pc,           \* the handler that is running, "idle" if none is
    used_any,
    ops, bytes, is_blocked,            \* rate_limiter
    queue_evt, completion_evt,         \* eventfds
    notify,       \* the device wants to be told of new chains
    trace,        \* the trace file: its length and its last line
    \* io_uring
    sq,           \* pushed, not yet submitted
    in_kernel,    \* being executed
    cq,           \* completions: chain and result
    \* the driver, and history
    interrupt, seen,
    admitted,     \* requests that were executed or queued since the limiter was
                  \* refilled
    put_back,     \* and how often a full ring had one put back
    saves         \* how many snapshots were begun

guest == <<avail, next_avail, used, used_idx, status>>
limiter == <<ops, bytes, is_blocked, admitted, put_back>>
ring == <<sq, in_kernel, cq>>
driver == <<interrupt, seen, saves>>
vars == <<guest, engine, nsectors, is_io_engine_throttled, pc, used_any, limiter,
          queue_evt, completion_evt, notify, trace, ring, driver>>

NoRecord == [type |-> "Flush", offset |-> 0, length |-> 0]

\* An activated device with an empty queue.
Init ==
    /\ avail = <<>> /\ next_avail = 0 /\ used = <<>> /\ used_idx = 0
    /\ status = [r \in Ids |-> "none"]
    /\ engine \in Engines /\ nsectors \in NumSectors
    /\ is_io_engine_throttled = FALSE
    /\ pc = "idle" /\ used_any = FALSE
    /\ ops = OpsBudget /\ bytes = BytesBudget /\ is_blocked = FALSE
    /\ queue_evt = FALSE /\ completion_evt = FALSE /\ notify = TRUE
    /\ trace = [lines |-> 0, last |-> NoRecord]
    /\ sq = {} /\ in_kernel = {} /\ cq = <<>>
    /\ interrupt = FALSE /\ seen = 0
    /\ admitted = 0 /\ put_back = 0 /\ saves = 0

-----------------------------------------------------------------------------
(***************************************************************************)
(* Request::parse, for a chain                                             *)
(*   [type, sector: the header; head_wo: the head is write-only;           *)
(*    data: "none", "ro" or "wo"; len: its length;                         *)
(*    status: "wo", "ro", "empty", "missing", or "unmapped", which is      *)
(*    write-only at an address that is not in guest memory].               *)
(***************************************************************************)
IsData(c) == c.type \in {"In", "Out"}

\* Faulty variant: the addition wraps around.
FitsWrapping(c, n) == (c.sector + c.len \div SECTOR_SIZE) % U64 <= n

\* checked_add, then the comparison with the size of the disk.
Fits(c, n) ==
    /\ c.sector + c.len \div SECTOR_SIZE < U64
    /\ c.sector + c.len \div SECTOR_SIZE <= n

Parses(c, n) ==
    /\ ~c.head_wo
    /\ c.status # "missing"
    /\ c.data = "none" => c.type = "Flush"
    /\ c.data = "wo" => c.type # "Out"
    /\ c.data = "ro" => c.type \notin {"In", "GetDeviceID"}
    /\ IsData(c) => c.len % SECTOR_SIZE = 0 /\ Fits(c, n)
    /\ c.type = "GetDeviceID" => c.len >= VIRTIO_BLK_ID_BYTES
    /\ c.status \in {"wo", "unmapped"}

\* PendingRequest::finish: the status for a result of the engine, "full" for
\* as many bytes as were asked for; nothing is written where there is no memory.
StatusOf(c, res) ==
    CASE c.status = "unmapped" -> "none"
      [] c.type = "Unsupported" -> "unsupp"
      [] res = "error" -> "ioerr"
      [] c.type = "Flush" -> "ok"
      [] OTHER -> IF res = "full" THEN "ok" ELSE "ioerr"

Results(c) == IF IsData(c) THEN {"full", "partial", "error"} ELSE {"full", "error"}

Record(c) ==
    IF IsData(c)
    THEN [type |-> c.type, offset |-> (c.sector * SECTOR_SIZE) % U64,
          length |-> c.len]
    ELSE NoRecord

-----------------------------------------------------------------------------
(***************************************************************************)
(* The driver.                                                             *)
(***************************************************************************)
\* The vCPUs are paused while a snapshot is taken and gone after Drop.
Stopped == {"draining", "save_completions", "saved", "dropping", "dropped"}

\* The driver notifies for the first chain after the device asked it to
\* (VIRTIO_RING_F_EVENT_IDX).
Post(c) ==
    /\ pc \notin Stopped
    /\ Len(avail) < MaxReqs
    /\ avail' = Append(avail, c)
    /\ queue_evt' = (queue_evt \/ notify)
    /\ notify' = FALSE
    /\ UNCHANGED <<next_avail, used, used_idx, status, engine, nsectors,
                   is_io_engine_throttled, pc, used_any, limiter,
                   completion_evt, trace, ring, driver>>

HandleInterrupt ==
    /\ interrupt /\ pc \notin Stopped
    /\ interrupt' = FALSE
    /\ seen' = used_idx
    /\ UNCHANGED <<guest, engine, nsectors, is_io_engine_throttled, pc,
                   used_any, limiter, queue_evt, completion_evt, notify, trace,
                   ring, saves>>

-----------------------------------------------------------------------------
(***************************************************************************)
(* The handlers of the event loop.                                         *)
(***************************************************************************)
BeginQueue ==
    /\ pc' = "queue"
    /\ used_any' = FALSE

process_queue_event ==
    /\ pc = "idle"
    /\ queue_evt
    /\ queue_evt' = FALSE
    /\ IF is_blocked \/ is_io_engine_throttled THEN UNCHANGED <<pc, used_any>>
                                               ELSE BeginQueue
    /\ UNCHANGED <<guest, engine, nsectors, is_io_engine_throttled, limiter,
                   completion_evt, notify, trace, ring, driver>>

\* The timer of the limiter fired: event_handler refills the buckets.
process_rate_limiter_event ==
    /\ pc = "idle"
    /\ is_blocked
    /\ is_blocked' = FALSE /\ ops' = OpsBudget /\ bytes' = BytesBudget
    /\ admitted' = 0 /\ put_back' = 0
    /\ BeginQueue
    /\ UNCHANGED <<guest, engine, nsectors, is_io_engine_throttled, queue_evt,
                   completion_evt, notify, trace, ring, driver>>

\* process_queue pops the next chain.
Popping == pc = "queue" /\ next_avail < Len(avail)
Chain == avail[next_avail + 1]

\* add_used for the chain that was popped.
Executed(st) ==
    /\ next_avail' = next_avail + 1
    /\ used' = Append(used, next_avail + 1)
    /\ status' = [status EXCEPT ![next_avail + 1] = st]
    /\ used_any' = TRUE
    /\ UNCHANGED <<avail, used_idx, engine, nsectors, is_io_engine_throttled, pc,
                   queue_evt, completion_evt, notify, ring, driver>>

ParseFails ==
    /\ Popping
    /\ ~Parses(Chain, nsectors)
    /\ Executed("none")
    /\ UNCHANGED <<limiter, trace>>

\* rate_limit consumes an operation, then the bytes.  While its timer is armed
\* the limiter (external) gives nothing.
OpsLimited == is_blocked \/ ops = 0
BytesLimited(c) == IsData(c) /\ c.len > bytes

\* consume fails and arms the timer; manual_replenish undoes a first consume,
\* undo_pop the pop.
RateLimited ==
    /\ Popping
    /\ Parses(Chain, nsectors)
    /\ OpsLimited \/ BytesLimited(Chain)
    /\ is_blocked' = TRUE
    /\ pc' = "queue_done"
    /\ UNCHANGED <<guest, engine, nsectors, is_io_engine_throttled, used_any,
                   ops, bytes, admitted, put_back, queue_evt, completion_evt,
                   notify, trace, ring, driver>>

Admitted ==
    /\ Popping
    /\ Parses(Chain, nsectors)
    /\ ~OpsLimited /\ ~BytesLimited(Chain)
    /\ ops' = ops - 1
    /\ bytes' = IF IsData(Chain) THEN bytes - Chain.len ELSE bytes
    /\ UNCHANGED is_blocked

\* The request that was charged goes its way.
Passes == admitted' = admitted + 1 /\ UNCHANGED put_back

\* Request::process without the engine.
Answer ==
    /\ Admitted
    /\ Chain.type \in {"GetDeviceID", "Unsupported"}
    /\ \E res \in IF Chain.len = VIRTIO_BLK_ID_BYTES THEN {"full", "error"}
                                                     ELSE {"partial", "error"} :
            Executed(StatusOf(Chain, res))
    /\ Passes
    /\ UNCHANGED trace

ToEngine ==
    /\ Admitted
    /\ Chain.type \in {"In", "Out", "Flush"}
    /\ trace' = [lines |-> trace.lines + 1, last |-> Record(Chain)]

ExecuteSync ==
    /\ engine = "Sync"
    /\ ToEngine
    /\ Passes
    /\ \E res \in Results(Chain) : Executed(StatusOf(Chain, res))

\* The engine has refused the request for another reason than a full ring.
SubmitFails ==
    /\ engine = "Async"
    /\ ToEngine
    /\ Passes
    /\ Executed(StatusOf(Chain, "error"))

InRing == Cardinality(sq) + Cardinality(in_kernel) + Len(cq)

SubmitAsync ==
    /\ engine = "Async"
    /\ InRing < RingSize
    /\ ToEngine
    /\ Passes
    /\ next_avail' = next_avail + 1
    /\ sq' = sq \union {next_avail + 1}
    /\ UNCHANGED <<avail, used, used_idx, status, engine, nsectors,
                   is_io_engine_throttled, pc, used_any, queue_evt,
                   completion_evt, notify, in_kernel, cq, driver>>

\* Faulty variant: the chain is not put back.
ThrottledNoUndo ==
    /\ engine = "Async"
    /\ InRing >= RingSize
    /\ ToEngine
    /\ put_back' = put_back + 1 /\ UNCHANGED admitted
    /\ is_io_engine_throttled' = TRUE
    /\ next_avail' = next_avail + 1
    /\ pc' = "queue_done"
    /\ UNCHANGED <<avail, used, used_idx, status, engine, nsectors, used_any,
                   queue_evt, completion_evt, notify, ring, driver>>

\* The ring is full: undo_pop.  What rate_limit took is not given back, and the
\* chain will be charged again.
Throttled ==
    /\ engine = "Async"
    /\ InRing >= RingSize
    /\ ToEngine
    /\ put_back' = put_back + 1 /\ UNCHANGED admitted
    /\ is_io_engine_throttled' = TRUE
    /\ pc' = "queue_done"
    /\ UNCHANGED <<guest, engine, nsectors, used_any, queue_evt,
                   completion_evt, notify, ring, driver>>

\* pop_or_enable_notification: nothing there, tell me of the next one.
NothingAvailable ==
    /\ pc = "queue"
    /\ next_avail = Len(avail)
    /\ notify' = TRUE
    /\ pc' = "queue_done"
    /\ UNCHANGED <<guest, engine, nsectors, is_io_engine_throttled, used_any,
                   limiter, queue_evt, completion_evt, trace, ring, driver>>

\* The end of process_queue: used index, interrupt, kick_submission_queue.
QueueDone ==
    /\ pc = "queue_done"
    /\ used_idx' = Len(used)
    /\ interrupt' = (interrupt \/ (used_any /\ Len(used) > seen))
    /\ in_kernel' = in_kernel \union sq /\ sq' = {}
    /\ pc' = "idle"
    /\ UNCHANGED <<avail, next_avail, used, status, engine, nsectors,
                   is_io_engine_throttled, used_any, limiter, queue_evt,
                   completion_evt, notify, trace, cq, seen, saves>>

(***************************************************************************)
(* process_async_completion_event.                                         *)
(***************************************************************************)
process_async_completion_event ==
    /\ pc = "idle"
    /\ completion_evt
    /\ completion_evt' = FALSE
    /\ pc' = "completions"
    /\ UNCHANGED <<guest, engine, nsectors, is_io_engine_throttled, used_any,
                   limiter, queue_evt, notify, trace, ring, driver>>

PopCompletion ==
    /\ pc \in {"completions", "save_completions"}
    /\ cq # <<>>
    /\ LET c == Head(cq) IN
        /\ used' = Append(used, c.chain)
        /\ status' = [status EXCEPT ![c.chain] = StatusOf(avail[c.chain], c.res)]
    /\ cq' = Tail(cq)
    /\ UNCHANGED <<avail, next_avail, used_idx, engine, nsectors,
                   is_io_engine_throttled, pc, used_any, limiter, queue_evt,
                   completion_evt, notify, trace, sq, in_kernel, driver>>

\* The used index and the interrupt at the end of process_async_completion_queue.
Publish ==
    /\ used_idx' = Len(used)
    /\ interrupt' = (interrupt \/ Len(used) > seen)

\* Faulty variant: the throttled queue is left to the next queue event.
CompletionsDoneForgets ==
    /\ pc = "completions"
    /\ cq = <<>>
    /\ Publish
    /\ is_io_engine_throttled' = FALSE
    /\ pc' = "idle"
    /\ UNCHANGED <<avail, next_avail, used, status, engine, nsectors, used_any,
                   limiter, queue_evt, completion_evt, notify, trace, ring,
                   seen, saves>>

CompletionsDone ==
    /\ pc = "completions"
    /\ cq = <<>>
    /\ Publish
    /\ is_io_engine_throttled' = FALSE
    /\ IF is_io_engine_throttled THEN BeginQueue
       ELSE pc' = "idle" /\ UNCHANGED used_any
    /\ UNCHANGED <<avail, next_avail, used, status, engine, nsectors, limiter,
                   queue_evt, completion_evt, notify, trace, ring, seen, saves>>

-----------------------------------------------------------------------------
(***************************************************************************)
(* Operations of the VMM on the device.                                    *)
(***************************************************************************)
\* drain: everything is submitted; completions are waited for.
Drain ==
    /\ in_kernel' = in_kernel \union sq
    /\ sq' = {}

\* Faulty variant: the completion queue is read without draining first.
prepare_save_no_drain ==
    /\ pc = "idle"
    /\ saves < MaxSaves /\ saves' = saves + 1
    /\ pc' = "save_completions"
    /\ UNCHANGED <<guest, engine, nsectors, is_io_engine_throttled, used_any,
                   limiter, queue_evt, completion_evt, notify, trace, ring,
                   interrupt, seen>>

prepare_save ==
    /\ pc = "idle"
    /\ saves < MaxSaves /\ saves' = saves + 1
    /\ Drain
    /\ pc' = "draining"
    /\ UNCHANGED <<guest, engine, nsectors, is_io_engine_throttled, used_any,
                   limiter, queue_evt, completion_evt, notify, trace, cq,
                   interrupt, seen>>

SaveDrained ==
    /\ pc = "draining"
    /\ in_kernel = {}
    /\ pc' = "save_completions"
    /\ UNCHANGED <<guest, engine, nsectors, is_io_engine_throttled, used_any,
                   limiter, queue_evt, completion_evt, notify, trace, ring,
                   driver>>

\* With the Sync engine there is no completion queue to process.
SaveDone ==
    /\ pc = "save_completions"
    /\ cq = <<>>
    /\ IF engine = "Async" THEN Publish ELSE UNCHANGED <<used_idx, interrupt>>
    /\ pc' = "saved"
    /\ UNCHANGED <<avail, next_avail, used, status, engine, nsectors,
                   is_io_engine_throttled, used_any, limiter, queue_evt,
                   completion_evt, notify, trace, ring, seen, saves>>

\* resume_vm after the snapshot: kick_virtio_devices has the queue processed.
ResumeSaved ==
    /\ pc = "saved"
    /\ BeginQueue
    /\ UNCHANGED <<guest, engine, nsectors, is_io_engine_throttled, limiter,
                   queue_evt, completion_evt, notify, trace, ring, driver>>

\* The same in another process: the rings are in guest memory, the rest of the
\* device is new.
RestoreSaved ==
    /\ pc = "saved"
    /\ BeginQueue
    /\ is_io_engine_throttled' = FALSE /\ is_blocked' = FALSE
    /\ queue_evt' = FALSE /\ completion_evt' = FALSE
    /\ sq' = {} /\ in_kernel' = {} /\ cq' = <<>>
    /\ UNCHANGED <<guest, engine, nsectors, ops, bytes, admitted, put_back,
                   notify, trace, driver>>

\* DiskProperties::update replaces the size last: one that fails leaves it as it
\* was.  What the engine (external) holds is assumed to be completed although
\* its file is replaced.
update_disk_image(n) ==
    /\ pc = "idle"
    /\ nsectors' \in {n, nsectors}
    /\ UNCHANGED <<guest, engine, is_io_engine_throttled, pc, used_any,
                   limiter, queue_evt, completion_evt, notify, trace, ring,
                   driver>>

\* Drop: drain(true) or drain_and_flush(true), by cache type.
drop ==
    /\ pc = "idle"
    /\ Drain
    /\ pc' = "dropping"
    /\ UNCHANGED <<guest, engine, nsectors, is_io_engine_throttled, used_any,
                   limiter, queue_evt, completion_evt, notify, trace, cq,
                   driver>>

Dropped ==
    /\ pc = "dropping"
    /\ in_kernel = {}
    /\ cq' = <<>>
    /\ pc' = "dropped"
    /\ UNCHANGED <<guest, engine, nsectors, is_io_engine_throttled, used_any,
                   limiter, queue_evt, completion_evt, notify, trace, sq,
                   in_kernel, driver>>

Gone == pc = "dropped" /\ UNCHANGED vars

-----------------------------------------------------------------------------
\* The kernel completes a request.
Complete(r) ==
    /\ r \in in_kernel
    /\ in_kernel' = in_kernel \ {r}
    /\ \E res \in Results(avail[r]) :
            cq' = Append(cq, [chain |-> r, res |-> res])
    /\ completion_evt' = TRUE
    /\ UNCHANGED <<guest, engine, nsectors, is_io_engine_throttled, pc,
                   used_any, limiter, queue_evt, notify, trace, sq, driver>>

Device ==
    \/ process_queue_event \/ process_rate_limiter_event
    \/ process_async_completion_event
    \/ ParseFails \/ RateLimited \/ Answer \/ ExecuteSync \/ SubmitFails
    \/ SubmitAsync \/ Throttled \/ NothingAvailable \/ QueueDone
    \/ PopCompletion \/ CompletionsDone
    \/ SaveDrained \/ SaveDone \/ ResumeSaved \/ Dropped

Next ==
    \/ \E c \in Chains : Post(c)
    \/ HandleInterrupt \/ Device
    \/ prepare_save \/ RestoreSaved \/ drop \/ Gone
    \/ \E n \in NumSectors : update_disk_image(n)
    \/ \E r \in in_kernel : Complete(r)

Spec == Init /\ [][Next]_vars

(***************************************************************************)
(* The event loop runs, each of its events is looked at, the kernel        *)
(* completes what it was given and the driver takes its interrupts.        *)
(***************************************************************************)
FairSpec ==
    /\ Spec
    /\ WF_vars(Device) /\ WF_vars(HandleInterrupt)
    /\ WF_vars(\E r \in in_kernel : Complete(r))

-----------------------------------------------------------------------------
(***************************************************************************)
(* Properties.                                                             *)
(***************************************************************************)
(***************************************************************************)
(* A chain the device has popped is in exactly one place: in the engine    *)
(* (queued, in the kernel, completed) or once in the used ring.  undo_pop  *)
(* after a full ring or an empty bucket neither loses a request nor hands  *)
(* it to the engine twice.  The bucket of operations is charged once for   *)
(* each request that was executed or queued, and once more for each time a *)
(* full ring had one put back; a chain that the limiter itself sends back  *)
(* costs nothing.  After Drop none is in the kernel, which could still     *)
(* write into guest memory.                                                *)
(***************************************************************************)
UsedSet == {used[k] : k \in 1..Len(used)}
CompletedSet == {cq[k].chain : k \in 1..Len(cq)}

EveryRequestInOnePlace ==
    /\ ops + admitted + put_back = OpsBudget
    /\ IF pc = "dropped"
       THEN sq \union in_kernel = {}
       ELSE /\ UsedSet \union sq \union in_kernel \union CompletedSet
                  = 1..next_avail
            /\ Len(used) + InRing = next_avail

(***************************************************************************)
(* A snapshot contains no half-done request: everything that was popped is *)
(* in the used ring with its status written, published to the driver and   *)
(* signalled, because prepare_save drains the engine and then its          *)
(* completion queue.                                                       *)
(***************************************************************************)
SnapshotComplete == pc = "saved" =>
    /\ UsedSet = 1..next_avail
    /\ used_idx = Len(used)
    /\ interrupt \/ seen = Len(used)
    /\ \A r \in UsedSet :
            avail[r].status = "wo" /\ (\A n \in NumSectors : Parses(avail[r], n))
                => status[r] # "none"

(***************************************************************************)
(* No request reads or writes past the end of the disk, also when the      *)
(* sector is so large that adding to it overflows, and when the image was  *)
(* replaced by a smaller one while the chain was waiting.                  *)
(***************************************************************************)
StaysInDisk ==
    [][trace'.lines > trace.lines =>
        trace'.last.offset + trace'.last.length <= nsectors * SECTOR_SIZE]_vars

(***************************************************************************)
(* Every chain a driver posts comes back to it, whatever throttles the     *)
(* device (buckets, a full ring, suppressed notifications) and across      *)
(* snapshot and restore, unless the device is dropped.                     *)
(***************************************************************************)
Returned(r) == \E k \in 1..seen : used[k] = r

EveryRequestReturned == \A r \in Ids :
    Len(avail) >= r ~> Returned(r) \/ pc \in {"dropping", "dropped"}
=============================================================================
