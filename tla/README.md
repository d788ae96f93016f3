# HermOS-test in TLA+

This directory holds TLA+ models of HermOS-test (`src/`), the TLC
configurations that check them on small instances, and TLAPS proofs about the
range dedup proxy and the range clients, the page-fault loop, the benchmark driver, its
prepared runs and their namespaces, the control of vCPUs, the block device, the snapshot
tasks and the experiment scripts. `PROJECT.json` maps definitions to source lines and lists runs, mutants,
findings, hazards and theorems.

## 1. The system

HermOS-test is a set of experiments on restoring Firecracker microVMs from
snapshots: how long the steps of a restore take when many happen at once
(`restore-motivation`), what fetching guest memory eagerly or lazily, from disk
or over HTTP, costs (`fetch-motivation`), which disk blocks a task reads
(`rootfs-predict`), and comparisons with other sandboxes (`cube-compare`,
`kata-compare`). It carries a changed Firecracker (`firecracker-build/fc-change-set`).

### Components

Paths are relative to `src/`. "FC" is `firecracker-build/fc-change-set/src`.

| Component | Source | State it keeps | Operations | Correct when |
|---|---|---|---|---|
| RangeStore | `fetch-motivation/simple-test/range_dedup_proxy.py` | cache, table of fetches in flight, FetchState objects, counters, one lock | `get_range` from one thread per connection, `/__stats` | one fetch per range, everybody who waits is woken with the right bytes, counters add up |
| range clients | the same file; `FC/firecracker/examples/uffd/remote_range_handler.rs` | keep-alive connection, chunk cache | fetch with one retry, read a response, copy a page | a response belongs to the request it answers; a stale connection is not a failure |
| uffd page-fault loop | `on_demand_handler.rs`, `remote_range_handler.rs` | events read, events deferred, COPIED_PAGES | serve, defer, unregister | no blocked vCPU is forgotten |
| uffd handler process | `uffd_utils.rs` | poll set, SHUTDOWN_REQUESTED | accept, poll, receive the uffd, stop | faults are answered; stop ends the process and its summary is written |
| Vmm (vCPU control) | `FC/vmm/src/lib.rs` | vCPU handles, channels, instance state, exit code | start, resume, pause, save, dump, exit event, drop | Ok means done; error exits are reported; drop ends |
| virtio block device | `FC/vmm/src/devices/virtio/block/virtio/{device,request,trace}.rs` | rings, rate limiter, io_uring, throttle flag, trace | queue, limiter and completion events, save, drop, change of image | every request comes back once; none leaves the disk; a snapshot is complete |
| benchmark driver | `restore-motivation/src/ops/mod.rs`, `main.rs` | start gate, finish gate, results | prepare, measure, release, join | operations are measured together; results are complete; the run ends |
| namespace benchmark | `restore-motivation/src/ops/netns/` | namespaces, veth pairs, NAT rules, a barrier | setup and cleanup in stages and batches; a context for a VM | stages stay aligned; what was created is removed |
| VM restore operations | `restore-motivation/src/ops/vm_restore/` | prepared contexts, completed contexts, the thread's namespace | prepare, one restore step, drop | measured in the state and the namespace it needs, torn down after the measured window |
| other operations | `create_firecracker.rs`, `guest_memory.rs`, `snapshot_load.rs`, `hash_cpu.rs`, `noop.rs` | a child process and its socket | start and kill Firecracker; a call | no process is left |
| experiment scripts | `fetch-motivation/simple-test/*.py`, `launch/`, `utils/` | processes, namespaces, sockets, a port, rows | start, load, run, record, clean up | a run leaves nothing behind and never talks to another run's leftovers |
| experiment matrix | `scripts/run_four_groups.py`, `utils/result_csv.py` | the count in shared configs, repeat directories | run a group, append rows | configs are as before |
| guest daemon | `workload-control/guest/` | one connection | run a workload | - |
| rootfs-predict runs | `rootfs-predict/scripts/run/` | locks, images, markers, trace files | prepare a snapshot, run a task | image and memory belong together |
| rootfs-predict analysis | `rootfs-predict/scripts/{collect,analysis,...}` | CSV files | filter, count, plot | - |
| cube-compare, kata-compare | `cube-compare/`, `kata-compare/` | sandboxes of a service | create, destroy | what was created is destroyed |
| plots, tools, build and snapshot scripts | several | files | download, plot | - |

### How the parts meet

A script starts, per sandbox, a namespace, a Firecracker process and (for the
lazy scripts) a uffd handler, waits for their Unix sockets, and asks Firecracker
to load the snapshot with the handler's socket as memory backend. Firecracker
sends the handler its userfaultfd over that socket; from then on a vCPU that
touches a missing page sleeps until the handler has copied it from a file or
fetched it over HTTP, in the dedup experiment through the proxy that all
sandboxes share. In Firecracker the VMM thread controls the vCPU threads by
messages and runs the block device's handlers in its event loop. The script
reads the handlers' logs and the proxy's statistics, writes a row and cleans up.
The benchmark driver is separate: it links the changed Firecracker and measures
its restore steps on many threads.

### What is hard here

- **Interleavings**: handler threads inside and outside the proxy's lock; workers
  and the main thread at two condition variables; the threads of a batch at a
  barrier; VMM and vCPU threads with two
  channels; the balloon's removals against page copies.
- **State that outlives its check**: an `inflight` entry removed before its event
  is set; `SHUTDOWN_REQUESTED` tested before `poll`; `Exited` responses left in,
  or taken from, a channel; a socket file left by an earlier run; a keep-alive
  connection the server has closed, or on which an old answer is still to come.
- **Partial failure**: the second of two sandboxes fails to start; one worker's
  preparation or operation fails; a network set-up stops at its seventh command;
  a thread cannot leave a namespace; one vCPU does not answer.
- **Limits**: a full io_uring, an empty bucket, a sector at 2^64, a uffd message
  that lacks its descriptor on every attempt.
- **Waiting**: `event.wait()` without timeout, `load_snapshot`'s read loop, joins.
- **Restart**: a snapshot taken while requests are in flight, and restored.

`PROJECT.json` lists them under `hazards`, each at its line.

## 2. Plan

In the order of importance. Done:

1. `RangeService`, `RangeStore`, `RangeStoreProofs`: the shared proxy.
2. `UffdHandler`: page faults, on which every lazy sandbox depends.
3. `UffdRuntime`: the process around it and how it is stopped.
4. `IterationSplit`, `RunArgs`, `BenchGate`: the measuring of everything in `restore-motivation`.
5. `SandboxRun`: the scripts, which put 1 to 3 to work.
6. `VcpuControl`: pause, save and resume of vCPUs.
7. `VirtioBlock`: the device the disk traces come from.
8. `SnapshotTask`: the runs of `rootfs-predict`, which share snapshots and data.
9. `WorkerGate`: what `BenchGate` promises the operations behind it, as an abstract
   specification that `BenchGate` implements.
10. `HostNet`, `NetnsShell`: the network set-up and the two operations that measure it.
11. `PreparedRun`: the operations measured upon a prepared context, composed of
    `WorkerGate`, `HostNet` and `IterationSplit`.
12. `RangeClient`: both HTTP clients.
13. `RangeClientProofs`, `UffdHandlerProofs`, `BenchGateProofs` (with `NetnsShell`),
    `VirtioBlockProofs`, `VcpuControlProofs`, `PreparedRunProofs` (with `WorkerGate` and
    `HostNet`), `ScriptProofs` (`SnapshotTask` and `SandboxRun`): their invariants, and
    the refinements of `WorkerGate`, for every value of the constants.

Left:

14. `Matrix`, `CubeBatch`, `GuestDaemon`: configs that are changed and put back,
    create/destroy against a service that answers late, one connection at a time.
15. The block arithmetic of the trace analysis, as operators against a reference.
16. `DiskProperties::update`, which sets `image_id` before `update_file_path`
    (`device.rs:120`): the device may show the id of an image it does not use.

Abstract specifications: `RangeService` and `WorkerGate` (done); a disk that answers
each request once, to be implemented by `VirtioBlock`; "every page present when its
vCPU runs" for `UffdHandler`.

Theorems left: for the two abstract specifications above, that they are implemented.

## 3. Modules and the code

Definitions that begin with the comment "Faulty variant" are not part of a
specification. Each is a plausible bug in the definition that follows it; the
mutants of `PROJECT.json` put them in its place to see that a property notices.

### RangeStore, RangeService

`RangeStore` models `RangeStore.get_range` line by line at the grain of its lock:
each `with self.lock` section is one action and the code between two sections is
a location of `pc`. `Hit`, `Own` and `Join` are the three outcomes of the first
section; `Publish` and `Abandon` the owner's second section after a successful or
a failed `fetch_remote`; `Signal` is `event.set()`, outside the lock and after the
entry has gone; `WakeWithError`, `WakeWithData` and `Count` are the waiter.
`Respond` is the handler's reply, also when it finds the client gone. A FetchState
is named by the value of `remote_requests` when it was made, bytes by the range
they belong to. Several requests on one connection follow one another
(`pc = "idle"` in between), so a handler is a connection.

`RangeService` says what clients may rely on: requests outstanding on an unknown
range share the fate of the next upstream answer, a known range stays known, and
a request is never failed by an answer that came before it.

Not modelled: HTTP parsing, the fetch-time averages, and that the cache is bounded
only by the snapshot's size.

### RangeClient

`lang` chooses between `HttpRangeClient` (with the chunk cache of `serve_remote_pf`
before it) and `UpstreamRangeClient`; both have the same shape. `Begin` is a fault or
a request to the proxy; `SendRequest` connects if need be and writes; `ReadStatus`,
`ReadHeader`, `EndOfHeaders` and `ReadBody` take the answer off the connection piece
by piece; `Retry` drops the connection once; `PanicOnError` is the Rust `expect`,
`HandlerEnds` the Python handler's 502 and return, with which its thread-local client
goes. The clients differ where the code does: only the Python one has a timeout and
notices the end of the stream among the headers, and it retries only after an
`OSError`. The connection holds the requests not yet answered, the rest of the answer
under way and what has arrived; the server (external) answers in order, well or with
an error and a body, and may close at any moment. A body is known by the offset it
begins at and its length.

Not modelled: parsing of the URL; a server whose answers are malformed.

### UffdHandler

The closure of `on_demand_handler.rs` (shared in form by `remote_range_handler.rs`)
is `Dispatch`, `ReadEvent`/`ReadNone`, `ServePagefault`, `DropPagefault`,
`DeferPagefault`, `PanicPagefault`, `HandleRemove` and `EndRound`; `events` and
`deferred` are its two vectors. The kernel and the guest are modelled as the code
relies on them: a fault blocks its vCPU until a wake; `UFFDIO_COPY` fails with
EAGAIN while a removal is under way, with EEXIST (and without waking) on a
present page; a removal's event must be read before `madvise` goes on; a page not
registered is zero-filled. The queue is a set: the handler may not assume an order.

### UffdRuntime

`Accept`, `Poll`, `Sleep`, `Receive`, `ReceiveNothing`, `Panic`, `DispatchFaults`,
`CheckShutdown` and `PrintSummary` are `Runtime::run` and the `main` around it;
`Terminate` and `WaitForExit` are `stop()` of `firecracker_start.py`; Firecracker
sends messages with or without the descriptor, faults and exits. All faults of a
poll round are answered in one step here; `UffdHandler` opens that step up.

### IterationSplit, RunArgs, BenchGate

`BenchGate` has both `run_external` and `run_external_with_prepare`; `with_prepare`
chooses. A critical section is one action; `start_cvar` and `finish_cvar` are the
threads asleep in a condition variable, which leave it by a notification or
spuriously and test their condition again. `PrepareFails`, `OpFails`,
`UsageFailsAtGate`, `JoinFailed` are the error paths. `IterationSplit` is the
integer arithmetic of the workers' shares; `RunArgs` has the numbers a run is asked for
(`-t` and `-c`, neither of them 0) and the workers made for them.

### WorkerGate

What the gates promise, without locks and condition variables: a worker is in one of
six phases; nobody begins before main has opened the start gate, which it does when all
are ready; nobody leaves before all have finished; a failed preparation sends everybody
home. `BenchGate`'s `ImplementsGate` is the refinement: the mapping reads a worker's
phase off its location and the gate's counters.

### HostNet

Pure definitions: the thirteen `STAGES` and the four of a minimal set-up, what each
command needs (`Needs`), whether it works (`CommandWorks`) and what remains after a
clean-up command (`After`), over the set of stages whose effect exists for an instance;
and `octets`, the address arithmetic of `build_instance`. Names are left out: they hold
the instance's number and a token of the process.

### NetnsShell

`step_shell` chooses between `step_shell::run` and `full_shell::run` under
`run_external`'s workers. `CommandOk` and `CommandFails` run the stage a thread is at
(getrusage may fail after the command has worked); `ArriveAtBarrier` and `PassBarrier`
are `Barrier::wait` with its count and generation; `CleanupCommand` one command of
`cleanup`, whose failure nobody sees; `EndInstance` the end of a thread, or of one call
of `full_shell`. `Start`, `Spawn`, `JoinThread`, `JoinThreadFailed`, `NextBatch` and
`FinishShell` are the main thread. The start gate of `run_external` is `BenchGate`'s and is left out.

### PreparedRun

One definition per operation says which steps of the restore path it takes while it
prepares, after it has left its namespace, and while it is measured, and whether its
context is kept; `OpTable` is `get_op`. `NewContext` to `Push` prepare one context,
`PopContext` to `AfterOp` measure it, `Spawn` to `ReapChild` are `create_firecracker`,
`DropLeave` and `DropCleanup` are `Drop for VmNetnsContext`, wherever a context is
dropped: at the end of `run_once`, when a `?` unwinds the closure with its two queues,
or with the runner after the finish gate. The phases are `WorkerGate`'s actions, joined
with the worker's own step. `side[i]` is the namespace in which the host side of network
i was made: a thread that could not leave a namespace makes, and removes, things there.
When main returns, workers that are left stop where they are.

Not modelled: what a step does inside KVM; preparations that panic; a poisoned VMM lock
(nobody else locks it).

### SandboxRun

Each script is a sequence of phases (`Phases`), taken from its `main`; a phase is
one or more actions, and a failure in it leads to the `finally` block
(`CleanupFirecrackers`, `CleanupUffd`, `CleanupProxy`, `CleanupNetns`). The lists a
script assigns (`netns`, `fc_procs`, ...) are booleans: the `finally` block can
clean up only what was assigned. Processes are named `<<run, sandbox>>`, socket
files hold the run whose process bound them, and `port` the run whose proxy
listens: what one run leaves is there for the next. Pool threads (`Connect`,
`Loaded`, `LoadFails`, `ReadNothing`, `WorkloadOk`, ...) interleave. Processes
bind their sockets in their own time, may die, and the script may be killed.

An assumption: a run starts only when every process that earlier runs left has come
as far as binding its socket (`Settled`). Nothing in the scripts waits for that; a
left-over process that binds after the next run's unlink is not covered.

### VcpuControl

`Begin`, `SendEvent`, `RecvResponse`, `RecvTimeout` are the common shape of
`resume_vm`, `pause_vm`, `save_vcpu_states` and `dump_cpu_config`: send to every
handle, then receive from every handle in order. pause and resume stop at the
first wrong answer and leave later answers in their channels; save and dump
collect all first. `SendFails` is the `?` on `send_event`: the operation returns at
once, and the handles before it have the event, whose answers nobody receives.
`resume_vcpus_after_kick` is the second half of `resume_vm`.
`Process` is the exit event, `DropBegin`/`DropEnd` are `Drop`, in which any Finish may
fail to be sent. The vCPU threads are external: each answers in order, refuses what
its state does not allow, and may exit. The response `Exited` (`Exit`) and the event
(`ExitEvent`) are separate steps in either order, and devices may raise the event too.
`disturbed` records that an operation has left the answer of a living vCPU behind, by a
timeout or a failed send, `untold` the vCPUs that Finish was not sent to.

### VirtioBlock

`process_queue_event`, `process_rate_limiter_event` and
`process_async_completion_event` begin a handler, whose loop is one action per
popped chain: `ParseFails`, `RateLimited`, `Answer` (GetDeviceID and unsupported
requests), `ExecuteSync`, `SubmitAsync`, `SubmitFails`, `Throttled`; `QueueDone` is
the tail (publish the used index, interrupt, kick the engine). The guest may post
during a handler; `NothingAvailable` is the pop that re-enables notifications and
looks again. `prepare_save` drains; `ResumeSaved`/`RestoreSaved` go on in the same
or in another process. A chain is a record of what `Request::parse` distinguishes;
sector arithmetic keeps its width (`U64`). Rings, limiter and io_uring are
external; a limiter whose timer is armed gives nothing (`is_blocked`). A change of image
that fails leaves the size as it was. That `engine.update_file_path`
(`device.rs:121`) lets requests already in the engine finish on the old file is an
assumption: the engine is not in the repository.

Not modelled: activation, config space, metrics, the rename of the trace file,
vhost-user.

### SnapshotTask

A task is one invocation of `run_fc_task.py`; `pc` is the command it is at. `Acquire`
takes the instance lock and picks the run id; `Prepare` decides by `snapshot_ready`
what is to be done; `Make` to `Export` are the preparation; `CopyUpper` to `Stop` the
run, with `Look` and `AppendRows` for each call of a collecting script under the data
lock. Each name in the snapshot directory is a file with the preparation that made it
(`gen`), how far it got (`content`), an inode (`ino`: `copy_image`, `make_ext4` and
`replace_image` all make a new file under the name) and the VMs that have written to
it (`by`). A VM has its drives open read-write: the root and workspace images, and for
the snapshot and the runs the upper image. `FailEarly` and `FailLate` are a command that fails, before and inside the
`try` of `run_instance`; `Kill` takes the task and its command but not its VM;
`Cut` and `CutCsv` say what a command may have done by then. `VmWrites` is a guest
that goes on writing to all its drives after its task was killed.

`rootfs.ext4` and `workspace.ext4` are one file here (`images`), as are the files that
`collect_file_reads.py` appends to. A command that outlives its killed task is not
modelled: it would have to start its work after the next task has taken the lock.

Not modelled: namespaces and addresses, the change of the trace file between the
phases, the copy of the upper image kept in the run directory, the batch scripts.

## 4. Runs

Each run is `tlc -config <cfg> <module>`; all complete, the longest in about
two minutes with two workers.

| Run | Instance | Shows |
|---|---|---|
| `range_store` | 3 handlers, 2 ranges of different length, 4 requests | `SingleFlight`, `NoOrphanedWaiter`, `RightBytes`, `RequestsAddUp`, `IndInv` (whose first conjunct is the type invariant); implements `RangeService`; `EveryRequestAnswered` |
| `range_client` | both clients, 5 pages in 3 chunks, 4 fetches | `OwnAnswer`, `PanicOnlyAfterFresh`; `FetchEnds` |
| `uffd_handler` | 2 vCPUs, 2 pages, 3 faults, 2 removals | `NoLostFault`; `EveryFaultResolved` |
| `uffd_runtime` | 2 attempts, 3 faults, 3 messages | `FaultsAnswered`, `StopReturns` |
| `bench_gate` | 4 workers, 5 operations | `ResultsComplete`; implements `WorkerGate` (`ImplementsGate`); `BenchEnds` |
| `bench_gate_op_fails` | 2 workers, 2 operations, one may fail | violation of `BenchEnds` |
| `netns_shell` | 2 threads, 3 networks, 1 lost clean-up | `StagesAligned`, `NetworksOwned`; `ShellEnds` |
| `prepared_run` | every operation, 2 workers, 3 contexts, 2 looks at the socket, 1 ignored failure | `RestoreInOrder`, `InTheRightNamespace`, `ContextsOwned`, `ChildGone` |
| `sandbox_run` | `Lazy-Remote-Dedup.py` twice, 2 sandboxes, deaths and kills | `OwnEndpoints`, `StartedRunLeavesNothing`, `RunEndsUnlessSpinning` |
| `vcpu_control` | 2 vCPUs, 3 operations, a late answer or a failed send, failing starts | `OkMeansDone`, `SavedStatesAreCurrent`, `ErrorExitReported`; `VmmEnds`, `OperationReturns` |
| `virtio_block` | 3 chains, 1 snapshot, both engines, ring of 1, buckets of 2 and 4 | `EveryRequestInOnePlace`, `SnapshotComplete`, `StaysInDisk`; `EveryRequestReturned` |
| `snapshot_task` | 3 tasks, 2 of one instance, 1 failure, 1 kill | `SnapshotMatches`, `FreshUpper`, `DataWellFormed`; `TasksEnd` |

### Why the bounds are enough

- `range_store`: an owner, a waiter and a latecomer on one range, with the fourth
  request a retry after a failure or a hit after a success; the second range is
  what a mix-up would take its bytes from. The proofs remove these bounds.
- `range_client`: sizes are scaled (2 bytes for a 4 KiB page). Two chunks of equal
  length make a mix-up possible that no length check finds, the third is shorter. Two
  pages share a chunk, which the code's equal sizes do not: the cache is then hit. Four
  fetches let an error on one be followed by a kept connection and a stale one.
- `uffd_handler`: two vCPUs on one page need two answers (the second finds it
  present); the third fault is one after a removal; two removals let a second one
  begin while a fault deferred by the first is still waiting.
- `uffd_runtime`: with two attempts, the first message may lack the descriptor and
  the second have it, or both lack it; the code's five add only length.
- `bench_gate`: five operations on four workers is an uneven split with a
  remainder of one; three or more workers let two be at different gates while main
  is at a third place.
- `netns_shell`: three networks on two threads give a full batch and one of a single
  thread, and an uneven split for `full_shell`; at each of thirteen stages either thread
  may fail. One lost clean-up command shows that the others still remove the rest.
- `prepared_run`: one worker has two contexts, so that it may fail with the first
  prepared or measured and the second not; the other is anywhere meanwhile. `ATTEMPTS`
  of two stands for 100: the child may exit, listen or do neither before each look.
- `sandbox_run`: two sandboxes make "the second of the start loop fails" possible,
  two runs let one meet the other's leftovers. `Lazy-Remote-Dedup.py` has every
  phase the other scripts have.
- `vcpu_control`: three operations are needed for a response left by the first to
  be taken by the third (pause, save, resume in any order). `Repeated = FALSE` allows
  one timeout or send that leaves a living vCPU's answer behind: after it only
  `ErrorExitReported`, `VmmEnds` and `OperationReturns` claim anything. The proofs have no
  such bound.
- `snapshot_task`: the second task of an instance meets what the first left when it
  failed or was killed at any command; the third shares only the data files. With one
  failure and one kill the first two may both end early.
- `virtio_block`: a ring of one is full at the second request; the bucket of two
  operations is empty at the third; a bucket of four bytes holds one sector; the
  disk of one or two sectors puts sector 1 inside or outside; `U64 - 1` overflows.
  Chains are reads and GetDeviceID requests: writes and flushes take the same
  paths, and leaving them out of the instance keeps the run within a minute.

All runs but `range_client` check deadlock too: an explicit final
action (`Exhausted`, `Quiet`, `Over`, `RunsOver`, `Exit`, `ShellExit`, `Stopped`, `Dropped`, `Gone`) stutters
where the system may rest, so any other stop is an error. A range client really stops:
at its bound, in a panic, or where the Rust client waits for a blank line for ever,
which `FetchEnds` names.

### Fairness

Weak fairness, per thread or process, of steps that thread can take by itself:

- `RangeStore`: each handler inside `get_range`. The lock is held for bounded
  sections and upstream calls have timeouts. No client has to send a request.
- `RangeClient`: the client's steps, and the server's on an open connection; a server
  that never answers is the Python client's timeout, and for the Rust client, which has
  none, an assumption. Closing, and another fetch, need not happen.
- `UffdHandler`: the handler's loop, the kernel's completion of a removal whose
  event was read, a woken vCPU. Neither faults nor removals need happen.
- `UffdRuntime`: the handler process, and `wait(3)` which returns.
- `BenchGate`: each worker and main. An operation that is measured returns.
  Spurious wake-ups are not required.
- `NetnsShell`: each thread and main; `ip` and `iptables` come to an end.
- `SandboxRun`: the script and each pool thread; a wait ends by what it waits for or
  by its timeout. Processes need not ever bind or answer.
- `VcpuControl`: the VMM thread inside an operation, each vCPU thread's handling of
  an event it has; `Drop` once the exit code is set, which is when the event loop
  stops. Nobody has to call an operation, exit or raise the event.
- `SnapshotTask`: each task, but not `Clone`, `Warmup` and `RunAgent` (`OpenEnded`): they
  wait for `git clone` in the guest (`run_fc_task.py:354`) and for the agent (`:384`,
  `:691`) without a timeout. The commands of the other steps (cp, mkfs, mount, the API
  of Firecracker) are assumed to come to an end, as is a guest's answer to them over
  ssh. Locks need no strong fairness, as a task takes each once.
- `VirtioBlock`: the event loop, the kernel's completions, the driver's interrupts.

### Mutants

Every property of a passing run has a mutant that breaks it: a check that is
dropped, an entry not removed, a notification not sent, an order swapped, a wait
without its timeout. They are the evidence that a property can fail.

## 5. Findings

**A failing operation hangs the benchmark** (`ops/mod.rs:500`,
`bench_gate_op_fails`). The worker leaves through `?` without counting itself
finished; main waits for all at the finish gate. `run_external` has no finish gate
and reports the error. `bench_gate` shows `BenchEnds` where prepared operations do
not fail, and `prepared_run` that such a hang loses no network: `Stopped` is where
main waits.

Other limits of the code are written into the properties, which claim what remains true:

- `StopReturns`: a SIGTERM between the test of the flag and `poll` interrupts nothing
  (`uffd_utils.rs:416`); `stop()` then kills the handler after three seconds and its
  `COPIED_PAGES` line is missing. The handler is gone all the same.
- `StartedRunLeavesNothing`: the lists of `start_sandboxes` are returned only when
  complete (`firecracker_start.py:93`), so a start that fails half-way leaves what it
  had started.
- `OkMeansDone`, `SavedStatesAreCurrent`: a send that fails after other vCPUs got the
  event (`lib.rs:532`, `558`, `579`, `645`), or a vCPU that answers after the timeout,
  leaves answers in the channels, and the next operation of that kind takes them for
  its own. A pause that fails at the second vCPU, a resume that fails there too, and a
  pause: it returns Ok on the first one's old answer, and that vCPU runs. Both are
  claimed for what happens before such a failure (`disturbed`).
- `ErrorExitReported`: an operation between a vCPU's exit and the exit event takes the
  `Exited` response out of the channel (`lib.rs:1004`); the exit is then reported as Ok.
  So is one whose response comes after `process` has looked.
- `VmmEnds`: `Drop` joins a vCPU that Finish could not be sent to (`lib.rs:958`) and
  waits for ever, as it does after a start that failed half-way.
- `EveryRequestInOnePlace`: a request that a full ring puts back (`device.rs:430`) has
  been charged to the rate limiter and is charged again when it is taken up: the
  limiter gets nothing back, as it does where the limiter itself refuses.
- `RunEndsUnlessSpinning`: when Firecracker dies while its snapshot is loaded,
  `load_snapshot` reads `b""` for ever (`snapshot_start.py:41`).
- `TasksEnd`: an agent or a clone that never ends keeps its task, and all tasks of its
  instance, waiting (`run_fc_task.py:354`, `393`, `691`).
- `SnapshotMatches`: the runs of a snapshot share its root and workspace images
  read-write (`run_fc_task.py:222`, `579`), the VMs of killed runs included, while the
  memory image they restore keeps what it knew of these file systems. What one run
  writes there, the next finds; only that no other preparation's VM writes is claimed.
  (`FC_ROOTFS_READ_ONLY` makes the root image read-only; its default is off.)
- `FetchEnds`: at the end of the stream among the headers the Rust client reads empty
  lines for ever (`remote_range_handler.rs:105`); the Python one raises.
- `NetworksOwned`, `ContextsOwned`: main returns at the first failed join
  (`step_shell.rs:69`, `mod.rs:573`), and networks of threads it did not wait for stay
  on the host; so does what a clean-up command failed to remove.
- `InTheRightNamespace`: a `leave()` that fails while preparing is ignored
  (`device_restore.rs:67`), and the next context takes the wrong namespace for its root.

## 6. Proofs

### The proxy

`RangeStoreProofs` proves about `RangeStore`, for any finite set of handlers, any
finite set of ranges, any positive lengths and any bound on the requests:

| Theorem | States |
|---|---|
| `Inductive` | `Spec => []IndInv` |
| `TypeCorrect` | `Spec => []TypeOK` |
| `FetchedOnce` | `Spec => []SingleFlight` |
| `WaitersHaveOwners` | `Spec => []NoOrphanedWaiter` |
| `AnswersAreRight` | `Spec => []RightBytes` |
| `StatsAddUp` | `Spec => []RequestsAddUp` |
| `StoreImplementsService` | `Spec => Implements` |

Assumptions, all stated in `RangeStore` and evaluated by TLC: `HandlersFinite`,
`KeysFinite` (cardinalities of the tables), `NoKeyNotKey` (`None` is not a range),
`LengthPositive` (`parse_range_header` refuses an empty range), `MaxRequestsNat`.

**The argument.** `SingleFlight` and `NoOrphanedWaiter` speak only of where threads
are; whether a step keeps them depends on the tables, which threads change in other
sections than the one that decided. `IndInv` ties the two together:

- `TablesSound`: the cache holds a range's own bytes, and a cached range is not in
  flight;
- `EntryHasOwner` and `OwnerHasEntry`: entries of `inflight` and threads inside
  `fetch_remote` correspond, and the FetchState of such a thread is undecided;
- `OneOwner`: a FetchState has one owner until it is signalled;
- `LocalsSound`: what a thread carries out of the lock (key, state, answer) is still
  what it was when it took it;
- `WaiterSound`: a waiter's FetchState is in the table under the waiter's own key, or
  decided and signalled, or decided with an owner about to signal it. This is what
  covers the window between the removal of the entry and `event.set()`.

Each action has a lemma (`HitInd`, `OwnInd`, `JoinInd`, `PublishInd`, `AbandonInd`,
`SignalInd`, `WakeWithErrorInd`, `WakeWithDataInd`, `CountInd`, `RespondInd`,
`StutterInd`) that it preserves `IndInv`. `RequestsAddUp` is in `IndInv` because
`Own` needs it: that there are fewer FetchStates than requests is what keeps the
new one's number fresh and in range. `CardAdd` and `CardRemove` are the facts about
the cardinality of the tables that this needs.

**Refinement.** The abstract `fate` of a request is `FateOf`: open while its fetch is
undecided, decided at the moment `Publish` or `Abandon` writes the FetchState, before
any waiter has woken. So one concrete `Publish` is one abstract `Learn` for the owner
and all waiters at once, and `Signal`, the wake-ups and `Count` are stutters.

### The gates

`PreparedRunProofs` proves `GateSafe`: `GateSpec => []GateInv`, for any number of
workers. `GateInv` is inductive: the type of the state; the start gate opened for all
or for nobody (`StartTogether`: nobody runs while it is closed, nobody still prepares once
it is open, and it is never open after a failed preparation); main waits at the finish
gate only when the start gate is open (`FinishAwaited`); and whoever is done left after
the release (`LeftReleased`). `BenchGate` implements `GateSpec` and so does `PreparedRun`
(both proved below).

### The benchmark driver

`BenchGateProofs` proves about `BenchGate`, for every positive `Total` and
`Concurrency` (`RunConfig`, which `main.rs` checks) and whether or not a prepared
operation may fail (`RunFlag`):

| Theorem | States |
|---|---|
| `DriverImplementsGate` | `Spec => ImplementsGate` |
| `BenchInductive` | `Spec => []BenchInv` |
| `EveryOperationMeasured` | `Spec => []ResultsComplete` |

**Refinement.** The abstract gate opens when all workers are ready; the code opens it
when `ready_workers` has reached their number. `GatesInv` is what makes the two the same:
a worker is counted only after it has come to the gate (`ArrivalsCounted`,
`FinishesCounted`), so a full count means that all are there (`CountCovered`), whoever
else sleeps in the condition variable or was woken for nothing. `FailuresKnown` and
`FlagsFollowMain` relate flags, main and workers, `LeftReleased` the finish gate. Waiting
and waking, spurious or not, are stutters.

**Results.** `OwnIds` says that a worker's results are the first ids of its own share,
`RowsInOrder` that the joined rows are the ids below the next share's offset. That the
shares follow one another without gap or overlap and end at `Total` is arithmetic:
`Distributes` and `SharesAdjacent`, about `iteration_count` and `iteration_offset`.

### The range clients

`RangeClientProofs` proves about `RangeClient`, for any number of fetches and all page,
chunk and file sizes in which chunk and file are whole pages (`SizesFit`, `FetchBound`):

| Theorem | States |
|---|---|
| `ClientInductive` | `Spec => []ClientInv` |
| `AnswersAreOwn` | `Spec => []OwnAnswer` |
| `StaleConnectionHarmless` | `Spec => []PanicOnlyAfterFresh` |

`OwnAnswer` is about what a client ends up with; it does not follow from the lengths, as
chunks may have equal ones. `ConnectionSound` is the reason: between fetches the
connection is quiet, and during one it carries this request or the unread rest of its
answer (`Answered`: the client has read the first k of four pieces and the server has
sent the first d), because every exchange that ends early drops the connection.
`CacheSound` takes that through the cache to the page that is copied; `PageInChunk` is
the arithmetic of the slice. `SecondIsFresh` says that a second attempt has a connection
of its own.

### The page-fault loop

`UffdHandlerProofs` proves about `UffdHandler`, for any vCPUs, pages, faults and
removals (`NoPageNotPage`, `FaultBounds`), `HandlerInductive` (`Spec => []HandlerInv`)
and `FaultsAreKept` (`Spec => []NoLostFault`). `NoLostFault` looks at the vectors when
the handler is back in `poll`; the invariant follows a fault through them. Who sleeps
waits for a page that is registered and not present (`SleepersWait`: a copy wakes all who
wait for its page, a removal unregisters it), and its fault is in the queue or in the
handler's hands (`SleepersKnown`). `FaultsCounted` adds up page faults queued, read,
deferred and counted in `COPIED_PAGES`, which needs the cardinalities of the places of a
sequence (`FaultsIn`).

### The block device

`VirtioBlockProofs` proves about `VirtioBlock`, for all chains, ring and image sizes,
budgets, snapshots and numbers of requests:

| Theorem | States |
|---|---|
| `BlockInductive` | `Spec => []BlockInv` |
| `RequestsInOnePlace` | `Spec => []EveryRequestInOnePlace` |
| `SnapshotsAreComplete` | `Spec => []SnapshotComplete` |
| `AccessesStayInDisk` | `Spec => StaysInDisk` |

Beside the bounds of the module it assumes `ChainAssumption`: the fields of a chain have
the types that `Request::parse` gives them, and a sector is a `u64`. `Placed` says that
the used ring, the submission queue, the kernel and the completion queue together hold
the popped chains, and by the sum of their sizes each once; the bucket of operations is
charged for each request that was executed or queued (`admitted`) and for each that a full
ring put back (`put_back`). `Drained` says how far a
drain has come at each point of `prepare_save` and `drop`, so that nothing is left when
it is over; `Signalled` relates what was published to what the driver was told, which
differs only while a handler has put something into the used ring; `StatusWritten` is for
chains that every image could have served. `StaysInDisk` is an action property: that
`(sector << 9)` does not wrap follows from `Fits`, as an image is smaller than 2^64 bytes.

### The control of vCPUs

`VcpuControlProofs` proves about `VcpuControl`, for any number of vCPUs and operations,
with late answers and failing starts or without (`VcpuAssumption`):

| Theorem | States |
|---|---|
| `ControlInductive` | `Spec => []ControlInv` |
| `OkIsTrue` | `Spec => []OkMeansDone` |
| `SavedStatesOfNow` | `Spec => []SavedStatesAreCurrent` |
| `ErrorsAreReported` | `Spec => []ErrorExitReported` |

An operation that stops at the first wrong response leaves later ones in their channels,
where the next operation could take them for its own. `InStep` describes a channel that
holds nothing but what the operation under way has put there, and the response of an
exit. Channels do get out of step; what is invariant is `StaleBehindDead`: as long as no
living vCPU's answer was left behind by a timeout or a failed send (`~disturbed`; a send
that fails at the first handle leaves none), a channel out of step is behind a vCPU that has
exited and whose exit was received (`Dead`). Every later operation waits for that one in
vain and returns an error before it comes to the stale channel. So an operation that has
received only wanted responses has received its own, and has had its effect on the vCPUs
it heard from (`Progress`, `Done`), which holds until something is sent again
(`OkIsDone`). `ErrorsKept` says that the response of an error exit stays in its channel
until an operation or the exit event takes it, so that `process` finds every error that
was posted before it looks, in whichever order response and event came. `Stages` keeps start and drop apart from
all this. The threads' lemma is `VcpuInStep`, that of the receiving loop `ReceivedAll`.

### The addresses

`PreparedRunProofs` proves that the first 16,384 instances of a run have different /30
networks (`AddressesDistinct`) and that instance s + 16,384 has that of instance s
(`AddressesRepeat`): a run that keeps more contexts than that alive at once would give
two of them one network. Both follow from `OctetsDetermine`, that a number below 2^14 is
its two octets put together.

### The network set-up

The last part of `BenchGateProofs` is about `NetnsShell`, for any numbers of networks and
of threads (`RunConfig`, as for the driver) and any bound on clean-ups that fail
unnoticed:

| Theorem | States |
|---|---|
| `StagesKeepStep` | `ShellSpec => []StagesAligned` |
| `NetworksAreOwned` | `ShellSpec => []NetworksOwned` |

`StagesAligned` needs the barrier's own state. `BarrierFits` says that it has opened once
for each stage that is over, that `count` is the number of threads waiting for it to open
again and never reaches the size of the batch, and that a thread still in `wait` is at most
one opening behind. So the last to arrive is last of all, those who failed included, and
no thread is left over from a stage that another has begun (`ArriveStep`, where the count
of a batch without its last thread is taken). `BatchFits` says which threads of the batch
main has spawned and joined; `OneOwner` that a network has one thread from its first
command to its last, with seq given by the batch or drawn from `NEXT_SEQ`, and how much
each clean-up command leaves.

### The prepared runs

`PreparedRunProofs` proves about `PreparedRun`, for any number of workers and of
operations, every operation of the table and any number of failures nobody looks at:

| Theorem | States |
|---|---|
| `ChildIsGone` | `Spec => []ChildGone` |
| `NamespaceIsRight` | `Spec => []InTheRightNamespace` |
| `RestoresInOrder` | `Spec => []RestoreInOrder` |
| `ContextsAreOwned` | `Spec => []ContextsOwned` |
| `RunsKeepGates` | `Spec => GateSpec` |

`PreparedInv` says of each worker which of its locals are in use at which place (`InUse`),
how the place fits its phase at the gates (`PhaseFits`), whether its contexts have
namespaces (`ModeFits`), which restore steps each of them has had (`StepsFit`), how many
of them there are (`CountFits`), which namespace the thread is in (`Placed`) and how far a
clean-up has come (`CleanFits`). Of the host it says that no more numbers were drawn from
`NEXT_SEQ` than slots were used (`HostOk`, `SlotsUsed`), which keeps a new namespace's
number fresh; that no namespace is two workers' (`Apart`); and that what exists and was not
left by an unnoticed failure is some worker's (`Accounted`).

A worker's conjuncts mention its own locals only, with what they need of the rest as
parameters. `WorkerMoves` uses that: a step of one worker that leaves the rest of the host
as it was keeps the invariants of all others. `LocalStep` is its case where the host does
not change, `HostMoves` the one where a command changes the worker's own network; each
action has a lemma that it is such a step. `RestoreInOrder` then is about the table of
operations alone: `OpTableOk`, that for each of them preparation, late preparation and
measurement follow one another in the order `Before` asks for (`Follows`).

### The snapshot tasks

`ScriptProofs` proves about `SnapshotTask`, for any tasks and instances, any number of
failing commands and of kills (`TaskAssumption`):

| Theorem | States |
|---|---|
| `RestoresOnePreparation` | `Spec => []SnapshotMatches` |
| `UpperIsFresh` | `Spec => []FreshUpper` |
| `DataIsWellFormed` | `Spec => []DataWellFormed` |

`Holding` is mutual exclusion by the locks: of the tasks of one instance one is busy. It
is proved first, as everything else is about files that only the holder touches.
`SnapshotInv` says which files a preparation has made at each of its steps (`Stage`), that
a marked snapshot is of one preparation (`Marked`: the marker is written last and removed
first), and what a restoring task may rely on (`Restore`). The VMs of killed tasks keep
writing to all their drives; `Vms` says to which inodes. That the upper image is not one a
later task uses is the reason for `FreshUpper`, as `active-upper.ext4` is replaced and not
overwritten. The root and workspace images are the same files for all runs of a snapshot;
`GuestKeepsImages` says that a VM writes to those of another task's preparation only when it is a
run, because each preparation makes them anew. `DataInv`
relates the lines of the data files to the runs: a header on top and nowhere else
(`Headers`, and `Seen` for what a task found before it appends), rows only of runs whose
directory was made (`RunsMade`, so that a new run's rows are new), none of them twice, and
two whole ones next to each other for a task that came to its end (`Written`).

### The experiment scripts

The last part of `ScriptProofs` is about `SandboxRun`, for every script and any numbers of
sandboxes and of runs, with Firecrackers that die and scripts that are killed or without
(`RunAssumption`):

| Theorem | States |
|---|---|
| `EndpointsAreOwn` | `ScriptSpec => []OwnEndpoints` |
| `StartedRunsCleanUp` | `ScriptSpec => []StartedRunLeavesNothing` |

Both depend on the order of the phases, which `PhasesInOrder` reads off the five scripts.
`SocketsOwn` says that from the unlink of a socket's old file on nothing but a process of
this run is bound to it, whatever processes earlier runs left. `LocalsKnow` says that once
everything has started the script's lists name each process of the run that is alive, so
that `cleanup` finds it; `CleanedUp` says what each of its steps has removed.

### Left to TLC

All liveness: `EveryRequestAnswered`, `EveryFaultResolved`, `FaultsAnswered`,
`StopReturns`, `FetchEnds`, `BenchEnds`, `ShellEnds`, `RunEndsUnlessSpinning`, `VmmEnds`,
`OperationReturns`, `EveryRequestReturned` and `TasksEnd` (fairness and ENABLED are outside
what the prover does). Every safety property that a run checks is a theorem. Each inductive
invariant was checked with TLC on a small instance before it was proved.

## 7. What is not modelled

- `run_four_groups.py`, the batch scripts of `rootfs-predict`, cube-compare, the
  guest daemon: planned (section 2).
- `snapshot_load`, `hash_cpu`, `noop`: single calls that are timed; `BenchGate` has
  them as its operation.
- Names of namespaces and links across processes: a token of 20 bits of the clock keeps
  two processes apart.
- Plots, log parsers, page counters, dataset tools: sequential reading of files.
- kata-compare, build, download and snapshot shell scripts: drivers of external
  programs.
- The parts of Firecracker that are not in the repository (vCPU threads, queues,
  rate limiter, io_uring, KVM) appear only as the code here uses them, marked
  external in the map.
- Times: a timeout is a step that may happen when the thing waited for has not.
