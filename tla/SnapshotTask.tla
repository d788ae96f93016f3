---------------------------- MODULE SnapshotTask ----------------------------
(***************************************************************************)
(* rootfs-predict/scripts/run/run_fc_task.py: tasks, several at a time and *)
(* several of one instance, that prepare the snapshot of their instance    *)
(* unless it is there, restore it over a fresh upper image, run the agent  *)
(* and append what was read to data/*.csv.                                 *)
(*                                                                         *)
(* A task may fail at any command and may be killed at any moment, with    *)
(* the command it waits for.  A kill frees its locks (flock) and leaves    *)
(* its Firecracker, which runs under sudo: that VM goes on writing to the  *)
(* images it has open.  A file is therefore more than its content: ino     *)
(* tells whether a name still is the file that somebody opened, by which   *)
(* VMs have written to it.  Every drive is attached read-write, the root   *)
(* and workspace images too, in the snapshot VM and in every run.  What    *)
(* their guests write there is only recorded in by: content "cloned" says  *)
(* what the preparation put into the images.                               *)
(***************************************************************************)
EXTENDS Integers, Sequences, FiniteSets

CONSTANTS
    Tasks,         \* invocations of run_fc_task.py
    NoTask,
    Instances,     \* SWE-bench instances
    InstanceOf,    \* the INSTANCE_ID each task is called with
    MaxKills,      \* bound on the tasks that are killed
    MaxFailures    \* bound on the commands that fail

ASSUME TaskAssumption ==
    /\ NoTask \notin Tasks
    /\ InstanceOf \in [Tasks -> Instances]
    /\ MaxKills \in Nat /\ MaxFailures \in Nat

VARIABLES
    lock,          \* holder of file_lock("instance:...") per instance
    data_lock,     \* holder of file_lock("data")
    files,         \* files[i]: the snapshot directory of instance i
    runs,          \* runs[i]: the run directories of instance i, by number
    csv,           \* data/*.csv: is the file there, and its lines
    pc,            \* where each task is
    run_id,        \* the run directory of a task
    exists,        \* the value of exists in append_rows
    appends,       \* calls of append_rows that a task has made
    raised,        \* an exception is on its way through the finally block
    vm,            \* the task's Firecracker: its purpose, the files it has open
    kills, failures

locks == <<lock, data_lock>>
locals == <<run_id, exists, appends, raised>>
bounds == <<kills, failures>>
vars == <<locks, files, runs, csv, pc, locals, vm, bounds>>

\* rootfs.ext4 and workspace.ext4 are made, used and replaced together.
Names == {"images", "upper", "active", "state", "mem", "marker", "atlas"}
Csvs == {"block_phased", "file_reads"}

\* gen is the task that made the first version of the file's content; an
\* empty file is absent, as snapshot_ready sees it.
File(t, content, tag) ==
    [gen |-> t, content |-> content, ino |-> <<t, tag>>, by |-> {}]
NoFile == File(NoTask, "absent", "none")
\* cp: the content of f in a new file.
Copy(f, t, tag) == [f EXCEPT !.ino = <<t, tag>>]
NoVm == [kind |-> "none", drives |-> [n \in {} |-> NoFile.ino]]

Init ==
    /\ lock = [i \in Instances |-> NoTask] /\ data_lock = NoTask
    /\ files = [i \in Instances |-> [n \in Names |-> NoFile]]
    /\ runs = [i \in Instances |-> {}]
    /\ csv = [f \in Csvs |-> [there |-> FALSE, lines |-> <<>>]]
    /\ pc = [t \in Tasks |-> "start"]
    /\ run_id = [t \in Tasks |-> 0]
    /\ exists = [t \in Tasks |-> FALSE] /\ appends = [t \in Tasks |-> 0]
    /\ raised = [t \in Tasks |-> FALSE]
    /\ vm = [t \in Tasks |-> NoVm]
    /\ kills = 0 /\ failures = 0

Dir(t) == files[InstanceOf[t]]
Step(t, from, to) == pc[t] = from /\ pc' = [pc EXCEPT ![t] = to]
\* changes: names in the snapshot directory of t and their new files.
Write(t, changes) ==
    files' = [files EXCEPT ![InstanceOf[t]] =
                 [n \in Names |-> IF n \in DOMAIN changes THEN changes[n] ELSE @[n]]]
Only(name, f) == [n \in {name} |-> f]
Present(d, names) == \A n \in names : d[n].content # "absent"

-----------------------------------------------------------------------------
(***************************************************************************)
(* main: file_lock and next_run_id; run_instance makes the run directory.  *)
(***************************************************************************)
\* The first number from 1 on whose directory does not exist.
next_run_id(i) ==
    CHOOSE n \in 1 .. Cardinality(runs[i]) + 1 :
        n \notin runs[i] /\ 1 .. n - 1 \subseteq runs[i]

Acquire(t) ==
    LET i == InstanceOf[t] IN
    /\ lock[i] = NoTask
    /\ Step(t, "start", "mkdir")
    /\ lock' = [lock EXCEPT ![i] = t]
    /\ run_id' = [run_id EXCEPT ![t] = next_run_id(i)]
    /\ UNCHANGED <<data_lock, files, runs, csv, exists, appends, raised, vm, bounds>>

MakeRunDir(t) ==
    /\ Step(t, "mkdir", "prepare")
    /\ runs' = [runs EXCEPT ![InstanceOf[t]] = @ \union {run_id[t]}]
    /\ UNCHANGED <<locks, files, csv, locals, vm, bounds>>

(***************************************************************************)
(* prepare_snapshot.                                                       *)
(***************************************************************************)
\* Faulty variant: the marker is not among the required files.
snapshot_ready_unmarked(d) ==
    Present(d, {"images", "upper", "active", "state", "mem"})

\* Files that are there and not empty; nothing is known of their content.
snapshot_ready(d) ==
    Present(d, {"images", "upper", "active", "state", "mem", "marker"})

Prepare(t) ==
    /\ \/ /\ snapshot_ready(Dir(t)) /\ Present(Dir(t), {"atlas"})
          /\ Step(t, "prepare", "copy_upper")
          /\ UNCHANGED files
       \/ /\ snapshot_ready(Dir(t)) /\ ~Present(Dir(t), {"atlas"})
          /\ Step(t, "prepare", "export")
          /\ UNCHANGED files
       \/ /\ ~snapshot_ready(Dir(t))
          /\ Step(t, "prepare", "make")
          /\ Write(t, [n \in {"state", "mem", "marker", "atlas"} |-> NoFile])
    /\ UNCHANGED <<locks, runs, csv, locals, vm, bounds>>

\* make_ext4 and copy_image unlink before they write: a new file each.
Make(t) ==
    /\ Step(t, "make", "vm_prepare")
    /\ Write(t, [n \in {"images", "upper"} |-> File(t, "blank", "make")])
    /\ UNCHANGED <<locks, runs, csv, locals, vm, bounds>>

\* A VM opens the files its configuration names, and keeps them open.
StartVm(t, kind, names) ==
    vm' = [vm EXCEPT ![t] =
              [kind |-> kind, drives |-> [n \in names |-> Dir(t)[n].ino]]]
StopVm(t) == vm' = [vm EXCEPT ![t] = NoVm]
WrittenBy(t, f) == [f EXCEPT !.by = @ \union {<<t, vm[t].kind>>}]
\* The guest writes to its drives.  Where the name is another file by now,
\* nobody who comes later sees it.
GuestWrites(t) ==
    Write(t, [n \in {m \in DOMAIN vm[t].drives : Dir(t)[m].ino = vm[t].drives[m]} |->
                 WrittenBy(t, Dir(t)[n])])

StartPrepareVm(t) ==
    /\ Step(t, "vm_prepare", "clone")
    /\ StartVm(t, "prepare", {"images"})
    /\ UNCHANGED <<locks, files, runs, csv, locals, bounds>>

Clone(t) ==
    /\ Step(t, "clone", "copy_active")
    /\ Write(t, Only("images",
                    [WrittenBy(t, Dir(t)["images"]) EXCEPT !.content = "cloned"]))
    /\ StopVm(t)
    /\ UNCHANGED <<locks, runs, csv, locals, bounds>>

CopyActive(t) ==
    /\ Step(t, "copy_active", "vm_snapshot")
    /\ Write(t, Only("active", Copy(Dir(t)["upper"], t, "copy")))
    /\ UNCHANGED <<locks, runs, csv, locals, vm, bounds>>

StartSnapshotVm(t) ==
    /\ Step(t, "vm_snapshot", "warmup")
    /\ StartVm(t, "snapshot", {"images", "active"})
    /\ UNCHANGED <<locks, files, runs, csv, locals, bounds>>

\* overlay-init makes directories on the root image, the workspace image
\* is mounted, then read-only; the overlay is mounted on the upper image and
\* the agent run once.
Warmup(t) ==
    /\ Step(t, "warmup", "create")
    /\ Write(t, [n \in {"images", "active"} |->
                    LET f == WrittenBy(t, Dir(t)[n]) IN
                    IF n = "active" THEN [f EXCEPT !.content = "warm"] ELSE f])
    /\ UNCHANGED <<locks, runs, csv, locals, vm, bounds>>

CreateSnapshot(t) ==
    /\ Step(t, "create", "replace_upper")
    /\ Write(t, [n \in {"state", "mem"} |-> File(t, "full", "create")])
    /\ StopVm(t)
    /\ UNCHANGED <<locks, runs, csv, locals, bounds>>

ReplaceUpper(t) ==
    /\ Step(t, "replace_upper", "replace_active")
    /\ Write(t, Only("upper", Copy(Dir(t)["active"], t, "replace")))
    /\ UNCHANGED <<locks, runs, csv, locals, vm, bounds>>

ReplaceActive(t) ==
    /\ Step(t, "replace_active", "marker")
    /\ Write(t, Only("active", Copy(Dir(t)["upper"], t, "replace")))
    /\ UNCHANGED <<locks, runs, csv, locals, vm, bounds>>

Mark(t) ==
    /\ Step(t, "marker", "export")
    /\ Write(t, Only("marker", File(t, "full", "mark")))
    /\ UNCHANGED <<locks, runs, csv, locals, vm, bounds>>

Export(t) ==
    /\ Step(t, "export", "copy_upper")
    /\ Write(t, Only("atlas", File(t, "full", "export")))
    /\ UNCHANGED <<locks, runs, csv, locals, vm, bounds>>

-----------------------------------------------------------------------------
(***************************************************************************)
(* run_instance, from the check that follows prepare_snapshot on.          *)
(***************************************************************************)
\* A process that ends frees its locks.
Unlock(t) == lock' = [i \in Instances |-> IF lock[i] = t THEN NoTask ELSE lock[i]]
UnlockData(t) == data_lock' = IF data_lock = t THEN NoTask ELSE data_lock

\* The copy for the run directory; SystemExit without a snapshot.
CopyUpper(t) ==
    LET ready == snapshot_ready(Dir(t)) IN
    /\ Step(t, "copy_upper", IF ready THEN "activate" ELSE "failed")
    /\ IF ready THEN UNCHANGED lock ELSE Unlock(t)
    /\ UNCHANGED <<data_lock, files, runs, csv, locals, vm, bounds>>

\* Faulty variant: cp over the file that is there.
ActivateInPlace(t) ==
    /\ Step(t, "activate", "load")
    /\ Write(t, [n \in {"active"} |->
                    [Dir(t)["upper"] EXCEPT !.ino = Dir(t)["active"].ino]])
    /\ UNCHANGED <<locks, runs, csv, locals, vm, bounds>>

\* The copy in the run directory equals upper: nothing else writes to it.
Activate(t) ==
    /\ Step(t, "activate", "load")
    /\ Write(t, Only("active", Copy(Dir(t)["upper"], t, "activate")))
    /\ UNCHANGED <<locks, runs, csv, locals, vm, bounds>>

Load(t) ==
    /\ Step(t, "load", "agent")
    /\ StartVm(t, "run", {"images", "active"})
    /\ UNCHANGED <<locks, files, runs, csv, locals, bounds>>

RunAgent(t) ==
    /\ Step(t, "agent", "collect")
    /\ GuestWrites(t)
    /\ UNCHANGED <<locks, runs, csv, locals, vm, bounds>>

TakeData(t) ==
    /\ Step(t, "collect", "look")
    /\ data_lock' = t
    /\ UNCHANGED <<lock, files, runs, csv, locals, vm, bounds>>

\* Faulty variant: the data lock is not exclusive.
AcquireDataShared(t) == TakeData(t)

AcquireData(t) == data_lock = NoTask /\ TakeData(t)

\* The calls of the collecting scripts, in order: file and phase.
Calls == << <<"block_phased", "preworkload">>, <<"block_phased", "workload">>,
            <<"file_reads", "preworkload">>, <<"file_reads", "workload">> >>
Target(t) == csv[Calls[appends[t] + 1][1]]

\* append_rows up to its open("a"): a file without the header stops it.
Look(t) ==
    LET incompatible == Target(t).there /\ Target(t).lines = <<>> IN
    /\ Step(t, "look", IF incompatible THEN "stop" ELSE "append")
    /\ exists' = [exists EXCEPT ![t] = Target(t).there]
    /\ raised' = [raised EXCEPT ![t] = incompatible]
    /\ IF incompatible THEN UnlockData(t) ELSE UNCHANGED data_lock
    /\ UNCHANGED <<lock, files, runs, csv, run_id, appends, vm, bounds>>

\* What one call writes; whole is FALSE if it was cut off.
Rows(t, whole) ==
    [kind |-> "rows", task |-> InstanceOf[t], run |-> run_id[t],
     phase |-> Calls[appends[t] + 1][2], whole |-> whole]
Header ==
    [kind |-> "header", task |-> "none", run |-> 0, phase |-> "none", whole |-> TRUE]
Headed(t, lines) == (IF exists[t] THEN <<>> ELSE <<Header>>) \o lines
AddLines(t, lines) ==
    csv' = [csv EXCEPT ![Calls[appends[t] + 1][1]] =
               [there |-> TRUE, lines |-> @.lines \o lines]]

AppendRows(t) ==
    LET last == appends[t] + 1 = Len(Calls) IN
    /\ Step(t, "append", IF last THEN "stop" ELSE "look")
    /\ AddLines(t, Headed(t, <<Rows(t, TRUE)>>))
    /\ appends' = [appends EXCEPT ![t] = @ + 1]
    /\ IF last THEN UnlockData(t) ELSE UNCHANGED data_lock
    /\ UNCHANGED <<lock, files, runs, run_id, exists, raised, vm, bounds>>

\* The finally block: the VM is stopped and the upper image kept.
Stop(t) ==
    /\ Step(t, "stop", IF raised[t] THEN "failed" ELSE "done")
    /\ StopVm(t)
    /\ Unlock(t)
    /\ UNCHANGED <<data_lock, files, runs, csv, locals, bounds>>

-----------------------------------------------------------------------------
(***************************************************************************)
(* Failures and kills.  Cut(t): what the command in progress may have done *)
(* to the snapshot directory, as changes for Write.                        *)
(***************************************************************************)
Ended(t) == pc[t] \in {"done", "failed", "killed"}

Cut(t) ==
    LET made(content) == File(t, content, pc[t])
        touched(name) == [WrittenBy(t, Dir(t)[name]) EXCEPT !.content = "partial"]
    IN  { [n \in {} |-> NoFile] } \union
        (CASE pc[t] = "make" ->
                  { Only("images", made("partial")),
                    [n \in {"images", "upper"} |->
                        made(IF n = "images" THEN "blank" ELSE "partial")] }
           [] pc[t] = "clone" -> { Only("images", touched("images")) }
           [] pc[t] = "copy_active" -> { Only("active", made("partial")) }
           [] pc[t] = "warmup" ->
                  { [n \in {"images", "active"} |->
                        IF n = "active" THEN touched(n) ELSE WrittenBy(t, Dir(t)[n])] }
           [] pc[t] = "create" ->
                  { Only("state", made("partial")), Only("state", made("full")),
                    [n \in {"state", "mem"} |->
                        made(IF n = "state" THEN "full" ELSE "partial")] }
           [] pc[t] = "export" -> { Only("atlas", made("partial")) }
           [] OTHER -> {})
CutFiles(t) == \E changes \in Cut(t) : Write(t, changes)

\* open("a") makes the file, what is buffered is written later.
CutCsv(t) ==
    IF pc[t] = "append"
    THEN \/ UNCHANGED csv
         \/ AddLines(t, <<>>)
         \/ AddLines(t, Headed(t, <<Rows(t, FALSE)>>))
    ELSE UNCHANGED csv

\* The exception of a command that fails before the try of run_instance,
\* or in its start_vm, ends the task.  A VM in use is stopped on the way.
FailEarly(t) ==
    /\ failures < MaxFailures
    /\ ~Ended(t)
    /\ pc[t] \notin {"start", "mkdir", "agent", "collect", "look", "append"}
    /\ failures' = failures + 1
    /\ CutFiles(t)
    /\ pc' = [pc EXCEPT ![t] = "failed"]
    /\ StopVm(t)
    /\ Unlock(t)
    /\ UNCHANGED <<data_lock, runs, csv, locals, kills>>

\* Later ones leave the data lock and pass through the finally block; an
\* agent that fails has used its drives.
FailLate(t) ==
    /\ failures < MaxFailures
    /\ pc[t] \in {"agent", "look", "append"}
    /\ failures' = failures + 1
    /\ IF pc[t] = "agent" THEN GuestWrites(t) ELSE UNCHANGED files
    /\ CutCsv(t)
    /\ pc' = [pc EXCEPT ![t] = "stop"]
    /\ raised' = [raised EXCEPT ![t] = TRUE]
    /\ UnlockData(t)
    /\ UNCHANGED <<lock, runs, run_id, exists, appends, vm, kills>>

\* Faulty variant: the lock files are inherited by Firecracker, and flock
\* lasts as long as a descriptor of it.
KillUnlockInherited(t) ==
    IF vm[t] = NoVm THEN Unlock(t) /\ UnlockData(t) ELSE UNCHANGED locks

\* flock: the kernel unlocks when the descriptor goes; Python opens it
\* close-on-exec, so no child has it.
KillUnlock(t) == Unlock(t) /\ UnlockData(t)

Kill(t) ==
    /\ kills < MaxKills
    /\ ~Ended(t)
    /\ kills' = kills + 1
    /\ CutFiles(t)
    /\ CutCsv(t)
    /\ pc' = [pc EXCEPT ![t] = "killed"]
    /\ KillUnlock(t)
    /\ UNCHANGED <<runs, locals, vm, failures>>

\* A guest left alone goes on writing to its drives.
VmWrites(t) ==
    /\ pc[t] = "killed" /\ vm[t] # NoVm
    /\ GuestWrites(t)
    /\ UNCHANGED <<locks, runs, csv, pc, locals, vm, bounds>>

Over == (\A t \in Tasks : Ended(t)) /\ UNCHANGED vars

-----------------------------------------------------------------------------
\* Every step of t that only takes commands with an end.
TaskStep(t) ==
    \/ Acquire(t) \/ MakeRunDir(t) \/ Prepare(t) \/ Make(t)
    \/ StartPrepareVm(t) \/ CopyActive(t)
    \/ StartSnapshotVm(t) \/ CreateSnapshot(t)
    \/ ReplaceUpper(t) \/ ReplaceActive(t) \/ Mark(t) \/ Export(t)
    \/ CopyUpper(t) \/ Activate(t) \/ Load(t)
    \/ AcquireData(t) \/ Look(t) \/ AppendRows(t) \/ Stop(t)

\* Steps that wait, without a timeout, for git clone in the guest or for
\* the agent, in the warmup and in the run: they may never end.
OpenEnded(t) == Clone(t) \/ Warmup(t) \/ RunAgent(t)

Next ==
    \/ \E t \in Tasks :
          \/ TaskStep(t) \/ OpenEnded(t)
          \/ FailEarly(t) \/ FailLate(t) \/ Kill(t) \/ VmWrites(t)
    \/ Over

Spec == Init /\ [][Next]_vars
FairSpec == Spec /\ \A t \in Tasks : WF_vars(TaskStep(t))

-----------------------------------------------------------------------------
\* The VM that a task restores finds what the memory image was taken with:
\* state and memory whole and of one preparation, and of the same one the
\* root image, the cloned workspace and the upper image with the warmup.  No
\* VM of another preparation has written to these images, although
\* preparations may have failed, or been killed with their VM left running,
\* at any command before.  Runs may have: they share the root and workspace
\* images read-write.  prepare_snapshot, snapshot_ready (run_fc_task.py).
SnapshotMatches ==
    \A t \in Tasks :
        LET d == Dir(t)
            g == d["mem"].gen IN
        pc[t] \in {"load", "agent"} =>
            /\ \A n \in {"state", "mem"} : d[n].gen = g /\ d[n].content = "full"
            /\ d["images"].gen = g /\ d["images"].content = "cloned"
            /\ d["images"].by \subseteq
                   {<<g, "prepare">>, <<g, "snapshot">>} \union (Tasks \X {"run"})
            /\ d["active"].gen = g /\ d["active"].content = "warm"

\* The upper image of a run holds the warmup and what this run writes, and
\* nothing of an earlier or a killed run, whose VM may still be writing.
\* run_instance: replace_image(upper_img, active_upper).
FreshUpper ==
    \A t \in Tasks :
        pc[t] \in {"agent", "collect", "look", "append", "stop"} =>
            Dir(t)["active"].by \subseteq
                {<<Dir(t)["active"].gen, "snapshot">>, <<t, "run">>}

\* Each data file starts with its only header; no call is in it twice; what
\* a task that ended well wrote is there, whole, and not interleaved with
\* another task's.  Nothing is claimed of the line that follows a torn one:
\* it is glued to it.  run_instance under file_lock("data"); append_rows.
DataWellFormed ==
    /\ \A f \in Csvs :
         LET lines == csv[f].lines IN
         /\ lines # <<>> => lines[1] = Header
         /\ \A j, k \in DOMAIN lines : j # k => lines[j] # lines[k]
    /\ \A t \in Tasks, f \in Csvs :
         pc[t] = "done" =>
             \E k \in DOMAIN csv[f].lines :
                 /\ k + 1 \in DOMAIN csv[f].lines
                 /\ \A j \in {k, k + 1} :
                      LET line == csv[f].lines[j] IN
                      /\ line.kind = "rows" /\ line.whole
                      /\ line.task = InstanceOf[t] /\ line.run = run_id[t]

\* Every task ends, whoever failed or was killed before it, unless some
\* clone, warmup or agent never does (subprocess.run and proc.wait() without
\* a timeout).  file_lock, run_instance (run_fc_task.py).
TasksEnd ==
    \/ <>(\A t \in Tasks : Ended(t))
    \/ \E t \in Tasks : <>[](pc[t] \in {"clone", "warmup", "agent"})
=============================================================================
