---------------------------- MODULE ScriptProofs ----------------------------
(***************************************************************************)
(* What holds of the Python scripts that start Firecrackers.               *)
(*                                                                         *)
(* run_fc_task.py (SnapshotTask), for any tasks, instances, failures and   *)
(* kills: a restored snapshot is of one preparation, the upper image of a  *)
(* run is its own, and data/*.csv is well formed.                          *)
(*                                                                         *)
(* The experiment scripts of fetch-motivation (SandboxRun), for every      *)
(* script and any number of sandboxes and of runs: a run uses endpoints of *)
(* its own, and one that has started everything leaves nothing behind.     *)
(***************************************************************************)
EXTENDS SnapshotTask, SandboxRun, FiniteSetTheorems, WellFoundedInduction,
        NaturalsInduction, SequenceTheorems, TLAPS

-----------------------------------------------------------------------------
(***************************************************************************)
(* The locks.  A task holds the lock of its instance from Acquire to its   *)
(* end, and the data lock while it appends.                                *)
(***************************************************************************)
Making == {"make", "vm_prepare", "clone", "copy_active", "vm_snapshot",
           "warmup", "create", "replace_upper", "replace_active", "marker"}
Restoring == {"activate", "load", "agent"}
Appending == {"look", "append"}
Using == {"agent", "collect", "look", "append", "stop"}
Busy == {"mkdir", "prepare", "export", "copy_upper", "activate", "load"}
            \cup Making \cup Using
Ends == {"done", "failed", "killed"}

Holding ==
    /\ pc \in [Tasks -> Busy \cup Ends \cup {"start"}]
    /\ lock \in [Instances -> Tasks \cup {NoTask}]
    /\ \A t \in Tasks : pc[t] \in Busy => lock[InstanceOf[t]] = t
    /\ \A t \in Tasks : pc[t] \in Appending => data_lock = t

LEMMA HoldingInit == Init => Holding
BY TaskAssumption DEF Init, Holding, Busy, Making, Using, Appending

\* A task that goes on, and no lock changes.
LEMMA HoldingMove ==
    ASSUME Holding, NEW t \in Tasks, NEW p \in Busy,
           pc[t] \in Busy, pc' = [pc EXCEPT ![t] = p],
           UNCHANGED locks, p \in Appending => data_lock = t
    PROVE  Holding'
BY DEF Holding, locks

\* A task that ends, and frees its locks.
LEMMA HoldingEnd ==
    ASSUME Holding, NEW t \in Tasks, NEW p \in Ends,
           pc' = [pc EXCEPT ![t] = p], Unlock(t),
           UnlockData(t) \/ UNCHANGED data_lock
    PROVE  Holding'
<1>1. pc' \in [Tasks -> Busy \cup Ends \cup {"start"}]
    BY DEF Holding
<1>2. lock' \in [Instances -> Tasks \cup {NoTask}]
    BY TaskAssumption DEF Holding, Unlock
<1>3. ASSUME NEW u \in Tasks, pc'[u] \in Busy PROVE lock'[InstanceOf[u]] = u
    <2>1. u # t /\ pc[u] \in Busy
        BY <1>3 DEF Holding, Busy, Ends, Making, Using
    <2>2. lock[InstanceOf[u]] = u /\ InstanceOf[u] \in Instances
        BY <2>1, TaskAssumption DEF Holding
    <2> QED BY <2>1, <2>2 DEF Unlock
<1>4. ASSUME NEW u \in Tasks, pc'[u] \in Appending PROVE data_lock' = u
    <2>1. u # t /\ pc[u] \in Appending
        BY <1>4 DEF Holding, Appending, Ends
    <2> QED BY <2>1 DEF Holding, UnlockData
<1> QED BY <1>1, <1>2, <1>3, <1>4 DEF Holding

\* Two tasks of one instance are never busy together.
LEMMA Alone ==
    ASSUME Holding, NEW t \in Tasks, NEW u \in Tasks, pc[t] \in Busy,
           pc[u] \in Busy, InstanceOf[t] = InstanceOf[u]
    PROVE  t = u
BY DEF Holding

LEMMA HoldingNext == Holding /\ [Next]_vars => Holding'
<1> SUFFICES ASSUME Holding, [Next]_vars PROVE Holding'
    OBVIOUS
<1> USE DEF Step, Busy, Making, Using, Appending
<1>1. ASSUME NEW t \in Tasks, Acquire(t) PROVE Holding'
    <2>1. InstanceOf[t] \in Instances
        BY TaskAssumption
    <2>2. ASSUME NEW u \in Tasks, pc[u] \in Busy
          PROVE  u # t /\ InstanceOf[u] # InstanceOf[t]
        BY <1>1, <2>2, TaskAssumption DEF Acquire, Holding
    <2> QED BY <1>1, <2>1, <2>2 DEF Acquire, Holding
<1>2. ASSUME NEW t \in Tasks,
             \/ MakeRunDir(t) \/ Prepare(t) \/ Make(t) \/ StartPrepareVm(t)
             \/ Clone(t) \/ CopyActive(t) \/ StartSnapshotVm(t) \/ Warmup(t)
             \/ CreateSnapshot(t) \/ ReplaceUpper(t) \/ ReplaceActive(t)
             \/ Mark(t) \/ Export(t) \/ Activate(t) \/ Load(t) \/ RunAgent(t)
      PROVE  Holding'
    <2>1. PICK p \in Busy \ Appending :
             pc[t] \in Busy /\ pc' = [pc EXCEPT ![t] = p] /\ UNCHANGED locks
        BY <1>2 DEF MakeRunDir, Prepare, Make, StartPrepareVm, Clone,
            CopyActive, StartSnapshotVm, Warmup, CreateSnapshot, ReplaceUpper,
            ReplaceActive, Mark, Export, Activate, Load, RunAgent
    <2> QED BY <2>1, HoldingMove
<1>3. ASSUME NEW t \in Tasks, CopyUpper(t) PROVE Holding'
    <2>1. CASE snapshot_ready(Dir(t))
        BY <1>3, <2>1, HoldingMove DEF CopyUpper, locks
    <2>2. CASE ~snapshot_ready(Dir(t))
        BY <1>3, <2>2, HoldingEnd DEF CopyUpper, Ends
    <2> QED BY <2>1, <2>2
<1>4. ASSUME NEW t \in Tasks, AcquireData(t) PROVE Holding'
    BY <1>4, TaskAssumption DEF AcquireData, TakeData, Holding
<1>5. ASSUME NEW t \in Tasks, Look(t) \/ AppendRows(t) PROVE Holding'
    <2>1. data_lock = t /\ pc[t] \in Appending
        BY <1>5 DEF Look, AppendRows, Holding
    <2>2. \/ pc' = [pc EXCEPT ![t] = "stop"]
          \/ /\ UNCHANGED data_lock
             /\ \E p \in Appending : pc' = [pc EXCEPT ![t] = p]
        BY <1>5 DEF Look, AppendRows
    <2>3. UNCHANGED lock
        BY <1>5 DEF Look, AppendRows
    <2>4. ASSUME pc' = [pc EXCEPT ![t] = "stop"] PROVE Holding'
        BY <2>1, <2>3, <2>4, TaskAssumption DEF Holding
    <2> QED BY <2>1, <2>2, <2>3, <2>4, HoldingMove DEF locks
<1>6. ASSUME NEW t \in Tasks, Stop(t) PROVE Holding'
    <2>1. PICK p \in Ends : pc' = [pc EXCEPT ![t] = p]
        BY <1>6 DEF Stop, Ends
    <2> QED BY <1>6, <2>1, HoldingEnd DEF Stop
<1>7. ASSUME NEW t \in Tasks, FailEarly(t) PROVE Holding'
    BY <1>7, HoldingEnd DEF FailEarly, Ends
<1>8. ASSUME NEW t \in Tasks, FailLate(t) PROVE Holding'
    <2>1. ASSUME NEW u \in Tasks, u # t, pc[u] \in Appending
          PROVE  data_lock' = u
        BY <1>8, <2>1 DEF FailLate, Holding, UnlockData
    <2> QED BY <1>8, <2>1 DEF FailLate, Holding
<1>9. ASSUME NEW t \in Tasks, Kill(t) PROVE Holding'
    BY <1>9, HoldingEnd DEF Kill, KillUnlock, Ends
<1>10. ASSUME NEW t \in Tasks, VmWrites(t) PROVE Holding'
    BY <1>10 DEF VmWrites, locks, Holding
<1>11. CASE UNCHANGED vars
    BY <1>11 DEF vars, locks, Holding
<1> QED
    BY <1>1, <1>2, <1>3, <1>4, <1>5, <1>6, <1>7, <1>8, <1>9, <1>10, <1>11
    DEF Next, TaskStep, OpenEnded, Over

-----------------------------------------------------------------------------
(***************************************************************************)
(* The snapshot directory.                                                 *)
(***************************************************************************)
Makers == Tasks \cup {NoTask}
Kinds == {"prepare", "snapshot", "run"}
Contents == {"absent", "blank", "partial", "cloned", "warm", "full"}
Tags == {"none", "make", "copy", "create", "replace", "mark", "export",
         "activate", "copy_active"}
FileType ==
    [gen : Makers, content : Contents, ino : Makers \X Tags,
     by : SUBSET (Tasks \X Kinds)]
Drives ==
    UNION {[S -> Makers \X Tags] : S \in SUBSET {"images", "active"}}
VmType == [kind : Kinds \cup {"none"}, drives : Drives]

FilesType ==
    /\ files \in [Instances -> [Names -> FileType]]
    /\ vm \in [Tasks -> VmType]

\* The VM a task may have at a point, and the files it was started on.  A
\* killed task leaves any.
VmAt(t, p, v) ==
    /\ p = "clone" => v.kind = "prepare"
    /\ p \in {"warmup", "create"} => v.kind = "snapshot"
    /\ p \in Using => v.kind = "run"
    /\ p \notin {"clone", "warmup", "create", "killed"} \cup Using => v.kind = "none"
    /\ v.kind = "none" => v = NoVm
    /\ v.kind = "prepare" =>
         DOMAIN v.drives = {"images"} /\ v.drives["images"] = <<t, "make">>
    /\ v.kind \in {"snapshot", "run"} => DOMAIN v.drives = {"images", "active"}
    /\ v.kind = "snapshot" =>
         v.drives["images"] = <<t, "make">> /\ v.drives["active"] = <<t, "copy">>
    /\ v.kind = "run" => v.drives["active"] = <<t, "activate">>

Vms == \A t \in Tasks : VmAt(t, pc[t], vm[t])

Whole(f, t) == f.gen = t /\ f.content = "full"
\* The root and workspace images, from Make on and after Clone.
Writers(t) == {<<t, "prepare">>, <<t, "snapshot">>} \cup (Tasks \X {"run"})
Workspace(f, t) == f.gen = t /\ f.ino = <<t, "make">> /\ f.by \subseteq Writers(t)
Cloned(f, t) == Workspace(f, t) /\ f.content = "cloned"
\* The upper image with the warmup in it.
Warm(f, t) ==
    f.gen = t /\ f.content = "warm" /\ f.by \subseteq {<<t, "snapshot">>}

\* How far the preparation of t has come.
Stage(t) ==
    LET p == pc[t]
        d == Dir(t) IN
    /\ p \in Making => d["marker"].content = "absent"
    /\ p \in {"vm_prepare", "clone"} => Workspace(d["images"], t)
    /\ p \in Making \ {"make", "vm_prepare", "clone"} => Cloned(d["images"], t)
    /\ p \in {"vm_prepare", "clone", "copy_active"} =>
         d["upper"].gen = t /\ d["upper"].by = {}
    /\ p \in {"vm_snapshot", "warmup"} =>
         d["active"].gen = t /\ d["active"].by = {}
    /\ p \in {"vm_snapshot", "warmup", "create", "replace_upper"} =>
         d["active"].ino = <<t, "copy">>
    /\ p \in {"create", "replace_upper"} => Warm(d["active"], t)
    /\ p \in {"replace_upper", "replace_active", "marker"} =>
         \A n \in {"state", "mem"} : Whole(d[n], t)
    /\ p \in {"replace_active", "marker"} => Warm(d["upper"], t)

\* What a marker promises: the snapshot of one preparation, g, that is over.
Matching(i, g) ==
    LET d == files[i] IN
    /\ InstanceOf[g] = i /\ pc[g] \notin Making \cup {"start", "mkdir", "prepare"}
    /\ vm[g].kind \notin {"prepare", "snapshot"}
    /\ \A n \in {"state", "mem"} : Whole(d[n], g)
    /\ Cloned(d["images"], g)
    /\ Warm(d["upper"], g)

Marked ==
    \A i \in Instances :
        files[i]["marker"].content # "absent" =>
            \E g \in Tasks : Matching(i, g)

\* A run, from the look at the snapshot on.
Restore(t) ==
    LET d == Dir(t)
        f == d["active"] IN
    /\ pc[t] \in Restoring => d["marker"].content # "absent"
    /\ pc[t] \in Using \cup {"load"} => f.ino = <<t, "activate">>
    /\ pc[t] \in {"load", "agent"} =>
         /\ f.gen = d["mem"].gen /\ f.content = "warm"
         /\ f.by \subseteq {<<f.gen, "snapshot">>}
    /\ pc[t] \in Using => f.by \subseteq {<<f.gen, "snapshot">>, <<t, "run">>}

SnapshotInv ==
    /\ FilesType
    /\ Vms
    /\ Marked
    /\ \A t \in Tasks : Stage(t) /\ Restore(t)

LEMMA FileTypes ==
    /\ NoFile \in FileType
    /\ \A t \in Tasks, c \in Contents, g \in Tags : File(t, c, g) \in FileType
    /\ \A f \in FileType, t \in Tasks, g \in Tags :
         /\ Copy(f, t, g) \in FileType
         /\ Copy(f, t, g).gen = f.gen /\ Copy(f, t, g).content = f.content
         /\ Copy(f, t, g).by = f.by /\ Copy(f, t, g).ino = <<t, g>>
<1>1. ASSUME NEW t \in Makers, NEW c \in Contents, NEW g \in Tags
      PROVE  File(t, c, g) \in FileType
    <2>1. <<t, g>> \in Makers \X Tags
        OBVIOUS
    <2>2. {} \in SUBSET (Tasks \X Kinds)
        OBVIOUS
    <2> QED BY <2>1, <2>2 DEF File, FileType
<1>2. NoFile \in FileType
    <2>1. NoTask \in Makers
        BY DEF Makers
    <2>2. File(NoTask, "absent", "none") \in FileType
        BY <2>1, <1>1 DEF Contents, Tags
    <2> QED BY <2>2 DEF NoFile
<1>3. ASSUME NEW f \in FileType, NEW t \in Tasks, NEW g \in Tags
      PROVE  /\ Copy(f, t, g) \in FileType
             /\ Copy(f, t, g).gen = f.gen /\ Copy(f, t, g).content = f.content
             /\ Copy(f, t, g).by = f.by /\ Copy(f, t, g).ino = <<t, g>>
    BY <1>3 DEF Copy, FileType, Makers
<1> QED BY <1>1, <1>2, <1>3 DEF Makers

\* What Write does, file by file.
LEMMA WriteFiles ==
    ASSUME FilesType, NEW t \in Tasks, NEW S \in SUBSET Names,
           NEW changes \in [S -> FileType], Write(t, changes)
    PROVE  /\ files' \in [Instances -> [Names -> FileType]]
           /\ \A i \in Instances : i # InstanceOf[t] => files'[i] = files[i]
           /\ \A n \in S : Dir(t)'[n] = changes[n]
           /\ \A n \in Names \ S : Dir(t)'[n] = Dir(t)[n]
<1> DEFINE i == InstanceOf[t]
           new == [n \in Names |-> IF n \in S THEN changes[n] ELSE files[i][n]]
<1>1. i \in Instances /\ DOMAIN changes = S
    BY TaskAssumption
<1>2. files' = [files EXCEPT ![i] = new]
    BY <1>1 DEF Write, FilesType
<1>3. new \in [Names -> FileType]
    BY <1>1 DEF FilesType
<1> QED BY <1>1, <1>2, <1>3 DEF FilesType, Dir

LEMMA WriteOnly ==
    ASSUME FilesType, NEW t \in Tasks, NEW name \in Names,
           NEW f \in FileType, Write(t, Only(name, f))
    PROVE  /\ files' \in [Instances -> [Names -> FileType]]
           /\ \A i \in Instances : i # InstanceOf[t] => files'[i] = files[i]
           /\ Dir(t)'[name] = f
           /\ \A n \in Names \ {name} : Dir(t)'[n] = Dir(t)[n]
<1>1. Only(name, f) \in [{name} -> FileType] /\ Only(name, f)[name] = f
    BY DEF Only
<1> QED BY <1>1, WriteFiles

\* A busy task's step: nothing changes for the others, so that only its own
\* progress and the promise of its marker are left to show.
LEMMA Framed ==
    ASSUME Holding, SnapshotInv, NEW t \in Tasks, pc[t] \in Busy \/ UNCHANGED files,
           NEW p \in Busy \cup Ends, pc' = [pc EXCEPT ![t] = p],
           files' \in [Instances -> [Names -> FileType]],
           \A i \in Instances : i # InstanceOf[t] => files'[i] = files[i],
           NEW v, vm' = [vm EXCEPT ![t] = v],
           v \in VmType,
           VmAt(t, p, v),
           Dir(t)'["marker"].content # "absent" =>
               \E g \in Tasks : Matching(InstanceOf[t], g)',
           Stage(t)', Restore(t)'
    PROVE  SnapshotInv'
<1>1. FilesType'
    BY DEF FilesType, SnapshotInv
<1>2. Vms'
    <2>1. ASSUME NEW u \in Tasks, u # t
          PROVE  vm'[u] = vm[u] /\ pc'[u] = pc[u]
        BY <2>1 DEF SnapshotInv, FilesType, Holding
    <2>2. vm'[t] = v /\ pc'[t] = p
        BY DEF SnapshotInv, FilesType, Holding
    <2> QED BY <2>1, <2>2 DEF SnapshotInv, Vms
<1>3. ASSUME NEW i \in Instances, files'[i]["marker"].content # "absent"
      PROVE  \E g \in Tasks : Matching(i, g)'
    <2>1. CASE i = InstanceOf[t]
        BY <1>3, <2>1 DEF Dir
    <2>2. CASE i # InstanceOf[t]
        <3>1. files'[i] = files[i]
            BY <2>2
        <3>2. PICK g \in Tasks : Matching(i, g)
            BY <1>3, <3>1 DEF SnapshotInv, Marked
        <3>3. g # t
            BY <2>2, <3>2 DEF Matching
        <3>4. pc'[g] = pc[g] /\ vm'[g] = vm[g]
            BY <3>3 DEF SnapshotInv, FilesType, Holding
        <3> QED BY <3>1, <3>2, <3>4 DEF Matching
    <2> QED BY <2>1, <2>2
<1>4. ASSUME NEW u \in Tasks PROVE Stage(u)' /\ Restore(u)'
    <2>1. CASE u = t
        BY <2>1
    <2>2. CASE u # t
        <3>1. pc'[u] = pc[u]
            BY <2>2 DEF Holding
        <3>2. CASE InstanceOf[u] # InstanceOf[t] \/ UNCHANGED files
            <4>1. Dir(u)' = Dir(u)
                BY <3>2, TaskAssumption DEF Dir
            <4>2. Stage(u)'
                BY <3>1, <4>1 DEF SnapshotInv, Stage
            <4>3. Restore(u)'
                BY <3>1, <4>1 DEF SnapshotInv, Restore
            <4> QED BY <4>2, <4>3
        <3>3. CASE InstanceOf[u] = InstanceOf[t] /\ pc[t] \in Busy
            <4>1. pc'[u] \notin Busy
                BY <2>2, <3>1, <3>3, Alone
            <4>2. pc'[u] \notin Making \cup Restoring \cup Using \cup {"load"}
                BY <4>1 DEF Busy, Using, Restoring
            <4> QED BY <4>2 DEF Stage, Restore, Making, Restoring, Using
        <3> QED BY <3>2, <3>3
    <2> QED BY <2>1, <2>2
<1> QED BY <1>1, <1>2, <1>3, <1>4 DEF SnapshotInv, Marked

\* The same for a step that leaves the VMs alone.
LEMMA FramedNoVm ==
    ASSUME Holding, SnapshotInv, NEW t \in Tasks, pc[t] \in Busy \/ UNCHANGED files,
           NEW p \in Busy \cup Ends, pc' = [pc EXCEPT ![t] = p],
           files' \in [Instances -> [Names -> FileType]],
           \A i \in Instances : i # InstanceOf[t] => files'[i] = files[i],
           UNCHANGED vm, VmAt(t, pc[t], vm[t]) => VmAt(t, p, vm[t]),
           Dir(t)'["marker"].content # "absent" =>
               \E g \in Tasks : Matching(InstanceOf[t], g)',
           Stage(t)', Restore(t)'
    PROVE  SnapshotInv'
<1>1. vm' = [vm EXCEPT ![t] = vm[t]]
    BY DEF SnapshotInv, FilesType
<1>2. vm[t] \in VmType
    BY DEF SnapshotInv, FilesType
<1>3. VmAt(t, p, vm[t])
    BY DEF SnapshotInv, Vms
<1> QED BY <1>1, <1>2, <1>3, Framed

\* A marker that stays keeps its promise, if the files under it stay and no
\* VM of another preparation writes to the images.
LEMMA PromiseKept ==
    ASSUME SnapshotInv, Holding, NEW t \in Tasks, NEW p,
           pc' = [pc EXCEPT ![t] = p],
           NEW v, vm' = [vm EXCEPT ![t] = v],
           \/ pc[t] \in Making \cup {"start", "mkdir", "prepare"}
           \/ /\ p \notin Making \cup {"start", "mkdir", "prepare"}
              /\ v.kind \notin {"prepare", "snapshot"},
           \A n \in {"state", "mem", "upper", "marker"} :
               Dir(t)'[n] = Dir(t)[n],
           \A g \in Tasks : Cloned(Dir(t)["images"], g) =>
                               Cloned(Dir(t)'["images"], g),
           Dir(t)["marker"].content # "absent"
    PROVE  \E g \in Tasks : Matching(InstanceOf[t], g)'
<1>1. InstanceOf[t] \in Instances
    BY TaskAssumption
<1>2. PICK g \in Tasks : Matching(InstanceOf[t], g)
    BY <1>1 DEF SnapshotInv, Marked, Dir
<1>3. pc'[g] = (IF g = t THEN p ELSE pc[g]) /\ vm'[g] = (IF g = t THEN v ELSE vm[g])
    BY DEF Holding, SnapshotInv, FilesType
<1>4. Cloned(Dir(t)'["images"], g)
    BY <1>2 DEF Matching, Dir
<1> QED BY <1>2, <1>3, <1>4 DEF Matching, Dir

LEMMA MarkerKept ==
    ASSUME SnapshotInv, Holding, NEW t \in Tasks, NEW p,
           pc' = [pc EXCEPT ![t] = p],
           NEW v, vm' = [vm EXCEPT ![t] = v],
           \/ pc[t] \in Making \cup {"start", "mkdir", "prepare"}
           \/ /\ p \notin Making \cup {"start", "mkdir", "prepare"}
              /\ v.kind \notin {"prepare", "snapshot"},
           \A n \in {"state", "mem", "images", "upper", "marker"} :
               Dir(t)'[n] = Dir(t)[n],
           Dir(t)["marker"].content # "absent"
    PROVE  \E g \in Tasks : Matching(InstanceOf[t], g)'
<1>1. \A g \in Tasks : Cloned(Dir(t)["images"], g) =>
                          Cloned(Dir(t)'["images"], g)
    OBVIOUS
<1> QED BY <1>1, PromiseKept

\* Past the preparation.
Later == {"export", "copy_upper", "activate", "load", "agent", "collect",
          "look", "append", "stop", "done", "failed"}

LEMMA MarkerKeptLater ==
    ASSUME SnapshotInv, Holding, NEW t \in Tasks, NEW p \in Later \cup Ends,
           pc[t] \in Later, pc' = [pc EXCEPT ![t] = p], UNCHANGED vm,
           \A n \in {"state", "mem", "images", "upper", "marker"} :
               Dir(t)'[n] = Dir(t)[n]
    PROVE  Dir(t)'["marker"].content # "absent" =>
               \E g \in Tasks : Matching(InstanceOf[t], g)'
<1>1. vm' = [vm EXCEPT ![t] = vm[t]]
    BY DEF SnapshotInv, FilesType
<1>2. p \notin Making \cup {"start", "mkdir", "prepare"}
    BY DEF Later, Ends, Making
<1>3. VmAt(t, pc[t], vm[t])
    BY DEF SnapshotInv, Vms
<1>4. vm[t].kind \notin {"prepare", "snapshot"}
    BY <1>3 DEF VmAt, Later, Using
<1> QED BY <1>1, <1>2, <1>4, MarkerKept

\* A step of t's preparation: there is no marker, and no run.
LEMMA MakingStep ==
    ASSUME Holding, SnapshotInv, NEW t \in Tasks, pc[t] \in Busy,
           NEW p \in Making, pc' = [pc EXCEPT ![t] = p],
           files' \in [Instances -> [Names -> FileType]],
           \A i \in Instances : i # InstanceOf[t] => files'[i] = files[i],
           NEW v, vm' = [vm EXCEPT ![t] = v],
           v \in VmType,
           VmAt(t, p, v),
           Dir(t)'["marker"].content = "absent", Stage(t)'
    PROVE  SnapshotInv'
<1>1. p \in Busy \cup Ends
    BY DEF Busy
<1>2. pc'[t] = p
    BY DEF Holding
<1>3. Restore(t)'
    BY <1>2 DEF Restore, Making, Restoring, Using
<1> QED BY <1>1, <1>3, Framed

LEMMA DrivesType ==
    ASSUME NEW S \in SUBSET {"images", "active"}, NEW d \in [S -> Makers \X Tags]
    PROVE  d \in Drives
BY DEF Drives

LEMMA NoVmType == NoVm \in VmType /\ NoVm.kind = "none"
<1> DEFINE d == [n \in {} |-> NoFile.ino]
<1>1. d \in [{} -> Makers \X Tags]
    OBVIOUS
<1>2. d \in Drives
    BY <1>1, DrivesType
<1> QED BY <1>2 DEF NoVm, VmType

LEMMA VmTypes ==
    ASSUME FilesType, NEW t \in Tasks
    PROVE  /\ NoVm \in VmType
           /\ NoVm.kind = "none"
           /\ vm[t] \in VmType
           /\ vm' = vm => vm' = [vm EXCEPT ![t] = vm[t]]
<1> QED BY NoVmType DEF FilesType

LEMMA WrittenByType ==
    ASSUME FilesType, NEW t \in Tasks, NEW f \in FileType, vm[t].kind \in Kinds
    PROVE  /\ WrittenBy(t, f) \in FileType
           /\ WrittenBy(t, f).gen = f.gen /\ WrittenBy(t, f).ino = f.ino
           /\ WrittenBy(t, f).content = f.content
           /\ WrittenBy(t, f).by = f.by \cup {<<t, vm[t].kind>>}
<1>1. f.by \cup {<<t, vm[t].kind>>} \in SUBSET (Tasks \X Kinds)
    BY DEF FileType
<1> QED BY <1>1 DEF WrittenBy, FileType

LEMMA ContentType ==
    ASSUME NEW f \in FileType, NEW c \in Contents
    PROVE  /\ [f EXCEPT !.content = c] \in FileType
           /\ [f EXCEPT !.content = c].gen = f.gen
           /\ [f EXCEPT !.content = c].ino = f.ino
           /\ [f EXCEPT !.content = c].by = f.by
           /\ [f EXCEPT !.content = c].content = c
BY DEF FileType

\* What a guest does to the snapshot directory of its task, file by file.
LEMMA GuestWritesFiles ==
    ASSUME FilesType, NEW t \in Tasks, GuestWrites(t),
           vm[t].kind \in Kinds, VmAt(t, pc[t], vm[t])
    PROVE  /\ files' \in [Instances -> [Names -> FileType]]
           /\ \A i \in Instances : i # InstanceOf[t] => files'[i] = files[i]
           /\ \A n \in Names \ {"images", "active"} : Dir(t)'[n] = Dir(t)[n]
           /\ \A n \in {"images", "active"} :
                \/ Dir(t)'[n] = Dir(t)[n]
                \/ /\ Dir(t)'[n] = WrittenBy(t, Dir(t)[n])
                   /\ n \in DOMAIN vm[t].drives
                   /\ Dir(t)[n].ino = vm[t].drives[n]
<1> DEFINE d == Dir(t)
           S == {m \in DOMAIN vm[t].drives : d[m].ino = vm[t].drives[m]}
           changes == [n \in S |-> WrittenBy(t, d[n])]
<1>1. DOMAIN vm[t].drives \subseteq {"images", "active"}
    BY DEF VmAt, Kinds
<1>2. S \in SUBSET Names
    BY <1>1 DEF Names
<1>3. d \in [Names -> FileType]
    BY TaskAssumption DEF FilesType, Dir
<1>4. \A n \in S : WrittenBy(t, d[n]) \in FileType
    BY <1>2, <1>3, WrittenByType
<1>5. changes \in [S -> FileType] /\ \A n \in S : changes[n] = WrittenBy(t, d[n])
    BY <1>4
<1>6. Write(t, changes)
    BY DEF GuestWrites
<1>7. /\ S \subseteq {"images", "active"}
      /\ \A n \in S : n \in DOMAIN vm[t].drives /\ d[n].ino = vm[t].drives[n]
    BY <1>1
<1>8. "images" \in Names /\ "active" \in Names
    BY DEF Names
<1> HIDE DEF S, changes
<1>9. /\ files' \in [Instances -> [Names -> FileType]]
      /\ \A i \in Instances : i # InstanceOf[t] => files'[i] = files[i]
      /\ \A n \in S : d'[n] = changes[n]
      /\ \A n \in Names \ S : d'[n] = d[n]
    BY <1>2, <1>5, <1>6, WriteFiles
<1> QED BY <1>5, <1>7, <1>8, <1>9

\* A guest leaves the images of a preparation as that preparation may have
\* them: if it is of another one, its images are other files.
LEMMA GuestKeepsImages ==
    ASSUME FilesType, NEW t \in Tasks, GuestWrites(t),
           vm[t].kind \in Kinds, VmAt(t, pc[t], vm[t]), NEW g \in Tasks
    PROVE  /\ Workspace(Dir(t)["images"], g) => Workspace(Dir(t)'["images"], g)
           /\ Cloned(Dir(t)["images"], g) => Cloned(Dir(t)'["images"], g)
<1> DEFINE f == Dir(t)["images"]
           h == Dir(t)'["images"]
<1>1. f \in FileType
    BY TaskAssumption DEF FilesType, Dir, Names
<1>2. h = f \/ (h = WrittenBy(t, f) /\ f.ino = vm[t].drives["images"])
    BY GuestWritesFiles
<1>3. CASE h = WrittenBy(t, f) /\ f.ino = vm[t].drives["images"]
    <2>1. /\ h.gen = f.gen /\ h.ino = f.ino /\ h.content = f.content
          /\ h.by = f.by \cup {<<t, vm[t].kind>>}
        BY <1>1, <1>3, WrittenByType
    <2>2. f.ino = <<g, "make">> => <<t, vm[t].kind>> \in Writers(g)
        BY <1>3 DEF VmAt, Kinds, Writers
    <2>3. Workspace(f, g) => Workspace(h, g)
        BY <2>1, <2>2 DEF Workspace
    <2> QED BY <2>1, <2>3 DEF Cloned
<1> QED BY <1>2, <1>3

\* The preparation up to the clone.
LEMMA SnapshotMake ==
    ASSUME Holding, SnapshotInv, NEW t \in Tasks,
           \/ MakeRunDir(t) \/ Prepare(t) \/ Make(t)
           \/ StartPrepareVm(t) \/ Clone(t)
    PROVE  SnapshotInv'
<1> DEFINE I == InstanceOf[t]
           d == Dir(t)
<1>a. FilesType /\ Stage(t) /\ I \in Instances
    BY TaskAssumption DEF SnapshotInv
<1>b. d \in [Names -> FileType]
    BY <1>a DEF FilesType, Dir
<1>c. VmAt(t, pc[t], vm[t])
    BY DEF SnapshotInv, Vms
<1>d. ASSUME NEW p, pc' = [pc EXCEPT ![t] = p] PROVE pc'[t] = p
    BY <1>d DEF Holding
<1>e. UNCHANGED vm => vm' = [vm EXCEPT ![t] = vm[t]]
    BY <1>a, VmTypes
<1> USE DEF Step
<1>1. CASE MakeRunDir(t)
    <2>1. /\ pc[t] = "mkdir" /\ pc' = [pc EXCEPT ![t] = "prepare"]
          /\ UNCHANGED <<files, vm>>
        BY <1>1 DEF MakeRunDir
    <2>2. pc'[t] = "prepare"
        BY <2>1, <1>d
    <2>3. Stage(t)' /\ Restore(t)'
        BY <2>2 DEF Stage, Restore, Making, Restoring, Using
    <2>4. d' = d
        BY <2>1 DEF Dir
    <2>5. d'["marker"].content # "absent" => \E g \in Tasks : Matching(I, g)'
        BY <2>1, <2>4, <1>e, MarkerKept
    <2> QED BY <2>1, <2>3, <2>5, FramedNoVm, <1>a DEF FilesType, Busy,
        VmAt, Using
<1>2. CASE Prepare(t)
    <2>1. pc[t] = "prepare" /\ UNCHANGED vm
        BY <1>2 DEF Prepare
    <2>2. CASE UNCHANGED files /\ \E p \in {"copy_upper", "export"} :
                                     pc' = [pc EXCEPT ![t] = p]
        <3>1. PICK p \in {"copy_upper", "export"} : pc' = [pc EXCEPT ![t] = p]
            BY <2>2
        <3>2. pc'[t] = p
            BY <3>1, <1>d
        <3>3. Stage(t)' /\ Restore(t)'
            BY <3>2 DEF Stage, Restore, Making, Restoring, Using
        <3>4. d' = d
            BY <2>2 DEF Dir
        <3>5. d'["marker"].content # "absent" => \E g \in Tasks : Matching(I, g)'
            BY <2>1, <3>1, <3>4, <1>e, MarkerKept
        <3> QED BY <2>1, <2>2, <3>1, <3>3, <3>5, FramedNoVm, <1>a
                DEF FilesType, Busy, VmAt, Using, Making
    <2>3. CASE /\ pc' = [pc EXCEPT ![t] = "make"]
               /\ Write(t, [n \in {"state", "mem", "marker", "atlas"} |-> NoFile])
        <3> DEFINE S == {"state", "mem", "marker", "atlas"}
        <3>1. /\ S \in SUBSET Names
              /\ [n \in S |-> NoFile] \in [S -> FileType]
            BY FileTypes DEF Names
        <3>2. /\ files' \in [Instances -> [Names -> FileType]]
              /\ \A i \in Instances : i # I => files'[i] = files[i]
              /\ d'["marker"] = NoFile
            BY <2>3, <3>1, <1>a, WriteFiles
        <3>3. d'["marker"].content = "absent"
            BY <3>2 DEF NoFile, File
        <3>4. pc'[t] = "make"
            BY <2>3, <1>d
        <3>5. Stage(t)'
            BY <3>3, <3>4 DEF Stage, Making
        <3>6. VmAt(t, "make", vm[t])
            BY <1>c, <2>1 DEF VmAt, Using
        <3> QED
            BY <2>1, <2>3, <3>2, <3>3, <3>5, <3>6, <1>a, <1>e, VmTypes, MakingStep
            DEF Busy, Making, VmAt, Using
    <2> QED BY <1>2, <2>2, <2>3 DEF Prepare
<1>3. CASE Make(t)
    <2> DEFINE S == {"images", "upper"}
               f == File(t, "blank", "make")
    <2>0. f \in FileType
        BY FileTypes DEF Contents, Tags
    <2>1. /\ S \in SUBSET Names
          /\ [n \in S |-> f] \in [S -> FileType]
        BY <2>0 DEF Names
    <2>2. /\ pc[t] = "make" /\ pc' = [pc EXCEPT ![t] = "vm_prepare"]
          /\ UNCHANGED vm /\ Write(t, [n \in S |-> f])
        BY <1>3 DEF Make
    <2>3. /\ files' \in [Instances -> [Names -> FileType]]
          /\ \A i \in Instances : i # I => files'[i] = files[i]
          /\ d'["images"] = f /\ d'["upper"] = f
          /\ d'["marker"] = d["marker"]
        BY <2>1, <2>2, <1>a, WriteFiles, ZenonT(60) DEF Names
    <2>4. f.gen = t /\ f.ino = <<t, "make">> /\ f.by = {}
        BY DEF File
    <2>5. d'["marker"].content = "absent"
        BY <2>2, <2>3, <1>a DEF Stage, Making
    <2>6. pc'[t] = "vm_prepare"
        BY <2>2, <1>d
    <2>7. Stage(t)'
        BY <2>3, <2>4, <2>5, <2>6 DEF Stage, Making, Workspace, Writers
    <2> QED BY <2>2, <2>3, <2>5, <2>7, <1>a, <1>c, <1>e, VmTypes, MakingStep
            DEF Busy, Making, VmAt, Using
<1>4. CASE StartPrepareVm(t)
    <2> DEFINE drives == [n \in {"images"} |-> d[n].ino]
               v == [kind |-> "prepare", drives |-> drives]
    <2>1. /\ pc[t] = "vm_prepare" /\ pc' = [pc EXCEPT ![t] = "clone"]
          /\ UNCHANGED files /\ vm' = [vm EXCEPT ![t] = v]
        BY <1>4 DEF StartPrepareVm, StartVm
    <2>2. d' = d
        BY <2>1 DEF Dir
    <2>3. pc'[t] = "clone"
        BY <2>1, <1>d
    <2>4. Stage(t)' /\ d'["marker"].content = "absent"
        BY <2>1, <2>2, <2>3, <1>a DEF Stage, Making
    <2>5. d["images"].ino = <<t, "make">>
        BY <2>1, <1>a DEF Stage, Workspace
    <2>6. v \in VmType
        <3>1. drives \in [{"images"} -> Makers \X Tags]
            BY <2>5 DEF Makers, Tags
        <3>2. drives \in Drives
            BY <3>1, DrivesType
        <3> QED BY <3>2 DEF VmType, Kinds
    <2>7. VmAt(t, "clone", v)
        BY <2>5 DEF VmAt, Using
    <2> QED BY <2>1, <2>4, <2>6, <2>7, <1>a, MakingStep DEF Busy, Making,
        FilesType
<1>5. CASE Clone(t)
    <2> DEFINE x == WrittenBy(t, d["images"])
               f == [x EXCEPT !.content = "cloned"]
    <2>1. /\ pc[t] = "clone" /\ pc' = [pc EXCEPT ![t] = "copy_active"]
          /\ Write(t, Only("images", f)) /\ vm' = [vm EXCEPT ![t] = NoVm]
        BY <1>5 DEF Clone, StopVm
    <2>2. vm[t].kind = "prepare" /\ d["images"] \in FileType
        BY <2>1, <1>b, <1>c DEF VmAt, Names
    <2>x. /\ x \in FileType /\ x.gen = d["images"].gen
          /\ x.ino = d["images"].ino
          /\ x.by = d["images"].by \cup {<<t, "prepare">>}
        BY <2>2, <1>a, WrittenByType DEF Kinds
    <2> HIDE DEF x
    <2>3. /\ f \in FileType /\ f.gen = d["images"].gen
          /\ f.ino = d["images"].ino /\ f.content = "cloned"
          /\ f.by = d["images"].by \cup {<<t, "prepare">>}
        BY <2>x, ContentType DEF Contents
    <2> HIDE DEF f
    <2>4. /\ files' \in [Instances -> [Names -> FileType]]
          /\ \A i \in Instances : i # I => files'[i] = files[i]
          /\ d'["images"] = f
          /\ \A n \in Names \ {"images"} : d'[n] = d[n]
        BY <2>1, <2>3, <1>a, WriteOnly DEF Names
    <2>5. pc'[t] = "copy_active"
        BY <2>1, <1>d
    <2>6. Cloned(d'["images"], t)
        BY <2>1, <2>3, <2>4, <1>a DEF Stage, Workspace, Cloned, Writers
    <2>7. d'["marker"] = d["marker"] /\ d'["upper"] = d["upper"]
        BY <2>4 DEF Names
    <2>8. Stage(t)' /\ d'["marker"].content = "absent"
        BY <2>1, <2>5, <2>6, <2>7, <1>a DEF Stage, Making
    <2> QED BY <2>1, <2>4, <2>8, <1>a, VmTypes, MakingStep
            DEF Busy, Making, VmAt, Using
<1> QED BY <1>1, <1>2, <1>3, <1>4, <1>5

\* The preparation from the copy of the upper image to the marker.
LEMMA SnapshotTaken ==
    ASSUME Holding, SnapshotInv, NEW t \in Tasks,
           \/ CopyActive(t) \/ StartSnapshotVm(t) \/ Warmup(t)
           \/ CreateSnapshot(t) \/ ReplaceUpper(t) \/ ReplaceActive(t)
    PROVE  SnapshotInv'
<1> DEFINE I == InstanceOf[t]
           d == Dir(t)
<1>a. FilesType /\ Stage(t) /\ I \in Instances
    BY TaskAssumption DEF SnapshotInv
<1>b. d \in [Names -> FileType]
    BY <1>a DEF FilesType, Dir
<1>c. VmAt(t, pc[t], vm[t])
    BY DEF SnapshotInv, Vms
<1>d. ASSUME NEW p, pc' = [pc EXCEPT ![t] = p] PROVE pc'[t] = p
    BY <1>d DEF Holding
<1>e. UNCHANGED vm => vm' = [vm EXCEPT ![t] = vm[t]]
    BY <1>a, VmTypes
<1>f. d["active"] \in FileType /\ d["upper"] \in FileType /\ d["images"] \in FileType
    BY <1>b DEF Names
<1> USE DEF Step
<1>1. CASE CopyActive(t)
    <2> DEFINE f == Copy(d["upper"], t, "copy")
    <2>1. /\ pc[t] = "copy_active" /\ pc' = [pc EXCEPT ![t] = "vm_snapshot"]
          /\ Write(t, Only("active", f)) /\ UNCHANGED vm
        BY <1>1 DEF CopyActive
    <2>2. /\ f \in FileType /\ f.gen = d["upper"].gen /\ f.by = d["upper"].by
          /\ f.ino = <<t, "copy">>
        BY <1>f, FileTypes DEF Tags
    <2> HIDE DEF f
    <2>3. /\ files' \in [Instances -> [Names -> FileType]]
          /\ \A i \in Instances : i # I => files'[i] = files[i]
          /\ d'["active"] = f
          /\ \A n \in Names \ {"active"} : d'[n] = d[n]
        BY <2>1, <2>2, <1>a, WriteOnly DEF Names
    <2>4. pc'[t] = "vm_snapshot"
        BY <2>1, <1>d
    <2>5. d'["marker"] = d["marker"] /\ d'["images"] = d["images"]
        BY <2>3 DEF Names
    <2>6. Stage(t)' /\ d'["marker"].content = "absent"
        BY <2>1, <2>2, <2>3, <2>4, <2>5, <1>a DEF Stage, Making
    <2> QED BY <2>1, <2>3, <2>6, <1>a, <1>c, <1>e, VmTypes, MakingStep
            DEF Busy, Making, VmAt, Using
<1>2. CASE StartSnapshotVm(t)
    <2> DEFINE drives == [n \in {"images", "active"} |-> d[n].ino]
               v == [kind |-> "snapshot", drives |-> drives]
    <2>1. /\ pc[t] = "vm_snapshot" /\ pc' = [pc EXCEPT ![t] = "warmup"]
          /\ UNCHANGED files /\ vm' = [vm EXCEPT ![t] = v]
        BY <1>2 DEF StartSnapshotVm, StartVm
    <2>2. d' = d
        BY <2>1 DEF Dir
    <2>3. pc'[t] = "warmup"
        BY <2>1, <1>d
    <2>4. Stage(t)' /\ d'["marker"].content = "absent"
        BY <2>1, <2>2, <2>3, <1>a DEF Stage, Making
    <2>5. d["active"].ino = <<t, "copy">> /\ d["images"].ino = <<t, "make">>
        BY <2>1, <1>a DEF Stage, Cloned, Workspace, Making
    <2>6. v \in VmType
        <3>1. drives \in [{"images", "active"} -> Makers \X Tags]
            BY <2>5 DEF Makers, Tags
        <3>2. drives \in Drives
            BY <3>1, DrivesType
        <3> QED BY <3>2 DEF VmType, Kinds
    <2>7. VmAt(t, "warmup", v)
        BY <2>5 DEF VmAt, Using
    <2> QED BY <2>1, <2>4, <2>6, <2>7, <1>a, MakingStep DEF Busy, Making,
        FilesType
<1>3. CASE Warmup(t)
    <2> DEFINE S == {"images", "active"}
               x == WrittenBy(t, d["active"])
               f == [x EXCEPT !.content = "warm"]
               h == WrittenBy(t, d["images"])
               changes == [n \in S |-> IF n = "active" THEN f ELSE h]
    <2>1. /\ pc[t] = "warmup" /\ pc' = [pc EXCEPT ![t] = "create"] /\ UNCHANGED vm
        BY <1>3 DEF Warmup
    <2>w. Write(t, changes)
        <3>1. [n \in S |-> LET y == WrittenBy(t, d[n]) IN
                  IF n = "active" THEN [y EXCEPT !.content = "warm"] ELSE y] = changes
            OBVIOUS
        <3> QED BY <1>3, <3>1 DEF Warmup
    <2>2. vm[t].kind = "snapshot"
        BY <2>1, <1>c DEF VmAt
    <2>3. /\ x \in FileType /\ x.gen = d["active"].gen
          /\ x.ino = d["active"].ino
          /\ x.by = d["active"].by \cup {<<t, "snapshot">>}
        BY <2>2, <1>a, <1>f, WrittenByType DEF Kinds
    <2>h. /\ h \in FileType /\ h.gen = d["images"].gen
          /\ h.ino = d["images"].ino /\ h.content = d["images"].content
          /\ h.by = d["images"].by \cup {<<t, "snapshot">>}
        BY <2>2, <1>a, <1>f, WrittenByType DEF Kinds
    <2> HIDE DEF x, h
    <2>4. /\ f \in FileType /\ f.gen = d["active"].gen
          /\ f.ino = d["active"].ino /\ f.content = "warm"
          /\ f.by = d["active"].by \cup {<<t, "snapshot">>}
        BY <2>3, ContentType DEF Contents
    <2> HIDE DEF f
    <2>c. /\ changes \in [S -> FileType] /\ S \in SUBSET Names
          /\ changes["active"] = f /\ changes["images"] = h
        BY <2>4, <2>h DEF Names
    <2> HIDE DEF changes
    <2>5. /\ files' \in [Instances -> [Names -> FileType]]
          /\ \A i \in Instances : i # I => files'[i] = files[i]
          /\ d'["active"] = f /\ d'["images"] = h
          /\ \A n \in Names \ S : d'[n] = d[n]
        BY <2>w, <2>c, <1>a, WriteFiles
    <2>6. pc'[t] = "create"
        BY <2>1, <1>d
    <2>7. d'["marker"] = d["marker"]
        BY <2>5 DEF Names
    <2>8. Warm(d'["active"], t)
        BY <2>1, <2>4, <2>5, <1>a DEF Stage, Warm
    <2>i. Cloned(d'["images"], t)
        <3>1. Cloned(d["images"], t)
            BY <2>1, <1>a DEF Stage, Making
        <3> QED BY <3>1, <2>h, <2>5 DEF Cloned, Workspace, Writers
    <2>9. Stage(t)' /\ d'["marker"].content = "absent"
        BY <2>1, <2>4, <2>5, <2>6, <2>7, <2>8, <2>i, <1>a DEF Stage, Making
    <2> QED BY <2>1, <2>5, <2>9, <1>a, <1>c, <1>e, VmTypes, MakingStep
            DEF Busy, Making, VmAt, Using
<1>4. CASE CreateSnapshot(t)
    <2> DEFINE S == {"state", "mem"}
               f == File(t, "full", "create")
    <2>1. f \in FileType
        BY FileTypes DEF Contents, Tags
    <2>2. /\ pc[t] = "create" /\ pc' = [pc EXCEPT ![t] = "replace_upper"]
          /\ Write(t, [n \in S |-> f]) /\ vm' = [vm EXCEPT ![t] = NoVm]
        BY <1>4 DEF CreateSnapshot, StopVm
    <2>3. S \in SUBSET Names /\ [n \in S |-> f] \in [S -> FileType]
        BY <2>1 DEF Names
    <2>4. /\ files' \in [Instances -> [Names -> FileType]]
          /\ \A i \in Instances : i # I => files'[i] = files[i]
          /\ d'["state"] = f /\ d'["mem"] = f
          /\ \A n \in Names \ S : d'[n] = d[n]
        BY <2>2, <2>3, <1>a, WriteFiles
    <2>5. Whole(f, t)
        BY DEF Whole, File
    <2>6. pc'[t] = "replace_upper"
        BY <2>2, <1>d
    <2>7. /\ d'["marker"] = d["marker"] /\ d'["images"] = d["images"]
          /\ d'["active"] = d["active"]
        BY <2>4 DEF Names
    <2>8. Stage(t)' /\ d'["marker"].content = "absent"
        BY <2>2, <2>4, <2>5, <2>6, <2>7, <1>a DEF Stage, Making
    <2> QED BY <2>2, <2>4, <2>8, <1>a, VmTypes, MakingStep
            DEF Busy, Making, VmAt, Using
<1>5. CASE ReplaceUpper(t)
    <2> DEFINE f == Copy(d["active"], t, "replace")
    <2>1. /\ pc[t] = "replace_upper" /\ pc' = [pc EXCEPT ![t] = "replace_active"]
          /\ Write(t, Only("upper", f)) /\ UNCHANGED vm
        BY <1>5 DEF ReplaceUpper
    <2>2. /\ f \in FileType /\ f.gen = d["active"].gen /\ f.by = d["active"].by
          /\ f.content = d["active"].content
        BY <1>f, FileTypes DEF Tags
    <2> HIDE DEF f
    <2>3. /\ files' \in [Instances -> [Names -> FileType]]
          /\ \A i \in Instances : i # I => files'[i] = files[i]
          /\ d'["upper"] = f
          /\ \A n \in Names \ {"upper"} : d'[n] = d[n]
        BY <2>1, <2>2, <1>a, WriteOnly DEF Names
    <2>4. pc'[t] = "replace_active"
        BY <2>1, <1>d
    <2>5. /\ d'["marker"] = d["marker"] /\ d'["images"] = d["images"]
          /\ d'["state"] = d["state"] /\ d'["mem"] = d["mem"]
        BY <2>3 DEF Names
    <2>6. Warm(d'["upper"], t)
        BY <2>1, <2>2, <2>3, <1>a DEF Stage, Warm
    <2>7. Stage(t)' /\ d'["marker"].content = "absent"
        BY <2>1, <2>4, <2>5, <2>6, <1>a DEF Stage, Making
    <2> QED BY <2>1, <2>3, <2>7, <1>a, <1>c, <1>e, VmTypes, MakingStep
            DEF Busy, Making, VmAt, Using
<1>6. CASE ReplaceActive(t)
    <2> DEFINE f == Copy(d["upper"], t, "replace")
    <2>1. /\ pc[t] = "replace_active" /\ pc' = [pc EXCEPT ![t] = "marker"]
          /\ Write(t, Only("active", f)) /\ UNCHANGED vm
        BY <1>6 DEF ReplaceActive
    <2>2. f \in FileType
        BY <1>f, FileTypes DEF Tags
    <2> HIDE DEF f
    <2>3. /\ files' \in [Instances -> [Names -> FileType]]
          /\ \A i \in Instances : i # I => files'[i] = files[i]
          /\ \A n \in Names \ {"active"} : d'[n] = d[n]
        BY <2>1, <2>2, <1>a, WriteOnly DEF Names
    <2>4. pc'[t] = "marker"
        BY <2>1, <1>d
    <2>5. /\ d'["marker"] = d["marker"] /\ d'["images"] = d["images"]
          /\ d'["state"] = d["state"] /\ d'["mem"] = d["mem"]
          /\ d'["upper"] = d["upper"]
        BY <2>3 DEF Names
    <2>6. Stage(t)' /\ d'["marker"].content = "absent"
        BY <2>1, <2>4, <2>5, <1>a DEF Stage, Making
    <2> QED BY <2>1, <2>3, <2>6, <1>a, <1>c, <1>e, VmTypes, MakingStep
            DEF Busy, Making, VmAt, Using
<1> QED BY <1>1, <1>2, <1>3, <1>4, <1>5, <1>6

\* The agent ends, well or not, and has used the drives of its VM.
LEMMA AgentEnds ==
    ASSUME Holding, SnapshotInv, NEW t \in Tasks, pc[t] = "agent", GuestWrites(t),
           NEW p \in {"collect", "stop"}, pc' = [pc EXCEPT ![t] = p], UNCHANGED vm
    PROVE  SnapshotInv'
<1> DEFINE I == InstanceOf[t]
           d == Dir(t)
<1>a. FilesType /\ Restore(t) /\ VmAt(t, pc[t], vm[t])
    BY DEF SnapshotInv, Vms
<1>1. vm[t].kind = "run"
    BY <1>a DEF VmAt, Using
<1>2. d["active"] \in FileType
    BY <1>a, TaskAssumption DEF FilesType, Dir, Names
<1>3. /\ files' \in [Instances -> [Names -> FileType]]
      /\ \A i \in Instances : i # I => files'[i] = files[i]
      /\ \A n \in Names \ {"images", "active"} : d'[n] = d[n]
      /\ d'["active"] = d["active"] \/ d'["active"] = WrittenBy(t, d["active"])
    BY <1>a, <1>1, GuestWritesFiles DEF Kinds
<1>4. /\ d'["active"].gen = d["active"].gen /\ d'["active"].ino = d["active"].ino
      /\ d'["active"].by \subseteq d["active"].by \cup {<<t, "run">>}
    BY <1>a, <1>1, <1>2, <1>3, WrittenByType DEF Kinds
<1>5. pc'[t] = p
    BY DEF Holding
<1>6. \A n \in {"state", "mem", "upper", "marker"} : d'[n] = d[n]
    BY <1>3 DEF Names
<1>7. Stage(t)'
    BY <1>5 DEF Stage, Making
<1>8. Restore(t)'
    <2>1. /\ d["marker"].content # "absent" /\ d["active"].ino = <<t, "activate">>
          /\ d["active"].by \subseteq {<<d["active"].gen, "snapshot">>}
        BY <1>a DEF Restore, Restoring, Using
    <2>2. pc'[t] \notin {"load", "agent"}
        BY <1>5
    <2> QED BY <1>4, <1>6, <2>1, <2>2 DEF Restore
<1>9. ASSUME d'["marker"].content # "absent"
      PROVE  \E g \in Tasks : Matching(I, g)'
    <2>1. vm' = [vm EXCEPT ![t] = vm[t]]
        BY <1>a, VmTypes
    <2>2. \A g \in Tasks : Cloned(d["images"], g) => Cloned(d'["images"], g)
        BY <1>a, <1>1, GuestKeepsImages DEF Kinds
    <2>3. /\ p \notin Making \cup {"start", "mkdir", "prepare"}
          /\ vm[t].kind \notin {"prepare", "snapshot"}
        BY <1>1 DEF Making
    <2>4. d["marker"].content # "absent"
        BY <1>6, <1>9
    <2> QED BY <1>6, <2>1, <2>2, <2>3, <2>4, PromiseKept
<1>10. VmAt(t, p, vm[t])
    BY <1>a DEF VmAt, Using
<1> QED BY <1>3, <1>7, <1>8, <1>9, <1>10, FramedNoVm DEF Busy, Using

\* The marker, and the run upon the snapshot.
LEMMA SnapshotUsed ==
    ASSUME Holding, SnapshotInv, NEW t \in Tasks,
           \/ Mark(t) \/ Export(t) \/ CopyUpper(t) \/ Activate(t)
           \/ Load(t) \/ RunAgent(t)
    PROVE  SnapshotInv'
<1> DEFINE I == InstanceOf[t]
           d == Dir(t)
           Kept == d'["marker"].content # "absent" =>
                       \E g \in Tasks : Matching(I, g)'
<1>a. FilesType /\ Stage(t) /\ Restore(t) /\ I \in Instances
    BY TaskAssumption DEF SnapshotInv
<1>b. d \in [Names -> FileType]
    BY <1>a DEF FilesType, Dir
<1>c. VmAt(t, pc[t], vm[t])
    BY DEF SnapshotInv, Vms
<1>d. ASSUME NEW p, pc' = [pc EXCEPT ![t] = p] PROVE pc'[t] = p
    BY <1>d DEF Holding
<1>e. UNCHANGED vm => vm' = [vm EXCEPT ![t] = vm[t]]
    BY <1>a, VmTypes
<1>f. d["active"] \in FileType /\ d["upper"] \in FileType
    BY <1>b DEF Names
<1>g. d["marker"].content # "absent" => \E g \in Tasks : Matching(I, g)
    BY <1>a DEF SnapshotInv, Marked, Dir
<1> USE DEF Step
<1>1. CASE Mark(t)
    <2> DEFINE f == File(t, "full", "mark")
    <2>1. /\ pc[t] = "marker" /\ pc' = [pc EXCEPT ![t] = "export"]
          /\ Write(t, Only("marker", f)) /\ UNCHANGED vm
        BY <1>1 DEF Mark
    <2>2. f \in FileType
        BY FileTypes DEF Contents, Tags
    <2> HIDE DEF f
    <2>3. /\ files' \in [Instances -> [Names -> FileType]]
          /\ \A i \in Instances : i # I => files'[i] = files[i]
          /\ \A n \in Names \ {"marker"} : d'[n] = d[n]
        BY <2>1, <2>2, <1>a, WriteOnly DEF Names
    <2>4. pc'[t] = "export"
        BY <2>1, <1>d
    <2>5. Stage(t)' /\ Restore(t)'
        BY <2>4 DEF Stage, Restore, Making, Restoring, Using
    <2>6. /\ d'["images"] = d["images"] /\ d'["upper"] = d["upper"]
          /\ d'["state"] = d["state"] /\ d'["mem"] = d["mem"]
        BY <2>3 DEF Names
    <2>7. Matching(I, t)'
        <3>1. vm'[t].kind = "none"
            BY <2>1, <1>c DEF VmAt, Using
        <3>2. pc'[t] \notin Making \cup {"start", "mkdir", "prepare"}
            BY <2>4 DEF Making
        <3>3. /\ Cloned(d["images"], t) /\ Warm(d["upper"], t)
              /\ Whole(d["state"], t) /\ Whole(d["mem"], t)
            BY <2>1, <1>a DEF Stage, Making
        <3> QED BY <2>6, <3>1, <3>2, <3>3 DEF Matching, Dir
    <2> QED BY <2>1, <2>3, <2>5, <2>7, <1>c, FramedNoVm
            DEF Busy, Making, VmAt, Using
<1>2. CASE Export(t)
    <2> DEFINE f == File(t, "full", "export")
    <2>1. /\ pc[t] = "export" /\ pc' = [pc EXCEPT ![t] = "copy_upper"]
          /\ Write(t, Only("atlas", f)) /\ UNCHANGED vm
        BY <1>2 DEF Export
    <2>2. f \in FileType
        BY FileTypes DEF Contents, Tags
    <2> HIDE DEF f
    <2>3. /\ files' \in [Instances -> [Names -> FileType]]
          /\ \A i \in Instances : i # I => files'[i] = files[i]
          /\ \A n \in Names \ {"atlas"} : d'[n] = d[n]
        BY <2>1, <2>2, <1>a, WriteOnly DEF Names
    <2>4. pc'[t] = "copy_upper"
        BY <2>1, <1>d
    <2>5. Stage(t)' /\ Restore(t)'
        BY <2>4 DEF Stage, Restore, Making, Restoring, Using
    <2>6. \A n \in {"state", "mem", "images", "upper", "marker"} : d'[n] = d[n]
        BY <2>3 DEF Names
    <2>7. Kept
        BY <2>1, <2>6, MarkerKeptLater DEF Later
    <2> QED BY <2>1, <2>3, <2>5, <2>7, <1>c, FramedNoVm
            DEF Busy, VmAt, Using
<1>3. CASE CopyUpper(t)
    <2>1. PICK p \in {"activate", "failed"} :
              pc' = [pc EXCEPT ![t] = p] /\ (p = "activate" => snapshot_ready(d))
        BY <1>3 DEF CopyUpper
    <2>2. pc[t] = "copy_upper" /\ UNCHANGED <<files, vm>>
        BY <1>3 DEF CopyUpper
    <2>3. pc'[t] = p
        BY <2>1, <1>d
    <2>4. d' = d
        BY <2>2 DEF Dir
    <2>5. p = "activate" => d'["marker"].content # "absent"
        BY <2>1, <2>4 DEF snapshot_ready, Present
    <2>6. Stage(t)' /\ Restore(t)'
        BY <2>3, <2>5 DEF Stage, Restore, Making, Restoring, Using
    <2>7. Kept
        BY <2>1, <2>2, <2>4, MarkerKeptLater DEF Later
    <2>8. VmAt(t, p, vm[t])
        BY <2>2, <1>c DEF VmAt, Using
    <2> QED BY <2>1, <2>2, <2>6, <2>7, <2>8, <1>a, FramedNoVm
            DEF Busy, Ends, FilesType
<1>4. CASE Activate(t)
    <2> DEFINE f == Copy(d["upper"], t, "activate")
    <2>1. /\ pc[t] = "activate" /\ pc' = [pc EXCEPT ![t] = "load"]
          /\ Write(t, Only("active", f)) /\ UNCHANGED vm
        BY <1>4 DEF Activate
    <2>2. /\ f \in FileType /\ f.gen = d["upper"].gen /\ f.by = d["upper"].by
          /\ f.content = d["upper"].content /\ f.ino = <<t, "activate">>
        BY <1>f, FileTypes DEF Tags
    <2> HIDE DEF f
    <2>3. /\ files' \in [Instances -> [Names -> FileType]]
          /\ \A i \in Instances : i # I => files'[i] = files[i]
          /\ d'["active"] = f
          /\ \A n \in Names \ {"active"} : d'[n] = d[n]
        BY <2>1, <2>2, <1>a, WriteOnly DEF Names
    <2>4. pc'[t] = "load"
        BY <2>1, <1>d
    <2>5. \A n \in {"state", "mem", "images", "upper", "marker"} : d'[n] = d[n]
        BY <2>3 DEF Names
    <2>6. d["marker"].content # "absent"
        BY <2>1, <1>a DEF Restore, Restoring
    <2>7. PICK g \in Tasks : Warm(d["upper"], g) /\ d["mem"].gen = g
        BY <2>6, <1>g DEF Matching, Whole, Dir
    <2>8. Restore(t)'
        BY <2>2, <2>3, <2>4, <2>5, <2>6, <2>7
        DEF Restore, Restoring, Using, Warm
    <2>9. Stage(t)'
        BY <2>4 DEF Stage, Making
    <2>10. Kept
        BY <2>1, <2>5, MarkerKeptLater DEF Later
    <2> QED BY <2>1, <2>3, <2>8, <2>9, <2>10, <1>c, FramedNoVm
            DEF Busy, VmAt, Using
<1>5. CASE Load(t)
    <2> DEFINE drives == [n \in {"images", "active"} |-> d[n].ino]
               v == [kind |-> "run", drives |-> drives]
    <2>1. /\ pc[t] = "load" /\ pc' = [pc EXCEPT ![t] = "agent"]
          /\ UNCHANGED files /\ vm' = [vm EXCEPT ![t] = v]
        BY <1>5 DEF Load, StartVm
    <2>2. d' = d
        BY <2>1 DEF Dir
    <2>3. pc'[t] = "agent"
        BY <2>1, <1>d
    <2>4. Stage(t)' /\ Restore(t)'
        BY <2>1, <2>2, <2>3, <1>a DEF Stage, Restore, Making, Restoring, Using
    <2>5. d["active"].ino = <<t, "activate">>
        BY <2>1, <1>a DEF Restore
    <2>6. v \in VmType
        <3>1. d["images"].ino \in Makers \X Tags
            BY <1>b DEF FileType, Names
        <3>2. drives \in [{"images", "active"} -> Makers \X Tags]
            BY <2>5, <3>1 DEF Makers, Tags
        <3>3. drives \in Drives
            BY <3>2, DrivesType
        <3> QED BY <3>3 DEF VmType, Kinds
    <2>7. VmAt(t, "agent", v)
        BY <2>5 DEF VmAt, Using
    <2>8. Kept
        <3>1. /\ "agent" \notin Making \cup {"start", "mkdir", "prepare"}
              /\ v.kind \notin {"prepare", "snapshot"}
            BY DEF Making
        <3> QED BY <2>1, <2>2, <3>1, MarkerKept
    <2> QED BY <2>1, <2>4, <2>6, <2>7, <2>8, <1>a, Framed
            DEF Busy, Using, FilesType
<1>6. CASE RunAgent(t)
    BY <1>6, AgentEnds DEF RunAgent
<1> QED BY <1>1, <1>2, <1>3, <1>4, <1>5, <1>6

\* What an interrupted command leaves: never a marker, and nothing but the
\* atlas once the preparation is over.
LEMMA CutLeaves ==
    ASSUME Holding, SnapshotInv, NEW t \in Tasks, CutFiles(t)
    PROVE  /\ files' \in [Instances -> [Names -> FileType]]
           /\ \A i \in Instances : i # InstanceOf[t] => files'[i] = files[i]
           /\ Dir(t)'["marker"] = Dir(t)["marker"]
           /\ pc[t] \notin Making =>
                \A n \in Names \ {"atlas"} : Dir(t)'[n] = Dir(t)[n]
           /\ pc[t] \notin Busy => UNCHANGED files
<1> DEFINE d == Dir(t)
           Harmless(changes) ==
               \E S \in SUBSET (Names \ {"marker"}) :
                   /\ changes \in [S -> FileType]
                   /\ pc[t] \notin Making => S \subseteq {"atlas"}
                   /\ pc[t] \notin Busy => S = {}
<1>a. FilesType /\ d \in [Names -> FileType] /\ VmAt(t, pc[t], vm[t])
    BY TaskAssumption DEF SnapshotInv, FilesType, Dir, Vms
<1>1. PICK changes \in Cut(t) : Write(t, changes)
    BY DEF CutFiles
<1>2. ASSUME NEW f \in FileType, NEW n \in Names \ {"marker"},
             pc[t] \in Making \/ (pc[t] = "export" /\ n = "atlas")
      PROVE  Harmless(Only(n, f))
    <2>1. Only(n, f) \in [{n} -> FileType] /\ pc[t] \in Busy
        BY <1>2 DEF Only, Busy
    <2> QED BY <1>2, <2>1 DEF Making
<1>3. ASSUME NEW S \in SUBSET (Names \ {"marker"}), pc[t] \in Making,
             NEW g \in [S -> FileType]
      PROVE  Harmless(g)
    BY <1>3 DEF Busy
<1>4. ASSUME NEW c \in Contents, NEW p \in Tags PROVE File(t, c, p) \in FileType
    BY <1>4, FileTypes
<1>5. ASSUME NEW n \in Names, vm[t].kind \in Kinds
      PROVE  [WrittenBy(t, d[n]) EXCEPT !.content = "partial"] \in FileType
    <2>1. WrittenBy(t, d[n]) \in FileType
        BY <1>5, <1>a, WrittenByType
    <2> QED BY <2>1, ContentType DEF Contents
<1>6. Harmless(changes)
    <2>1. CASE changes = [n \in {} |-> NoFile]
        <3>1. changes \in [{} -> FileType]
            BY <2>1
        <3> QED BY <3>1
    <2>2. CASE changes # [n \in {} |-> NoFile]
        <3>1. CASE pc[t] = "make"
            <4> DEFINE S == {"images", "upper"}
                       f(n) == File(t, IF n = "images" THEN "blank" ELSE "partial",
                                    "make")
            <4>1. \/ changes = Only("images", File(t, "partial", "make"))
                  \/ changes = [n \in S |-> f(n)]
                BY <1>1, <2>2, <3>1 DEF Cut
            <4>2. File(t, "partial", "make") \in FileType
                BY <1>4 DEF Contents, Tags
            <4>3. \A n \in S : f(n) \in FileType
                BY <1>4 DEF Contents, Tags
            <4>4. [n \in S |-> f(n)] \in [S -> FileType]
                BY <4>3
            <4>5. pc[t] \in Making /\ S \in SUBSET (Names \ {"marker"})
                  /\ "images" \in Names \ {"marker"}
                BY <3>1 DEF Making, Names
            <4> QED BY <4>1, <4>2, <4>4, <4>5, <1>2, <1>3
        <3>2. CASE pc[t] = "clone"
            <4>1. changes = Only("images",
                        [WrittenBy(t, d["images"]) EXCEPT !.content = "partial"])
                BY <1>1, <2>2, <3>2 DEF Cut
            <4>2. /\ pc[t] \in Making /\ "images" \in Names \ {"marker"}
                  /\ vm[t].kind \in Kinds
                BY <3>2, <1>a DEF Making, Names, VmAt, Kinds
            <4> QED BY <4>1, <4>2, <1>2, <1>5
        <3>3. CASE pc[t] = "copy_active"
            <4>1. changes = Only("active", File(t, "partial", "copy_active"))
                BY <1>1, <2>2, <3>3 DEF Cut
            <4>2. pc[t] \in Making /\ "active" \in Names \ {"marker"}
                BY <3>3 DEF Making, Names
            <4>3. File(t, "partial", "copy_active") \in FileType
                BY <1>4 DEF Contents, Tags
            <4> QED BY <4>1, <4>2, <4>3, <1>2
        <3>4. CASE pc[t] = "warmup"
            <4> DEFINE S == {"images", "active"}
                       f(n) == IF n = "active"
                               THEN [WrittenBy(t, d[n]) EXCEPT !.content = "partial"]
                               ELSE WrittenBy(t, d[n])
            <4>1. changes = [n \in S |-> f(n)]
                BY <1>1, <2>2, <3>4 DEF Cut
            <4>2. /\ pc[t] \in Making /\ S \in SUBSET (Names \ {"marker"})
                  /\ vm[t].kind \in Kinds
                BY <3>4, <1>a DEF Making, Names, VmAt, Kinds
            <4>3. \A n \in S : f(n) \in FileType
                BY <4>2, <1>5, <1>a, WrittenByType
            <4> HIDE DEF f
            <4>4. [n \in S |-> f(n)] \in [S -> FileType]
                BY <4>3
            <4> QED BY <4>1, <4>2, <4>4, <1>3
        <3>5. CASE pc[t] = "create"
            <4> DEFINE S == {"state", "mem"}
                       f(n) == File(t, IF n = "state" THEN "full" ELSE "partial",
                                    "create")
            <4>1. \/ changes = Only("state", File(t, "partial", "create"))
                  \/ changes = Only("state", File(t, "full", "create"))
                  \/ changes = [n \in S |-> f(n)]
                BY <1>1, <2>2, <3>5 DEF Cut
            <4>2. /\ File(t, "partial", "create") \in FileType
                  /\ File(t, "full", "create") \in FileType
                BY <1>4 DEF Contents, Tags
            <4>3. \A n \in S : f(n) \in FileType
                BY <4>2
            <4>4. [n \in S |-> f(n)] \in [S -> FileType]
                BY <4>3
            <4>5. pc[t] \in Making /\ S \in SUBSET (Names \ {"marker"})
                  /\ "state" \in Names \ {"marker"}
                BY <3>5 DEF Making, Names
            <4> QED BY <4>1, <4>2, <4>4, <4>5, <1>2, <1>3
        <3>6. CASE pc[t] = "export"
            <4>1. changes = Only("atlas", File(t, "partial", "export"))
                BY <1>1, <2>2, <3>6 DEF Cut
            <4>2. "atlas" \in Names \ {"marker"}
                BY DEF Names
            <4>3. File(t, "partial", "export") \in FileType
                BY <1>4 DEF Contents, Tags
            <4> QED BY <3>6, <4>1, <4>2, <4>3, <1>2
        <3> QED BY <1>1, <2>2, <3>1, <3>2, <3>3, <3>4, <3>5, <3>6 DEF Cut
    <2> QED BY <2>1, <2>2
<1>7. PICK S \in SUBSET (Names \ {"marker"}) :
          /\ changes \in [S -> FileType]
          /\ pc[t] \notin Making => S \subseteq {"atlas"}
          /\ pc[t] \notin Busy => S = {}
    BY <1>6
<1> HIDE DEF Harmless
<1>8. /\ files' \in [Instances -> [Names -> FileType]]
      /\ \A i \in Instances : i # InstanceOf[t] => files'[i] = files[i]
      /\ \A n \in Names \ S : d'[n] = d[n]
    BY <1>1, <1>7, <1>a, WriteFiles
<1>9. ASSUME pc[t] \notin Busy PROVE UNCHANGED files
    <2>1. \A n \in Names : d'[n] = d[n]
        BY <1>7, <1>8, <1>9
    <2>2. d' \in [Names -> FileType] /\ InstanceOf[t] \in Instances
        BY <1>8, TaskAssumption DEF Dir
    <2>3. d' = d
        BY <2>1, <2>2, <1>a
    <2>4. \A i \in Instances : files'[i] = files[i]
        BY <1>8, <2>3 DEF Dir
    <2> QED BY <1>8, <1>a, <2>4 DEF FilesType
<1>10. "marker" \in Names \ S
    BY <1>7 DEF Names
<1> QED BY <1>7, <1>8, <1>9, <1>10

\* A task ends; its VM is stopped, or left to itself.
LEMMA SnapshotEnds ==
    ASSUME Holding, SnapshotInv, NEW t \in Tasks, NEW p \in Ends,
           pc[t] \notin Ends, pc' = [pc EXCEPT ![t] = p],
           CutFiles(t) \/ UNCHANGED files,
           StopVm(t) \/ (UNCHANGED vm /\ p = "killed")
    PROVE  SnapshotInv'
<1> DEFINE d == Dir(t)
<1>a. FilesType /\ Stage(t) /\ VmAt(t, pc[t], vm[t])
    BY DEF SnapshotInv, Vms
<1>1. PICK v \in VmType :
          /\ vm' = [vm EXCEPT ![t] = v] /\ VmAt(t, p, v)
          /\ v = NoVm \/ v = vm[t]
    <2>1. CASE StopVm(t)
        <3>1. VmAt(t, p, NoVm)
            BY <1>a, VmTypes DEF VmAt, Ends, Using
        <3> QED BY <2>1, <3>1, <1>a, VmTypes DEF StopVm
    <2>2. CASE UNCHANGED vm /\ p = "killed"
        <3>1. VmAt(t, p, vm[t])
            BY <2>2, <1>a DEF VmAt, Using
        <3> QED BY <2>2, <3>1, <1>a, VmTypes
    <2> QED BY <2>1, <2>2
<1>2. /\ files' \in [Instances -> [Names -> FileType]]
      /\ \A i \in Instances : i # InstanceOf[t] => files'[i] = files[i]
      /\ d'["marker"] = d["marker"]
      /\ pc[t] \notin Making => \A n \in Names \ {"atlas"} : d'[n] = d[n]
      /\ pc[t] \in Busy \/ UNCHANGED files
    BY <1>a, CutLeaves DEF FilesType, Dir
<1>3. pc'[t] = p
    BY DEF Holding
<1>4. Stage(t)' /\ Restore(t)'
    BY <1>3 DEF Stage, Restore, Making, Restoring, Using, Ends
<1>5. ASSUME d'["marker"].content # "absent"
      PROVE  \E g \in Tasks : Matching(InstanceOf[t], g)'
    <2>1. pc[t] \notin Making
        BY <1>2, <1>5, <1>a DEF Stage
    <2>2. \A n \in {"state", "mem", "images", "upper", "marker"} : d'[n] = d[n]
        BY <1>2, <2>1 DEF Names
    <2>3. vm[t].kind \notin {"prepare", "snapshot"}
        BY <2>1, <1>a DEF VmAt, Ends, Using, Making
    <2>4. v.kind \notin {"prepare", "snapshot"}
        BY <1>1, <2>3, <1>a, VmTypes
    <2>5. p \notin Making \cup {"start", "mkdir", "prepare"}
        BY DEF Ends, Making
    <2> QED BY <1>1, <1>2, <1>5, <2>2, <2>4, <2>5, MarkerKept
<1> QED BY <1>1, <1>2, <1>4, <1>5, Framed

\* A VM that was left alone reaches no upper image that a busy task relies
\* on, and no images of another preparation than its own unless it is a
\* run: those are other files under the same names.
LEMMA SnapshotVmWrites ==
    ASSUME Holding, SnapshotInv, NEW t \in Tasks, VmWrites(t)
    PROVE  SnapshotInv'
<1> DEFINE I == InstanceOf[t]
           d == Dir(t)
<1>a. FilesType /\ Stage(t) /\ VmAt(t, pc[t], vm[t]) /\ I \in Instances
    BY TaskAssumption DEF SnapshotInv, Vms
<1>1. /\ pc[t] = "killed" /\ vm[t] # NoVm
      /\ GuestWrites(t) /\ UNCHANGED <<pc, vm>>
    BY DEF VmWrites
<1>2. vm[t].kind \in Kinds
    <2>1. vm[t].kind \in Kinds \cup {"none"}
        BY <1>a, VmTypes DEF VmType
    <2> QED BY <1>1, <1>a, <2>1 DEF VmAt
<1>3. /\ files' \in [Instances -> [Names -> FileType]]
      /\ \A i \in Instances : i # I => files'[i] = files[i]
      /\ \A n \in Names \ {"images", "active"} : d'[n] = d[n]
      /\ \/ d'["active"] = d["active"]
         \/ "active" \in DOMAIN vm[t].drives /\ d["active"].ino = vm[t].drives["active"]
    BY <1>a, <1>1, <1>2, GuestWritesFiles
<1>4. \/ d'["active"] = d["active"]
      \/ d["active"].ino = <<t, "copy">> \/ d["active"].ino = <<t, "activate">>
    BY <1>2, <1>3, <1>a DEF VmAt, Kinds
<1>5. \A n \in {"state", "mem", "upper", "marker"} : d'[n] = d[n]
    BY <1>3 DEF Names
<1>6. \A g \in Tasks :
         /\ Workspace(d["images"], g) => Workspace(d'["images"], g)
         /\ Cloned(d["images"], g) => Cloned(d'["images"], g)
    BY <1>a, <1>1, <1>2, GuestKeepsImages
<1>7. FilesType'
    BY <1>1, <1>3, <1>a DEF FilesType
<1>8. Vms'
    BY <1>1 DEF SnapshotInv, Vms
<1>9. ASSUME NEW i \in Instances, files'[i]["marker"].content # "absent"
      PROVE  \E g \in Tasks : Matching(i, g)'
    <2>1. files'[i]["marker"] = files[i]["marker"]
        BY <1>3, <1>5 DEF Dir
    <2>2. PICK g \in Tasks : Matching(i, g)
        BY <1>9, <2>1 DEF SnapshotInv, Marked
    <2>3. CASE i # I
        BY <1>1, <1>3, <2>2, <2>3 DEF Matching
    <2>4. CASE i = I
        <3>1. Cloned(d'["images"], g)
            BY <1>6, <2>2, <2>4 DEF Matching, Dir
        <3> QED BY <1>1, <1>5, <2>2, <2>4, <3>1 DEF Matching, Dir
    <2> QED BY <2>3, <2>4
<1>10. ASSUME NEW u \in Tasks PROVE Stage(u)' /\ Restore(u)'
    <2>a. Stage(u) /\ Restore(u) /\ pc'[u] = pc[u]
        BY <1>1 DEF SnapshotInv
    <2>1. CASE InstanceOf[u] # I
        <3>1. Dir(u)' = Dir(u)
            BY <1>3, <2>1, TaskAssumption DEF Dir
        <3>2. Stage(u)'
            BY <2>a, <3>1 DEF Stage
        <3> QED BY <2>a, <3>1, <3>2 DEF Restore
    <2>2. CASE u = t
        BY <1>1, <2>2 DEF Stage, Restore, Making, Restoring, Using
    <2>3. CASE u # t /\ InstanceOf[u] = I
        <3>1. Dir(u) = d /\ Dir(u)' = d'
            BY <2>3 DEF Dir
        <3>2. ASSUME pc[u] \in {"vm_snapshot", "warmup", "create", "replace_upper"}
                                  \cup Using \cup {"load"}
              PROVE  d'["active"] = d["active"]
            BY <1>4, <2>a, <2>3, <3>1, <3>2 DEF Stage, Restore
        <3>3. Stage(u)'
            BY <1>5, <1>6, <2>a, <3>1, <3>2 DEF Stage
        <3>4. Restore(u)'
            BY <1>5, <2>a, <3>1, <3>2 DEF Restore, Using
        <3> QED BY <3>3, <3>4
    <2> QED BY <2>1, <2>2, <2>3
<1> QED BY <1>7, <1>8, <1>9, <1>10 DEF SnapshotInv, Marked

LEMMA SnapshotInit == Init => SnapshotInv
<1> SUFFICES ASSUME Init PROVE SnapshotInv
    OBVIOUS
<1>1. NoFile \in FileType /\ NoFile.content = "absent"
    BY FileTypes DEF NoFile, File
<1>2. NoVm \in VmType /\ NoVm.kind = "none"
    BY NoVmType
<1>3. FilesType
    BY <1>1, <1>2 DEF Init, FilesType
<1>4. Vms
    BY <1>2 DEF Init, Vms, VmAt, Using
<1>5. Marked
    BY <1>1 DEF Init, Marked, Names
<1>6. ASSUME NEW t \in Tasks PROVE Stage(t) /\ Restore(t)
    BY DEF Init, Stage, Restore, Making, Restoring, Using
<1> QED BY <1>3, <1>4, <1>5, <1>6 DEF SnapshotInv

LEMMA SnapshotNext == Holding /\ SnapshotInv /\ [Next]_vars => SnapshotInv'
<1> SUFFICES ASSUME Holding, SnapshotInv, [Next]_vars PROVE SnapshotInv'
    OBVIOUS
<1>a. FilesType
    BY DEF SnapshotInv
<1>1. ASSUME NEW t \in Tasks, Acquire(t) PROVE SnapshotInv'
    <2>1. /\ pc[t] = "start" /\ pc' = [pc EXCEPT ![t] = "mkdir"]
          /\ UNCHANGED <<files, vm>>
        BY <1>1 DEF Acquire, Step
    <2>2. pc'[t] = "mkdir"
        BY <2>1 DEF Holding
    <2>3. Stage(t)' /\ Restore(t)'
        BY <2>2 DEF Stage, Restore, Making, Restoring, Using
    <2>4. Dir(t)' = Dir(t)
        BY <2>1 DEF Dir
    <2>5. vm' = [vm EXCEPT ![t] = vm[t]]
        BY <2>1, <1>a, VmTypes
    <2>6. Dir(t)'["marker"].content # "absent" =>
              \E g \in Tasks : Matching(InstanceOf[t], g)'
        BY <2>1, <2>4, <2>5, MarkerKept
    <2> QED BY <2>1, <2>3, <2>6, FramedNoVm, <1>a DEF FilesType, Busy,
        VmAt, Using
<1>2. ASSUME NEW t \in Tasks,
             \/ AcquireData(t) \/ Look(t) \/ AppendRows(t)
             \/ FailLate(t) /\ pc[t] # "agent"
      PROVE  SnapshotInv'
    <2>1. PICK p \in Using \ {"agent"} : pc' = [pc EXCEPT ![t] = p]
        BY <1>2 DEF AcquireData, TakeData, Look, AppendRows, FailLate,
            Step, Using
    <2>2. pc[t] \in Using /\ UNCHANGED <<files, vm>>
        BY <1>2 DEF AcquireData, TakeData, Look, AppendRows, FailLate,
            Step, Using
    <2>3. pc'[t] = p
        BY <2>1 DEF Holding
    <2>4. Dir(t)' = Dir(t)
        BY <2>2 DEF Dir
    <2>5. Restore(t)
        BY DEF SnapshotInv
    <2>6. Stage(t)' /\ Restore(t)'
        BY <2>1, <2>2, <2>3, <2>4, <2>5 DEF Stage, Restore, Making,
            Restoring, Using
    <2>7. Dir(t)'["marker"].content # "absent" =>
              \E g \in Tasks : Matching(InstanceOf[t], g)'
        BY <2>1, <2>2, <2>4, MarkerKeptLater DEF Later, Using
    <2>8. VmAt(t, pc[t], vm[t]) => VmAt(t, p, vm[t])
        BY <2>1, <2>2 DEF VmAt, Using
    <2> QED BY <2>1, <2>2, <2>6, <2>7, <2>8, FramedNoVm, <1>a DEF
        FilesType, Busy
<1>3. ASSUME NEW t \in Tasks, Stop(t) \/ FailEarly(t) \/ Kill(t)
      PROVE  SnapshotInv'
    <2>1. PICK p \in Ends :
              /\ pc' = [pc EXCEPT ![t] = p]
              /\ StopVm(t) \/ (UNCHANGED vm /\ p = "killed")
        BY <1>3 DEF Stop, FailEarly, Kill, Step, Ends
    <2>2. pc[t] \notin Ends /\ (CutFiles(t) \/ UNCHANGED files)
        BY <1>3 DEF Stop, FailEarly, Kill, Step, Ended, Ends
    <2> QED BY <2>1, <2>2, SnapshotEnds
<1>4. ASSUME NEW t \in Tasks, FailLate(t), pc[t] = "agent" PROVE SnapshotInv'
    BY <1>4, AgentEnds DEF FailLate
<1>5. CASE UNCHANGED vars
    <2>1. UNCHANGED <<files, vm, pc>>
        BY <1>5 DEF vars
    <2>2. FilesType' /\ Vms' /\ Marked'
        BY <2>1 DEF SnapshotInv, FilesType, Vms, Marked, Matching
    <2>3. ASSUME NEW t \in Tasks PROVE Stage(t)' /\ Restore(t)'
        BY <2>1 DEF SnapshotInv, Stage, Restore, Dir
    <2> QED BY <2>2, <2>3 DEF SnapshotInv
<1> QED
    BY <1>1, <1>2, <1>3, <1>4, <1>5, SnapshotMake, SnapshotTaken, SnapshotUsed,
       SnapshotVmWrites DEF Next, TaskStep, OpenEnded, Over

LEMMA SnapshotSafe == Spec => [](Holding /\ SnapshotInv)
<1>1. Init => Holding /\ SnapshotInv
    BY HoldingInit, SnapshotInit
<1>2. Holding /\ SnapshotInv /\ [Next]_vars => (Holding /\ SnapshotInv)'
    BY HoldingNext, SnapshotNext
<1> QED BY <1>1, <1>2, PTL DEF Spec

\* The VM that a task restores finds state, memory, root, workspace and upper
\* image of one preparation, whatever failed or was killed before; no VM of
\* another preparation has written to the root and workspace images, though
\* runs may have (prepare_snapshot and snapshot_ready of run_fc_task.py).
THEOREM RestoresOnePreparation == Spec => []SnapshotMatches
<1>1. Holding /\ SnapshotInv => SnapshotMatches
    <2> SUFFICES ASSUME SnapshotInv, NEW t \in Tasks, pc[t] \in {"load", "agent"}
                 PROVE  LET d == Dir(t)
                            g == d["mem"].gen IN
                        /\ \A n \in {"state", "mem"} :
                              d[n].gen = g /\ d[n].content = "full"
                        /\ d["images"].gen = g /\ d["images"].content = "cloned"
                        /\ d["images"].by \subseteq
                              {<<g, "prepare">>, <<g, "snapshot">>}
                                  \cup (Tasks \X {"run"})
                        /\ d["active"].gen = g /\ d["active"].content = "warm"
        BY DEF SnapshotMatches
    <2>1. Restore(t) /\ InstanceOf[t] \in Instances
        BY TaskAssumption DEF SnapshotInv
    <2>2. PICK g \in Tasks : Matching(InstanceOf[t], g)
        BY <2>1 DEF SnapshotInv, Marked, Restore, Restoring, Dir
    <2> QED BY <2>1, <2>2
            DEF Matching, Whole, Cloned, Workspace, Writers, Restore, Dir
<1> QED BY <1>1, SnapshotSafe, PTL

\* The upper image of a run holds what the warmup and this run wrote, and
\* nothing of a VM that an earlier, killed task left running (run_instance:
\* replace_image(upper_img, active_upper)).
THEOREM UpperIsFresh == Spec => []FreshUpper
<1>1. Holding /\ SnapshotInv => FreshUpper
    BY DEF SnapshotInv, Restore, FreshUpper, Using
<1> QED BY <1>1, SnapshotSafe, PTL

-----------------------------------------------------------------------------
(***************************************************************************)
(* data/*.csv.                                                             *)
(***************************************************************************)
RowPhases == {"preworkload", "workload"}
RowLines ==
    [kind : {"rows"}, task : Instances, run : Nat, phase : RowPhases,
     whole : BOOLEAN]
Lines == RowLines \cup {Header}

DataType ==
    /\ runs \in [Instances -> SUBSET Nat]
    /\ \A i \in Instances : IsFiniteSet(runs[i])
    /\ run_id \in [Tasks -> Nat] /\ appends \in [Tasks -> 0..4]
    /\ exists \in [Tasks -> BOOLEAN] /\ raised \in [Tasks -> BOOLEAN]
    /\ csv \in [Csvs -> [there : BOOLEAN, lines : Seq(Lines)]]

\* The lines of the run (i, r).
Of(line, i, r) == line.kind = "rows" /\ line.task = i /\ line.run = r

\* Runs with lines have a directory; a task that is to make its directory
\* is the first with that number.
RunsOfLines ==
    \A f \in Csvs : \A k \in DOMAIN csv[f].lines :
        LET line == csv[f].lines[k] IN
        line.kind = "rows" => line.run \in runs[line.task]

RunsMade ==
    /\ RunsOfLines
    /\ \A t \in Tasks :
         /\ pc[t] = "mkdir" => run_id[t] \notin runs[InstanceOf[t]]
         /\ pc[t] \in Busy \ {"mkdir"} => run_id[t] \in runs[InstanceOf[t]]

\* The lines of a task's run are those of the calls it has made.
OwnLines(t) ==
    \A f \in Csvs : \A k \in DOMAIN csv[f].lines :
        LET line == csv[f].lines[k] IN
        Of(line, InstanceOf[t], run_id[t]) =>
            /\ line.whole
            /\ \E c \in 1..appends[t] : Calls[c] = <<f, line.phase>>

Early == Busy \ {"mkdir", "look", "append", "stop"}
CallsMade ==
    \A t \in Tasks :
        /\ pc[t] \in Early \cup {"start", "mkdir"} => appends[t] = 0
        /\ pc[t] \in Appending => appends[t] \in 0..3
        /\ pc[t] \in Early \cup Appending => OwnLines(t)

\* The header comes first, and only there.
Headers ==
    \A f \in Csvs :
        /\ ~csv[f].there => csv[f].lines = <<>>
        /\ csv[f].lines # <<>> => csv[f].lines[1] = Header

\* What Look has seen is still so at the write.
Seen ==
    \A t \in Tasks :
        pc[t] = "append" =>
            /\ exists[t] = Target(t).there
            /\ exists[t] => Target(t).lines # <<>>

NoneTwice ==
    \A f \in Csvs : \A j, k \in DOMAIN csv[f].lines :
        j # k => csv[f].lines[j] # csv[f].lines[k]

\* The lines a task has put side by side, and the one it put last.
RowOf(line, t) == Of(line, InstanceOf[t], run_id[t]) /\ line.whole
Pair(lines, t) ==
    \E k \in DOMAIN lines :
        k + 1 \in DOMAIN lines /\ RowOf(lines[k], t) /\ RowOf(lines[k + 1], t)
LastIs(lines, t) == lines # <<>> /\ RowOf(lines[Len(lines)], t)

Written ==
    \A t \in Tasks :
        /\ pc[t] \in Appending =>
             /\ appends[t] = 1 => LastIs(csv["block_phased"].lines, t)
             /\ appends[t] >= 2 => Pair(csv["block_phased"].lines, t)
             /\ appends[t] = 3 => LastIs(csv["file_reads"].lines, t)
        /\ pc[t] = "done" \/ (pc[t] = "stop" /\ ~raised[t]) =>
             \A f \in Csvs : Pair(csv[f].lines, t)

DataInv ==
    /\ DataType /\ RunsMade /\ CallsMade
    /\ Headers /\ Seen /\ NoneTwice /\ Written

LEMMA LeastNumber ==
    ASSUME NEW T \in SUBSET Nat, T # {}
    PROVE  \E n \in T : \A k \in T : n <= k
<1>1. PICK n \in T : \A k \in T : <<k, n>> \notin OpToRel(<, Nat)
    BY WFMin, NatLessThanWellFounded
<1>2. \A k \in T : ~(k < n)
    BY <1>1 DEF OpToRel
<1> QED BY <1>2

\* next_run_id finds a number; the sweep that looks for it ends.
LEMMA NextRunId ==
    ASSUME NEW S \in SUBSET Nat, IsFiniteSet(S)
    PROVE  \E n \in 1 .. Cardinality(S) + 1 : n \notin S /\ 1 .. n - 1 \subseteq S
<1>1. Cardinality(S) \in Nat
    BY FS_CardinalityType
<1>2. PICK c \in Nat : c = Cardinality(S)
    BY <1>1
<1>3. PICK m \in 1 .. c + 1 : m \notin S
    <2> SUFFICES ASSUME 1 .. c + 1 \subseteq S PROVE FALSE
        OBVIOUS
    <2>1. Cardinality(1 .. c + 1) = c + 1
        BY FS_Interval, 1 \in Int, c + 1 \in Int
    <2>2. Cardinality(1 .. c + 1) <= Cardinality(S)
        BY FS_Subset
    <2> QED BY <1>2, <2>1, <2>2
<1> DEFINE T == {k \in Nat : k >= 1 /\ k \notin S}
<1>4. T # {} /\ T \subseteq Nat
    BY <1>3
<1>5. PICK n \in T : \A k \in T : n <= k
    BY <1>4, LeastNumber
<1>6. ASSUME NEW k \in 1 .. n - 1 PROVE k \in S
    BY <1>5
<1>7. n <= m /\ n \in Nat /\ n >= 1 /\ n \notin S
    BY <1>3, <1>5
<1> QED BY <1>2, <1>3, <1>6, <1>7

LEMMA FreeRunId ==
    ASSUME DataType, NEW i \in Instances
    PROVE  next_run_id(i) \in Nat /\ next_run_id(i) \notin runs[i]
<1>1. runs[i] \in SUBSET Nat /\ IsFiniteSet(runs[i])
    BY DEF DataType
<1>2. \E n \in 1 .. Cardinality(runs[i]) + 1 :
          n \notin runs[i] /\ 1 .. n - 1 \subseteq runs[i]
    BY <1>1, NextRunId
<1>3. Cardinality(runs[i]) \in Nat
    BY <1>1, FS_CardinalityType
<1> QED BY <1>2, <1>3 DEF next_run_id

LEMMA CallsAre ==
    /\ Len(Calls) = 4
    /\ \A c \in 1..4 :
         /\ Calls[c][1] \in Csvs /\ Calls[c][2] \in RowPhases
         /\ Calls[c] = <<Calls[c][1], Calls[c][2]>>
         /\ \A e \in 1..4 : Calls[c] = Calls[e] => c = e
    /\ Calls[1][1] = "block_phased" /\ Calls[2][1] = "block_phased"
    /\ Calls[3][1] = "file_reads" /\ Calls[4][1] = "file_reads"
<1>1. /\ Calls[1] = <<"block_phased", "preworkload">>
      /\ Calls[2] = <<"block_phased", "workload">>
      /\ Calls[3] = <<"file_reads", "preworkload">>
      /\ Calls[4] = <<"file_reads", "workload">>
      /\ Len(Calls) = 4
    BY DEF Calls
<1>2. ASSUME NEW c \in 1..4 PROVE c = 1 \/ c = 2 \/ c = 3 \/ c = 4
    OBVIOUS
<1> QED BY <1>1, <1>2 DEF Csvs, RowPhases

\* r is s with one more row, below a header if there was none.
Grows(s, r, row) ==
    /\ r \in Seq(Lines) /\ r # <<>> /\ r[1] = Header
    /\ Len(r) > Len(s) /\ r[Len(r)] = row
    /\ \A k \in DOMAIN s : k \in DOMAIN r /\ r[k] = s[k]
    /\ \A k \in DOMAIN r :
         k # Len(r) => \/ k \in DOMAIN s /\ r[k] = s[k]
                       \/ k = 1 /\ s = <<>> /\ r[k] = Header
    /\ s # <<>> => Len(r) = Len(s) + 1

LEMMA Grown ==
    ASSUME NEW s \in Seq(Lines), NEW row \in RowLines, NEW e \in BOOLEAN,
           e => s # <<>>, ~e => s = <<>>, s # <<>> => s[1] = Header
    PROVE  Grows(s, s \o ((IF e THEN <<>> ELSE <<Header>>) \o <<row>>), row)
<1>0. Header \in Lines /\ row \in Lines
    BY DEF Lines
<1>1. CASE e
    <2>1. <<>> \o <<row>> = <<row>>
        OBVIOUS
    <2> DEFINE r == s \o <<row>>
    <2>2. <<row>> \in Seq(Lines) /\ Len(<<row>>) = 1
        BY <1>0
    <2>3. r \in Seq(Lines) /\ Len(r) = Len(s) + 1
        BY <2>2
    <2>4. \A k \in 1 .. Len(s) + 1 : r[k] = IF k <= Len(s) THEN s[k] ELSE row
        BY <2>2
    <2>5. Len(s) \in Nat /\ Len(s) >= 1 /\ DOMAIN s = 1 .. Len(s)
          /\ DOMAIN r = 1 .. Len(s) + 1
        BY <1>1, <2>3
    <2> HIDE DEF r
    <2>6. Grows(s, r, row)
        BY <1>1, <2>3, <2>4, <2>5 DEF Grows
    <2> QED BY <1>1, <2>1, <2>6 DEF r
<1>2. CASE ~e
    <2> DEFINE q == <<Header>> \o <<row>>
               r == s \o q
    <2>1. /\ q \in Seq(Lines) /\ Len(q) = 2 /\ q[1] = Header /\ q[2] = row
          /\ s = <<>> /\ Len(s) = 0 /\ DOMAIN s = {}
        BY <1>0, <1>2
    <2> HIDE DEF q
    <2>2. /\ r \in Seq(Lines) /\ Len(r) = 2 /\ r[1] = Header /\ r[2] = row
          /\ DOMAIN r = 1..2 /\ r # <<>>
        BY <2>1
    <2> HIDE DEF r
    <2>3. /\ \A k \in DOMAIN r : k = 1 \/ k = Len(r)
          /\ Len(r) > Len(s) /\ r[Len(r)] = row
        BY <2>1, <2>2
    <2>4. Grows(s, r, row)
        BY <2>1, <2>2, <2>3 DEF Grows
    <2>5. r = s \o ((IF e THEN <<>> ELSE <<Header>>) \o <<row>>)
        BY <1>2 DEF r, q
    <2> QED BY <2>4, <2>5
<1> QED BY <1>1, <1>2

\* Steps that touch neither the data files nor the run numbers.
LEMMA DataQuiet ==
    ASSUME Holding, DataInv, NEW t \in Tasks, NEW p \in Busy \cup Ends,
           pc' = [pc EXCEPT ![t] = p],
           UNCHANGED <<csv, runs, locals>>,
           p \notin {"mkdir", "append", "stop"},
           p \in Busy => pc[t] \in Busy \ {"mkdir"},
           p \in Early \cup {"look"} => pc[t] \in Early,
           p = "done" => \A f \in Csvs : Pair(csv[f].lines, t)
    PROVE  DataInv'
<1>1. \A u \in Tasks : pc'[u] = IF u = t THEN p ELSE pc[u]
    BY DEF Holding
<1>2. UNCHANGED <<csv, runs, run_id, appends, exists, raised>>
    BY DEF locals
<1>3. DataType' /\ Headers' /\ NoneTwice'
    BY <1>2 DEF DataInv, DataType, Headers, NoneTwice
<1>4. \A u \in Tasks : OwnLines(u)' <=> OwnLines(u)
    BY <1>2 DEF OwnLines
<1>5. \A u \in Tasks, f \in Csvs :
          /\ Pair(csv[f].lines, u)' <=> Pair(csv[f].lines, u)
          /\ LastIs(csv[f].lines, u)' <=> LastIs(csv[f].lines, u)
    BY <1>2 DEF Pair, LastIs, RowOf
<1>6. RunsMade'
    BY <1>1, <1>2 DEF DataInv, RunsMade, RunsOfLines
<1>7. CallsMade'
    <2> SUFFICES ASSUME NEW u \in Tasks
                 PROVE  /\ pc'[u] \in Early \cup {"start", "mkdir"} => appends'[u] = 0
                        /\ pc'[u] \in Appending => appends'[u] \in 0..3
                        /\ pc'[u] \in Early \cup Appending => OwnLines(u)'
        BY DEF CallsMade
    <2>1. CASE u # t
        BY <1>1, <1>2, <1>4, <2>1 DEF DataInv, CallsMade
    <2>2. CASE u = t
        <3>1. p \notin {"start", "mkdir"}
            BY DEF Busy, Ends, Making, Using
        <3>2. p \in Early \cup Appending => pc[t] \in Early
            BY DEF Appending
        <3> QED BY <1>1, <1>2, <1>4, <2>2, <3>1, <3>2
                DEF DataInv, CallsMade, Appending, Early
    <2> QED BY <2>1, <2>2
<1>8. Seen'
    BY <1>1, <1>2 DEF DataInv, Seen, Target
<1>9. Written'
    <2> SUFFICES ASSUME NEW u \in Tasks
                 PROVE  /\ pc'[u] \in Appending =>
                             /\ appends'[u] = 1 => LastIs(csv["block_phased"].lines, u)'
                             /\ appends'[u] >= 2 => Pair(csv["block_phased"].lines, u)'
                             /\ appends'[u] = 3 => LastIs(csv["file_reads"].lines, u)'
                        /\ pc'[u] = "done" \/ (pc'[u] = "stop" /\ ~raised'[u]) =>
                             \A f \in Csvs : Pair(csv[f].lines, u)'
        BY DEF Written
    <2>1. CASE u # t
        <3>1. pc'[u] = pc[u] /\ appends'[u] = appends[u] /\ raised'[u] = raised[u]
            BY <1>1, <1>2, <2>1
        <3> QED BY <1>5, <3>1 DEF DataInv, Written, Csvs
    <2>2. CASE u = t
        <3>1. p \in Appending => appends'[u] = 0
            BY <1>2, <2>2 DEF DataInv, CallsMade, Appending
        <3> QED BY <1>1, <1>5, <2>2, <3>1
    <2> QED BY <2>1, <2>2
<1> QED BY <1>3, <1>6, <1>7, <1>8, <1>9 DEF DataInv

LEMMA DataAcquire ==
    ASSUME Holding, DataInv, NEW t \in Tasks, Acquire(t)
    PROVE  DataInv'
<1> DEFINE n == next_run_id(InstanceOf[t])
<1>a. DataType /\ InstanceOf[t] \in Instances
    BY TaskAssumption DEF DataInv
<1>b. n \in Nat /\ n \notin runs[InstanceOf[t]]
    BY <1>a, FreeRunId
<1> HIDE DEF n
<1>1. /\ pc[t] = "start" /\ pc' = [pc EXCEPT ![t] = "mkdir"]
      /\ run_id' = [run_id EXCEPT ![t] = n]
      /\ UNCHANGED <<csv, runs, appends, exists, raised>>
    BY DEF Acquire, Step, n
<1>2. /\ \A u \in Tasks \ {t} : pc'[u] = pc[u] /\ run_id'[u] = run_id[u]
      /\ pc'[t] = "mkdir" /\ run_id'[t] = n
    BY <1>1, <1>a DEF Holding, DataType
<1>3. DataType' /\ Headers' /\ NoneTwice'
    BY <1>1, <1>b DEF DataInv, DataType, Headers, NoneTwice
<1>4. \A u \in Tasks \ {t} : OwnLines(u)' <=> OwnLines(u)
    BY <1>1, <1>2 DEF OwnLines
<1>5. \A u \in Tasks \ {t}, f \in Csvs :
          /\ Pair(csv[f].lines, u)' <=> Pair(csv[f].lines, u)
          /\ LastIs(csv[f].lines, u)' <=> LastIs(csv[f].lines, u)
    BY <1>1, <1>2 DEF Pair, LastIs, RowOf
<1>6. RunsMade'
    BY <1>1, <1>2, <1>b DEF DataInv, RunsMade, RunsOfLines
<1>7. CallsMade'
    BY <1>1, <1>2, <1>4 DEF DataInv, CallsMade, Early, Appending
<1>8. Seen'
    BY <1>1, <1>2 DEF DataInv, Seen, Target
<1>9. Written'
    BY <1>1, <1>2, <1>5 DEF DataInv, Written, Csvs, Appending
<1> QED BY <1>3, <1>6, <1>7, <1>8, <1>9 DEF DataInv

LEMMA DataMakeRunDir ==
    ASSUME Holding, DataInv, NEW t \in Tasks, MakeRunDir(t)
    PROVE  DataInv'
<1> DEFINE I == InstanceOf[t]
<1>a. DataType /\ I \in Instances
    BY TaskAssumption DEF DataInv
<1>1. /\ pc[t] = "mkdir" /\ pc' = [pc EXCEPT ![t] = "prepare"]
      /\ runs' = [runs EXCEPT ![I] = runs[I] \union {run_id[t]}]
      /\ UNCHANGED <<csv, run_id, appends, exists, raised>>
    BY <1>a DEF MakeRunDir, Step, locals, DataType
<1>2. \A u \in Tasks : pc'[u] = IF u = t THEN "prepare" ELSE pc[u]
    BY <1>1 DEF Holding
<1>3. /\ runs'[I] = runs[I] \union {run_id[t]}
      /\ \A i \in Instances \ {I} : runs'[i] = runs[i]
      /\ \A i \in Instances : runs[i] \subseteq runs'[i]
    BY <1>1, <1>a DEF DataType
<1>4. DataType'
    <2>1. IsFiniteSet(runs'[I])
        <3>1. IsFiniteSet(runs[I])
            BY <1>a DEF DataType
        <3>2. IsFiniteSet(runs[I] \union {run_id[t]})
            BY <3>1, FS_AddElement
        <3> QED BY <1>3, <3>2
    <2>2. \A i \in Instances : IsFiniteSet(runs'[i])
        BY <2>1, <1>3, <1>a DEF DataType
    <2>3. runs' \in [Instances -> SUBSET Nat]
        BY <1>1, <1>a DEF DataType
    <2> QED BY <1>1, <2>2, <2>3, <1>a DEF DataType
<1>5. \A u \in Tasks : pc[u] = "mkdir" /\ InstanceOf[u] = I => u = t
    BY <1>1, Alone DEF Busy
<1>6. RunsMade'
    <2>1. ASSUME NEW f \in Csvs, NEW k \in DOMAIN csv[f].lines,
                 csv[f].lines[k].kind = "rows"
          PROVE  csv[f].lines[k].run \in runs'[csv[f].lines[k].task]
        <3>1. csv[f].lines[k].task \in Instances
            BY <2>1, <1>a DEF DataType, Lines, RowLines, Header
        <3> QED BY <2>1, <3>1, <1>3 DEF DataInv, RunsMade, RunsOfLines
    <2>2. ASSUME NEW u \in Tasks
          PROVE  /\ pc'[u] = "mkdir" => run_id[u] \notin runs'[InstanceOf[u]]
                 /\ pc'[u] \in Busy \ {"mkdir"} => run_id[u] \in runs'[InstanceOf[u]]
        <3>1. InstanceOf[u] \in Instances
            BY TaskAssumption
        <3> QED BY <1>2, <1>3, <1>5, <3>1 DEF DataInv, RunsMade
    <2> QED BY <1>1, <2>1, <2>2 DEF RunsMade, RunsOfLines
<1>7. \A u \in Tasks : OwnLines(u)' <=> OwnLines(u)
    BY <1>1 DEF OwnLines
<1>8. OwnLines(t)
    <2>1. run_id[t] \notin runs[I]
        BY <1>1 DEF DataInv, RunsMade, RunsOfLines
    <2>2. ASSUME NEW f \in Csvs, NEW k \in DOMAIN csv[f].lines,
                 Of(csv[f].lines[k], I, run_id[t])
          PROVE  FALSE
        BY <2>1, <2>2 DEF DataInv, RunsMade, RunsOfLines, Of
    <2> QED BY <2>2 DEF OwnLines
<1>9. CallsMade'
    BY <1>1, <1>2, <1>7, <1>8 DEF DataInv, CallsMade, Appending, Early
<1>10. \A u \in Tasks, f \in Csvs :
          /\ Pair(csv[f].lines, u)' <=> Pair(csv[f].lines, u)
          /\ LastIs(csv[f].lines, u)' <=> LastIs(csv[f].lines, u)
    BY <1>1 DEF Pair, LastIs, RowOf
<1>11. Seen' /\ Headers' /\ NoneTwice'
    BY <1>1, <1>2 DEF DataInv, Seen, Target, Headers, NoneTwice
<1>12. Written'
    BY <1>1, <1>2, <1>10 DEF DataInv, Written, Csvs, Appending
<1> QED BY <1>4, <1>6, <1>9, <1>11, <1>12 DEF DataInv

\* Look writes down what it sees; only one task looks at a time.
LEMMA DataLook ==
    ASSUME Holding, DataInv, NEW t \in Tasks, Look(t)
    PROVE  DataInv'
<1> DEFINE x == Target(t)
           bad == x.there /\ x.lines = <<>>
<1>a. DataType
    BY DEF DataInv
<1>1. /\ pc[t] = "look"
      /\ pc' = [pc EXCEPT ![t] = IF bad THEN "stop" ELSE "append"]
      /\ exists' = [exists EXCEPT ![t] = x.there]
      /\ raised' = [raised EXCEPT ![t] = bad]
      /\ UNCHANGED <<csv, runs, run_id, appends>>
    BY DEF Look, Step
<1>2. x \in [there : BOOLEAN, lines : Seq(Lines)]
    <2>1. appends[t] \in 0..3
        BY <1>1 DEF DataInv, CallsMade, Appending
    <2>2. Calls[appends[t] + 1][1] \in Csvs
        BY <2>1, CallsAre
    <2> QED BY <2>2, <1>a DEF DataType, Target
<1> HIDE DEF x
<1>3. \A u \in Tasks \ {t} : /\ pc'[u] = pc[u] /\ raised'[u] = raised[u]
                            /\ exists'[u] = exists[u]
    BY <1>1, <1>a DEF Holding, DataType
<1>4. pc'[t] \in {"stop", "append"} /\ (pc'[t] = "append" => ~bad)
    BY <1>1 DEF Holding
<1>5. exists'[t] = x.there
    BY <1>1, <1>a DEF DataType
<1>6. pc'[t] = "stop" => bad
    BY <1>1 DEF Holding
<1>7. bad => raised'[t]
    BY <1>1, <1>a DEF DataType
<1>8. DataType'
    BY <1>1, <1>2, <1>a DEF DataType
<1>9. Headers' /\ NoneTwice'
    BY <1>1 DEF DataInv, Headers, NoneTwice
<1>10. RunsMade'
    BY <1>1, <1>3, <1>4 DEF DataInv, RunsMade, RunsOfLines, Busy, Using
<1>11. \A u \in Tasks : OwnLines(u)' <=> OwnLines(u)
    BY <1>1 DEF OwnLines
<1>12. CallsMade'
    BY <1>1, <1>3, <1>4, <1>11 DEF DataInv, CallsMade, Appending, Early
<1>13. Seen'
    <2>1. \A u \in Tasks : Target(u)' = Target(u)
        BY <1>1 DEF Target
    <2>2. \A u \in Tasks \ {t} : pc'[u] = "append" =>
              /\ exists'[u] = Target(u)'.there
              /\ exists'[u] => Target(u)'.lines # <<>>
        BY <1>3, <2>1 DEF DataInv, Seen
    <2>3. pc'[t] = "append" =>
              /\ exists'[t] = Target(t)'.there
              /\ exists'[t] => Target(t)'.lines # <<>>
        BY <1>4, <1>5, <2>1 DEF x
    <2> QED BY <2>2, <2>3 DEF Seen
<1>14. \A u \in Tasks, f \in Csvs :
          /\ Pair(csv[f].lines, u)' <=> Pair(csv[f].lines, u)
          /\ LastIs(csv[f].lines, u)' <=> LastIs(csv[f].lines, u)
    BY <1>1 DEF Pair, LastIs, RowOf
<1>15. ASSUME NEW u \in Tasks, pc'[u] \in Appending
       PROVE  /\ appends'[u] = 1 => LastIs(csv["block_phased"].lines, u)'
              /\ appends'[u] >= 2 => Pair(csv["block_phased"].lines, u)'
              /\ appends'[u] = 3 => LastIs(csv["file_reads"].lines, u)'
    <2>1. pc[u] \in Appending
        BY <1>1, <1>3, <1>15 DEF Appending
    <2> QED BY <1>1, <1>14, <2>1 DEF DataInv, Written, Csvs
<1>16. ASSUME NEW u \in Tasks, pc'[u] = "done" \/ (pc'[u] = "stop" /\ ~raised'[u])
       PROVE  \A f \in Csvs : Pair(csv[f].lines, u)'
    <2>1. u # t
        BY <1>4, <1>6, <1>7, <1>16
    <2>2. pc[u] = "done" \/ (pc[u] = "stop" /\ ~raised[u])
        BY <1>3, <1>16, <2>1
    <2> QED BY <1>14, <2>2 DEF DataInv, Written
<1> QED BY <1>8, <1>9, <1>10, <1>12, <1>13, <1>15, <1>16 DEF DataInv, Written

\* What a call of append_rows, whole or cut off, may do to the data files.
Writes(t) ==
    \/ UNCHANGED csv
    \/ AddLines(t, <<>>)
    \/ \E whole \in BOOLEAN : AddLines(t, Headed(t, <<Rows(t, whole)>>))

\* The file a call writes to, and its row there, in plain terms.
LEMMA RowWritten ==
    ASSUME Holding, DataInv, NEW t \in Tasks, pc[t] = "append",
           NEW whole \in BOOLEAN, AddLines(t, Headed(t, <<Rows(t, whole)>>))
    PROVE  \E c \in 1..4, f \in Csvs, row \in RowLines :
               /\ c = appends[t] + 1 /\ Calls[c] = <<f, row.phase>>
               /\ RowOf(row, t) <=> whole
               /\ row.whole = whole /\ Of(row, InstanceOf[t], run_id[t])
               /\ f = Calls[c][1]
               /\ \A g \in Csvs \ {f} : csv'[g] = csv[g]
               /\ csv' \in [Csvs -> [there : BOOLEAN, lines : Seq(Lines)]]
               /\ csv'[f].there
               /\ Grows(csv[f].lines, csv'[f].lines, row)
<1>a. DataType /\ InstanceOf[t] \in Instances
    BY TaskAssumption DEF DataInv
<1>1. appends[t] \in 0..3
    BY DEF DataInv, CallsMade, Appending
<1>2. PICK c \in 1..4 : c = appends[t] + 1
    BY <1>1
<1>3. PICK f \in Csvs, ph \in RowPhases : Calls[c] = <<f, ph>> /\ f = Calls[c][1]
                                       /\ ph = Calls[c][2]
    BY CallsAre
<1> DEFINE row == Rows(t, whole)
           s == csv[f].lines
<1>4. row = [kind |-> "rows", task |-> InstanceOf[t], run |-> run_id[t],
             phase |-> ph, whole |-> whole]
    BY <1>2, <1>3 DEF Rows
<1>5. row \in RowLines
    BY <1>4, <1>a DEF RowLines, DataType
<1>6. /\ row.phase = ph /\ row.whole = whole /\ row.kind = "rows"
      /\ row.task = InstanceOf[t] /\ row.run = run_id[t]
    BY <1>4
<1>7. Of(row, InstanceOf[t], run_id[t]) /\ (RowOf(row, t) <=> whole)
    BY <1>6 DEF Of, RowOf
<1>8. /\ s \in Seq(Lines) /\ csv[f].there \in BOOLEAN
      /\ csv[f] \in [there : BOOLEAN, lines : Seq(Lines)]
    BY <1>a DEF DataType
<1>9. exists[t] \in BOOLEAN
    BY <1>a DEF DataType
<1>10. (exists[t] = csv[f].there) /\ (exists[t] => s # <<>>)
    BY <1>2, <1>3 DEF DataInv, Seen, Target
<1>11. ~exists[t] => s = <<>>
    BY <1>10 DEF DataInv, Headers
<1>12. s # <<>> => s[1] = Header
    BY DEF DataInv, Headers
<1> HIDE DEF row
<1>e. PICK e \in BOOLEAN : e = exists[t]
    BY <1>9
<1> DEFINE r == s \o ((IF e THEN <<>> ELSE <<Header>>) \o <<row>>)
<1>13. Grows(s, r, row)
    BY <1>5, <1>8, <1>10, <1>11, <1>12, <1>e, Grown
<1>14. csv' = [csv EXCEPT ![f] = [there |-> TRUE, lines |-> r]]
    BY <1>2, <1>3, <1>e DEF AddLines, Headed, row
<1> HIDE DEF r
<1>15. csv' \in [Csvs -> [there : BOOLEAN, lines : Seq(Lines)]]
    BY <1>13, <1>14, <1>a DEF DataType, Grows
<1>16. /\ csv'[f].lines = r /\ csv'[f].there
       /\ \A g \in Csvs \ {f} : csv'[g] = csv[g]
    BY <1>14, <1>a DEF DataType
<1>17. Calls[c] = <<f, row.phase>>
    BY <1>3, <1>6
<1> HIDE DEF s
<1>18. s = csv[f].lines
    BY DEF s
<1> QED BY <1>2, <1>3, <1>5, <1>6, <1>7, <1>13, <1>15, <1>16, <1>17, <1>18

\* A pair of rows stays, whatever is written below it.
LEMMA PairStays ==
    ASSUME NEW s \in Seq(Lines), NEW r, NEW row, Grows(s, r, row),
           NEW u \in Tasks, Pair(s, u)
    PROVE  Pair(r, u)
<1>1. PICK k \in DOMAIN s :
          k + 1 \in DOMAIN s /\ RowOf(s[k], u) /\ RowOf(s[k + 1], u)
    BY DEF Pair
<1>2. /\ k \in DOMAIN r /\ k + 1 \in DOMAIN r
      /\ r[k] = s[k] /\ r[k + 1] = s[k + 1]
    BY <1>1 DEF Grows
<1> QED BY <1>1, <1>2 DEF Pair

\* The data files stay well formed, for everybody else, under any write of
\* the one task that may write.
LEMMA DataGrows ==
    ASSUME Holding, DataInv, NEW t \in Tasks, pc[t] = "append", Writes(t),
           UNCHANGED <<runs, run_id>>,
           \A u \in Tasks \ {t} : appends'[u] = appends[u]
    PROVE  /\ csv' \in [Csvs -> [there : BOOLEAN, lines : Seq(Lines)]]
           /\ Headers' /\ NoneTwice' /\ RunsOfLines'
           /\ \A f \in Csvs, u \in Tasks :
                Pair(csv[f].lines, u) => Pair(csv[f].lines, u)'
           /\ \A u \in Tasks \ {t} : pc[u] \in Early => OwnLines(u)'
<1>a. DataType /\ RunsOfLines
    BY DEF DataInv, RunsMade, RunsOfLines
<1>1. CASE UNCHANGED csv \/ AddLines(t, <<>>)
    <2>1. /\ csv' \in [Csvs -> [there : BOOLEAN, lines : Seq(Lines)]]
          /\ \A f \in Csvs : /\ csv'[f].lines = csv[f].lines
                             /\ csv[f].there => csv'[f].there
        <3>1. CASE UNCHANGED csv
            BY <1>a, <3>1 DEF DataType
        <3>2. CASE AddLines(t, <<>>)
            <4>1. appends[t] + 1 \in 1..4
                BY DEF DataInv, CallsMade, Appending
            <4>2. PICK f \in Csvs : f = Calls[appends[t] + 1][1]
                BY <4>1, CallsAre
            <4>3. csv[f].lines \in Seq(Lines)
                BY <1>a DEF DataType
            <4>4. csv[f].lines \o <<>> = csv[f].lines
                BY <4>3, ConcatEmptySeq
            <4>5. csv' = [csv EXCEPT ![f] =
                              [there |-> TRUE, lines |-> csv[f].lines]]
                BY <3>2, <4>2, <4>4, <1>a DEF AddLines, DataType
            <4>6. csv' \in [Csvs -> [there : BOOLEAN, lines : Seq(Lines)]]
                BY <4>3, <4>5, <1>a DEF DataType
            <4>7. \A g \in Csvs : /\ csv'[g].lines = csv[g].lines
                                  /\ csv[g].there => csv'[g].there
                BY <4>5, <1>a DEF DataType
            <4> QED BY <4>6, <4>7
        <3> QED BY <1>1, <3>1, <3>2
    <2>2. Headers' /\ NoneTwice' /\ RunsOfLines'
        BY <2>1, <1>a DEF DataInv, Headers, NoneTwice, RunsOfLines
    <2>3. \A f \in Csvs, u \in Tasks :
              Pair(csv[f].lines, u) => Pair(csv[f].lines, u)'
        BY <2>1 DEF Pair, RowOf
    <2>4. ASSUME NEW u \in Tasks \ {t}, pc[u] \in Early PROVE OwnLines(u)'
        <3>1. OwnLines(u)
            BY <2>4 DEF DataInv, CallsMade
        <3>2. appends'[u] = appends[u] /\ run_id'[u] = run_id[u]
            BY <2>4
        <3>3. \A f \in Csvs : csv'[f].lines = csv[f].lines
            BY <2>1
        <3>4. ASSUME NEW f \in Csvs, NEW k \in DOMAIN csv'[f].lines,
                     Of(csv'[f].lines[k], InstanceOf[u], run_id[u])
              PROVE  /\ csv'[f].lines[k].whole
                     /\ \E c \in 1..appends[u] : Calls[c] = <<f, csv'[f].lines[k].phase>>
            BY <3>1, <3>3, <3>4 DEF OwnLines
        <3> QED BY <3>2, <3>4 DEF OwnLines
    <2> QED BY <2>1, <2>2, <2>3, <2>4
<1>2. CASE \E whole \in BOOLEAN : AddLines(t, Headed(t, <<Rows(t, whole)>>))
    <2>1. PICK whole \in BOOLEAN : AddLines(t, Headed(t, <<Rows(t, whole)>>))
        BY <1>2
    <2>2. PICK c \in 1..4, f \in Csvs, row \in RowLines :
              /\ c = appends[t] + 1 /\ Calls[c] = <<f, row.phase>>
              /\ Of(row, InstanceOf[t], run_id[t])
              /\ \A g \in Csvs \ {f} : csv'[g] = csv[g]
              /\ csv' \in [Csvs -> [there : BOOLEAN, lines : Seq(Lines)]]
              /\ csv'[f].there
              /\ Grows(csv[f].lines, csv'[f].lines, row)
        BY <2>1, RowWritten
    <2>s. PICK s \in Seq(Lines) : s = csv[f].lines
        BY <1>a DEF DataType
    <2>r. PICK r \in Seq(Lines) : r = csv'[f].lines
        BY <2>2
    <2>g. Grows(s, r, row)
        BY <2>2, <2>s, <2>r
    <2>h. row.kind = "rows" /\ Header.kind = "header"
        BY <2>2 DEF Of, Header
    <2>n. Len(r) \in Nat /\ DOMAIN r = 1 .. Len(r) /\ Len(r) \in DOMAIN r
        BY <2>g DEF Grows
    <2>3. Headers'
        <3>1. ASSUME NEW g \in Csvs
              PROVE  /\ ~csv'[g].there => csv'[g].lines = <<>>
                     /\ csv'[g].lines # <<>> => csv'[g].lines[1] = Header
            <4>1. CASE g = f
                BY <2>2, <2>g, <2>r, <4>1 DEF Grows
            <4>2. CASE g # f
                BY <2>2, <4>2, ZenonT(60) DEF DataInv, Headers
            <4> QED BY <4>1, <4>2
        <3> QED BY <3>1 DEF Headers
    <2>4. \A j \in DOMAIN r : j # Len(r) => r[j] # row
        <3> SUFFICES ASSUME NEW j \in DOMAIN s, s[j] = row PROVE FALSE
            BY <2>g, <2>h DEF Grows
        <3>1. OwnLines(t)
            BY DEF DataInv, CallsMade, Appending
        <3>2. PICK e \in 1..appends[t] : Calls[e] = <<f, row.phase>>
            BY <3>1, <2>2, <2>s DEF OwnLines
        <3>3. appends[t] \in 0..3
            BY DEF DataInv, CallsMade, Appending
        <3>4. e \in 1..4 /\ Calls[e] = Calls[c] /\ e # c
            BY <2>2, <3>2, <3>3
        <3> QED BY <3>4, CallsAre
    <2>5. \A j, k \in DOMAIN r : j # k => r[j] # r[k]
        <3>1. \A j, k \in DOMAIN s : j # k => s[j] # s[k]
            BY <2>s DEF DataInv, NoneTwice
        <3>2. ASSUME NEW j \in DOMAIN r, NEW k \in DOMAIN r, j # k,
                     j # Len(r), k # Len(r)
              PROVE  r[j] # r[k]
            <4>1. s = <<>> => DOMAIN s = {}
                OBVIOUS
            <4> QED BY <2>g, <3>1, <3>2, <4>1 DEF Grows
        <3>3. r[Len(r)] = row
            BY <2>g DEF Grows
        <3> QED BY <2>4, <3>2, <3>3
    <2>6. NoneTwice'
        <3>1. ASSUME NEW g \in Csvs
              PROVE  \A j, k \in DOMAIN csv'[g].lines :
                         j # k => csv'[g].lines[j] # csv'[g].lines[k]
            <4>1. CASE g = f
                BY <2>5, <2>r, <4>1
            <4>2. CASE g # f
                BY <2>2, <4>2, SMTT(30) DEF DataInv, NoneTwice
            <4> QED BY <4>1, <4>2
        <3> QED BY <3>1 DEF NoneTwice
    <2>7. ASSUME NEW g \in Csvs, NEW k \in DOMAIN csv'[g].lines
          PROVE  LET line == csv'[g].lines[k] IN
                 \/ k \in DOMAIN csv[g].lines /\ line = csv[g].lines[k]
                 \/ line = Header
                 \/ line = row /\ g = f
        <3>1. CASE g # f
            BY <2>2, <2>7, <3>1
        <3>2. CASE g = f
            BY <2>g, <2>r, <2>s, <2>7, <3>2 DEF Grows
        <3> QED BY <3>1, <3>2
    <2>8. RunsOfLines'
        <3>1. row.run = run_id[t] /\ row.task = InstanceOf[t]
            BY <2>2 DEF Of
        <3>2. run_id[t] \in runs[InstanceOf[t]]
            BY DEF DataInv, RunsMade, RunsOfLines, Busy, Using
        <3> QED BY <2>7, <2>h, <3>1, <3>2, <1>a DEF RunsOfLines
    <2>9. ASSUME NEW g \in Csvs, NEW u \in Tasks, Pair(csv[g].lines, u)
          PROVE  Pair(csv[g].lines, u)'
        <3>1. Pair(csv'[g].lines, u)
            <4>1. CASE g # f
                BY <2>2, <2>9, <4>1
            <4>2. CASE g = f
                BY <2>g, <2>r, <2>s, <2>9, <4>2, PairStays
            <4> QED BY <4>1, <4>2
        <3> QED BY <3>1 DEF Pair, RowOf
    <2>10. ASSUME NEW u \in Tasks \ {t}, pc[u] \in Early PROVE OwnLines(u)'
        <3>1. OwnLines(u)
            BY <2>10 DEF DataInv, CallsMade
        <3>2. InstanceOf[u] # InstanceOf[t]
            BY <2>10, Alone DEF Early, Busy, Using
        <3>3. ~Of(row, InstanceOf[u], run_id[u]) /\ ~Of(Header, InstanceOf[u], run_id[u])
            BY <2>2, <2>h, <3>2 DEF Of
        <3>4. ASSUME NEW g \in Csvs, NEW k \in DOMAIN csv'[g].lines,
                     Of(csv'[g].lines[k], InstanceOf[u], run_id[u])
              PROVE  /\ csv'[g].lines[k].whole
                     /\ \E x \in 1..appends[u] : Calls[x] = <<g, csv'[g].lines[k].phase>>
            <4>1. k \in DOMAIN csv[g].lines /\ csv'[g].lines[k] = csv[g].lines[k]
                BY <2>7, <3>3, <3>4
            <4> QED BY <3>1, <3>4, <4>1, ZenonT(60) DEF OwnLines
        <3> QED BY <3>4, ZenonT(60) DEF OwnLines
    <2> QED BY <2>2, <2>3, <2>6, <2>8, <2>9, <2>10
<1> QED BY <1>1, <1>2 DEF Writes

\* A task leaves the data files, perhaps in the middle of a call.
LEMMA DataLeaves ==
    ASSUME Holding, DataInv, NEW t \in Tasks, NEW p \in {"stop", "killed"},
           pc' = [pc EXCEPT ![t] = p], CutCsv(t),
           UNCHANGED <<runs, run_id, appends, exists>>,
           \/ p = "killed" /\ UNCHANGED raised
           \/ /\ p = "stop" /\ pc[t] \in Busy \ {"mkdir"}
              /\ raised' = [raised EXCEPT ![t] = TRUE]
    PROVE  DataInv'
<1>a. DataType
    BY DEF DataInv
<1>1. /\ csv' \in [Csvs -> [there : BOOLEAN, lines : Seq(Lines)]]
      /\ Headers' /\ NoneTwice' /\ RunsOfLines'
      /\ \A f \in Csvs, u \in Tasks :
           Pair(csv[f].lines, u) => Pair(csv[f].lines, u)'
      /\ \A u \in Tasks \ {t} : pc[u] \in Early => OwnLines(u)'
    <2>1. CASE pc[t] = "append"
        <3>1. Writes(t)
            BY <2>1 DEF CutCsv, Writes
        <3> QED BY <2>1, <3>1, DataGrows
    <2>2. CASE pc[t] # "append"
        <3>1. UNCHANGED csv
            BY <2>2 DEF CutCsv
        <3>2. Headers' /\ NoneTwice' /\ RunsOfLines'
            BY <3>1 DEF DataInv, Headers, NoneTwice, RunsMade, RunsOfLines
        <3>3. \A f \in Csvs, u \in Tasks :
                  Pair(csv[f].lines, u) => Pair(csv[f].lines, u)'
            BY <3>1 DEF Pair, RowOf
        <3>4. \A u \in Tasks : OwnLines(u)' <=> OwnLines(u)
            BY <3>1 DEF OwnLines
        <3>5. \A u \in Tasks \ {t} : pc[u] \in Early => OwnLines(u)'
            BY <3>4 DEF DataInv, CallsMade
        <3> QED BY <3>1, <3>2, <3>3, <3>5, <1>a DEF DataType
    <2> QED BY <2>1, <2>2
<1>2. \A u \in Tasks : pc'[u] = IF u = t THEN p ELSE pc[u]
    BY DEF Holding
<1>3. /\ raised' \in [Tasks -> BOOLEAN]
      /\ \A u \in Tasks \ {t} : raised'[u] = raised[u]
      /\ p = "stop" => raised'[t]
    BY <1>a DEF DataType
<1>4. DataType'
    BY <1>1, <1>3, <1>a DEF DataType
<1>p. /\ p \notin Early \cup Appending \cup {"start", "mkdir"}
      /\ p = "killed" => p \notin Busy
    BY DEF Early, Appending, Busy, Making, Using
<1>5. RunsMade'
    <2>1. ASSUME NEW u \in Tasks
          PROVE  /\ pc'[u] = "mkdir" => run_id'[u] \notin runs'[InstanceOf[u]]
                 /\ pc'[u] \in Busy \ {"mkdir"} => run_id'[u] \in runs'[InstanceOf[u]]
        <3>1. pc'[u] = "mkdir" => pc[u] = "mkdir"
            BY <1>2, <1>p
        <3>2. pc'[u] \in Busy \ {"mkdir"} => pc[u] \in Busy \ {"mkdir"}
            BY <1>2, <1>p
        <3> QED BY <3>1, <3>2 DEF DataInv, RunsMade
    <2> QED BY <1>1, <2>1 DEF RunsMade, RunsOfLines
<1>6. ASSUME NEW u \in Tasks, u # t, pc[u] \in Appending
      PROVE  UNCHANGED csv
    <2>1. pc[t] # "append"
        BY <1>6 DEF Holding, Appending
    <2> QED BY <2>1 DEF CutCsv
<1>7. ASSUME NEW u \in Tasks, u # t, pc[u] \in Early \cup Appending
      PROVE  OwnLines(u)'
    <2>1. CASE pc[u] \in Early
        BY <1>1, <1>7, <2>1
    <2>2. CASE pc[u] \in Appending
        <3>1. UNCHANGED csv
            BY <1>6, <1>7, <2>2
        <3>2. OwnLines(u)
            BY <1>7 DEF DataInv, CallsMade
        <3> QED BY <3>1, <3>2 DEF OwnLines
    <2> QED BY <1>7, <2>1, <2>2
<1>8. CallsMade'
    <2> SUFFICES ASSUME NEW u \in Tasks
                 PROVE  /\ pc'[u] \in Early \cup {"start", "mkdir"} => appends'[u] = 0
                        /\ pc'[u] \in Appending => appends'[u] \in 0..3
                        /\ pc'[u] \in Early \cup Appending => OwnLines(u)'
        BY DEF CallsMade
    <2>1. CASE u = t
        BY <1>2, <1>p, <2>1
    <2>2. CASE u # t
        <3>1. pc'[u] = pc[u] /\ appends'[u] = appends[u]
            BY <1>2, <2>2
        <3> QED BY <1>7, <2>2, <3>1 DEF DataInv, CallsMade
    <2> QED BY <2>1, <2>2
<1>9. Seen'
    <2> SUFFICES ASSUME NEW u \in Tasks, pc'[u] = "append"
                 PROVE  /\ exists'[u] = Target(u)'.there
                        /\ exists'[u] => Target(u)'.lines # <<>>
        BY DEF Seen
    <2>1. u # t /\ pc[u] = "append"
        BY <1>2
    <2>2. UNCHANGED csv
        BY <1>6, <2>1 DEF Appending
    <2> QED BY <2>1, <2>2 DEF DataInv, Seen, Target
<1>10. ASSUME NEW u \in Tasks, pc'[u] \in Appending
       PROVE  /\ appends'[u] = 1 => LastIs(csv["block_phased"].lines, u)'
              /\ appends'[u] >= 2 => Pair(csv["block_phased"].lines, u)'
              /\ appends'[u] = 3 => LastIs(csv["file_reads"].lines, u)'
    <2>1. u # t /\ pc[u] \in Appending
        BY <1>2, <1>10 DEF Appending
    <2>2. UNCHANGED csv
        BY <1>6, <2>1
    <2> QED BY <2>1, <2>2 DEF DataInv, Written, LastIs, Pair, RowOf
<1>11. ASSUME NEW u \in Tasks, pc'[u] = "done" \/ (pc'[u] = "stop" /\ ~raised'[u])
       PROVE  \A f \in Csvs : Pair(csv[f].lines, u)'
    <2>1. u # t
        BY <1>2, <1>3, <1>11
    <2>2. pc[u] = "done" \/ (pc[u] = "stop" /\ ~raised[u])
        BY <1>2, <1>3, <1>11, <2>1
    <2> QED BY <1>1, <2>2 DEF DataInv, Written
<1> QED BY <1>1, <1>4, <1>5, <1>8, <1>9, <1>10, <1>11 DEF DataInv, Written

\* A call that is made to its end: what it wrote is the last line, next to
\* the line of the call before it in the same file.
LEMMA DataAppend ==
    ASSUME Holding, DataInv, NEW t \in Tasks, AppendRows(t)
    PROVE  DataInv'
<1>a. DataType
    BY DEF DataInv
<1>1. /\ pc[t] = "append"
      /\ pc' = [pc EXCEPT ![t] = IF appends[t] + 1 = 4 THEN "stop" ELSE "look"]
      /\ appends' = [appends EXCEPT ![t] = appends[t] + 1]
      /\ AddLines(t, Headed(t, <<Rows(t, TRUE)>>))
      /\ UNCHANGED <<runs, run_id, exists, raised>>
    BY CallsAre, <1>a DEF AppendRows, Step, DataType
<1>2. appends[t] \in 0..3
    BY <1>1 DEF DataInv, CallsMade, Appending
<1>3. \A u \in Tasks \ {t} : pc'[u] = pc[u] /\ appends'[u] = appends[u]
    BY <1>1, <1>a DEF Holding, DataType
<1>4. /\ pc'[t] = IF appends[t] + 1 = 4 THEN "stop" ELSE "look"
      /\ appends'[t] = appends[t] + 1
    BY <1>1, <1>a DEF Holding, DataType
<1>5. /\ csv' \in [Csvs -> [there : BOOLEAN, lines : Seq(Lines)]]
      /\ Headers' /\ NoneTwice' /\ RunsOfLines'
      /\ \A f \in Csvs, u \in Tasks :
           Pair(csv[f].lines, u) => Pair(csv[f].lines, u)'
      /\ \A u \in Tasks \ {t} : pc[u] \in Early => OwnLines(u)'
    BY <1>1, <1>3, DataGrows DEF Writes
<1>6. PICK c \in 1..4, f \in Csvs, row \in RowLines :
          /\ c = appends[t] + 1 /\ Calls[c] = <<f, row.phase>> /\ f = Calls[c][1]
          /\ RowOf(row, t) /\ row.whole = TRUE
          /\ \A g \in Csvs \ {f} : csv'[g] = csv[g]
          /\ Grows(csv[f].lines, csv'[f].lines, row)
    BY <1>1, RowWritten, ZenonT(60)
<1>s. PICK s \in Seq(Lines) : s = csv[f].lines
    BY <1>a DEF DataType
<1>r. PICK r \in Seq(Lines) : r = csv'[f].lines
    BY <1>5
<1>g. Grows(s, r, row)
    BY <1>6, <1>s, <1>r
<1>7. DataType'
    BY <1>1, <1>2, <1>5, <1>a DEF DataType
<1>8. RunsMade'
    BY <1>1, <1>3, <1>4, <1>5 DEF DataInv, RunsMade, RunsOfLines, Busy, Using
<1>9. ASSUME NEW u \in Tasks, u # t, pc[u] \in Appending PROVE FALSE
    BY <1>1, <1>9 DEF Holding, Appending
<1>10. OwnLines(t)'
    <2>1. OwnLines(t)
        BY <1>1 DEF DataInv, CallsMade, Appending
    <2>2. ASSUME NEW g \in Csvs, NEW k \in DOMAIN csv'[g].lines,
                 Of(csv'[g].lines[k], InstanceOf[t], run_id[t])
          PROVE  /\ csv'[g].lines[k].whole
                 /\ \E x \in 1 .. appends[t] + 1 :
                        Calls[x] = <<g, csv'[g].lines[k].phase>>
        <3>1. CASE k \in DOMAIN csv[g].lines /\ csv'[g].lines[k] = csv[g].lines[k]
            <4>1. /\ csv'[g].lines[k].whole
                  /\ \E x \in 1 .. appends[t] :
                         Calls[x] = <<g, csv'[g].lines[k].phase>>
                BY <2>1, <2>2, <3>1 DEF OwnLines
            <4>2. \A x \in 1 .. appends[t] : x \in 1 .. appends[t] + 1
                BY <1>2
            <4> QED BY <4>1, <4>2
        <3>2. CASE g = f /\ csv'[g].lines[k] = row
            BY <1>2, <1>6, <3>2
        <3>3. csv'[g].lines[k] # Header
            BY <2>2 DEF Of, Header
        <3>4. g # f => k \in DOMAIN csv[g].lines /\ csv'[g].lines[k] = csv[g].lines[k]
            BY <1>6, <2>2
        <3>5. g = f => \/ k \in DOMAIN csv[g].lines /\ csv'[g].lines[k] = csv[g].lines[k]
                       \/ csv'[g].lines[k] = row
            BY <1>g, <1>s, <1>r, <2>2, <3>3 DEF Grows
        <3> QED BY <3>1, <3>2, <3>4, <3>5
    <2> QED BY <1>1, <1>4, <2>2 DEF OwnLines
<1>11. CallsMade'
    BY <1>2, <1>3, <1>4, <1>5, <1>9, <1>10
    DEF DataInv, CallsMade, Early, Appending, Busy, Using
<1>12. Seen'
    BY <1>3, <1>4, <1>9 DEF Seen, Appending
<1>13. LastIs(csv'[f].lines, t)
    BY <1>6, <1>g, <1>r DEF LastIs, Grows
<1>14. LastIs(s, t) => Pair(r, t)
    <2> SUFFICES ASSUME LastIs(s, t) PROVE Pair(r, t)
        OBVIOUS
    <2>1. PICK n \in Nat : n = Len(s)
        BY LenProperties
    <2>2. n >= 1 /\ n \in DOMAIN s /\ Len(r) = n + 1 /\ DOMAIN r = 1 .. n + 1
        BY <1>g, <2>1, LenProperties, EmptySeq DEF LastIs, Grows
    <2>3. r[n] = s[n] /\ r[n + 1] = row /\ RowOf(s[n], t)
        BY <1>g, <2>1, <2>2 DEF LastIs, Grows
    <2>4. n \in DOMAIN r /\ n + 1 \in DOMAIN r
        BY <2>1, <2>2
    <2>5. RowOf(r[n], t) /\ RowOf(r[n + 1], t)
        BY <1>6, <2>3
    <2> QED BY <2>4, <2>5 DEF Pair
<1>15. appends[t] = 0 \/ appends[t] = 1 \/ appends[t] = 2 \/ appends[t] = 3
    BY <1>2
<1>16. /\ appends[t] \in {0, 1} => f = "block_phased"
       /\ appends[t] \in {2, 3} => f = "file_reads"
    BY <1>6, <1>15, CallsAre
<1>17. /\ appends[t] \in {1} => LastIs(csv["block_phased"].lines, t)
       /\ appends[t] \in {2, 3} => Pair(csv["block_phased"].lines, t)
       /\ appends[t] \in {3} => LastIs(csv["file_reads"].lines, t)
    BY <1>1, <1>15 DEF DataInv, Written, Appending
<1>18. /\ appends[t] = 0 => LastIs(csv["block_phased"].lines, t)'
       /\ appends[t] # 0 => Pair(csv["block_phased"].lines, t)'
       /\ appends[t] = 2 => LastIs(csv["file_reads"].lines, t)'
       /\ appends[t] = 3 => Pair(csv["file_reads"].lines, t)'
    <2>1. \A g \in Csvs :
              /\ LastIs(csv[g].lines, t)' <=> LastIs(csv'[g].lines, t)
              /\ Pair(csv[g].lines, t)' <=> Pair(csv'[g].lines, t)
        BY <1>1 DEF LastIs, Pair, RowOf
    <2>2. "block_phased" \in Csvs /\ "file_reads" \in Csvs
        BY DEF Csvs
    <2>3. CASE appends[t] = 0
        BY <1>13, <1>16, <2>1, <2>2, <2>3
    <2>4. CASE appends[t] = 1
        BY <1>14, <1>16, <1>17, <1>s, <1>r, <2>1, <2>2, <2>4
    <2>5. CASE appends[t] = 2
        BY <1>5, <1>13, <1>16, <1>17, <2>1, <2>2, <2>5
    <2>6. CASE appends[t] = 3
        BY <1>5, <1>14, <1>16, <1>17, <1>s, <1>r, <2>1, <2>2, <2>6
    <2> QED BY <1>15, <2>3, <2>4, <2>5, <2>6
<1>19. ASSUME NEW u \in Tasks, pc'[u] \in Appending
       PROVE  /\ appends'[u] = 1 => LastIs(csv["block_phased"].lines, u)'
              /\ appends'[u] >= 2 => Pair(csv["block_phased"].lines, u)'
              /\ appends'[u] = 3 => LastIs(csv["file_reads"].lines, u)'
    <2>1. u = t
        BY <1>3, <1>9, <1>19
    <2> QED BY <1>4, <1>15, <1>18, <2>1
<1>20. ASSUME NEW u \in Tasks, pc'[u] = "done" \/ (pc'[u] = "stop" /\ ~raised'[u])
       PROVE  \A g \in Csvs : Pair(csv[g].lines, u)'
    <2>1. CASE u = t
        <3>1. appends[t] = 3
            BY <1>4, <1>15, <1>20, <2>1
        <3> QED BY <1>18, <2>1, <3>1 DEF Csvs
    <2>2. CASE u # t
        <3>1. pc[u] = "done" \/ (pc[u] = "stop" /\ ~raised[u])
            BY <1>1, <1>3, <1>20, <2>2
        <3> QED BY <1>5, <3>1 DEF DataInv, Written
    <2> QED BY <2>1, <2>2
<1> QED BY <1>5, <1>7, <1>8, <1>11, <1>12, <1>19, <1>20 DEF DataInv, Written

LEMMA DataInit == Init => DataInv
<1> SUFFICES ASSUME Init PROVE DataInv
    OBVIOUS
<1>1. DataType
    BY FS_EmptySet, EmptySeq DEF Init, DataType
<1>2. \A f \in Csvs : csv[f].lines = <<>> /\ csv[f].there = FALSE
    BY DEF Init
<1>3. \A f \in Csvs : DOMAIN csv[f].lines = {}
    BY <1>2
<1>4. RunsMade
    BY <1>3 DEF Init, RunsMade, RunsOfLines, Busy, Making, Using
<1>5. CallsMade
    BY <1>3 DEF Init, CallsMade, Early, Appending, Busy, Making, Using
<1>6. Headers /\ NoneTwice
    BY <1>2, <1>3 DEF Headers, NoneTwice
<1>7. Seen /\ Written
    BY DEF Init, Seen, Written, Appending
<1> QED BY <1>1, <1>4, <1>5, <1>6, <1>7 DEF DataInv

LEMMA DataNext == Holding /\ DataInv /\ [Next]_vars => DataInv'
<1> SUFFICES ASSUME Holding, DataInv, [Next]_vars PROVE DataInv'
    OBVIOUS
<1>1. ASSUME NEW t \in Tasks,
             \/ Prepare(t) \/ Make(t) \/ StartPrepareVm(t)
             \/ Clone(t) \/ CopyActive(t) \/ StartSnapshotVm(t) \/ Warmup(t)
             \/ CreateSnapshot(t) \/ ReplaceUpper(t) \/ ReplaceActive(t)
             \/ Mark(t) \/ Export(t) \/ CopyUpper(t) \/ Activate(t) \/ Load(t)
             \/ RunAgent(t)
      PROVE  DataInv'
    <2>1. /\ pc[t] \in Early
          /\ \E p \in Early \cup {"failed"} : pc' = [pc EXCEPT ![t] = p]
          /\ UNCHANGED <<csv, runs, locals>>
        BY <1>1 DEF Prepare, Make, StartPrepareVm, Clone, CopyActive,
            StartSnapshotVm, Warmup, CreateSnapshot, ReplaceUpper,
            ReplaceActive, Mark, Export, CopyUpper, Activate, Load, RunAgent,
            Step, Early, Busy, Making, Using
    <2>2. PICK p \in Early \cup {"failed"} : pc' = [pc EXCEPT ![t] = p]
        BY <2>1
    <2>3. /\ p \in Busy \cup Ends /\ p \notin {"mkdir", "append", "stop", "done"}
          /\ pc[t] \in Busy \ {"mkdir"}
        BY <2>1 DEF Early, Busy, Ends, Making, Using
    <2> QED BY <2>1, <2>2, <2>3, DataQuiet
<1>2. ASSUME NEW t \in Tasks, AcquireData(t) PROVE DataInv'
    <2>1. /\ pc[t] = "collect" /\ pc' = [pc EXCEPT ![t] = "look"]
          /\ UNCHANGED <<csv, runs, locals>>
        BY <1>2 DEF AcquireData, TakeData, Step
    <2>2. pc[t] \in Early /\ "look" \in Busy /\ pc[t] \in Busy \ {"mkdir"}
        BY <2>1 DEF Early, Busy, Using
    <2> QED BY <2>1, <2>2, DataQuiet
<1>3. ASSUME NEW t \in Tasks, Stop(t) PROVE DataInv'
    <2>1. /\ pc[t] = "stop" /\ UNCHANGED <<csv, runs, locals>>
          /\ pc' = [pc EXCEPT ![t] = IF raised[t] THEN "failed" ELSE "done"]
        BY <1>3 DEF Stop, Step
    <2>2. PICK p \in {"failed", "done"} :
              pc' = [pc EXCEPT ![t] = p] /\ (p = "done" => ~raised[t])
        BY <2>1
    <2>3. p = "done" => \A f \in Csvs : Pair(csv[f].lines, t)
        BY <2>1, <2>2 DEF DataInv, Written
    <2>4. p \in Ends /\ p \notin Busy /\ p \notin Early \cup {"look"}
        BY DEF Ends, Busy, Early, Making, Using
    <2> QED BY <2>1, <2>2, <2>3, <2>4, DataQuiet
<1>4. ASSUME NEW t \in Tasks, FailEarly(t) PROVE DataInv'
    <2>1. /\ pc' = [pc EXCEPT ![t] = "failed"]
          /\ UNCHANGED <<csv, runs, locals>>
        BY <1>4 DEF FailEarly
    <2>2. "failed" \in Ends /\ "failed" \notin Busy /\ "failed" \notin Early
        BY DEF Ends, Busy, Early, Making, Using
    <2> QED BY <2>1, <2>2, DataQuiet
<1>5. ASSUME NEW t \in Tasks, FailLate(t) PROVE DataInv'
    <2>1. /\ pc[t] \in Busy \ {"mkdir"} /\ pc' = [pc EXCEPT ![t] = "stop"]
          /\ CutCsv(t) /\ raised' = [raised EXCEPT ![t] = TRUE]
          /\ UNCHANGED <<runs, run_id, appends, exists>>
        BY <1>5 DEF FailLate, Busy, Using
    <2> QED BY <2>1, DataLeaves
<1>6. ASSUME NEW t \in Tasks, Kill(t) PROVE DataInv'
    <2>1. /\ pc' = [pc EXCEPT ![t] = "killed"]
          /\ CutCsv(t) /\ UNCHANGED <<runs, run_id, appends, exists, raised>>
        BY <1>6 DEF Kill, locals
    <2> QED BY <2>1, DataLeaves
<1>7. ASSUME UNCHANGED <<csv, runs, pc, locals>> PROVE DataInv'
    <2>1. UNCHANGED <<csv, runs, pc, run_id, appends, exists, raised>>
        BY <1>7 DEF locals
    <2>2. DataType' /\ RunsMade' /\ Headers' /\ NoneTwice'
        BY <2>1 DEF DataInv, DataType, RunsMade, RunsOfLines, Headers,
            NoneTwice
    <2>o. \A t \in Tasks : OwnLines(t)' <=> OwnLines(t)
        BY <2>1 DEF OwnLines
    <2>3. CallsMade' /\ Seen'
        BY <2>1, <2>o DEF DataInv, CallsMade, Seen, Target
    <2>4. Written'
        BY <2>1 DEF DataInv, Written, Pair, LastIs, RowOf
    <2> QED BY <2>2, <2>3, <2>4 DEF DataInv
<1>8. ASSUME NEW t \in Tasks, VmWrites(t) PROVE DataInv'
    BY <1>7, <1>8 DEF VmWrites
<1>9. CASE UNCHANGED vars
    BY <1>7, <1>9 DEF vars
<1> QED
    BY <1>1, <1>2, <1>3, <1>4, <1>5, <1>6, <1>8, <1>9, DataAcquire,
       DataMakeRunDir, DataLook, DataAppend DEF Next, TaskStep, OpenEnded, Over

\* data/*.csv starts with its only header, holds no call twice, and has
\* the rows of a task that ended well whole and together, whoever failed or
\* was killed in the middle of append_rows (run_instance of run_fc_task.py,
\* under file_lock("data")).
THEOREM DataIsWellFormed == Spec => []DataWellFormed
<1>1. Init => Holding /\ DataInv
    BY HoldingInit, DataInit
<1>2. Holding /\ DataInv /\ [Next]_vars => (Holding /\ DataInv)'
    BY HoldingNext, DataNext
<1>3. DataInv => DataWellFormed
    <2> SUFFICES ASSUME DataInv PROVE DataWellFormed
        OBVIOUS
    <2>1. \A f \in Csvs :
              /\ csv[f].lines # <<>> => csv[f].lines[1] = Header
              /\ \A j, k \in DOMAIN csv[f].lines :
                     j # k => csv[f].lines[j] # csv[f].lines[k]
        BY DEF DataInv, Headers, NoneTwice
    <2>2. ASSUME NEW t \in Tasks, NEW f \in Csvs, pc[t] = "done"
          PROVE  \E k \in DOMAIN csv[f].lines :
                     /\ k + 1 \in DOMAIN csv[f].lines
                     /\ \A j \in {k, k + 1} :
                          LET line == csv[f].lines[j] IN
                          /\ line.kind = "rows" /\ line.whole
                          /\ line.task = InstanceOf[t] /\ line.run = run_id[t]
        <3>1. Pair(csv[f].lines, t)
            BY <2>2 DEF DataInv, Written
        <3> QED BY <3>1 DEF Pair, RowOf, Of
    <2> QED BY <2>1, <2>2 DEF DataWellFormed
<1> QED BY <1>1, <1>2, <1>3, PTL DEF Spec

-----------------------------------------------------------------------------
(***************************************************************************)
(* The experiment scripts.                                                 *)
(***************************************************************************)
Local == {"eager_local", "lazy_local"}

LEMMA PositionIs ==
    ASSUME NEW k \in 1..Len(Phases),
           \A j \in 1..Len(Phases) :
               Phases[j] = Phases[k] => j = k
    PROVE  Position(Phases[k]) = k
BY DEF Position

\* The order of the phases that the five scripts have in common.
PhaseOrder ==
    /\ Phases[1] \in IF Script \in Local THEN {"netns"} ELSE {"download"}
    /\ Script \notin Local =>
          After("download") \in
              IF Script = "lazy_remote_dedup" THEN {"proxy"} ELSE {"netns"}
    /\ Script = "lazy_remote_dedup" => After("proxy") = "netns"
    /\ After("netns") = "firecracker"
    /\ After("firecracker") =
          IF UsesUffd THEN "uffd" ELSE "load"
    /\ UsesUffd => After("uffd") = "load"
    /\ After("load") = "workload"
    /\ After("workload") \in {"stop_uffd", "record"}
    /\ After("workload") = "stop_uffd" => UsesUffd
    /\ UsesUffd => After("stop_uffd") = "record"
    /\ After("record") \in {"stats", "finally"}

LEMMA PhasesInOrder == PhaseOrder
<1> DEFINE ph == Phases
<1>1. CASE Script = "eager_local"
    <2>1. ph = <<"netns", "firecracker", "load", "workload", "record">>
        BY <1>1 DEF Phases, eager_local
    <2>2. /\ Len(ph) = 5
          /\ ph[1] = "netns" /\ ph[2] = "firecracker"
          /\ ph[3] = "load" /\ ph[4] = "workload"
          /\ ph[5] = "record"
        BY <2>1
    <2> HIDE DEF ph
    <2>3. \A k \in 1..5 : Position(ph[k]) = k
        BY <2>2, PositionIs DEF ph
    <2>4. UsesUffd <=> FALSE
        BY <2>2 DEF ph, UsesUffd
    <2> QED
        BY <1>1, <2>2, <2>3, <2>4 DEF ph, PhaseOrder, Local, After
<1>2. CASE Script = "eager_remote"
    <2>1. ph = <<"download", "netns", "firecracker", "load", "workload", "record">>
        BY <1>2 DEF Phases, eager_remote
    <2>2. /\ Len(ph) = 6
          /\ ph[1] = "download" /\ ph[2] = "netns"
          /\ ph[3] = "firecracker" /\ ph[4] = "load"
          /\ ph[5] = "workload" /\ ph[6] = "record"
        BY <2>1
    <2> HIDE DEF ph
    <2>3. \A k \in 1..6 : Position(ph[k]) = k
        BY <2>2, PositionIs DEF ph
    <2>4. UsesUffd <=> FALSE
        BY <2>2 DEF ph, UsesUffd
    <2> QED
        BY <1>2, <2>2, <2>3, <2>4 DEF ph, PhaseOrder, Local, After
<1>3. CASE Script = "lazy_local"
    <2>1. ph = <<"netns", "firecracker", "uffd", "load", "workload", "stop_uffd",
              "record">>
        BY <1>3 DEF Phases, lazy_local
    <2>2. /\ Len(ph) = 7
          /\ ph[1] = "netns" /\ ph[2] = "firecracker"
          /\ ph[3] = "uffd" /\ ph[4] = "load"
          /\ ph[5] = "workload" /\ ph[6] = "stop_uffd"
          /\ ph[7] = "record"
        BY <2>1
    <2> HIDE DEF ph
    <2>3. \A k \in 1..7 : Position(ph[k]) = k
        BY <2>2, PositionIs DEF ph
    <2>4. UsesUffd <=> TRUE
        BY <2>2 DEF ph, UsesUffd
    <2> QED
        BY <1>3, <2>2, <2>3, <2>4 DEF ph, PhaseOrder, Local, After
<1>4. CASE Script = "lazy_remote"
    <2>1. ph = <<"download", "netns", "firecracker", "uffd", "load", "workload",
              "stop_uffd", "record">>
        BY <1>4 DEF Phases, lazy_remote
    <2>2. /\ Len(ph) = 8
          /\ ph[1] = "download" /\ ph[2] = "netns"
          /\ ph[3] = "firecracker" /\ ph[4] = "uffd"
          /\ ph[5] = "load" /\ ph[6] = "workload"
          /\ ph[7] = "stop_uffd" /\ ph[8] = "record"
        BY <2>1
    <2> HIDE DEF ph
    <2>3. \A k \in 1..8 : Position(ph[k]) = k
        BY <2>2, PositionIs DEF ph
    <2>4. UsesUffd <=> TRUE
        BY <2>2 DEF ph, UsesUffd
    <2> QED
        BY <1>4, <2>2, <2>3, <2>4 DEF ph, PhaseOrder, Local, After
<1>5. CASE Script = "lazy_remote_dedup"
    <2>1. ph = <<"download", "proxy", "netns", "firecracker", "uffd", "load",
              "workload", "stop_uffd", "record", "stats">>
        BY <1>5 DEF Phases, lazy_remote_dedup
    <2>2. /\ Len(ph) = 10
          /\ ph[1] = "download" /\ ph[2] = "proxy"
          /\ ph[3] = "netns" /\ ph[4] = "firecracker"
          /\ ph[5] = "uffd" /\ ph[6] = "load"
          /\ ph[7] = "workload" /\ ph[8] = "stop_uffd"
          /\ ph[9] = "record" /\ ph[10] = "stats"
        BY <2>1
    <2> HIDE DEF ph
    <2>3. \A k \in 1..10 : Position(ph[k]) = k
        BY <2>2, PositionIs DEF ph
    <2>4. UsesUffd <=> TRUE
        BY <2>2 DEF ph, UsesUffd
    <2> QED
        BY <1>5, <2>2, <2>3, <2>4 DEF ph, PhaseOrder, Local, After
<1> QED
    BY <1>1, <1>2, <1>3, <1>4, <1>5, RunAssumption DEF Scripts

(***************************************************************************)
(* The inductive invariant.  Opening, Building, ...: the phases in order.  *)
(***************************************************************************)
Opening == {"download", "proxy"}
Building == {"netns", "firecracker"}
Serving == {"uffd", "wait_sock"}
Loading == {"load", "workload", "stop_uffd", "record", "stats"}
Cleaning == {"finally", "cleanup_uffd", "cleanup_proxy", "cleanup_netns"}

\* Processes and history are of runs that were; what has yet to bind its
\* socket is of the present run, for StartRun waits until the others have.
HostTyped ==
    /\ run \in Nat /\ index \in Sandboxes
    /\ peer \in [Sandboxes -> Nat] /\ backend \in [Sandboxes -> Nat]
    /\ api_sock \in [Sandboxes -> Nat] /\ uffd_sock \in [Sandboxes -> Nat]
    /\ firecrackers \subseteq (1..run) \X Sandboxes
    /\ handlers \subseteq (1..run) \X Sandboxes
    /\ proxies \subseteq 1..run /\ started \subseteq 1..run
    /\ \A b \in booting :
          \E kind \in {"firecracker", "handler"}, i \in Sandboxes :
              b = <<kind, <<run, i>>>>

\* A script is in a phase that it has, and a run counts as started when its
\* last process was.
PhaseFits ==
    /\ phase \in Opening \cup Building \cup Serving \cup Loading \cup Cleaning
                 \cup {"wait_proxy", "idle"}
    /\ phase # "idle" => run > 0
    /\ phase = "download" => Script \notin Local
    /\ phase \in {"proxy", "wait_proxy"} => Script = "lazy_remote_dedup"
    /\ phase \in {"uffd", "wait_sock", "stop_uffd"} => UsesUffd
    /\ run \in started => phase \in Loading \cup Cleaning \cup {"idle"}

\* From its unlink on, a socket file is absent or of this run.
ApiUnlinked(i) ==
    \/ phase = "firecracker" /\ i < index
    \/ phase \in Serving \cup Loading
UffdUnlinked(i) ==
    \/ phase = "uffd" /\ i < index
    \/ phase = "wait_sock" /\ i <= index
    \/ phase \in Loading
SocketsOwn ==
    /\ \A i \in Sandboxes : ApiUnlinked(i) => api_sock[i] \in {0, run}
    /\ UsesUffd =>
          \A i \in Sandboxes : UffdUnlinked(i) => uffd_sock[i] \in {0, run}

NoFirecrackers == \A i \in Sandboxes : <<run, i>> \notin firecrackers
NoHandlers == \A i \in Sandboxes : <<run, i>> \notin handlers

\* What the script has started is in its locals, or it has stopped it, once
\* everything is started; before that a list may not have been assigned.
LocalsKnow ==
    /\ phase \in Opening => run \notin proxies
    /\ phase \in Opening \cup Building \cup {"wait_proxy"} => NoHandlers
    /\ ~UsesUffd => NoHandlers
    /\ phase \in Building \cup Serving \cup Loading =>
          (run \in proxies => proxy_proc)
    /\ phase \in Serving \cup Loading => netns /\ fc_procs
    /\ phase \in Loading => uffd_procs \/ NoHandlers
    /\ run \in started /\ phase \in Cleaning =>
          /\ netns /\ fc_procs /\ (uffd_procs \/ NoHandlers)
          /\ run \in proxies => proxy_proc

\* How far the finally block has come.
CleanedUp ==
    run \in started =>
        /\ phase \in {"cleanup_uffd", "cleanup_proxy", "cleanup_netns"} =>
              NoFirecrackers
        /\ phase \in {"cleanup_proxy", "cleanup_netns"} => NoHandlers
        /\ phase = "cleanup_netns" => run \notin proxies

SandboxInv ==
    /\ HostTyped /\ PhaseFits /\ SocketsOwn /\ LocalsKnow /\ CleanedUp
    /\ OwnEndpoints /\ StartedRunLeavesNothing

LEMMA NobodyIs ==
    /\ Nobody \in [Sandboxes -> Nat]
    /\ \A i \in Sandboxes : Nobody[i] = 0
BY DEF Nobody

\* The start loops count round.
LEMMA IndexMoves ==
    ASSUME index \in Sandboxes
    PROVE  /\ (index + 1) % Count \in Sandboxes
           /\ index + 1 # Count => (index + 1) % Count = index + 1
           /\ index + 1 = Count =>
                 (index + 1) % Count = 0 /\ \A i \in Sandboxes : i <= index
BY RunAssumption DEF Sandboxes

LEMMA SandboxInitially == ScriptInit => SandboxInv
<1> SUFFICES ASSUME ScriptInit PROVE SandboxInv
    OBVIOUS
<1>1. 0 \in Sandboxes
    BY RunAssumption DEF Sandboxes
<1> QED
    BY <1>1, NobodyIs
    DEF ScriptInit, SandboxInv, HostTyped, PhaseFits, SocketsOwn,
        LocalsKnow, CleanedUp, ApiUnlinked, UffdUnlinked, NoFirecrackers,
        NoHandlers, Opening, Building, Serving, Loading, Cleaning,
        OwnEndpoints, StartedRunLeavesNothing

\* Processes come and go, but a socket is bound by a process of this run.
LEMMA ProcessesMove ==
    ASSUME SandboxInv,
           UNCHANGED <<run, phase, index, netns, fc_procs, uffd_procs, proxy_proc,
                       peer, backend, started, killed, namespaces>>,
           firecrackers' \subseteq firecrackers, handlers' \subseteq handlers,
           proxies' \subseteq proxies, booting' \subseteq booting,
           api_sock' \in [Sandboxes -> Nat], uffd_sock' \in [Sandboxes -> Nat],
           api_sock' = api_sock \/ ~NoFirecrackers,
           uffd_sock' = uffd_sock \/ ~NoHandlers,
           \A i \in Sandboxes : api_sock'[i] \in {api_sock[i], run},
           \A i \in Sandboxes : uffd_sock'[i] \in {uffd_sock[i], run}
    PROVE  SandboxInv'
<1>1. HostTyped'
    BY DEF SandboxInv, HostTyped
<1>2. PhaseFits'
    BY DEF SandboxInv, PhaseFits
<1>3. SocketsOwn'
    BY DEF SandboxInv, SocketsOwn, ApiUnlinked, UffdUnlinked
<1>4. (NoFirecrackers => NoFirecrackers') /\ (NoHandlers => NoHandlers')
    BY DEF NoFirecrackers, NoHandlers
<1>5. LocalsKnow'
    BY <1>4 DEF SandboxInv, LocalsKnow
<1>6. CleanedUp'
    BY <1>4 DEF SandboxInv, CleanedUp
<1>7. OwnEndpoints'
    BY DEF SandboxInv, OwnEndpoints
<1>8. StartedRunLeavesNothing'
    BY DEF SandboxInv, StartedRunLeavesNothing, Left, Traces,
        NoFirecrackers, NoHandlers
<1> QED BY <1>1, <1>2, <1>3, <1>5, <1>6, <1>7, <1>8 DEF SandboxInv

LEMMA SandboxNext ==
    ASSUME SandboxInv, [ScriptNext]_(scriptVars)
    PROVE  SandboxInv'
<1> USE PhasesInOrder, NobodyIs, IndexMoves
    DEF PhaseOrder, SandboxInv, HostTyped, PhaseFits, SocketsOwn,
        LocalsKnow, CleanedUp, ApiUnlinked, UffdUnlinked, NoFirecrackers,
        NoHandlers, Opening, Building, Serving, Loading, Cleaning,
        OwnEndpoints, StartedRunLeavesNothing, Left, Traces, lists, tasks,
        history, host, Raise, StopOwn
<1>1. CASE StartRun
    <2>1. /\ run' = run + 1 /\ run' \notin proxies /\ run' \notin started
          /\ \A i \in Sandboxes : <<run', i>> \notin handlers
        BY <1>1 DEF StartRun
    <2>2. HostTyped'
        <3>1. /\ index' = 0 /\ 0 \in Sandboxes /\ 1..run \subseteq 1..run'
              /\ booting' = {} /\ peer' = Nobody
              /\ backend' = Nobody
              /\ UNCHANGED <<firecrackers, handlers, proxies, started,
                             api_sock, uffd_sock>>
            BY <1>1, <2>1, RunAssumption DEF StartRun, Sandboxes
        <3> QED BY <2>1, <3>1
    <2>3. /\ phase' \in {"download", "netns"}
          /\ phase' = "download" => Script \notin Local
          /\ UNCHANGED <<proxies, started, handlers>>
          /\ peer' = Nobody /\ backend' = Nobody
        BY <1>1 DEF StartRun
    <2> QED BY <2>1, <2>2, <2>3
<1>2. CASE DownloadSnapshot
    BY <1>2 DEF DownloadSnapshot
<1>3. CASE SpawnProxy
    BY <1>3 DEF SpawnProxy
<1>4. CASE ProxyAnswers
    BY <1>4 DEF ProxyAnswers
<1>5. CASE ProxyTimeout
    BY <1>5 DEF ProxyTimeout
<1>6. CASE SetupFails
    BY <1>6 DEF SetupFails
<1>7. CASE StartFirecrackerFails
    BY <1>7 DEF StartFirecrackerFails
<1>8. CASE SockTimeout
    BY <1>8 DEF SockTimeout
<1>9. CASE SetupNetns
    <2>1. /\ phase = "netns" /\ phase' \in Building /\ index' \in Sandboxes
          /\ phase' = "firecracker" => index' = 0
        BY <1>9 DEF SetupNetns
    <2>2. UNCHANGED <<run, peer, backend, started, firecrackers, handlers,
                      proxies, proxy_proc, booting, api_sock, uffd_sock>>
        BY <1>9 DEF SetupNetns
    <2>3. \A i \in Sandboxes : ~(i < 0)
        BY DEF Sandboxes
    <2>4. SocketsOwn'
        <3>1. \A i \in Sandboxes : ~ApiUnlinked(i)' /\ ~UffdUnlinked(i)'
            BY <2>1, <2>3
        <3> QED BY <3>1
    <2> QED BY <2>1, <2>2, <2>4
<1>10. CASE StartFirecracker
    <2>1. /\ phase = "firecracker" /\ index' \in Sandboxes /\ run \in 1..run
          /\ api_sock' = [api_sock EXCEPT ![index] = 0]
          /\ firecrackers' = firecrackers \union {<<run, index>>}
          /\ booting' = booting \union {<<"firecracker", <<run, index>>>>}
          /\ UNCHANGED <<run, peer, backend, handlers, proxies, proxy_proc,
                         uffd_sock>>
        BY <1>10 DEF StartFirecracker
    <2>2. CASE index + 1 = Count
        <3>1. /\ phase' = IF UsesUffd THEN "uffd" ELSE "load"
              /\ started' \in {started, started \union {run}}
              /\ UsesUffd => started' = started
              /\ index' = 0 /\ netns' = TRUE /\ fc_procs' = TRUE
            BY <1>10, <2>2 DEF StartFirecracker
        <3>4. \A i \in Sandboxes : i < index \/ i = index
            BY <2>2 DEF Sandboxes
        <3>2. HostTyped'
            BY <2>1, <3>1
        <3>3. SocketsOwn'
            <4>1. \A i \in Sandboxes : api_sock'[i] \in {0, run}
                BY <2>1, <3>4
            <4>2. \A i \in Sandboxes : ~(i < 0)
                BY DEF Sandboxes
            <4> QED BY <2>1, <3>1, <4>1, <4>2
        <3> QED BY <2>1, <3>1, <3>2, <3>3
    <2>3. CASE index + 1 # Count
        <3>1. /\ phase' = "firecracker" /\ started' = started
              /\ index' = index + 1
              /\ \A i \in Sandboxes : i < index' => i < index \/ i = index
            BY <1>10, <2>3 DEF StartFirecracker, Sandboxes
        <3>2. HostTyped'
            BY <2>1, <3>1
        <3>3. SocketsOwn'
            BY <2>1, <3>1
        <3> QED BY <2>1, <3>1, <3>2, <3>3
    <2> QED BY <2>2, <2>3
<1>11. CASE SpawnUffd
    <2>1. /\ phase = "uffd" /\ phase' = "wait_sock" /\ run \in 1..run
          /\ uffd_sock' = [uffd_sock EXCEPT ![index] = 0]
          /\ handlers' = handlers \union {<<run, index>>}
          /\ booting' = booting \union {<<"handler", <<run, index>>>>}
          /\ UNCHANGED <<run, index, peer, backend, firecrackers, proxies,
                         started, netns, fc_procs, uffd_procs, proxy_proc,
                         api_sock>>
          /\ \A i \in Sandboxes : i <= index => i < index \/ i = index
        BY <1>11 DEF SpawnUffd, Sandboxes
    <2>2. HostTyped'
        BY <2>1
    <2>3. SocketsOwn'
        BY <2>1
    <2> QED BY <2>1, <2>2, <2>3
<1>12. CASE SockAppears
    <2>1. /\ phase = "wait_sock" /\ index' \in Sandboxes /\ run \in 1..run
          /\ UNCHANGED <<run, peer, backend, firecrackers, handlers, proxies,
                         booting, netns, fc_procs, proxy_proc, api_sock,
                         uffd_sock>>
        BY <1>12 DEF SockAppears
    <2>2. CASE index + 1 = Count
        <3>1. /\ phase' = "load" /\ started' = started \union {run}
              /\ uffd_procs' = TRUE /\ \A i \in Sandboxes : i <= index
            BY <1>12, <2>2 DEF SockAppears
        <3> QED BY <2>1, <3>1
    <2>3. CASE index + 1 # Count
        <3>1. /\ phase' = "uffd" /\ started' = started /\ index' = index + 1
              /\ \A i \in Sandboxes : i < index' => i <= index
            BY <1>12, <2>3 DEF SockAppears, Sandboxes
        <3> QED BY <2>1, <3>1
    <2> QED BY <2>2, <2>3
<1>13. CASE Submit
    BY <1>13 DEF Submit, Pooled
<1>14. CASE PoolEnds
    BY <1>14 DEF PoolEnds, Pooled
<1>15. CASE StopUffd
    BY <1>15 DEF StopUffd
<1>16. CASE Record
    BY <1>16 DEF Record
<1>17. CASE RecordFails
    BY <1>17 DEF RecordFails
<1>18. CASE ReadStats
    BY <1>18 DEF ReadStats
<1>19. CASE CleanupFirecrackers
    BY <1>19 DEF CleanupFirecrackers
<1>20. CASE CleanupUffd
    BY <1>20 DEF CleanupUffd
<1>21. CASE CleanupProxy
    BY <1>21 DEF CleanupProxy
<1>22. CASE CleanupNetns
    BY <1>22 DEF CleanupNetns
<1>23. ASSUME NEW i \in Sandboxes, Connect(i) PROVE SandboxInv'
    BY <1>23 DEF Connect, TaskBecomes
<1>24. ASSUME NEW i \in Sandboxes, ApiTimeout(i) PROVE SandboxInv'
    BY <1>24 DEF ApiTimeout, TaskBecomes
<1>25. ASSUME NEW i \in Sandboxes, Loaded(i) PROVE SandboxInv'
    BY <1>25 DEF Loaded, TaskBecomes
<1>26. ASSUME NEW i \in Sandboxes, LoadFails(i) PROVE SandboxInv'
    BY <1>26 DEF LoadFails, TaskBecomes
<1>27. ASSUME NEW i \in Sandboxes, ReadNothing(i) PROVE SandboxInv'
    BY <1>27 DEF ReadNothing, TaskBecomes, scriptVars
<1>28. ASSUME NEW i \in Sandboxes, WorkloadOk(i) PROVE SandboxInv'
    BY <1>28 DEF WorkloadOk, TaskBecomes
<1>29. ASSUME NEW i \in Sandboxes, WorkloadFails(i) PROVE SandboxInv'
    BY <1>29 DEF WorkloadFails, TaskBecomes
<1>30. ASSUME NEW p \in firecrackers, FirecrackerBinds(p) PROVE SandboxInv'
    <2>1. PICK i \in Sandboxes : p = <<run, i>>
        BY <1>30 DEF FirecrackerBinds
    <2>2. /\ api_sock' = [api_sock EXCEPT ![i] = run] /\ ~NoFirecrackers
          /\ booting' \subseteq booting
          /\ UNCHANGED <<run, phase, index, lists, peer, backend,
                         started, killed, namespaces, firecrackers, handlers,
                         proxies, uffd_sock>>
        BY <1>30, <2>1 DEF FirecrackerBinds
    <2> QED BY <2>2, ProcessesMove
<1>31. ASSUME NEW p \in firecrackers, FirecrackerEnds(p) PROVE SandboxInv'
    <2>1. /\ firecrackers' \subseteq firecrackers
          /\ UNCHANGED <<run, phase, index, lists, peer, backend,
                         started, killed, namespaces, handlers, proxies,
                         booting, api_sock, uffd_sock>>
        BY <1>31 DEF FirecrackerEnds
    <2> QED BY <2>1, ProcessesMove
<1>32. ASSUME NEW p \in handlers, HandlerBinds(p) PROVE SandboxInv'
    <2>1. PICK i \in Sandboxes : p = <<run, i>>
        BY <1>32 DEF HandlerBinds
    <2>2. /\ uffd_sock' = [uffd_sock EXCEPT ![i] = run] /\ ~NoHandlers
          /\ booting' \subseteq booting
          /\ UNCHANGED <<run, phase, index, lists, peer, backend,
                         started, killed, namespaces, firecrackers, handlers,
                         proxies, api_sock>>
        BY <1>32, <2>1 DEF HandlerBinds
    <2> QED BY <2>2, ProcessesMove
<1>33. ASSUME NEW r \in proxies, ProxyBinds(r) PROVE SandboxInv'
    <2>1. /\ proxies' \subseteq proxies
          /\ UNCHANGED <<run, phase, index, lists, peer, backend,
                         started, killed, namespaces, firecrackers, handlers,
                         booting, api_sock, uffd_sock>>
        BY <1>33 DEF ProxyBinds
    <2> QED BY <2>1, ProcessesMove
<1>34. CASE KillScript
    BY <1>34 DEF KillScript
<1>35. CASE UNCHANGED scriptVars
    <2>1. UNCHANGED <<run, phase, index, lists, peer, backend, started,
                      killed, namespaces, firecrackers, handlers, proxies,
                      booting, api_sock, uffd_sock>>
        BY <1>35 DEF scriptVars
    <2> QED BY <2>1, ProcessesMove
<1> QED
    BY <1>1, <1>2, <1>3, <1>4, <1>5, <1>6, <1>7, <1>8, <1>9, <1>10, <1>11,
       <1>12, <1>13, <1>14, <1>15, <1>16, <1>17, <1>18, <1>19, <1>20, <1>21,
       <1>22, <1>23, <1>24, <1>25, <1>26, <1>27, <1>28, <1>29, <1>30, <1>31,
       <1>32, <1>33, <1>34, <1>35
    DEF ScriptNext, Main, Task, Processes, RunsOver

LEMMA SandboxAlways == ScriptSpec => []SandboxInv
<1>1. ScriptInit => SandboxInv
    BY SandboxInitially
<1>2. SandboxInv /\ [ScriptNext]_(scriptVars) => SandboxInv'
    BY SandboxNext
<1> QED BY <1>1, <1>2, PTL DEF ScriptSpec

(***************************************************************************)
(* For every script, any number of sandboxes and of runs, and whatever was *)
(* killed or died before: a run loads its snapshots into Firecrackers of   *)
(* its own, backed by handlers of its own, although the socket files have  *)
(* the same names in every run (start_firecracker, start_uffd).            *)
(***************************************************************************)
THEOREM EndpointsAreOwn == ScriptSpec => []OwnEndpoints
<1>1. SandboxInv => OwnEndpoints
    BY DEF SandboxInv
<1> QED BY <1>1, SandboxAlways, PTL

(***************************************************************************)
(* A run that has started everything and was not killed leaves no process, *)
(* no namespace and no socket file, wherever it failed: what it started is *)
(* in its locals when the finally block looks (cleanup_sandboxes).         *)
(***************************************************************************)
THEOREM StartedRunsCleanUp == ScriptSpec => []StartedRunLeavesNothing
<1>1. SandboxInv => StartedRunLeavesNothing
    BY DEF SandboxInv
<1> QED BY <1>1, SandboxAlways, PTL
=============================================================================
