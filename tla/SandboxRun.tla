----------------------------- MODULE SandboxRun -----------------------------
(***************************************************************************)
(* The experiment scripts of fetch-motivation/simple-test (Eager-Local.py, *)
(* Eager-Remote.py, Lazy-Local.py, Lazy-Remote.py, Lazy-Remote-Dedup.py)   *)
(* with launch/ and utils/: a script makes network namespaces, starts      *)
(* Firecracker and uffd handler processes, loads the snapshot and runs the *)
(* workload in all sandboxes at once, writes a row and cleans up.          *)
(*                                                                         *)
(* Scripts are run one after the other on one host.  What a run leaves     *)
(* behind (processes, namespaces, socket files, a proxy on the port) is    *)
(* there when the next one starts.  A process is named <<run, sandbox>>.   *)
(***************************************************************************)
EXTENDS Integers, Sequences, FiniteSets

CONSTANTS
    Script,            \* the script that is run
    Count,             \* cfg["count"], sandboxes of a run
    MaxRuns,           \* bound on the runs of one behaviour
    FirecrackerDies,   \* a Firecracker process may die by itself
    ScriptKilled       \* the script may be killed with SIGKILL

Scripts == {"eager_local", "eager_remote", "lazy_local", "lazy_remote",
            "lazy_remote_dedup"}

ASSUME RunAssumption ==
    /\ Script \in Scripts
    /\ Count \in Nat \ {0} /\ MaxRuns \in Nat
    /\ {FirecrackerDies, ScriptKilled} \subseteq BOOLEAN

(***************************************************************************)
(* What the main of each script does, in order.  The downloads are outside *)
(* the try block.                                                          *)
(***************************************************************************)
eager_local == <<"netns", "firecracker", "load", "workload", "record">>
eager_remote ==
    <<"download", "netns", "firecracker", "load", "workload", "record">>
lazy_local ==
    <<"netns", "firecracker", "uffd", "load", "workload", "stop_uffd", "record">>
lazy_remote ==
    <<"download", "netns", "firecracker", "uffd", "load", "workload",
      "stop_uffd", "record">>
lazy_remote_dedup ==
    <<"download", "proxy", "netns", "firecracker", "uffd", "load", "workload",
      "stop_uffd", "record", "stats">>

Phases ==
    CASE Script = "eager_local"       -> eager_local
      [] Script = "eager_remote"      -> eager_remote
      [] Script = "lazy_local"        -> lazy_local
      [] Script = "lazy_remote"       -> lazy_remote
      [] Script = "lazy_remote_dedup" -> lazy_remote_dedup

UsesUffd == \E k \in 1..Len(Phases) : Phases[k] = "uffd"
Sandboxes == 0..(Count - 1)

VARIABLES
    \* the script
    run,           \* number of the current run, or of the last one
    phase,            \* the phase it is in, or "idle" between runs
    index,         \* the sandbox a start loop has come to
    netns, fc_procs, uffd_procs, proxy_proc,   \* the locals were assigned
    task,          \* task[i]: the pool thread of sandbox i
    peer,          \* peer[i]: run of the Firecracker that i's load talks to
    backend,       \* backend[i]: run of the handler that serves i's memory
    results,       \* sandboxes whose workload succeeded
    rows,          \* runs with a row in experiment_runs.csv
    started, killed,   \* runs with everything started; runs killed
    \* the host
    namespaces, firecrackers, handlers, proxies,
    booting,       \* processes that have yet to bind their socket
    port,          \* run of the proxy that listens, 0 if none does
    api_sock, uffd_sock    \* per sandbox, run of the process that bound the
                           \* socket file, 0 if there is no such file

lists == <<netns, fc_procs, uffd_procs, proxy_proc>>
tasks == <<task, peer, backend, results>>
history == <<rows, started, killed>>
host == <<namespaces, firecrackers, handlers, proxies, booting, port, api_sock,
          uffd_sock>>
scriptVars == <<run, phase, index, lists, tasks, history, host>>

NoTasks == [i \in Sandboxes |-> "none"]
Nobody == [i \in Sandboxes |-> 0]

ScriptInit ==
    /\ run = 0 /\ phase = "idle" /\ index = 0
    /\ netns = FALSE /\ fc_procs = FALSE /\ uffd_procs = FALSE
    /\ proxy_proc = FALSE
    /\ task = NoTasks /\ peer = Nobody /\ backend = Nobody /\ results = {}
    /\ rows = {} /\ started = {} /\ killed = {}
    /\ namespaces = {} /\ firecrackers = {} /\ handlers = {} /\ proxies = {}
    /\ booting = {} /\ port = 0 /\ api_sock = Nobody /\ uffd_sock = Nobody

\* Every process left behind has come as far as its socket when a script is
\* started again.
Settled ==
    /\ \A p \in firecrackers : <<"firecracker", p>> \notin booting
    /\ \A p \in handlers : <<"handler", p>> \notin booting
    /\ proxies \subseteq {port}

StartRun ==
    /\ phase = "idle" /\ run < MaxRuns /\ Settled
    /\ run' = run + 1
    /\ phase' = Phases[1]
    /\ index' = 0
    /\ netns' = FALSE /\ fc_procs' = FALSE /\ uffd_procs' = FALSE
    /\ proxy_proc' = FALSE
    /\ task' = NoTasks /\ peer' = Nobody /\ backend' = Nobody /\ results' = {}
    /\ booting' = {}
    /\ UNCHANGED <<rows, started, killed, namespaces, firecrackers, handlers,
                   proxies, port, api_sock, uffd_sock>>

-----------------------------------------------------------------------------
(***************************************************************************)
(* The script.                                                             *)
(***************************************************************************)
Position(p) == CHOOSE k \in 1..Len(Phases) : Phases[k] = p
After(p) == IF Position(p) < Len(Phases)
            THEN Phases[Position(p) + 1] ELSE "finally"

\* An exception in the try block.
Raise == phase' = "finally"

DownloadSnapshot ==
    /\ phase = "download"
    /\ phase' \in {After("download"), "idle"}
    /\ UNCHANGED <<run, index, lists, tasks, history, host>>

\* start_proxy: Popen, then wait_proxy until anybody answers on the port.
SpawnProxy ==
    /\ phase = "proxy"
    /\ proxies' = proxies \union {run}
    /\ phase' = "wait_proxy"
    /\ UNCHANGED <<run, index, lists, tasks, history, namespaces,
                   firecrackers, handlers, booting, port, api_sock, uffd_sock>>

ProxyAnswers ==
    /\ phase = "wait_proxy"
    /\ port # 0
    /\ proxy_proc' = TRUE
    /\ phase' = After("proxy")
    /\ UNCHANGED <<run, index, netns, fc_procs, uffd_procs, tasks, history,
                   host>>

ProxyTimeout ==
    /\ phase = "wait_proxy"
    /\ port = 0
    /\ Raise
    /\ UNCHANGED <<run, index, lists, tasks, history, host>>

\* setup(n) begins with cleanup(n), so a name that is taken does not matter.
SetupNetns ==
    /\ phase = "netns"
    /\ namespaces' = namespaces \union {index}
    /\ index' = (index + 1) % Count
    /\ phase' = IF index + 1 = Count THEN After("netns") ELSE "netns"
    /\ UNCHANGED <<run, lists, tasks, history, firecrackers, handlers,
                   proxies, booting, port, api_sock, uffd_sock>>

\* A command of setup failed: it removes what it made and raises.
SetupFails ==
    /\ phase = "netns"
    /\ namespaces' = namespaces \ {index}
    /\ Raise
    /\ UNCHANGED <<run, index, lists, tasks, history, firecrackers, handlers,
                   proxies, booting, port, api_sock, uffd_sock>>

\* Faulty variant: the old socket file is not unlinked.
StartFirecrackerKeepsSock ==
    /\ phase = "firecracker"
    /\ api_sock' = api_sock
    /\ firecrackers' = firecrackers \union {<<run, index>>}
    /\ booting' = booting \union {<<"firecracker", <<run, index>>>>}
    /\ index' = (index + 1) % Count
    /\ phase' = IF index + 1 = Count
                THEN After("firecracker") ELSE "firecracker"
    /\ netns' = (index + 1 = Count) /\ fc_procs' = (index + 1 = Count)
    /\ started' = IF index + 1 = Count /\ ~UsesUffd THEN started \union {run}
                                                    ELSE started
    /\ UNCHANGED <<run, uffd_procs, proxy_proc, tasks, rows,
                   killed, namespaces, handlers, proxies, port, uffd_sock>>

\* start_firecracker for the next sandbox; start_sandboxes returns both lists
\* after the last one.
StartFirecracker ==
    /\ phase = "firecracker"
    /\ api_sock' = [api_sock EXCEPT ![index] = 0]
    /\ firecrackers' = firecrackers \union {<<run, index>>}
    /\ booting' = booting \union {<<"firecracker", <<run, index>>>>}
    /\ index' = (index + 1) % Count
    /\ phase' = IF index + 1 = Count
                THEN After("firecracker") ELSE "firecracker"
    /\ netns' = (index + 1 = Count) /\ fc_procs' = (index + 1 = Count)
    /\ started' = IF index + 1 = Count /\ ~UsesUffd THEN started \union {run}
                                                    ELSE started
    /\ UNCHANGED <<run, uffd_procs, proxy_proc, tasks, rows,
                   killed, namespaces, handlers, proxies, port, uffd_sock>>

\* The work directory cannot be made, or, after the unlink, the log not
\* opened or the process not started.
StartFirecrackerFails ==
    /\ phase = "firecracker"
    /\ Raise
    /\ api_sock' \in {api_sock, [api_sock EXCEPT ![index] = 0]}
    /\ UNCHANGED <<run, index, lists, tasks, history, namespaces, firecrackers,
                   handlers, proxies, booting, port, uffd_sock>>

\* start_uffd, start_remote_uffd: unlink, Popen, wait_sock.
SpawnUffd ==
    /\ phase = "uffd"
    /\ uffd_sock' = [uffd_sock EXCEPT ![index] = 0]
    /\ handlers' = handlers \union {<<run, index>>}
    /\ booting' = booting \union {<<"handler", <<run, index>>>>}
    /\ phase' = "wait_sock"
    /\ UNCHANGED <<run, index, lists, tasks, history, namespaces,
                   firecrackers, proxies, port, api_sock>>

SockAppears ==
    /\ phase = "wait_sock"
    /\ uffd_sock[index] # 0
    /\ index' = (index + 1) % Count
    /\ phase' = IF index + 1 = Count THEN After("uffd") ELSE "uffd"
    /\ uffd_procs' = (index + 1 = Count)
    /\ started' = IF index + 1 = Count THEN started \union {run} ELSE started
    /\ UNCHANGED <<run, netns, fc_procs, proxy_proc, tasks, rows,
                   killed, host>>

\* Faulty variant: wait_sock has no deadline.
SockTimeoutNever ==
    /\ phase = "wait_sock"
    /\ uffd_sock[index] = 0
    /\ UNCHANGED scriptVars

SockTimeout ==
    /\ phase = "wait_sock"
    /\ uffd_sock[index] = 0
    /\ Raise
    /\ UNCHANGED <<run, index, lists, tasks, history, host>>

(***************************************************************************)
(* parallel_map and run_parallel_workloads: one pool thread per sandbox.   *)
(* Leaving the with block waits for all of them; only then the first       *)
(* exception is raised.                                                    *)
(***************************************************************************)
Pooled == phase \in {"load", "workload"}
Submit ==
    /\ Pooled
    /\ task = NoTasks
    /\ task' = [i \in Sandboxes |-> "todo"]
    /\ UNCHANGED <<run, phase, index, lists, peer, backend, results, history,
                   host>>

PoolEnds ==
    /\ Pooled
    /\ \A i \in Sandboxes : task[i] \in {"ok", "failed"}
    /\ phase' = IF \A i \in Sandboxes : task[i] = "ok"
                THEN After(phase) ELSE "finally"
    /\ task' = NoTasks
    /\ UNCHANGED <<run, index, lists, peer, backend, results, history, host>>

TaskBecomes(i, from, to) ==
    /\ task[i] = from
    /\ task' = [task EXCEPT ![i] = to]

\* wait_api, then connect to whoever is behind the socket file.
Connect(i) ==
    /\ phase = "load"
    /\ api_sock[i] # 0
    /\ TaskBecomes(i, "todo",
            IF <<api_sock[i], i>> \in firecrackers THEN "reading" ELSE "failed")
    /\ peer' = [peer EXCEPT ![i] = api_sock[i]]
    /\ UNCHANGED <<run, phase, index, lists, backend, results, history, host>>

ApiTimeout(i) ==
    /\ phase = "load"
    /\ api_sock[i] = 0
    /\ TaskBecomes(i, "todo", "failed")
    /\ UNCHANGED <<run, phase, index, lists, peer, backend, results, history,
                   host>>

\* Firecracker has loaded the snapshot, from the handler behind uffd_sock if
\* the backend is Uffd, and answers 2xx.
Loaded(i) ==
    /\ phase = "load"
    /\ <<peer[i], i>> \in firecrackers
    /\ UsesUffd => <<uffd_sock[i], i>> \in handlers
    /\ TaskBecomes(i, "reading", "ok")
    /\ backend' = [backend EXCEPT ![i] = IF UsesUffd THEN uffd_sock[i] ELSE 0]
    /\ UNCHANGED <<run, phase, index, lists, peer, results, history, host>>

\* An error status, or the socket's timeout.
LoadFails(i) ==
    /\ phase = "load"
    /\ <<peer[i], i>> \in firecrackers
    /\ TaskBecomes(i, "reading", "failed")
    /\ UNCHANGED <<run, phase, index, lists, peer, backend, results, history,
                   host>>

\* A connection that is closed is not seen: recv returns b"" and the loop goes
\* on asking for more.
ReadNothing(i) ==
    /\ phase = "load"
    /\ task[i] = "reading"
    /\ <<peer[i], i>> \notin firecrackers
    /\ UNCHANGED scriptVars

\* run_workload: curl in the namespace, bounded by a timeout.
WorkloadOk(i) ==
    /\ phase = "workload"
    /\ <<peer[i], i>> \in firecrackers
    /\ TaskBecomes(i, "todo", "ok")
    /\ results' = results \union {i}
    /\ UNCHANGED <<run, phase, index, lists, peer, backend, history, host>>

WorkloadFails(i) ==
    /\ phase = "workload"
    /\ TaskBecomes(i, "todo", "failed")
    /\ UNCHANGED <<run, phase, index, lists, peer, backend, results, history,
                   host>>

\* stop(procs): SIGTERM to all, wait(3) for each, SIGKILL.
StopOwn(procs) == procs \ {<<run, i>> : i \in Sandboxes}

StopUffd ==
    /\ phase = "stop_uffd"
    /\ handlers' = StopOwn(handlers)
    /\ uffd_procs' = FALSE
    /\ phase' = After("stop_uffd")
    /\ UNCHANGED <<run, index, netns, fc_procs, proxy_proc, tasks, history,
                   namespaces, firecrackers, proxies, booting, port, api_sock,
                   uffd_sock>>

\* append_experiment_run
Record ==
    /\ phase = "record"
    /\ rows' = rows \union {run}
    /\ phase' = After("record")
    /\ UNCHANGED <<run, index, lists, tasks, started, killed,
                   host>>

RecordFails ==
    /\ phase = "record"
    /\ Raise
    /\ UNCHANGED <<run, index, lists, tasks, history, host>>

ReadStats ==
    /\ phase = "stats"
    /\ Raise
    /\ UNCHANGED <<run, index, lists, tasks, history, host>>

(***************************************************************************)
(* cleanup_sandboxes, in the finally block: it knows what the locals hold. *)
(***************************************************************************)
CleanupFirecrackers ==
    /\ phase = "finally"
    /\ firecrackers' = IF fc_procs THEN StopOwn(firecrackers) ELSE firecrackers
    /\ phase' = "cleanup_uffd"
    /\ UNCHANGED <<run, index, lists, tasks, history, namespaces, handlers,
                   proxies, booting, port, api_sock, uffd_sock>>

CleanupUffd ==
    /\ phase = "cleanup_uffd"
    /\ handlers' = IF uffd_procs THEN StopOwn(handlers) ELSE handlers
    /\ phase' = "cleanup_proxy"
    /\ UNCHANGED <<run, index, lists, tasks, history, namespaces,
                   firecrackers, proxies, booting, port, api_sock, uffd_sock>>

CleanupProxy ==
    /\ phase = "cleanup_proxy"
    /\ proxies' = IF proxy_proc THEN proxies \ {run} ELSE proxies
    /\ port' = IF proxy_proc /\ port = run THEN 0 ELSE port
    /\ phase' = "cleanup_netns"
    /\ UNCHANGED <<run, index, lists, tasks, history, namespaces,
                   firecrackers, handlers, booting, api_sock, uffd_sock>>

\* Faulty variant: the handlers' socket files are forgotten.
CleanupNetnsKeepsSock ==
    /\ phase = "cleanup_netns"
    /\ IF netns
       THEN namespaces' = {} /\ api_sock' = Nobody /\ UNCHANGED uffd_sock
       ELSE UNCHANGED <<namespaces, api_sock, uffd_sock>>
    /\ phase' = "idle"
    /\ UNCHANGED <<run, index, lists, tasks, history, firecrackers, handlers,
                   proxies, booting, port>>

CleanupNetns ==
    /\ phase = "cleanup_netns"
    /\ IF netns
       THEN namespaces' = {} /\ api_sock' = Nobody /\ uffd_sock' = Nobody
       ELSE UNCHANGED <<namespaces, api_sock, uffd_sock>>
    /\ phase' = "idle"
    /\ UNCHANGED <<run, index, lists, tasks, history, firecrackers, handlers,
                   proxies, booting, port>>

-----------------------------------------------------------------------------
(***************************************************************************)
(* The processes, and what may befall them.                                *)
(***************************************************************************)
FirecrackerBinds(p) ==
    /\ p \in firecrackers /\ <<"firecracker", p>> \in booting
    /\ api_sock[p[2]] = 0
    /\ booting' = booting \ {<<"firecracker", p>>}
    /\ api_sock' = [api_sock EXCEPT ![p[2]] = p[1]]
    /\ UNCHANGED <<run, phase, index, lists, tasks, history, namespaces,
                   firecrackers, handlers, proxies, port, uffd_sock>>

HandlerBinds(p) ==
    /\ p \in handlers /\ <<"handler", p>> \in booting
    /\ uffd_sock[p[2]] = 0
    /\ booting' = booting \ {<<"handler", p>>}
    /\ uffd_sock' = [uffd_sock EXCEPT ![p[2]] = p[1]]
    /\ UNCHANGED <<run, phase, index, lists, tasks, history, namespaces,
                   firecrackers, handlers, proxies, port, api_sock>>

\* The port is free, or the new proxy dies of "address already in use".
ProxyBinds(r) ==
    /\ r \in proxies /\ port # r
    /\ IF port = 0 THEN port' = r /\ UNCHANGED proxies
                   ELSE proxies' = proxies \ {r} /\ UNCHANGED port
    /\ UNCHANGED <<run, phase, index, lists, tasks, history, namespaces,
                   firecrackers, handlers, booting, api_sock, uffd_sock>>

\* By itself, or killed by the panic hook of its handler.
FirecrackerEnds(p) ==
    /\ FirecrackerDies
    /\ p \in firecrackers
    /\ firecrackers' = firecrackers \ {p}
    /\ UNCHANGED <<run, phase, index, lists, tasks, history, namespaces,
                   handlers, proxies, booting, port, api_sock, uffd_sock>>

KillScript ==
    /\ ScriptKilled
    /\ phase # "idle"
    /\ phase' = "idle"
    /\ task' = NoTasks
    /\ killed' = killed \union {run}
    /\ UNCHANGED <<run, index, lists, peer, backend, results, rows,
                   started, host>>

RunsOver == phase = "idle" /\ run = MaxRuns /\ UNCHANGED scriptVars

Main ==
    \/ DownloadSnapshot \/ SpawnProxy \/ ProxyAnswers \/ ProxyTimeout
    \/ SetupNetns \/ SetupFails \/ StartFirecracker \/ StartFirecrackerFails
    \/ SpawnUffd \/ SockAppears \/ SockTimeout
    \/ Submit \/ PoolEnds
    \/ StopUffd \/ Record \/ RecordFails \/ ReadStats
    \/ CleanupFirecrackers \/ CleanupUffd \/ CleanupProxy \/ CleanupNetns

Task(i) ==
    \/ Connect(i) \/ ApiTimeout(i) \/ Loaded(i) \/ LoadFails(i)
    \/ ReadNothing(i) \/ WorkloadOk(i) \/ WorkloadFails(i)

Processes ==
    \/ \E p \in firecrackers : FirecrackerBinds(p) \/ FirecrackerEnds(p)
    \/ \E p \in handlers : HandlerBinds(p)
    \/ \E r \in proxies : ProxyBinds(r)

ScriptNext ==
    \/ StartRun \/ Main \/ (\E i \in Sandboxes : Task(i))
    \/ Processes \/ KillScript \/ RunsOver

ScriptSpec == ScriptInit /\ [][ScriptNext]_scriptVars

(***************************************************************************)
(* The script and its pool threads are scheduled; whatever they wait for   *)
(* comes, or its timeout does.                                             *)
(***************************************************************************)
ScriptFairSpec ==
    /\ ScriptSpec /\ WF_scriptVars(Main)
    /\ \A i \in Sandboxes : WF_scriptVars(Task(i))

-----------------------------------------------------------------------------
(***************************************************************************)
(* Properties.                                                             *)
(***************************************************************************)
(***************************************************************************)
(* The socket files have the same names in every run; still, a run loads   *)
(* snapshots only into its own Firecrackers, backed by its own handlers,   *)
(* whatever earlier runs left behind: the unlinks of start_firecracker and *)
(* start_uffd come before the processes that bind the sockets.             *)
(***************************************************************************)
OwnEndpoints == \A i \in Sandboxes : phase # "idle" =>
    peer[i] \in {0, run} /\ backend[i] \in {0, run}

(***************************************************************************)
(* A run that got everything started leaves no process of its own, no      *)
(* namespace and no socket file, however it failed afterwards.             *)
(***************************************************************************)
Left(r) ==
    \/ \E i \in Sandboxes : <<r, i>> \in firecrackers \union handlers
    \/ r \in proxies
Traces == namespaces # {} \/ api_sock # Nobody \/ uffd_sock # Nobody

StartedRunLeavesNothing ==
    phase = "idle" /\ run \in started \ killed => ~Left(run) /\ ~Traces

(***************************************************************************)
(* A run ends, by itself or killed, but for the one loop that has no       *)
(* bound: every wait for a socket, the proxy, a load or a workload times   *)
(* out, and cleanup follows.                                               *)
(***************************************************************************)
Spinning == \E i \in Sandboxes :
    phase = "load" /\ task[i] = "reading" /\ <<peer[i], i>> \notin firecrackers

RunEndsUnlessSpinning == phase # "idle" ~> phase = "idle" \/ Spinning
=============================================================================
