---------------------------- MODULE UffdRuntime ----------------------------
(***************************************************************************)
(* The life of one uffd handler process: main and Runtime::run of the      *)
(* firecracker uffd examples (uffd_utils.rs), the Firecracker process at   *)
(* the other end of its Unix stream, and the experiment script that stops  *)
(* handlers with launch/firecracker_start.py's stop().                     *)
(*                                                                         *)
(* The page-fault closure is one step here; UffdHandler opens it up.       *)
(***************************************************************************)
EXTENDS Integers, Sequences

CONSTANTS
    Retries,       \* attempts of get_mappings_and_file (5 in the code)
    MaxFaults,     \* bound on faults
    MaxMessages    \* bound on messages sent over the stream

ASSUME RuntimeBounds ==
    Retries \in Nat \ {0} /\ MaxFaults \in Nat /\ MaxMessages \in Nat

VARIABLES
    pc,            \* where the handler process is
    shutdown,      \* SHUTDOWN_REQUESTED
    polled,        \* pollfds: "stream" and "uffd", the ones still polled
    ready,         \* the pollfds whose revents has POLLIN, not yet handled
    hup,           \* the pollfds whose revents has POLLHUP
    attempt,       \* attempts made by get_mappings_and_file
    copied,        \* faults answered
    printed,       \* COPIED_PAGES was written to the log
    stream,        \* messages in the stream, TRUE when one carries the uffd
    sent,          \* messages Firecracker has sent
    pending,       \* faults waiting in the uffd
    faulted,       \* faults raised
    firecracker,   \* "alive", "exited" or "killed" by the panic hook
    launcher       \* "running", "terminated" (SIGTERM sent) or "stopped"

peerVars == <<stream, sent, pending, faulted, firecracker>>
vars == <<pc, shutdown, polled, ready, hup, attempt, copied, printed, peerVars,
          launcher>>

Ended == {"exited", "panicked", "signalled"}

Init ==
    /\ pc = "accept"
    /\ shutdown = FALSE
    /\ polled = {} /\ ready = {} /\ hup = {} /\ attempt = 0
    /\ copied = 0 /\ printed = FALSE
    /\ stream = <<>> /\ sent = 0 /\ pending = 0 /\ faulted = 0
    /\ firecracker = "alive"
    /\ launcher = "running"

(***************************************************************************)
(* The peer.  The uffd may be missing from a message ("we don't really     *)
(* have a good understanding why"); Firecracker never closes the stream    *)
(* but by exiting.                                                         *)
(***************************************************************************)
Send(withUffd) ==
    /\ firecracker = "alive"
    /\ sent < MaxMessages
    /\ sent' = sent + 1
    /\ stream' = Append(stream, withUffd)
    /\ UNCHANGED <<pc, shutdown, polled, ready, hup, attempt, copied, printed,
                   pending, faulted, firecracker, launcher>>

RaiseFault ==
    /\ firecracker = "alive"
    /\ sent > 0
    /\ faulted < MaxFaults
    /\ faulted' = faulted + 1
    /\ pending' = pending + 1
    /\ UNCHANGED <<pc, shutdown, polled, ready, hup, attempt, copied, printed,
                   stream, sent, firecracker, launcher>>

\* The process is gone, and its faults with it; the stream reads as closed.
ExitFirecracker ==
    /\ firecracker = "alive"
    /\ firecracker' = "exited"
    /\ pending' = 0
    /\ UNCHANGED <<pc, shutdown, polled, ready, hup, attempt, copied, printed,
                   stream, sent, faulted, launcher>>

Closed == firecracker # "alive"
\* A closed stream polls as readable and hung up, its remaining data first.
Readable == (IF stream # <<>> \/ Closed THEN {"stream"} ELSE {})
                \union (IF pending > 0 THEN {"uffd"} ELSE {})
HungUp == IF Closed THEN {"stream"} ELSE {}

(***************************************************************************)
(* The handler process.                                                    *)
(***************************************************************************)
\* accept, install_panic_hook, install_shutdown_signal_handlers.
Accept ==
    /\ pc = "accept"
    /\ firecracker = "alive"
    /\ pc' = "poll"
    /\ polled' = {"stream"}
    /\ UNCHANGED <<shutdown, ready, hup, attempt, copied, printed, peerVars,
                   launcher>>

\* poll(-1): returns what is ready, or puts the process to sleep.
Poll ==
    /\ pc \in {"poll", "asleep"}
    /\ polled \intersect (Readable \union HungUp) # {}
    /\ ready' = polled \intersect Readable
    /\ hup' = polled \intersect HungUp
    /\ pc' = "handle"
    /\ UNCHANGED <<shutdown, polled, attempt, copied, printed, peerVars,
                   launcher>>

Sleep ==
    /\ pc = "poll"
    /\ polled \intersect (Readable \union HungUp) = {}
    /\ pc' = "asleep"
    /\ UNCHANGED <<shutdown, polled, ready, hup, attempt, copied, printed,
                   peerVars, launcher>>

\* One attempt of get_mappings_and_file: the uffd, no uffd, or end of file.
\* recv blocks while the stream is open and empty.
Receive ==
    /\ pc = "handle"
    /\ "stream" \in ready
    /\ stream # <<>>
    /\ stream' = Tail(stream)
    /\ IF Head(stream)
       THEN /\ ready' = ready \ {"stream"}
            /\ polled' = polled \union {"uffd"}
            /\ attempt' = 0
       ELSE /\ attempt' = attempt + 1
            /\ UNCHANGED <<ready, polled>>
    /\ attempt < Retries
    /\ UNCHANGED <<pc, shutdown, hup, copied, printed, sent, pending, faulted,
                   firecracker, launcher>>

ReceiveNothing ==
    /\ pc = "handle"
    /\ "stream" \in ready
    /\ stream = <<>> /\ Closed
    /\ attempt < Retries
    /\ attempt' = attempt + 1
    /\ UNCHANGED <<pc, shutdown, polled, ready, hup, copied, printed, peerVars,
                   launcher>>

\* "Could not get UFFD and mappings after 5 retries": the panic hook kills
\* the peer.
Panic ==
    /\ pc = "handle"
    /\ attempt = Retries
    /\ pc' = "panicked"
    /\ firecracker' = IF firecracker = "alive" THEN "killed" ELSE firecracker
    /\ pending' = 0
    /\ UNCHANGED <<shutdown, polled, ready, hup, attempt, copied, printed,
                   stream, sent, faulted, launcher>>

\* pf_event_dispatch answers every fault that is pending.  pollfds are
\* handled in order, and the stream is the first of them.
DispatchFaults ==
    /\ pc = "handle"
    /\ "stream" \notin ready
    /\ "uffd" \in ready
    /\ ready' = ready \ {"uffd"}
    /\ copied' = copied + pending
    /\ pending' = 0
    /\ UNCHANGED <<pc, shutdown, polled, hup, attempt, printed, stream, sent,
                   faulted, firecracker, launcher>>

\* Faulty variant: retain keeps what hung up and drops the rest.
CheckShutdownInverted ==
    /\ pc = "handle"
    /\ ready = {}
    /\ IF shutdown
       THEN pc' = "exiting" /\ UNCHANGED polled
       ELSE pc' = "poll" /\ polled' = polled \intersect hup
    /\ hup' = {}
    /\ UNCHANGED <<shutdown, ready, attempt, copied, printed, peerVars,
                   launcher>>

\* The check at the end of the loop body, then retain.
CheckShutdown ==
    /\ pc = "handle"
    /\ ready = {}
    /\ IF shutdown
       THEN pc' = "exiting" /\ UNCHANGED polled
       ELSE pc' = "poll" /\ polled' = polled \ hup
    /\ hup' = {}
    /\ UNCHANGED <<shutdown, ready, attempt, copied, printed, peerVars,
                   launcher>>

PrintSummary ==
    /\ pc = "exiting"
    /\ printed' = TRUE
    /\ pc' = "exited"
    /\ UNCHANGED <<shutdown, polled, ready, hup, attempt, copied, peerVars,
                   launcher>>

(***************************************************************************)
(* stop(): SIGTERM, wait(3), SIGKILL.  Before the handlers are installed   *)
(* SIGTERM ends the process; afterwards it sets the flag, and interrupts   *)
(* only a poll that is asleep (recv is restarted).  Three seconds are      *)
(* longer than a handler that runs needs to come to its next check, so the *)
(* wait expires only on one that is blocked.                               *)
(***************************************************************************)
Terminate ==
    /\ launcher = "running"
    /\ launcher' = "terminated"
    /\ shutdown' = (pc \notin {"accept"} \union Ended)
    /\ pc' = CASE pc = "accept" -> "signalled"
               [] pc = "asleep" -> "exiting"
               [] OTHER         -> pc
    /\ UNCHANGED <<polled, ready, hup, attempt, copied, printed, peerVars>>

InRecv == /\ pc = "handle" /\ "stream" \in ready /\ attempt < Retries
          /\ stream = <<>> /\ ~Closed
Stuck == \/ pc = "asleep" /\ polled \intersect (Readable \union HungUp) = {}
         \/ InRecv

\* Faulty variant: SIGTERM and wait, with no SIGKILL after a timeout.
WaitForExitOnly ==
    /\ launcher = "terminated"
    /\ pc \in Ended
    /\ launcher' = "stopped"
    /\ pc' = IF pc \in Ended THEN pc ELSE "signalled"
    /\ UNCHANGED <<shutdown, polled, ready, hup, attempt, copied, printed,
                   peerVars>>

WaitForExit ==
    /\ launcher = "terminated"
    /\ pc \in Ended \/ Stuck
    /\ launcher' = "stopped"
    /\ pc' = IF pc \in Ended THEN pc ELSE "signalled"
    /\ UNCHANGED <<shutdown, polled, ready, hup, attempt, copied, printed,
                   peerVars>>

Over ==
    /\ launcher = "stopped" \/ pc \in Ended \/ (pc = "accept" /\ Closed)
    /\ UNCHANGED vars

Handler ==
    \/ Accept \/ Poll \/ Sleep \/ Receive \/ ReceiveNothing \/ Panic
    \/ DispatchFaults \/ CheckShutdown \/ PrintSummary

Next ==
    \/ (\E withUffd \in BOOLEAN : Send(withUffd)) \/ RaiseFault \/ ExitFirecracker
    \/ Handler
    \/ Terminate \/ WaitForExit \/ Over

Spec == Init /\ [][Next]_vars

\* The handler is scheduled; stop() returns from wait(3).  Whether the guest
\* faults, Firecracker exits or the script stops handlers is left open.
FairSpec == Spec /\ WF_vars(Handler) /\ WF_vars(WaitForExit)

----------------------------------------------------------------------------
(***************************************************************************)
(* A fault on a uffd the handler has is answered, unless the handler ends  *)
(* or sits in recv waiting for a message its peer owes it.                 *)
(***************************************************************************)
FaultsAnswered ==
    ("uffd" \in polled /\ pending > 0) ~> (pending = 0 \/ pc \in Ended \/ InRecv)

(***************************************************************************)
(* stop() returns with the handler gone, whatever the handler was doing    *)
(* when SIGTERM arrived: what SIGTERM misses, SIGKILL gets.                *)
(***************************************************************************)
StopReturns ==
    launcher = "terminated" ~> (launcher = "stopped" /\ pc \in Ended)
=============================================================================
