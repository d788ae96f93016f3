----------------------------- MODULE RangeStore -----------------------------
(***************************************************************************)
(* RangeStore.get_range of fetch-motivation/simple-test/                   *)
(* range_dedup_proxy.py, run by the handler threads of DedupServer.  Every *)
(* section under self.lock is one action; what a thread does outside the   *)
(* lock (the upstream fetch, event.set, event.wait) lies between actions.  *)
(*                                                                         *)
(* A FetchState object is named by the number of FetchStates created up to *)
(* it, which is the value remote_requests takes when it is created.  The   *)
(* bytes of a range are named by the range they are the bytes of.          *)
(***************************************************************************)
EXTENDS Integers, FiniteSets, FiniteSetsExt

CONSTANTS
    Handlers,      \* handler threads (one per client connection)
    Keys,          \* the (start, length) pairs clients request
    NoKey,         \* None, where the code holds bytes or no bytes
    Length,        \* Length[k]: length in bytes of range k
    MaxRequests    \* bound on the requests of one behaviour

ASSUME HandlersFinite == IsFiniteSet(Handlers)
ASSUME KeysFinite == IsFiniteSet(Keys)
ASSUME NoKeyNotKey == NoKey \notin Keys
\* parse_range_header refuses end < start, so a range has at least one byte.
ASSUME LengthPositive == Length \in [Keys -> Nat \ {0}]
ASSUME MaxRequestsNat == MaxRequests \in Nat

VARIABLES
    cache,         \* cache[k]: the bytes stored for k, NoKey if absent
    inflight,      \* inflight[k]: the FetchState in flight for k, 0 if absent
    event, data, error,  \* the fields of the FetchState objects
    pc,            \* where each handler thread is in get_range
    key,           \* its local key
    state,         \* its local state, 0 when it holds none
    answer,        \* the bytes get_range returns, NoKey when it raises
    client_requests, remote_requests, cache_hits, inflight_hits,
    bytes_served, bytes_from_remote, cache_bytes, remote_errors

counters == <<client_requests, remote_requests, cache_hits, inflight_hits,
              bytes_served, bytes_from_remote, cache_bytes, remote_errors>>
fetches == <<event, data, error>>
vars == <<cache, inflight, fetches, pc, key, state, answer, counters>>

FetchIds == 1..MaxRequests
Blobs == Keys \union {NoKey}

\* FetchState(): the event is clear, data and error are None.
NewFetchState(i) ==
    /\ event' = [event EXCEPT ![i] = FALSE]
    /\ data' = [data EXCEPT ![i] = NoKey]
    /\ error' = [error EXCEPT ![i] = FALSE]

(***************************************************************************)
(* idle   reading the next request of the connection                       *)
(* fetch  owner of state[h], inside fetch_remote                           *)
(* signal owner, out of the lock and before state.event.set()              *)
(* wait   not the owner, in state.event.wait()                             *)
(* count  waiter with data, before it takes the lock for bytes_served      *)
(* reply  get_range is over, the answer is being sent                      *)
(***************************************************************************)
Locations == {"idle", "fetch", "signal", "wait", "count", "reply"}

Init ==
    /\ cache = [k \in Keys |-> NoKey]
    /\ inflight = [k \in Keys |-> 0]
    /\ event = [i \in FetchIds |-> FALSE]
    /\ data = [i \in FetchIds |-> NoKey]
    /\ error = [i \in FetchIds |-> FALSE]
    /\ pc = [h \in Handlers |-> "idle"]
    /\ key = [h \in Handlers |-> NoKey]
    /\ state = [h \in Handlers |-> 0]
    /\ answer = [h \in Handlers |-> NoKey]
    /\ client_requests = 0 /\ remote_requests = 0
    /\ cache_hits = 0 /\ inflight_hits = 0
    /\ bytes_served = 0 /\ bytes_from_remote = 0
    /\ cache_bytes = 0 /\ remote_errors = 0

(***************************************************************************)
(* The first locked section: a hit, a fetch to own or a fetch to wait for. *)
(***************************************************************************)
Arrive(h, k) ==
    /\ pc[h] = "idle"
    /\ client_requests < MaxRequests
    /\ client_requests' = client_requests + 1
    /\ key' = [key EXCEPT ![h] = k]

Hit(h, k) ==
    /\ Arrive(h, k)
    /\ cache[k] # NoKey
    /\ cache_hits' = cache_hits + 1
    /\ bytes_served' = bytes_served + Length[cache[k]]
    /\ answer' = [answer EXCEPT ![h] = cache[k]]
    /\ pc' = [pc EXCEPT ![h] = "reply"]
    /\ UNCHANGED <<cache, inflight, fetches, state, remote_requests,
                   inflight_hits, bytes_from_remote, cache_bytes, remote_errors>>

\* Faulty variant: the table of fetches in flight is not looked at.
OwnUnchecked(h, k) ==
    /\ Arrive(h, k)
    /\ cache[k] = NoKey
    /\ remote_requests' = remote_requests + 1
    /\ NewFetchState(remote_requests + 1)
    /\ inflight' = [inflight EXCEPT ![k] = remote_requests + 1]
    /\ state' = [state EXCEPT ![h] = remote_requests + 1]
    /\ pc' = [pc EXCEPT ![h] = "fetch"]
    /\ UNCHANGED <<cache, answer, cache_hits, inflight_hits, bytes_served,
                   bytes_from_remote, cache_bytes, remote_errors>>

Own(h, k) ==
    /\ Arrive(h, k)
    /\ cache[k] = NoKey
    /\ inflight[k] = 0
    /\ remote_requests' = remote_requests + 1
    /\ NewFetchState(remote_requests + 1)
    /\ inflight' = [inflight EXCEPT ![k] = remote_requests + 1]
    /\ state' = [state EXCEPT ![h] = remote_requests + 1]
    /\ pc' = [pc EXCEPT ![h] = "fetch"]
    /\ UNCHANGED <<cache, answer, cache_hits, inflight_hits, bytes_served,
                   bytes_from_remote, cache_bytes, remote_errors>>

Join(h, k) ==
    /\ Arrive(h, k)
    /\ cache[k] = NoKey
    /\ inflight[k] # 0
    /\ inflight_hits' = inflight_hits + 1
    /\ state' = [state EXCEPT ![h] = inflight[k]]
    /\ pc' = [pc EXCEPT ![h] = "wait"]
    /\ UNCHANGED <<cache, inflight, fetches, answer, remote_requests, cache_hits,
                   bytes_served, bytes_from_remote, cache_bytes, remote_errors>>

(***************************************************************************)
(* The owner's second locked section, after fetch_remote returned (Publish)*)
(* or raised (Abandon).  fetch_remote always ends: the upstream socket has *)
(* a timeout and fetch_range tries twice.                                  *)
(***************************************************************************)
Publish(h) ==
    LET k == key[h] IN
    /\ pc[h] = "fetch"
    /\ cache' = [cache EXCEPT ![k] = k]
    /\ cache_bytes' = cache_bytes + Length[k]
    /\ bytes_from_remote' = bytes_from_remote + Length[k]
    /\ bytes_served' = bytes_served + Length[k]
    /\ data' = [data EXCEPT ![state[h]] = k]
    /\ inflight' = [inflight EXCEPT ![k] = 0]
    /\ answer' = [answer EXCEPT ![h] = k]
    /\ pc' = [pc EXCEPT ![h] = "signal"]
    /\ UNCHANGED <<event, error, key, state, client_requests, remote_requests,
                   cache_hits, inflight_hits, remote_errors>>

\* Faulty variant: the error path returns without setting the event.
AbandonSilently(h) ==
    /\ pc[h] = "fetch"
    /\ remote_errors' = remote_errors + 1
    /\ error' = [error EXCEPT ![state[h]] = TRUE]
    /\ inflight' = [inflight EXCEPT ![key[h]] = 0]
    /\ answer' = [answer EXCEPT ![h] = NoKey]
    /\ pc' = [pc EXCEPT ![h] = "reply"]
    /\ UNCHANGED <<event, data, cache, key, state, client_requests,
                   remote_requests, cache_hits, inflight_hits, bytes_served,
                   bytes_from_remote, cache_bytes>>

\* Faulty variant: the error is not stored in the FetchState.
AbandonWithoutError(h) ==
    /\ pc[h] = "fetch"
    /\ remote_errors' = remote_errors + 1
    /\ error' = error
    /\ inflight' = [inflight EXCEPT ![key[h]] = 0]
    /\ answer' = [answer EXCEPT ![h] = NoKey]
    /\ pc' = [pc EXCEPT ![h] = "signal"]
    /\ UNCHANGED <<event, data, cache, key, state, client_requests,
                   remote_requests, cache_hits, inflight_hits, bytes_served,
                   bytes_from_remote, cache_bytes>>

\* Faulty variant: failed fetches are not counted.
AbandonUncounted(h) ==
    /\ pc[h] = "fetch"
    /\ remote_errors' = remote_errors
    /\ error' = [error EXCEPT ![state[h]] = TRUE]
    /\ inflight' = [inflight EXCEPT ![key[h]] = 0]
    /\ answer' = [answer EXCEPT ![h] = NoKey]
    /\ pc' = [pc EXCEPT ![h] = "signal"]
    /\ UNCHANGED <<event, data, cache, key, state, client_requests,
                   remote_requests, cache_hits, inflight_hits, bytes_served,
                   bytes_from_remote, cache_bytes>>

\* Faulty variant: the failed fetch stays in the table.
AbandonKeepsEntry(h) ==
    /\ pc[h] = "fetch"
    /\ remote_errors' = remote_errors + 1
    /\ error' = [error EXCEPT ![state[h]] = TRUE]
    /\ inflight' = inflight
    /\ answer' = [answer EXCEPT ![h] = NoKey]
    /\ pc' = [pc EXCEPT ![h] = "signal"]
    /\ UNCHANGED <<event, data, cache, key, state, client_requests,
                   remote_requests, cache_hits, inflight_hits, bytes_served,
                   bytes_from_remote, cache_bytes>>

Abandon(h) ==
    /\ pc[h] = "fetch"
    /\ remote_errors' = remote_errors + 1
    /\ error' = [error EXCEPT ![state[h]] = TRUE]
    /\ inflight' = [inflight EXCEPT ![key[h]] = 0]
    /\ answer' = [answer EXCEPT ![h] = NoKey]
    /\ pc' = [pc EXCEPT ![h] = "signal"]
    /\ UNCHANGED <<event, data, cache, key, state, client_requests,
                   remote_requests, cache_hits, inflight_hits, bytes_served,
                   bytes_from_remote, cache_bytes>>

\* state.event.set(), outside the lock, then return data or re-raise.
Signal(h) ==
    /\ pc[h] = "signal"
    /\ event' = [event EXCEPT ![state[h]] = TRUE]
    /\ pc' = [pc EXCEPT ![h] = "reply"]
    /\ UNCHANGED <<data, error, cache, inflight, key, state, answer, counters>>

(***************************************************************************)
(* The waiter: event.wait() has no timeout.  It re-raises the owner's      *)
(* error, raises its own when there is no data, and counts its bytes in a  *)
(* locked section of its own otherwise.                                    *)
(***************************************************************************)
WakeWithError(h) ==
    /\ pc[h] = "wait"
    /\ event[state[h]]
    /\ error[state[h]] \/ data[state[h]] = NoKey
    /\ answer' = [answer EXCEPT ![h] = NoKey]
    /\ pc' = [pc EXCEPT ![h] = "reply"]
    /\ UNCHANGED <<cache, inflight, fetches, key, state, counters>>

WakeWithData(h) ==
    /\ pc[h] = "wait"
    /\ event[state[h]]
    /\ ~error[state[h]]
    /\ data[state[h]] # NoKey
    /\ pc' = [pc EXCEPT ![h] = "count"]
    /\ UNCHANGED <<cache, inflight, fetches, key, state, answer, counters>>

Count(h) ==
    /\ pc[h] = "count"
    /\ bytes_served' = bytes_served + Length[data[state[h]]]
    /\ answer' = [answer EXCEPT ![h] = data[state[h]]]
    /\ pc' = [pc EXCEPT ![h] = "reply"]
    /\ UNCHANGED <<cache, inflight, fetches, key, state, client_requests,
                   remote_requests, cache_hits, inflight_hits,
                   bytes_from_remote, cache_bytes, remote_errors>>

(***************************************************************************)
(* handle(): send_range, or send_error(502) and the end of the connection. *)
(* Either way the slot is free for the next request, of this connection or *)
(* of a new one, and the thread's locals are gone.                         *)
(***************************************************************************)
Respond(h) ==
    /\ pc[h] = "reply"
    /\ pc' = [pc EXCEPT ![h] = "idle"]
    /\ key' = [key EXCEPT ![h] = NoKey]
    /\ state' = [state EXCEPT ![h] = 0]
    /\ answer' = [answer EXCEPT ![h] = NoKey]
    /\ UNCHANGED <<cache, inflight, fetches, counters>>

\* The bound is reached and every request has been answered.
Exhausted ==
    /\ client_requests = MaxRequests
    /\ \A h \in Handlers : pc[h] = "idle"
    /\ UNCHANGED vars

Progress(h) ==
    \/ Publish(h) \/ Abandon(h) \/ Signal(h)
    \/ WakeWithError(h) \/ WakeWithData(h) \/ Count(h) \/ Respond(h)

Next ==
    \/ \E h \in Handlers, k \in Keys : Hit(h, k) \/ Own(h, k) \/ Join(h, k)
    \/ \E h \in Handlers : Progress(h)
    \/ Exhausted

Spec == Init /\ [][Next]_vars

\* A thread that can run does run: the lock is held for a bounded time, the
\* upstream fetch is bounded by its timeouts, nothing else blocks a thread
\* but the event it waits for.  Clients owe no further request.
FairSpec == Spec /\ \A h \in Handlers : WF_vars(Progress(h))

----------------------------------------------------------------------------
Cached == {k \in Keys : cache[k] # NoKey}
InFlight == {k \in Keys : inflight[k] # 0}
Owner(h) == pc[h] \in {"fetch", "signal"}

TypeOK ==
    /\ cache \in [Keys -> Blobs]
    /\ inflight \in [Keys -> 0..MaxRequests]
    /\ event \in [FetchIds -> BOOLEAN]
    /\ data \in [FetchIds -> Blobs]
    /\ error \in [FetchIds -> BOOLEAN]
    /\ pc \in [Handlers -> Locations]
    /\ key \in [Handlers -> Blobs]
    /\ state \in [Handlers -> 0..MaxRequests]
    /\ answer \in [Handlers -> Blobs]
    /\ client_requests \in 0..MaxRequests
    /\ remote_requests \in 0..MaxRequests
    /\ cache_hits \in Nat /\ inflight_hits \in Nat
    /\ bytes_served \in Nat /\ bytes_from_remote \in Nat
    /\ cache_bytes \in Nat /\ remote_errors \in Nat

(***************************************************************************)
(* A range is fetched by one handler at a time, and not at all once it is  *)
(* cached: what get_range's inflight table is for.                         *)
(***************************************************************************)
SingleFlight ==
    \A h \in Handlers : pc[h] = "fetch" =>
        /\ cache[key[h]] = NoKey
        /\ \A g \in Handlers : pc[g] = "fetch" /\ key[g] = key[h] => g = h

(***************************************************************************)
(* event.wait() has no timeout: a waiter whose event is not set can rely   *)
(* on a live owner of the very same FetchState that has yet to set it,     *)
(* even though the table entry is gone before the event is set.            *)
(***************************************************************************)
NoOrphanedWaiter ==
    \A h \in Handlers : pc[h] = "wait" =>
        \/ event[state[h]]
        \/ \E o \in Handlers : Owner(o) /\ state[o] = state[h]

(***************************************************************************)
(* A waiter that wakes up finds an error or the bytes of the range it      *)
(* asked for: "range fetch completed without data" is never raised, and a  *)
(* reply never carries another range's bytes.                              *)
(***************************************************************************)
RightBytes ==
    \A h \in Handlers :
        /\ pc[h] = "wait" /\ event[state[h]] =>
              error[state[h]] \/ data[state[h]] = key[h]
        /\ pc[h] = "count" => data[state[h]] = key[h]
        /\ pc[h] = "reply" => answer[h] \in {key[h], NoKey}

(***************************************************************************)
(* The figures /__stats reports under one lock add up at any moment: each  *)
(* request is a hit, a joined fetch or a fetch; each fetch is cached,      *)
(* failed or still in flight.                                              *)
(***************************************************************************)
RequestsAddUp ==
    /\ client_requests = cache_hits + inflight_hits + remote_requests
    /\ remote_requests =
          Cardinality(Cached) + remote_errors + Cardinality(InFlight)

(***************************************************************************)
(* The inductive invariant behind the properties of this module: an entry  *)
(* of inflight has its owner and an owner its entry, and what a thread out *)
(* of the lock holds (its key, its state) is still what it was.            *)
(***************************************************************************)
Undecided(i) == ~event[i] /\ ~error[i] /\ data[i] = NoKey

TablesSound == \A k \in Keys :
    /\ cache[k] \in {k, NoKey}
    /\ inflight[k] # 0 => cache[k] = NoKey

EntryHasOwner == \A k \in Keys : inflight[k] # 0 =>
    \E h \in Handlers : pc[h] = "fetch" /\ key[h] = k /\ state[h] = inflight[k]

OwnerHasEntry == \A h \in Handlers : pc[h] = "fetch" =>
    inflight[key[h]] = state[h] /\ Undecided(state[h])

OneOwner == \A g, h \in Handlers :
    Owner(g) /\ Owner(h) /\ state[g] = state[h] => g = h

LocalsSound == \A h \in Handlers :
    /\ pc[h] = "idle" <=> key[h] = NoKey
    /\ pc[h] \in {"fetch", "signal", "wait", "count"} =>
          state[h] \in 1..remote_requests
    /\ pc[h] = "count" => data[state[h]] = key[h]
    /\ pc[h] \in {"signal", "reply"} => answer[h] \in {key[h], NoKey}

\* A waiter's fetch is in the table under the waiter's own key, or decided
\* and signalled, or decided and about to be signalled.
WaiterSound == \A h \in Handlers : pc[h] = "wait" =>
    \/ Undecided(state[h]) /\ inflight[key[h]] = state[h]
    \/ /\ \/ error[state[h]] /\ data[state[h]] = NoKey
          \/ ~error[state[h]] /\ data[state[h]] = key[h]
       /\ \/ event[state[h]]
          \/ \E o \in Handlers : pc[o] = "signal" /\ state[o] = state[h]

IndInv ==
    /\ TypeOK /\ RequestsAddUp
    /\ TablesSound /\ EntryHasOwner /\ OwnerHasEntry /\ OneOwner
    /\ LocalsSound /\ WaiterSound

(***************************************************************************)
(* The store implements RangeService: an error is only ever returned to    *)
(* requests that were already outstanding when the fetch failed, and a     *)
(* range once fetched stays known.                                         *)
(***************************************************************************)
FateOf(h) ==
    CASE pc[h] = "idle"                  -> "none"
      [] pc[h] = "fetch"                 -> "open"
      [] pc[h] = "count"                 -> "data"
      [] pc[h] \in {"signal", "reply"}   ->
            IF answer[h] = NoKey THEN "error" ELSE "data"
      [] pc[h] = "wait"                  ->
            IF error[state[h]] THEN "error"
            ELSE IF data[state[h]] # NoKey THEN "data" ELSE "open"

Service == INSTANCE RangeService
    WITH request <- key, fate <- [h \in Handlers |-> FateOf(h)], known <- Cached

Implements == Service!ServiceSpec

(***************************************************************************)
(* Every request is answered, by data or by an error: a handler never      *)
(* stays in get_range for ever, however often upstream fails.              *)
(***************************************************************************)
EveryRequestAnswered ==
    \A h \in Handlers : pc[h] # "idle" ~> pc[h] = "idle"
=============================================================================
