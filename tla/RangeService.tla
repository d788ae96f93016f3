---------------------------- MODULE RangeService ----------------------------
(***************************************************************************)
(* What the range dedup proxy (fetch-motivation/simple-test/               *)
(* range_dedup_proxy.py) promises its clients, with no lock, no table of   *)
(* fetches in flight and no event: a range is either known or not.  The    *)
(* requests that are outstanding on an unknown range share the fate of the *)
(* next upstream answer for it; a known range is known for good.           *)
(***************************************************************************)
CONSTANTS
    Handlers,   \* connection slots, one request at a time on each
    Keys,       \* the (start, length) ranges clients ask for
    NoKey       \* no request; not one of the Keys

VARIABLES
    request,    \* request[h]: the range handler h has been asked for
    fate,       \* fate[h]: what is already decided about that request
    known       \* the ranges upstream has delivered

serviceVars == <<request, fate, known>>

Fates == {"none", "open", "data", "error"}

ServiceInit ==
    /\ request = [h \in Handlers |-> NoKey]
    /\ fate = [h \in Handlers |-> "none"]
    /\ known = {}

\* A request for a known range is decided on arrival, any other is open.
Ask(h, k) ==
    /\ request[h] = NoKey
    /\ request' = [request EXCEPT ![h] = k]
    /\ fate' = [fate EXCEPT ![h] = IF k \in known THEN "data" ELSE "open"]
    /\ UNCHANGED known

Open(k) == {h \in Handlers : request[h] = k /\ fate[h] = "open"}

Decide(k, f) ==
    fate' = [h \in Handlers |-> IF h \in Open(k) THEN f ELSE fate[h]]

\* Upstream delivers a range somebody waits for: everybody who waits gets it.
Learn(k) ==
    /\ k \notin known
    /\ Open(k) # {}
    /\ known' = known \union {k}
    /\ Decide(k, "data")
    /\ UNCHANGED request

\* Upstream fails: everybody who waits fails, nobody who asks later does.
Fail(k) ==
    /\ k \notin known
    /\ Open(k) # {}
    /\ Decide(k, "error")
    /\ UNCHANGED <<request, known>>

Reply(h) ==
    /\ fate[h] \in {"data", "error"}
    /\ request' = [request EXCEPT ![h] = NoKey]
    /\ fate' = [fate EXCEPT ![h] = "none"]
    /\ UNCHANGED known

ServiceNext ==
    \/ \E h \in Handlers : \E k \in Keys : Ask(h, k)
    \/ \E k \in Keys : Learn(k) \/ Fail(k)
    \/ \E h \in Handlers : Reply(h)

ServiceSpec == ServiceInit /\ [][ServiceNext]_serviceVars
=============================================================================
