-------------------------- MODULE RangeStoreProofs --------------------------
(***************************************************************************)
(* What holds of RangeStore for every number of handlers, ranges and       *)
(* requests: the inductive invariant, the safety properties that follow    *)
(* from it, and that the store implements RangeService.                    *)
(***************************************************************************)
EXTENDS RangeStore, FiniteSetTheorems, TLAPS

\* A new RangeStore (no entry, no fetch, all counters zero) satisfies the invariant.
LEMMA InitInd == Init => IndInv
<1> SUFFICES ASSUME Init PROVE IndInv
  OBVIOUS
<1> USE NoKeyNotKey, MaxRequestsNat DEF Init
<1>1. TypeOK
  BY DEF TypeOK, Blobs, FetchIds, Locations
<1>2. Cached = {} /\ InFlight = {}
  BY DEF Cached, InFlight
<1>3. RequestsAddUp
  BY <1>2, FS_EmptySet DEF RequestsAddUp
<1>4. TablesSound /\ EntryHasOwner /\ OwnerHasEntry /\ OneOwner
  BY DEF TablesSound, EntryHasOwner, OwnerHasEntry, OneOwner, Owner
<1>5. LocalsSound /\ WaiterSound
  BY DEF LocalsSound, WaiterSound
<1> QED
  BY <1>1, <1>3, <1>4, <1>5 DEF IndInv

\* The number of elements of a finite set changes by one with an element.
LEMMA CardAdd ==
  ASSUME NEW S, IsFiniteSet(S), NEW x, x \notin S
  PROVE  Cardinality(S \union {x}) = Cardinality(S) + 1
BY FS_AddElement

\* The same for an element that leaves: an entry popped from inflight.
LEMMA CardRemove ==
  ASSUME NEW S, IsFiniteSet(S), NEW x, x \in S
  PROVE  Cardinality(S \ {x}) = Cardinality(S) - 1
BY FS_RemoveElement

\* The cached and the in-flight ranges are finitely many.
LEMMA FiniteTables ==
  /\ IsFiniteSet(Cached) /\ Cardinality(Cached) \in Nat
  /\ IsFiniteSet(InFlight) /\ Cardinality(InFlight) \in Nat
<1>1. Cached \subseteq Keys /\ InFlight \subseteq Keys
  BY DEF Cached, InFlight
<1> QED
  BY <1>1, KeysFinite, FS_Subset, FS_CardinalityType

\* A request that arrives below the bound can still create a FetchState: there are
\* never more fetches than requests.
LEMMA ArriveFits ==
  ASSUME TypeOK, RequestsAddUp, client_requests < MaxRequests
  PROVE  remote_requests + 1 \in FetchIds
BY MaxRequestsNat DEF TypeOK, RequestsAddUp, FetchIds

\* A cache hit keeps the invariant: only counters and the handler's own locals change.
LEMMA HitInd ==
  ASSUME IndInv, NEW h \in Handlers, NEW k \in Keys, Hit(h, k)
  PROVE  IndInv'
<1> USE NoKeyNotKey, MaxRequestsNat, LengthPositive DEF IndInv, Hit, Arrive, fetches
<1>1. TypeOK'
  BY DEF TypeOK, Blobs, Locations, FetchIds
<1>2. RequestsAddUp'
  BY FiniteTables DEF RequestsAddUp, Cached, InFlight, TypeOK, fetches
<1>3. TablesSound'
  BY DEF TablesSound, TypeOK
<1>4. EntryHasOwner'
  BY DEF EntryHasOwner, TypeOK
<1>5. OwnerHasEntry'
  BY DEF OwnerHasEntry, Undecided, TypeOK
<1>6. OneOwner'
  BY DEF OneOwner, Owner, TypeOK
<1>7. LocalsSound'
  BY DEF LocalsSound, TypeOK, TablesSound
<1>8. WaiterSound'
  BY DEF WaiterSound, Undecided, TypeOK
<1> QED
  BY <1>1, <1>2, <1>3, <1>4, <1>5, <1>6, <1>7, <1>8

\* A miss that creates a FetchState keeps it: the new state belongs to nobody else.
LEMMA OwnInd ==
  ASSUME IndInv, NEW h \in Handlers, NEW k \in Keys, Own(h, k)
  PROVE  IndInv'
<1> USE NoKeyNotKey, MaxRequestsNat, LengthPositive DEF IndInv, Own, Arrive, NewFetchState
<1>a. remote_requests + 1 \in FetchIds
  BY ArriveFits
<1>b. \A g \in Handlers : pc[g] \in {"fetch", "signal", "wait", "count"} =>
           state[g] # remote_requests + 1
  BY DEF LocalsSound, TypeOK
<1>1. TypeOK'
  BY <1>a DEF TypeOK, Blobs, Locations, FetchIds
<1>2. RequestsAddUp'
  <2>1. InFlight' = InFlight \union {k} /\ k \notin InFlight
    BY <1>a DEF InFlight, TypeOK, FetchIds
  <2>2. Cached' = Cached
    BY DEF Cached
  <2>3. Cardinality(InFlight') = Cardinality(InFlight) + 1
    BY <2>1, FiniteTables, CardAdd
  <2> QED
    BY <2>2, <2>3, FiniteTables DEF RequestsAddUp, TypeOK
<1>3. TablesSound'
  BY <1>a DEF TablesSound, TypeOK, FetchIds
<1>4. EntryHasOwner'
  <2> SUFFICES ASSUME NEW j \in Keys, inflight'[j] # 0
               PROVE  \E g \in Handlers : pc'[g] = "fetch" /\ key'[g] = j
                                          /\ state'[g] = inflight'[j]
    BY DEF EntryHasOwner
  <2>1. CASE j = k
    BY <2>1, <1>a DEF TypeOK
  <2>2. CASE j # k
    <3>1. PICK g \in Handlers : pc[g] = "fetch" /\ key[g] = j /\ state[g] = inflight[j]
      BY <2>2 DEF EntryHasOwner, TypeOK
    <3> QED
      BY <2>2, <3>1 DEF TypeOK
  <2> QED
    BY <2>1, <2>2
<1>5. OwnerHasEntry'
  BY <1>a, <1>b DEF OwnerHasEntry, Undecided, TypeOK, FetchIds, LocalsSound, Blobs
<1>6. OneOwner'
  BY <1>a, <1>b DEF OneOwner, Owner, TypeOK
<1>7. LocalsSound'
  BY <1>a DEF LocalsSound, TypeOK, FetchIds
<1>8. WaiterSound'
  <2> SUFFICES ASSUME NEW g \in Handlers, pc'[g] = "wait"
               PROVE  WaiterSound!(g)!2'
    BY DEF WaiterSound
  <2>1. /\ pc[g] = "wait" /\ g # h /\ key[g] \in Keys
        /\ state[g] \in FetchIds /\ state[g] # remote_requests + 1
    BY <1>b DEF TypeOK, LocalsSound, Blobs, FetchIds
  <2>2. event'[state[g]] = event[state[g]] /\ error'[state[g]] = error[state[g]]
        /\ data'[state[g]] = data[state[g]] /\ state'[g] = state[g] /\ key'[g] = key[g]
    BY <1>a, <2>1 DEF TypeOK
  <2>3. CASE Undecided(state[g]) /\ inflight[key[g]] = state[g]
    BY <2>1, <2>2, <2>3 DEF Undecided, TypeOK, FetchIds
  <2>4. CASE ~(Undecided(state[g]) /\ inflight[key[g]] = state[g])
    BY <2>1, <2>2, <2>4 DEF WaiterSound, TypeOK
  <2> QED
    BY <2>3, <2>4
<1> QED
  BY <1>1, <1>2, <1>3, <1>4, <1>5, <1>6, <1>7, <1>8

\* A miss that finds a fetch in flight keeps it: the waiter shares its owner's key.
LEMMA JoinInd ==
  ASSUME IndInv, NEW h \in Handlers, NEW k \in Keys, Join(h, k)
  PROVE  IndInv'
<1> USE NoKeyNotKey, MaxRequestsNat, LengthPositive DEF IndInv, Join, Arrive, fetches
<1>1. TypeOK'
  BY DEF TypeOK, Blobs, Locations, FetchIds
<1>2. RequestsAddUp'
  BY FiniteTables DEF RequestsAddUp, Cached, InFlight, TypeOK, fetches
<1>3. TablesSound'
  BY DEF TablesSound, TypeOK
<1>4. EntryHasOwner'
  BY DEF EntryHasOwner, TypeOK
<1>5. OwnerHasEntry'
  BY DEF OwnerHasEntry, Undecided, TypeOK
<1>6. OneOwner'
  BY DEF OneOwner, Owner, TypeOK
<1>a. inflight[k] \in 1..remote_requests /\ Undecided(inflight[k])
  BY DEF EntryHasOwner, OwnerHasEntry, LocalsSound, TypeOK
<1>7. LocalsSound'
  BY <1>a DEF LocalsSound, TypeOK
<1>8. WaiterSound'
  BY <1>a DEF WaiterSound, Undecided, TypeOK
<1> QED
  BY <1>1, <1>2, <1>3, <1>4, <1>5, <1>6, <1>7, <1>8

\* The owner that stores its bytes keeps it: entry, cache and FetchState change together.
LEMMA PublishInd ==
  ASSUME IndInv, NEW h \in Handlers, Publish(h)
  PROVE  IndInv'
<1> USE NoKeyNotKey, MaxRequestsNat, LengthPositive DEF IndInv, Publish
<1>a. /\ key[h] \in Keys /\ state[h] \in FetchIds /\ state[h] # 0
      /\ inflight[key[h]] = state[h] /\ cache[key[h]] = NoKey
      /\ Undecided(state[h]) /\ Length[key[h]] \in Nat
  <2>1. key[h] \in Keys /\ state[h] \in FetchIds /\ state[h] # 0
    BY DEF TypeOK, Blobs, LocalsSound, FetchIds
  <2> QED
    BY <2>1 DEF OwnerHasEntry, TablesSound
<1>b. ASSUME NEW j \in Keys, inflight[j] = state[h]
      PROVE  j = key[h]
  BY <1>a, <1>b DEF EntryHasOwner, OneOwner, Owner
<1>1. TypeOK'
  <2>1. cache' \in [Keys -> Blobs] /\ inflight' \in [Keys -> 0..MaxRequests]
    BY <1>a DEF TypeOK, Blobs
  <2>2. data' \in [FetchIds -> Blobs] /\ error' \in [FetchIds -> BOOLEAN]
    BY <1>a DEF TypeOK, Blobs
  <2>3. pc' \in [Handlers -> Locations] /\ answer' \in [Handlers -> Blobs]
    BY <1>a DEF TypeOK, Blobs, Locations
  <2> QED
    BY <1>a, <2>1, <2>2, <2>3 DEF TypeOK
<1>2. RequestsAddUp'
  <2>1. InFlight' = InFlight \ {key[h]} /\ key[h] \in InFlight
    BY <1>a DEF InFlight, TypeOK
  <2>2. Cardinality(InFlight') = Cardinality(InFlight) - 1
    BY <2>1, FiniteTables, CardRemove
  <2>3. Cached' = Cached \union {key[h]} /\ key[h] \notin Cached
    BY <1>a, NoKeyNotKey DEF Cached, TypeOK
  <2>4. Cardinality(Cached') = Cardinality(Cached) + 1
    BY <2>3, FiniteTables, CardAdd
  <2> QED
    BY <2>2, <2>4, FiniteTables DEF RequestsAddUp, TypeOK
<1>3. TablesSound'
  BY <1>a DEF TablesSound, TypeOK
<1>4. EntryHasOwner'
  <2> SUFFICES ASSUME NEW j \in Keys, inflight'[j] # 0
               PROVE  \E g \in Handlers : pc'[g] = "fetch" /\ key'[g] = j
                                          /\ state'[g] = inflight'[j]
    BY DEF EntryHasOwner
  <2>1. j # key[h] /\ inflight'[j] = inflight[j]
    BY <1>a DEF TypeOK
  <2>2. PICK g \in Handlers : pc[g] = "fetch" /\ key[g] = j /\ state[g] = inflight[j]
    BY <2>1 DEF EntryHasOwner
  <2> QED
    BY <2>1, <2>2 DEF TypeOK
<1>5. OwnerHasEntry'
  BY <1>a DEF OwnerHasEntry, OneOwner, Owner, Undecided, TypeOK, FetchIds, LocalsSound, Blobs
<1>6. OneOwner'
  BY DEF OneOwner, Owner, TypeOK
<1>7. LocalsSound'
  BY <1>a DEF LocalsSound, Undecided, TypeOK, Blobs
<1>8. WaiterSound'
  <2> SUFFICES ASSUME NEW g \in Handlers, pc'[g] = "wait"
               PROVE  WaiterSound!(g)!2'
    BY DEF WaiterSound
  <2>0. pc[g] = "wait" /\ g # h /\ key[g] \in Keys /\ state[g] \in FetchIds
    BY DEF TypeOK, LocalsSound, Blobs, FetchIds
  <2>1. CASE state[g] = state[h]
    <3>1. key[g] = key[h]
      BY <1>a, <1>b, <2>0, <2>1 DEF WaiterSound, Undecided
    <3> QED
      BY <1>a, <2>0, <2>1, <3>1 DEF TypeOK, Undecided
  <2>2. CASE state[g] # state[h]
    BY <1>a, <2>0, <2>2 DEF WaiterSound, Undecided, TypeOK
  <2> QED
    BY <2>1, <2>2
<1> QED
  BY <1>1, <1>2, <1>3, <1>4, <1>5, <1>6, <1>7, <1>8

\* The owner whose fetch failed keeps it: the entry goes, the error stays in the FetchState.
LEMMA AbandonInd ==
  ASSUME IndInv, NEW h \in Handlers, Abandon(h)
  PROVE  IndInv'
<1> USE NoKeyNotKey, MaxRequestsNat, LengthPositive DEF IndInv, Abandon
<1>a. /\ key[h] \in Keys /\ state[h] \in FetchIds /\ state[h] # 0
      /\ inflight[key[h]] = state[h] /\ cache[key[h]] = NoKey
      /\ Undecided(state[h]) /\ Length[key[h]] \in Nat
  <2>1. key[h] \in Keys /\ state[h] \in FetchIds /\ state[h] # 0
    BY DEF TypeOK, Blobs, LocalsSound, FetchIds
  <2> QED
    BY <2>1 DEF OwnerHasEntry, TablesSound
<1>b. ASSUME NEW j \in Keys, inflight[j] = state[h]
      PROVE  j = key[h]
  BY <1>a, <1>b DEF EntryHasOwner, OneOwner, Owner
<1>1. TypeOK'
  <2>1. cache' \in [Keys -> Blobs] /\ inflight' \in [Keys -> 0..MaxRequests]
    BY <1>a DEF TypeOK, Blobs
  <2>2. data' \in [FetchIds -> Blobs] /\ error' \in [FetchIds -> BOOLEAN]
    BY <1>a DEF TypeOK, Blobs
  <2>3. pc' \in [Handlers -> Locations] /\ answer' \in [Handlers -> Blobs]
    BY <1>a DEF TypeOK, Blobs, Locations
  <2> QED
    BY <1>a, <2>1, <2>2, <2>3 DEF TypeOK
<1>2. RequestsAddUp'
  <2>1. InFlight' = InFlight \ {key[h]} /\ key[h] \in InFlight
    BY <1>a DEF InFlight, TypeOK
  <2>2. Cardinality(InFlight') = Cardinality(InFlight) - 1
    BY <2>1, FiniteTables, CardRemove
  <2>4. Cached' = Cached
    BY DEF Cached
  <2> QED
    BY <2>2, <2>4, FiniteTables DEF RequestsAddUp, TypeOK
<1>3. TablesSound'
  BY <1>a DEF TablesSound, TypeOK
<1>4. EntryHasOwner'
  <2> SUFFICES ASSUME NEW j \in Keys, inflight'[j] # 0
               PROVE  \E g \in Handlers : pc'[g] = "fetch" /\ key'[g] = j
                                          /\ state'[g] = inflight'[j]
    BY DEF EntryHasOwner
  <2>1. j # key[h] /\ inflight'[j] = inflight[j]
    BY <1>a DEF TypeOK
  <2>2. PICK g \in Handlers : pc[g] = "fetch" /\ key[g] = j /\ state[g] = inflight[j]
    BY <2>1 DEF EntryHasOwner
  <2> QED
    BY <2>1, <2>2 DEF TypeOK
<1>5. OwnerHasEntry'
  BY <1>a DEF OwnerHasEntry, OneOwner, Owner, Undecided, TypeOK, FetchIds, LocalsSound, Blobs
<1>6. OneOwner'
  BY DEF OneOwner, Owner, TypeOK
<1>7. LocalsSound'
  BY <1>a DEF LocalsSound, Undecided, TypeOK, Blobs
<1>8. WaiterSound'
  <2> SUFFICES ASSUME NEW g \in Handlers, pc'[g] = "wait"
               PROVE  WaiterSound!(g)!2'
    BY DEF WaiterSound
  <2>0. pc[g] = "wait" /\ g # h /\ key[g] \in Keys /\ state[g] \in FetchIds
    BY DEF TypeOK, LocalsSound, Blobs, FetchIds
  <2>1. CASE state[g] = state[h]
    <3>1. key[g] = key[h]
      BY <1>a, <1>b, <2>0, <2>1 DEF WaiterSound, Undecided
    <3> QED
      BY <1>a, <2>0, <2>1, <3>1 DEF TypeOK, Undecided
  <2>2. CASE state[g] # state[h]
    BY <1>a, <2>0, <2>2 DEF WaiterSound, Undecided, TypeOK
  <2> QED
    BY <2>1, <2>2
<1> QED
  BY <1>1, <1>2, <1>3, <1>4, <1>5, <1>6, <1>7, <1>8

\* event.set() keeps it: the FetchState was decided before, under the lock.
LEMMA SignalInd ==
  ASSUME IndInv, NEW h \in Handlers, Signal(h)
  PROVE  IndInv'
<1> USE NoKeyNotKey, MaxRequestsNat, LengthPositive DEF IndInv, Signal, counters
<1>a. key[h] \in Keys /\ state[h] \in 0..MaxRequests
  BY DEF TypeOK, Blobs, LocalsSound
<1>1. TypeOK'
  BY <1>a DEF TypeOK, Blobs, Locations, FetchIds
<1>2. RequestsAddUp'
  BY FiniteTables DEF RequestsAddUp, Cached, InFlight, TypeOK
<1>3. TablesSound'
  BY DEF TablesSound, TypeOK
<1>4. EntryHasOwner'
  BY DEF EntryHasOwner, TypeOK
<1>5. OwnerHasEntry'
  BY DEF OwnerHasEntry, OneOwner, Owner, Undecided, TypeOK
<1>6. OneOwner'
  BY DEF OneOwner, Owner, TypeOK
<1>7. LocalsSound'
  BY <1>a DEF LocalsSound, WaiterSound, TypeOK
<1>8. WaiterSound'
  <2> SUFFICES ASSUME NEW g \in Handlers, pc'[g] = "wait"
               PROVE  WaiterSound!(g)!2'
    BY DEF WaiterSound
  <2>1. pc[g] = "wait" /\ g # h /\ key[g] \in Keys /\ state[g] \in FetchIds
    BY DEF TypeOK, LocalsSound, Blobs, FetchIds
  <2>2. CASE state[g] = state[h]
    <3>1. ~(Undecided(state[g]) /\ inflight[key[g]] = state[g])
      BY <2>1, <2>2 DEF EntryHasOwner, OneOwner, Owner, FetchIds
    <3> QED
      BY <2>1, <2>2, <3>1 DEF WaiterSound, TypeOK
  <2>3. CASE state[g] # state[h]
    BY <2>1, <2>3 DEF WaiterSound, Undecided, TypeOK
  <2> QED
    BY <2>2, <2>3
<1> QED
  BY <1>1, <1>2, <1>3, <1>4, <1>5, <1>6, <1>7, <1>8

\* A waiter that re-raises the owner's error keeps it.
LEMMA WakeWithErrorInd ==
  ASSUME IndInv, NEW h \in Handlers, WakeWithError(h)
  PROVE  IndInv'
<1> USE NoKeyNotKey, MaxRequestsNat, LengthPositive DEF IndInv, WakeWithError, fetches, counters
<1>a. key[h] \in Keys /\ state[h] \in 0..MaxRequests
  BY DEF TypeOK, Blobs, LocalsSound
<1>1. TypeOK'
  BY <1>a DEF TypeOK, Blobs, Locations, FetchIds
<1>2. RequestsAddUp'
  BY FiniteTables DEF RequestsAddUp, Cached, InFlight, TypeOK
<1>3. TablesSound'
  BY DEF TablesSound, TypeOK
<1>4. EntryHasOwner'
  BY DEF EntryHasOwner, TypeOK
<1>5. OwnerHasEntry'
  BY DEF OwnerHasEntry, OneOwner, Owner, Undecided, TypeOK
<1>6. OneOwner'
  BY DEF OneOwner, Owner, TypeOK
<1>7. LocalsSound'
  BY <1>a DEF LocalsSound, WaiterSound, TypeOK
<1>8. WaiterSound'
  BY DEF WaiterSound, Undecided, TypeOK
<1> QED
  BY <1>1, <1>2, <1>3, <1>4, <1>5, <1>6, <1>7, <1>8

\* A waiter that finds data keeps it: the bytes are the ones of its own range.
LEMMA WakeWithDataInd ==
  ASSUME IndInv, NEW h \in Handlers, WakeWithData(h)
  PROVE  IndInv'
<1> USE NoKeyNotKey, MaxRequestsNat, LengthPositive DEF IndInv, WakeWithData, fetches, counters
<1>a. key[h] \in Keys /\ state[h] \in 0..MaxRequests
  BY DEF TypeOK, Blobs, LocalsSound
<1>1. TypeOK'
  BY <1>a DEF TypeOK, Blobs, Locations, FetchIds
<1>2. RequestsAddUp'
  BY FiniteTables DEF RequestsAddUp, Cached, InFlight, TypeOK
<1>3. TablesSound'
  BY DEF TablesSound, TypeOK
<1>4. EntryHasOwner'
  BY DEF EntryHasOwner, TypeOK
<1>5. OwnerHasEntry'
  BY DEF OwnerHasEntry, OneOwner, Owner, Undecided, TypeOK
<1>6. OneOwner'
  BY DEF OneOwner, Owner, TypeOK
<1>7. LocalsSound'
  BY <1>a DEF LocalsSound, WaiterSound, Undecided, TypeOK
<1>8. WaiterSound'
  BY DEF WaiterSound, Undecided, TypeOK
<1> QED
  BY <1>1, <1>2, <1>3, <1>4, <1>5, <1>6, <1>7, <1>8

\* A waiter that counts its bytes and returns them keeps it.
LEMMA CountInd ==
  ASSUME IndInv, NEW h \in Handlers, Count(h)
  PROVE  IndInv'
<1> USE NoKeyNotKey, MaxRequestsNat, LengthPositive DEF IndInv, Count, fetches
<1>a. key[h] \in Keys /\ state[h] \in 0..MaxRequests
  BY DEF TypeOK, Blobs, LocalsSound
<1>1. TypeOK'
  BY <1>a DEF TypeOK, Blobs, Locations, FetchIds, LocalsSound
<1>2. RequestsAddUp'
  BY FiniteTables DEF RequestsAddUp, Cached, InFlight, TypeOK
<1>3. TablesSound'
  BY DEF TablesSound, TypeOK
<1>4. EntryHasOwner'
  BY DEF EntryHasOwner, TypeOK
<1>5. OwnerHasEntry'
  BY DEF OwnerHasEntry, OneOwner, Owner, Undecided, TypeOK
<1>6. OneOwner'
  BY DEF OneOwner, Owner, TypeOK
<1>7. LocalsSound'
  BY <1>a DEF LocalsSound, WaiterSound, TypeOK
<1>8. WaiterSound'
  BY DEF WaiterSound, Undecided, TypeOK
<1> QED
  BY <1>1, <1>2, <1>3, <1>4, <1>5, <1>6, <1>7, <1>8

\* A handler that has sent its reply keeps it: its locals are gone, nobody refers to them.
LEMMA RespondInd ==
  ASSUME IndInv, NEW h \in Handlers, Respond(h)
  PROVE  IndInv'
<1> USE NoKeyNotKey, MaxRequestsNat, LengthPositive DEF IndInv, Respond, fetches, counters
<1>a. key[h] \in Keys /\ state[h] \in 0..MaxRequests
  BY DEF TypeOK, Blobs, LocalsSound
<1>1. TypeOK'
  BY <1>a DEF TypeOK, Blobs, Locations, FetchIds
<1>2. RequestsAddUp'
  BY FiniteTables DEF RequestsAddUp, Cached, InFlight, TypeOK
<1>3. TablesSound'
  BY DEF TablesSound, TypeOK
<1>4. EntryHasOwner'
  BY DEF EntryHasOwner, TypeOK
<1>5. OwnerHasEntry'
  BY DEF OwnerHasEntry, OneOwner, Owner, Undecided, TypeOK
<1>6. OneOwner'
  BY DEF OneOwner, Owner, TypeOK
<1>7. LocalsSound'
  BY <1>a DEF LocalsSound, WaiterSound, TypeOK
<1>8. WaiterSound'
  BY DEF WaiterSound, Undecided, TypeOK
<1> QED
  BY <1>1, <1>2, <1>3, <1>4, <1>5, <1>6, <1>7, <1>8

\* Nothing changes when no variable does.
LEMMA StutterInd ==
  ASSUME IndInv, UNCHANGED vars
  PROVE  IndInv'
BY DEF IndInv, vars, fetches, counters, TypeOK, RequestsAddUp, Cached, InFlight,
       TablesSound, EntryHasOwner, OwnerHasEntry, OneOwner, Owner, LocalsSound,
       WaiterSound, Undecided

\* Every step of get_range, by any handler, keeps the invariant.
LEMMA NextInd == IndInv /\ [Next]_vars => IndInv'
<1> SUFFICES ASSUME IndInv, [Next]_vars PROVE IndInv'
  OBVIOUS
<1>1. CASE \E h \in Handlers, k \in Keys : Hit(h, k) \/ Own(h, k) \/ Join(h, k)
  BY <1>1, HitInd, OwnInd, JoinInd
<1>2. CASE \E h \in Handlers : Progress(h)
  BY <1>2, PublishInd, AbandonInd, SignalInd, WakeWithErrorInd, WakeWithDataInd,
     CountInd, RespondInd DEF Progress
<1>3. CASE Exhausted \/ UNCHANGED vars
  BY <1>3, StutterInd DEF Exhausted
<1> QED
  BY <1>1, <1>2, <1>3 DEF Next

\* In every reachable state of the store the table of fetches, the FetchStates and the
\* handlers' locals agree as IndInv says, for any number of handlers, ranges and requests.
THEOREM Inductive == Spec => []IndInv
BY InitInd, NextInd, PTL DEF Spec

\* All of get_range's state keeps its type; in particular no more FetchStates are made
\* than there are requests.
THEOREM TypeCorrect == Spec => []TypeOK
<1>1. IndInv => TypeOK
  BY DEF IndInv
<1> QED
  BY <1>1, Inductive, PTL

\* No range is fetched twice at a time, or again once it is cached.
THEOREM FetchedOnce == Spec => []SingleFlight
<1>1. IndInv => SingleFlight
  <2> SUFFICES ASSUME IndInv, NEW h \in Handlers, pc[h] = "fetch"
               PROVE  SingleFlight!(h)!2
    BY DEF SingleFlight
  <2>1. key[h] \in Keys /\ state[h] # 0 /\ inflight[key[h]] = state[h]
    BY DEF IndInv, TypeOK, Blobs, LocalsSound, OwnerHasEntry
  <2> QED
    BY <2>1 DEF IndInv, TablesSound, OwnerHasEntry, OneOwner, Owner
<1> QED
  BY <1>1, Inductive, PTL

\* A waiter without its event always has an owner that will set it.
THEOREM WaitersHaveOwners == Spec => []NoOrphanedWaiter
<1>1. IndInv => NoOrphanedWaiter
  <2> SUFFICES ASSUME IndInv, NEW h \in Handlers, pc[h] = "wait", ~event[state[h]]
               PROVE  \E o \in Handlers : Owner(o) /\ state[o] = state[h]
    BY DEF NoOrphanedWaiter
  <2>1. key[h] \in Keys /\ state[h] # 0
    BY DEF IndInv, TypeOK, Blobs, LocalsSound
  <2> QED
    BY <2>1 DEF IndInv, WaiterSound, EntryHasOwner, Owner
<1> QED
  BY <1>1, Inductive, PTL

\* The counters of /__stats add up in every state.
THEOREM StatsAddUp == Spec => []RequestsAddUp
<1>1. IndInv => RequestsAddUp
  BY DEF IndInv
<1> QED
  BY <1>1, Inductive, PTL

\* Nobody is answered with another range's bytes or with none at all.
THEOREM AnswersAreRight == Spec => []RightBytes
<1>1. IndInv => RightBytes
  BY DEF IndInv, RightBytes, WaiterSound, LocalsSound, Undecided
<1> QED
  BY <1>1, Inductive, PTL

-----------------------------------------------------------------------------
(***************************************************************************)
(* Refinement: the lock sections that decide something are steps of        *)
(* RangeService, the others change nothing it can see.                     *)
(***************************************************************************)
Fate == [h \in Handlers |-> FateOf(h)]

\* A handler whose locals and FetchState did not change keeps its fate.
LEMMA SameFate ==
  ASSUME NEW g \in Handlers, pc'[g] = pc[g], answer'[g] = answer[g],
         state'[g] = state[g],
         pc[g] = "wait" => /\ error'[state[g]] = error[state[g]]
                           /\ data'[state[g]] = data[state[g]]
  PROVE  FateOf(g)' = FateOf(g)
<1>1. CASE pc[g] = "wait"
  BY <1>1 DEF FateOf
<1>2. CASE pc[g] # "wait"
  BY <1>2 DEF FateOf
<1> QED
  BY <1>1, <1>2

\* A cache hit is an Ask for a known range.
LEMMA HitRefines ==
  ASSUME IndInv, NEW h \in Handlers, NEW k \in Keys, Hit(h, k)
  PROVE  Service!Ask(h, k)
<1> USE DEF IndInv, Hit, Arrive
<1>1. key[h] = NoKey /\ k \in Cached /\ Cached' = Cached
  BY DEF LocalsSound, Cached
<1>2. FateOf(h)' = "data"
  BY DEF FateOf, TypeOK
<1>3. \A g \in Handlers : g # h => FateOf(g)' = FateOf(g)
  BY DEF FateOf, TypeOK, fetches
<1>4. Fate' = [Fate EXCEPT ![h] = "data"]
  BY <1>2, <1>3 DEF Fate
<1> QED
  BY <1>1, <1>4 DEF Service!Ask, Fate

\* A miss that starts a fetch is an Ask for an unknown range.
LEMMA OwnRefines ==
  ASSUME IndInv, NEW h \in Handlers, NEW k \in Keys, Own(h, k)
  PROVE  Service!Ask(h, k)
<1> USE DEF IndInv, Own, Arrive, NewFetchState
<1>0. remote_requests + 1 \in FetchIds
  BY ArriveFits
<1>1. key[h] = NoKey /\ k \notin Cached /\ Cached' = Cached
  BY DEF LocalsSound, Cached
<1>2. FateOf(h)' = "open"
  BY DEF FateOf, TypeOK
<1>3. ASSUME NEW g \in Handlers, g # h PROVE FateOf(g)' = FateOf(g)
  <2>1. pc[g] = "wait" => state[g] \in FetchIds /\ state[g] # remote_requests + 1
    BY MaxRequestsNat DEF LocalsSound, TypeOK, FetchIds
  <2> QED
    BY <1>0, <1>3, <2>1, SameFate DEF TypeOK
<1>4. Fate' = [Fate EXCEPT ![h] = "open"]
  BY <1>2, <1>3 DEF Fate
<1> QED
  BY <1>1, <1>4 DEF Service!Ask, Fate

\* A miss that joins a fetch is an Ask for an unknown range.
LEMMA JoinRefines ==
  ASSUME IndInv, NEW h \in Handlers, NEW k \in Keys, Join(h, k)
  PROVE  Service!Ask(h, k)
<1> USE DEF IndInv, Join, Arrive
<1>1. key[h] = NoKey /\ k \notin Cached /\ Cached' = Cached
  BY DEF LocalsSound, Cached
<1>2. Undecided(inflight[k])
  BY DEF EntryHasOwner, OwnerHasEntry
<1>3. FateOf(h)' = "open"
  BY <1>2 DEF FateOf, TypeOK, Undecided, fetches
<1>4. \A g \in Handlers : g # h => FateOf(g)' = FateOf(g)
  BY DEF FateOf, TypeOK, fetches
<1>5. Fate' = [Fate EXCEPT ![h] = "open"]
  BY <1>3, <1>4 DEF Fate
<1> QED
  BY <1>1, <1>5 DEF Service!Ask, Fate

\* The requests RangeService calls open on the range h fetches are h and the
\* handlers that wait for h's FetchState.
LEMMA OpenRequests ==
  ASSUME IndInv, NEW h \in Handlers, pc[h] = "fetch"
  PROVE  /\ key[h] \in Keys \ Cached /\ state[h] \in FetchIds
         /\ Undecided(state[h])
         /\ \A g \in Handlers : g # h =>
               (/\ pc[g] = "wait" /\ state[g] = state[h]
                  <=> key[g] = key[h] /\ FateOf(g) = "open")
<1> USE NoKeyNotKey, MaxRequestsNat DEF IndInv
<1>1. /\ key[h] \in Keys /\ state[h] \in FetchIds /\ state[h] # 0
      /\ Undecided(state[h]) /\ inflight[key[h]] = state[h]
  BY DEF TypeOK, Blobs, LocalsSound, OwnerHasEntry, FetchIds
<1>2. key[h] \notin Cached
  BY <1>1 DEF TablesSound, Cached
<1>3. ASSUME NEW g \in Handlers, g # h, pc[g] = "wait", state[g] = state[h]
      PROVE  key[g] = key[h] /\ FateOf(g) = "open"
  <2>1. key[g] \in Keys /\ inflight[key[g]] = state[h]
    BY <1>1, <1>3 DEF TypeOK, Blobs, LocalsSound, WaiterSound, Undecided
  <2>2. key[g] = key[h]
    BY <1>1, <2>1 DEF EntryHasOwner, OneOwner, Owner
  <2> QED
    BY <1>1, <1>3, <2>2 DEF FateOf, Undecided
<1>4. ASSUME NEW g \in Handlers, g # h, key[g] = key[h], FateOf(g) = "open"
      PROVE  pc[g] = "wait" /\ state[g] = state[h]
  <2>1. pc[g] # "fetch"
    BY <1>1, <1>4 DEF OwnerHasEntry, OneOwner, Owner
  <2>2. pc[g] = "wait" /\ ~error[state[g]] /\ data[state[g]] = NoKey
    BY <1>4, <2>1 DEF FateOf, TypeOK, Locations
  <2> QED
    BY <1>1, <1>4, <2>2 DEF WaiterSound
<1> QED
  BY <1>1, <1>2, <1>3, <1>4

\* Storing fetched bytes is a Learn: it decides the owner and all its waiters at once.
LEMMA PublishRefines ==
  ASSUME IndInv, NEW h \in Handlers, Publish(h)
  PROVE  Service!Learn(key[h])
<1> USE NoKeyNotKey DEF Publish
<1>0. TypeOK
  BY DEF IndInv
<1>1. /\ key[h] \in Keys \ Cached /\ state[h] \in FetchIds /\ Undecided(state[h])
  BY OpenRequests
<1>2. FateOf(h) = "open" /\ FateOf(h)' = "data"
  BY <1>0, <1>1 DEF FateOf, TypeOK
<1>3. ASSUME NEW g \in Handlers, g # h, pc[g] = "wait", state[g] = state[h]
      PROVE  FateOf(g)' = "data"
  BY <1>0, <1>1, <1>3 DEF FateOf, TypeOK, Undecided
<1>4. ASSUME NEW g \in Handlers, g # h, ~(pc[g] = "wait" /\ state[g] = state[h])
      PROVE  FateOf(g)' = FateOf(g)
  <2>1. pc[g] = "wait" => state[g] \in FetchIds
    BY <1>0, MaxRequestsNat DEF IndInv, LocalsSound, TypeOK, FetchIds
  <2> QED
    BY <1>0, <1>1, <1>4, <2>1, SameFate DEF TypeOK
<1>5. \A g \in Handlers : FateOf(g)' =
        IF key[g] = key[h] /\ FateOf(g) = "open" THEN "data" ELSE FateOf(g)
  BY <1>2, <1>3, <1>4, OpenRequests
<1>6. Cached' = Cached \union {key[h]}
  BY <1>0, <1>1 DEF Cached, TypeOK
<1> QED
  BY <1>1, <1>2, <1>5, <1>6 DEF Service!Learn, Service!Open, Service!Decide

\* A failed fetch is a Fail: it decides the owner and all its waiters at once.
LEMMA AbandonRefines ==
  ASSUME IndInv, NEW h \in Handlers, Abandon(h)
  PROVE  Service!Fail(key[h])
<1> USE NoKeyNotKey DEF Abandon
<1>0. TypeOK
  BY DEF IndInv
<1>1. /\ key[h] \in Keys \ Cached /\ state[h] \in FetchIds /\ Undecided(state[h])
  BY OpenRequests
<1>2. FateOf(h) = "open" /\ FateOf(h)' = "error"
  BY <1>0, <1>1 DEF FateOf, TypeOK
<1>3. ASSUME NEW g \in Handlers, g # h, pc[g] = "wait", state[g] = state[h]
      PROVE  FateOf(g)' = "error"
  BY <1>0, <1>1, <1>3 DEF FateOf, TypeOK, Undecided
<1>4. ASSUME NEW g \in Handlers, g # h, ~(pc[g] = "wait" /\ state[g] = state[h])
      PROVE  FateOf(g)' = FateOf(g)
  <2>1. pc[g] = "wait" => state[g] \in FetchIds
    BY <1>0, MaxRequestsNat DEF IndInv, LocalsSound, TypeOK, FetchIds
  <2> QED
    BY <1>0, <1>1, <1>4, <2>1, SameFate DEF TypeOK
<1>5. \A g \in Handlers : FateOf(g)' =
        IF key[g] = key[h] /\ FateOf(g) = "open" THEN "error" ELSE FateOf(g)
  BY <1>2, <1>3, <1>4, OpenRequests
<1>6. Cached' = Cached
  BY DEF Cached
<1> QED
  BY <1>1, <1>2, <1>5, <1>6 DEF Service!Fail, Service!Open, Service!Decide

\* event.set(), waking up and counting are not visible to clients.
LEMMA InvisibleSteps ==
  ASSUME IndInv, NEW h \in Handlers,
         Signal(h) \/ WakeWithError(h) \/ WakeWithData(h) \/ Count(h)
  PROVE  UNCHANGED Service!serviceVars
<1> USE NoKeyNotKey DEF IndInv
<1>1. key' = key /\ Cached' = Cached
  BY DEF Signal, WakeWithError, WakeWithData, Count, Cached
<1>2. key[h] # NoKey
  BY DEF Signal, WakeWithError, WakeWithData, Count, LocalsSound
<1>3. \A g \in Handlers : FateOf(g)' = FateOf(g)
  <2>1. CASE Signal(h)
    BY <2>1 DEF Signal, FateOf, TypeOK
  <2>2. CASE WakeWithError(h)
    BY <1>2, <2>2 DEF WakeWithError, FateOf, TypeOK, fetches, WaiterSound, Undecided
  <2>3. CASE WakeWithData(h)
    <3>1. \A g \in Handlers : g # h => FateOf(g)' = FateOf(g)
      BY <2>3, SameFate DEF WakeWithData, TypeOK, fetches
    <3>2. FateOf(h) = "data" /\ FateOf(h)' = "data"
      BY <2>3 DEF WakeWithData, FateOf, TypeOK
    <3> QED
      BY <3>1, <3>2
  <2>4. CASE Count(h)
    BY <1>2, <2>4 DEF Count, FateOf, TypeOK, fetches, LocalsSound
  <2> QED
    BY <2>1, <2>2, <2>3, <2>4
<1> QED
  BY <1>1, <1>3 DEF Service!serviceVars

\* Sending the answer is a Reply.
LEMMA RespondRefines ==
  ASSUME IndInv, NEW h \in Handlers, Respond(h)
  PROVE  Service!Reply(h)
<1> USE DEF IndInv, Respond
<1>1. Cached' = Cached
  BY DEF Cached
<1>2. FateOf(h) \in {"data", "error"} /\ FateOf(h)' = "none"
  BY DEF FateOf, TypeOK
<1>3. \A g \in Handlers : g # h => FateOf(g)' = FateOf(g)
  BY DEF FateOf, TypeOK, fetches
<1>4. Fate' = [Fate EXCEPT ![h] = "none"]
  BY <1>2, <1>3 DEF Fate
<1> QED
  BY <1>1, <1>2, <1>4 DEF Service!Reply, Fate

(***************************************************************************)
(* get_range, with its lock, its table and its events, promises what       *)
(* RangeService says.                                                      *)
(***************************************************************************)
THEOREM StoreImplementsService == Spec => Implements
<1>1. Init => Service!ServiceInit
  <2> SUFFICES ASSUME Init PROVE Service!ServiceInit
    OBVIOUS
  <2>1. Cached = {}
    BY DEF Init, Cached
  <2>2. \A h \in Handlers : FateOf(h) = "none"
    BY DEF Init, FateOf
  <2> QED
    BY <2>1, <2>2 DEF Init, Service!ServiceInit
<1>2. IndInv /\ [Next]_vars => [Service!ServiceNext]_Service!serviceVars
  <2> SUFFICES ASSUME IndInv, [Next]_vars
               PROVE  [Service!ServiceNext]_Service!serviceVars
    OBVIOUS
  <2>1. CASE \E h \in Handlers, k \in Keys : Hit(h, k) \/ Own(h, k) \/ Join(h, k)
    BY <2>1, HitRefines, OwnRefines, JoinRefines DEF Service!ServiceNext
  <2>2. ASSUME NEW h \in Handlers, Progress(h)
        PROVE  [Service!ServiceNext]_Service!serviceVars
    <3>1. CASE Publish(h)
      <4>1. key[h] \in Keys
        BY <3>1, OpenRequests DEF Publish
      <4> QED
        BY <3>1, <4>1, PublishRefines DEF Service!ServiceNext
    <3>2. CASE Abandon(h)
      <4>1. key[h] \in Keys
        BY <3>2, OpenRequests DEF Abandon
      <4> QED
        BY <3>2, <4>1, AbandonRefines DEF Service!ServiceNext
    <3>3. CASE Respond(h)
      BY <3>3, RespondRefines DEF Service!ServiceNext
    <3>4. CASE Signal(h) \/ WakeWithError(h) \/ WakeWithData(h) \/ Count(h)
      BY <3>4, InvisibleSteps
    <3> QED
      BY <2>2, <3>1, <3>2, <3>3, <3>4 DEF Progress
  <2>3. CASE Exhausted \/ UNCHANGED vars
    <3>1. UNCHANGED <<cache, key, pc, answer, state, error, data>>
      BY <2>3 DEF Exhausted, vars, fetches
    <3>2. \A h \in Handlers : FateOf(h)' = FateOf(h)
      BY <3>1, SameFate
    <3> QED
      BY <3>1, <3>2 DEF Service!serviceVars, Cached
  <2> QED
    BY <2>1, <2>2, <2>3 DEF Next
<1> QED
  BY <1>1, <1>2, Inductive, PTL DEF Spec, Implements, Service!ServiceSpec
=============================================================================
