------------------------- MODULE UffdHandlerProofs -------------------------
(***************************************************************************)
(* What holds of the page-fault loop for any number of vCPUs and pages and *)
(* any number of faults and removals: no fault is lost, and none is        *)
(* answered twice.                                                         *)
(***************************************************************************)
EXTENDS UffdHandler, FiniteSetTheorems, FunctionTheorems,
        SequenceTheorems, TLAPS

-----------------------------------------------------------------------------
(***************************************************************************)
(* The inductive invariant.                                                *)
(***************************************************************************)
Events == {Pagefault(v, p) : v \in Vcpus, p \in Pages}
             \union {Removed(p) : p \in Pages}

HandlerType ==
    /\ waiting \in [Vcpus -> Pages \union {NoPage}]
    /\ queue \subseteq Events /\ IsFiniteSet(queue)
    /\ events \in Seq(Events) /\ deferred \in Seq(Events)
    /\ copied_pages \in Nat /\ copies \in Nat /\ faults \in Nat

\* Nothing is in hand when the closure returns to poll.
NothingHeld == pc = "poll" => events = <<>> /\ deferred = <<>>

Unwoken(v) == waiting[v] # NoPage /\ v \notin woken

\* A vCPU that sleeps waits for a page that could still be copied: its event
\* is never answered by a page that is already there.
SleepersWait ==
    \A v \in Vcpus : Unwoken(v) => waiting[v] \in registered \ present

SleepersKnown ==
    \A v \in Vcpus : Unwoken(v) => Pagefault(v, waiting[v]) \in queue \union Held

\* The places of a sequence that hold a page fault.
FaultsIn(s) == {i \in DOMAIN s : s[i].type = "pagefault"}
QueuedFaults == {e \in queue : e.type = "pagefault"}

Unanswered == Cardinality(QueuedFaults) + Cardinality(FaultsIn(events))
                 + Cardinality(FaultsIn(deferred))

\* Every fault is on its way to the handler, answered, or withdrawn.
FaultsCounted == copies <= copied_pages /\ copied_pages + Unanswered <= faults

HandlerInv ==
    /\ HandlerType /\ NothingHeld
    /\ SleepersWait /\ SleepersKnown /\ FaultsCounted

-----------------------------------------------------------------------------
(***************************************************************************)
(* Events, and sequences of them.                                          *)
(***************************************************************************)

\* An event tells its kind, and a page fault who raised it and where.
LEMMA EventKinds ==
    /\ \A v \in Vcpus, p \in Pages :
          Pagefault(v, p) \in Events /\ Pagefault(v, p).type = "pagefault"
    /\ \A p \in Pages : Removed(p) \in Events /\ Removed(p).type = "remove"
    /\ \A e \in Events : e.page \in Pages
    /\ \A v, w, p, q : Pagefault(v, p) = Pagefault(w, q) => v = w /\ p = q
<1>1. \A v, w, p, q : Pagefault(v, p) = Pagefault(w, q) => v = w /\ p = q
  BY DEF Pagefault
<1>2. \A v \in Vcpus, p \in Pages :
         Pagefault(v, p) \in Events /\ Pagefault(v, p).type = "pagefault"
  BY DEF Events, Pagefault
<1>3. \A p \in Pages : Removed(p) \in Events /\ Removed(p).type = "remove"
  BY DEF Events, Removed
<1>4. \A e \in Events : e.page \in Pages
  BY DEF Events, Pagefault, Removed
<1> QED
  BY <1>1, <1>2, <1>3, <1>4

\* What a sequence of events holds, without its first and with one more.
LEMMA HeldIn ==
    ASSUME NEW s \in Seq(Events)
    PROVE  /\ \A e \in Events : ToSet(Append(s, e)) = ToSet(s) \union {e}
           /\ s # <<>> => /\ Head(s) \in Events /\ Tail(s) \in Seq(Events)
                          /\ ToSet(s) = {Head(s)} \union ToSet(Tail(s))
<1>1. ASSUME NEW e \in Events
      PROVE  ToSet(Append(s, e)) = ToSet(s) \union {e}
  BY AppendProperties, LenProperties DEF ToSet
<1>2. ASSUME s # <<>>
      PROVE  /\ Head(s) \in Events /\ Tail(s) \in Seq(Events)
             /\ ToSet(s) = {Head(s)} \union ToSet(Tail(s))
  <2>1. /\ Head(s) \in Events /\ Tail(s) \in Seq(Events)
        /\ Len(Tail(s)) = Len(s) - 1 /\ Len(s) \in Nat \ {0}
        /\ \A i \in 1..Len(Tail(s)) : Tail(s)[i] = s[i + 1]
        /\ DOMAIN s = 1..Len(s) /\ DOMAIN Tail(s) = 1..Len(Tail(s))
    BY <1>2, HeadTailProperties, LenProperties, EmptySeq
  <2>2. Head(s) = s[1]
    BY <1>2
  <2>3. ToSet(s) \subseteq {Head(s)} \union ToSet(Tail(s))
    <3> SUFFICES ASSUME NEW i \in 1..Len(s)
                 PROVE  s[i] \in {Head(s)} \union ToSet(Tail(s))
      BY <2>1 DEF ToSet
    <3>1. CASE i = 1
      BY <2>2, <3>1
    <3>2. CASE i # 1
      <4>1. i - 1 \in 1..Len(Tail(s)) /\ Tail(s)[i - 1] = s[i]
        BY <2>1, <3>2
      <4> QED
        BY <2>1, <4>1 DEF ToSet
    <3> QED
      BY <3>1, <3>2
  <2>4. {Head(s)} \union ToSet(Tail(s)) \subseteq ToSet(s)
    BY <2>1, <2>2 DEF ToSet
  <2> QED
    BY <2>1, <2>3, <2>4
<1> QED
  BY <1>1, <1>2

\* A sequence holds finitely many faults.
LEMMA FaultsFinite ==
    ASSUME NEW s \in Seq(Events)
    PROVE  IsFiniteSet(FaultsIn(s)) /\ Cardinality(FaultsIn(s)) \in Nat
<1>1. DOMAIN s = 1..Len(s) /\ Len(s) \in Nat
  BY LenProperties
<1>2. IsFiniteSet(1..Len(s))
  BY <1>1, FS_Interval
<1>3. FaultsIn(s) \subseteq 1..Len(s)
  BY <1>1 DEF FaultsIn
<1> QED
  BY <1>2, <1>3, FS_Subset, FS_CardinalityType

One(e) == IF e.type = "pagefault" THEN 1 ELSE 0

\* One more event, one more fault if it is one.
LEMMA CountAppend ==
    ASSUME NEW s \in Seq(Events), NEW e \in Events
    PROVE  Cardinality(FaultsIn(Append(s, e))) = Cardinality(FaultsIn(s)) + One(e)
<1>1. /\ DOMAIN s = 1..Len(s) /\ Len(s) \in Nat
      /\ DOMAIN Append(s, e) = 1..(Len(s) + 1)
      /\ \A i \in 1..Len(s) : Append(s, e)[i] = s[i]
      /\ Append(s, e)[Len(s) + 1] = e
  BY AppendProperties, LenProperties
<1>2. CASE e.type = "pagefault"
  <2>1. FaultsIn(Append(s, e)) = FaultsIn(s) \union {Len(s) + 1}
    BY <1>1, <1>2 DEF FaultsIn
  <2>2. Len(s) + 1 \notin FaultsIn(s)
    BY <1>1 DEF FaultsIn
  <2> QED
    BY <1>2, <2>1, <2>2, FaultsFinite, FS_AddElement DEF One
<1>3. CASE e.type # "pagefault"
  <2>1. FaultsIn(Append(s, e)) = FaultsIn(s)
    BY <1>1, <1>3 DEF FaultsIn
  <2> QED
    BY <1>3, <2>1, FaultsFinite DEF One
<1> QED
  BY <1>2, <1>3

\* The faults of the tail are those of the sequence, one place later, and
\* the head.
LEMMA CountTail ==
    ASSUME NEW s \in Seq(Events), s # <<>>
    PROVE  Cardinality(FaultsIn(s)) = Cardinality(FaultsIn(Tail(s))) + One(Head(s))
<1>1. /\ Tail(s) \in Seq(Events)
      /\ Len(Tail(s)) = Len(s) - 1 /\ Len(s) \in Nat \ {0}
      /\ \A i \in 1..Len(Tail(s)) : Tail(s)[i] = s[i + 1]
      /\ DOMAIN s = 1..Len(s) /\ DOMAIN Tail(s) = 1..Len(Tail(s))
  BY HeadTailProperties, LenProperties, EmptySeq
<1> DEFINE F == FaultsIn(s) \ {1}
           G == FaultsIn(Tail(s))
           shift == [i \in G |-> i + 1]
<1>2. shift \in Bijection(G, F)
  <2>1. \A i \in G : i \in Nat /\ i + 1 \in F
    BY <1>1 DEF FaultsIn
  <2>2. \A j \in F : j - 1 \in G /\ (j - 1) + 1 = j
    BY <1>1 DEF FaultsIn
  <2>3. shift \in [G -> F]
    BY <2>1
  <2>4. \A i, j \in G : shift[i] = shift[j] => i = j
    BY <2>1
  <2>5. \A j \in F : \E i \in G : shift[i] = j
    BY <2>2
  <2> QED
    BY <2>3, <2>4, <2>5, Fun_IsBij
<1>3. Cardinality(F) = Cardinality(G)
  BY <1>1, <1>2, FaultsFinite, FS_Bijection DEF ExistsBijection
<1>4. 1 \in FaultsIn(s) <=> Head(s).type = "pagefault"
  BY <1>1 DEF FaultsIn
<1>5. Cardinality(F) = IF 1 \in FaultsIn(s) THEN Cardinality(FaultsIn(s)) - 1
                       ELSE Cardinality(FaultsIn(s))
  BY FaultsFinite, FS_RemoveElement
<1>6. Cardinality(FaultsIn(s)) \in Nat /\ Cardinality(G) \in Nat
  BY <1>1, FaultsFinite
<1> QED
  BY <1>3, <1>4, <1>5, <1>6 DEF One

-----------------------------------------------------------------------------
(***************************************************************************)
(* The steps.                                                              *)
(***************************************************************************)
LEMMA NoFaultsIn == FaultsIn(<<>>) = {} /\ ToSet(<<>>) = {}
BY DEF FaultsIn, ToSet

LEMMA HandlerInitially == Init => HandlerInv
<1> SUFFICES ASSUME Init PROVE HandlerInv
  OBVIOUS
<1>1. HandlerType
  BY FS_EmptySet DEF Init, HandlerType
<1>2. NothingHeld
  BY DEF Init, NothingHeld
<1>3. SleepersWait /\ SleepersKnown
  BY DEF Init, SleepersWait, SleepersKnown, Unwoken
<1>4. FaultsCounted
  <2>1. QueuedFaults = {} /\ FaultsIn(events) = {} /\ FaultsIn(deferred) = {}
    BY NoFaultsIn DEF Init, QueuedFaults
  <2> QED
    BY <2>1, FS_EmptySet DEF Init, FaultsCounted, Unanswered
<1> QED
  BY <1>1, <1>2, <1>3, <1>4 DEF HandlerInv

\* A step keeps the types.
LEMMA HandlerTypeStep ==
    ASSUME HandlerType, [Next]_vars
    PROVE  HandlerType'
<1> USE DEF HandlerType
<1>1. ASSUME NEW v \in Vcpus, NEW p \in Pages, Fault(v, p)
      PROVE  HandlerType'
  <2>1. queue' \subseteq Events /\ IsFiniteSet(queue')
    BY <1>1, EventKinds, FS_AddElement DEF Fault
  <2> QED
    BY <1>1, <2>1 DEF Fault
<1>2. ASSUME NEW v \in Vcpus, NEW p \in Pages, ZeroFill(v, p)
      PROVE  HandlerType'
  BY <1>2 DEF ZeroFill
<1>3. ASSUME NEW p \in Pages, Inflate(p)
      PROVE  HandlerType'
  <2>1. queue' \subseteq Events /\ IsFiniteSet(queue')
    BY <1>3, EventKinds, FS_AddElement DEF Inflate
  <2> QED
    BY <1>3, <2>1 DEF Inflate
<1>4. CASE Unblock \/ Zap
  BY <1>4 DEF Unblock, Zap
<1>5. ASSUME NEW v \in Vcpus, Resume(v)
      PROVE  HandlerType'
  <2>1. queue' \subseteq Events /\ IsFiniteSet(queue')
    BY <1>5, FS_RemoveElement DEF Resume
  <2> QED
    BY <1>5, <2>1 DEF Resume
<1>6. CASE Dispatch \/ ReadNone \/ PanicPagefault \/ EndRound
  BY <1>6, EmptySeq DEF Dispatch, ReadNone, PanicPagefault, EndRound, kernelVars
<1>7. ASSUME NEW e \in queue, ReadEvent(e)
      PROVE  HandlerType'
  <2>1. queue' \subseteq Events /\ IsFiniteSet(queue')
    BY <1>7, FS_RemoveElement DEF ReadEvent
  <2>2. events' \in Seq(Events)
    BY <1>7, AppendProperties DEF ReadEvent
  <2> QED
    BY <1>7, <2>1, <2>2 DEF ReadEvent
<1>8. CASE ServePagefault \/ DeferPagefault \/ HandleRemove
  <2>1. events # <<>> /\ events' = Tail(events)
    BY <1>8 DEF ServePagefault, DeferPagefault, HandleRemove, NextIs
  <2>2. events' \in Seq(Events) /\ Head(events) \in Events
    BY <2>1, HeldIn
  <2>3. deferred' \in Seq(Events)
    <3>1. deferred' = deferred \/ deferred' = Append(deferred, Head(events))
      BY <1>8 DEF ServePagefault, DeferPagefault, HandleRemove
    <3>2. Append(deferred, Head(events)) \in Seq(Events)
      BY <2>2, AppendProperties
    <3> QED
      BY <3>1, <3>2
  <2> QED
    <3>1. CASE ServePagefault
      BY <2>2, <2>3, <3>1 DEF ServePagefault
    <3>2. CASE DeferPagefault
      BY <2>2, <2>3, <3>2 DEF DeferPagefault, kernelVars
    <3>3. CASE HandleRemove
      BY <2>2, <2>3, <3>3 DEF HandleRemove
    <3> QED
      BY <1>8, <3>1, <3>2, <3>3
<1>9. CASE Quiet \/ UNCHANGED vars
  BY <1>9 DEF Quiet, vars, kernelVars
<1> QED
  BY <1>1, <1>2, <1>3, <1>4, <1>5, <1>6, <1>7, <1>8, <1>9
     DEF Next, Kernel, Handle

\* The closure returns to poll only when both lists are empty.
LEMMA NothingHeldStep ==
    ASSUME NothingHeld, [Next]_vars
    PROVE  NothingHeld'
BY DEF NothingHeld, Next, Kernel, Handle, Fault, ZeroFill, Inflate, Unblock,
       Zap, Resume, Dispatch, ReadEvent, ReadNone, ServePagefault,
       DeferPagefault, PanicPagefault, HandleRemove, EndRound, NextIs, Quiet,
       vars, kernelVars

\* Whoever makes a page present, or gives it up, wakes those who wait for it.
LEMMA SleepersWaitStep ==
    ASSUME HandlerType, SleepersWait, [Next]_vars
    PROVE  SleepersWait'
<1> USE DEF HandlerType, SleepersWait, Unwoken
<1>1. ASSUME NEW v \in Vcpus, NEW p \in Pages, Fault(v, p) \/ ZeroFill(v, p)
      PROVE  SleepersWait'
  BY <1>1 DEF Fault, ZeroFill
<1>2. ASSUME NEW v \in Vcpus, Resume(v)
      PROVE  SleepersWait'
  BY <1>2 DEF Resume
<1>3. CASE Zap
  BY <1>3 DEF Zap
<1>4. CASE ServePagefault
  BY <1>4 DEF ServePagefault, Blocked
<1>5. CASE HandleRemove
  BY <1>5 DEF HandleRemove, Blocked
<1>6. CASE UNCHANGED <<present, registered, waiting, woken>>
  BY <1>6
<1> QED
  BY <1>1, <1>2, <1>3, <1>4, <1>5, <1>6 DEF Next, Kernel, Handle, Inflate,
     Unblock, Dispatch, ReadEvent, ReadNone, DeferPagefault, PanicPagefault,
     EndRound, Quiet, vars, kernelVars

\* An event leaves the loop only with its vCPU woken.
LEMMA SleepersKnownStep ==
    ASSUME HandlerType, NothingHeld, SleepersWait, SleepersKnown, [Next]_vars
    PROVE  SleepersKnown'
<1> USE DEF HandlerType, SleepersKnown, Unwoken, Held
<1>1. ASSUME NEW v \in Vcpus, NEW p \in Pages, Fault(v, p)
      PROVE  SleepersKnown'
  BY <1>1 DEF Fault
<1>2. ASSUME NEW v \in Vcpus, NEW p \in Pages, ZeroFill(v, p)
      PROVE  SleepersKnown'
  BY <1>2 DEF ZeroFill
<1>3. ASSUME NEW p \in Pages, Inflate(p)
      PROVE  SleepersKnown'
  BY <1>3 DEF Inflate
<1>4. CASE Unblock \/ Zap
  BY <1>4 DEF Unblock, Zap
<1>5. ASSUME NEW v \in Vcpus, Resume(v)
      PROVE  SleepersKnown'
  BY <1>5, EventKinds DEF Resume
<1>6. CASE Dispatch \/ ReadNone \/ PanicPagefault
  BY <1>6 DEF Dispatch, ReadNone, PanicPagefault, NothingHeld, kernelVars
<1>7. ASSUME NEW e \in queue, ReadEvent(e)
      PROVE  SleepersKnown'
  <2>1. ToSet(events') = ToSet(events) \union {e}
    BY <1>7, HeldIn DEF ReadEvent
  <2> QED
    BY <1>7, <2>1 DEF ReadEvent
<1>8. CASE ServePagefault \/ HandleRemove
  <2>1. events # <<>> /\ events' = Tail(events)
    BY <1>8 DEF ServePagefault, HandleRemove, NextIs
  <2>2. ToSet(events) = {Head(events)} \union ToSet(events')
    BY <2>1, HeldIn
  <2>3. UNCHANGED <<queue, deferred, waiting>> /\ woken \subseteq woken'
    BY <1>8 DEF ServePagefault, HandleRemove
  <2>4. \A v \in Vcpus :
           Unwoken(v)' => Unwoken(v) /\ Pagefault(v, waiting[v]) # Head(events)
    <3> SUFFICES ASSUME NEW v \in Vcpus, Unwoken(v)',
                        Pagefault(v, waiting[v]) = Head(events)
                 PROVE  FALSE
      BY <2>3
    <3>1. /\ Head(events).type = "pagefault"
          /\ Head(events).page = waiting[v]
      BY DEF Pagefault
    <3>2. ServePagefault
      BY <1>8, <3>1 DEF HandleRemove, NextIs
    <3>3. waiting[v] \notin present
      BY <2>3 DEF SleepersWait
    <3>4. v \in Blocked(waiting[v])
      BY DEF Blocked
    <3> QED
      BY <3>1, <3>2, <3>3, <3>4 DEF ServePagefault
  <2> QED
    BY <2>2, <2>3, <2>4
<1>9. CASE DeferPagefault
  <2>1. events # <<>> /\ events' = Tail(events)
        /\ deferred' = Append(deferred, Head(events))
    BY <1>9 DEF DeferPagefault, NextIs
  <2>2. ToSet(events) = {Head(events)} \union ToSet(events')
        /\ ToSet(deferred') = ToSet(deferred) \union {Head(events)}
    BY <2>1, HeldIn
  <2> QED
    BY <1>9, <2>2 DEF DeferPagefault, kernelVars
<1>10. CASE EndRound
  <2>1. ToSet(events) = {} /\ ToSet(events') = ToSet(deferred)
    BY <1>10, NoFaultsIn DEF EndRound
  <2> QED
    BY <1>10, <2>1 DEF EndRound, kernelVars
<1>11. CASE Quiet \/ UNCHANGED vars
  BY <1>11 DEF Quiet, vars, kernelVars
<1> QED
  BY <1>1, <1>2, <1>3, <1>4, <1>5, <1>6, <1>7, <1>8, <1>9, <1>10, <1>11
     DEF Next, Kernel, Handle

\* Every fault is counted once on its way through queue, events and deferred.
LEMMA CountedStep ==
    ASSUME HandlerType, NothingHeld, FaultsCounted, [Next]_vars
    PROVE  FaultsCounted'
<1>1. /\ IsFiniteSet(QueuedFaults) /\ Cardinality(QueuedFaults) \in Nat
      /\ Cardinality(FaultsIn(events)) \in Nat
      /\ Cardinality(FaultsIn(deferred)) \in Nat
  <2>1. QueuedFaults \subseteq queue
    BY DEF QueuedFaults
  <2> QED
    BY <2>1, FS_Subset, FS_CardinalityType, FaultsFinite DEF HandlerType
<1>2. PICK q \in Nat, n \in Nat, d \in Nat :
         /\ q = Cardinality(QueuedFaults)
         /\ n = Cardinality(FaultsIn(events))
         /\ d = Cardinality(FaultsIn(deferred))
  BY <1>1
<1>3. PICK c \in Nat, k \in Nat, f \in Nat :
         /\ c = copied_pages /\ k = copies /\ f = faults
         /\ k <= c /\ c + (q + n + d) <= f
  BY <1>2 DEF HandlerType, FaultsCounted, Unanswered
<1> DEFINE Counts(q1, n1, d1) ==
             /\ Cardinality(QueuedFaults)' = q1
             /\ Cardinality(FaultsIn(events))' = n1
             /\ Cardinality(FaultsIn(deferred))' = d1
<1>4. ASSUME NEW q1 \in Nat, NEW n1 \in Nat, NEW d1 \in Nat, Counts(q1, n1, d1),
             copies' <= copied_pages', copied_pages' + (q1 + n1 + d1) <= faults'
      PROVE  FaultsCounted'
  BY <1>4 DEF FaultsCounted, Unanswered
<1> HIDE DEF Counts
<1>5. ASSUME NEW v \in Vcpus, NEW p \in Pages, Fault(v, p)
      PROVE  FaultsCounted'
  <2>1. QueuedFaults' = QueuedFaults \union {Pagefault(v, p)}
    BY <1>5, EventKinds DEF Fault, QueuedFaults
  <2>2. Cardinality(QueuedFaults') \in {q, q + 1}
    BY <1>1, <1>2, <2>1, FS_AddElement
  <2>3. PICK q1 \in {q, q + 1} : Counts(q1, n, d)
    BY <1>2, <1>5, <2>2 DEF Counts, Fault
  <2>4. copies' = k /\ copied_pages' = c /\ faults' = f + 1
    BY <1>3, <1>5 DEF Fault
  <2> QED
    BY <1>3, <1>4, <2>3, <2>4
<1>6. ASSUME NEW v \in Vcpus, Resume(v)
      PROVE  FaultsCounted'
  <2>1. QueuedFaults' = QueuedFaults \ {Pagefault(v, waiting[v])}
    BY <1>6 DEF Resume, QueuedFaults
  <2>2. /\ Cardinality(QueuedFaults') \in Nat
        /\ Cardinality(QueuedFaults') <= q
    <3>1. QueuedFaults' \in SUBSET QueuedFaults
      BY <2>1
    <3> QED
      BY <1>1, <1>2, <3>1, FS_Subset, FS_CardinalityType
  <2>3. PICK q1 \in Nat : q1 <= q /\ Counts(q1, n, d)
    BY <1>2, <1>6, <2>2 DEF Counts, Resume
  <2>4. copies' = k /\ copied_pages' = c /\ faults' = f
    BY <1>3, <1>6 DEF Resume
  <2> QED
    BY <1>3, <1>4, <2>3, <2>4
<1>7. ASSUME NEW p \in Pages, Inflate(p)
      PROVE  FaultsCounted'
  <2>1. QueuedFaults' = QueuedFaults
    BY <1>7, EventKinds DEF Inflate, QueuedFaults
  <2>2. Counts(q, n, d)
    BY <1>2, <1>7, <2>1 DEF Counts, Inflate
  <2>3. copies' = k /\ copied_pages' = c /\ faults' = f
    BY <1>3, <1>7 DEF Inflate
  <2> QED
    BY <1>3, <1>4, <2>2, <2>3
<1>8. ASSUME NEW e \in queue, ReadEvent(e)
      PROVE  FaultsCounted'
  <2>1. Cardinality(FaultsIn(events')) = n + One(e)
    BY <1>2, <1>8, CountAppend DEF ReadEvent, HandlerType
  <2>2. Cardinality(QueuedFaults') = q - One(e) /\ One(e) \in {0, 1}
        /\ q - One(e) \in Nat
    <3>1. QueuedFaults' = QueuedFaults \ {e}
      BY <1>8 DEF ReadEvent, QueuedFaults
    <3>2. e \in QueuedFaults <=> e.type = "pagefault"
      BY DEF QueuedFaults
    <3>3. Cardinality(QueuedFaults') = IF e \in QueuedFaults THEN q - 1 ELSE q
      BY <1>1, <1>2, <3>1, FS_RemoveElement
    <3>4. Cardinality(QueuedFaults') \in Nat
      BY <1>1, <3>1, FS_RemoveElement, FS_CardinalityType
    <3> QED
      BY <3>2, <3>3, <3>4 DEF One
  <2>3. PICK one \in {0, 1} : one = One(e)
    BY <2>2
  <2>4. q - one \in Nat /\ Counts(q - one, n + one, d)
    BY <1>2, <1>8, <2>1, <2>2, <2>3 DEF Counts, ReadEvent
  <2>5. copies' = k /\ copied_pages' = c /\ faults' = f
    BY <1>3, <1>8 DEF ReadEvent
  <2>6. c + ((q - one) + (n + one) + d) <= f /\ n + one \in Nat
    BY <1>3, <2>3
  <2> QED
    BY <1>3, <1>4, <2>4, <2>5, <2>6
<1>9. CASE ServePagefault
  <2>1. events # <<>> /\ events' = Tail(events) /\ One(Head(events)) = 1
    BY <1>9 DEF ServePagefault, NextIs, One
  <2>2. n = Cardinality(FaultsIn(events')) + 1
        /\ Cardinality(FaultsIn(events')) \in Nat
    BY <1>2, <2>1, CountTail, HeldIn, FaultsFinite DEF HandlerType
  <2>3. n - 1 \in Nat /\ Counts(q, n - 1, d)
    BY <1>2, <1>9, <2>2 DEF Counts, ServePagefault, QueuedFaults
  <2>4. copied_pages' = c + 1 /\ copies' \in {k, k + 1} /\ faults' = f
    BY <1>3, <1>9 DEF ServePagefault
  <2>5. (c + 1) + (q + (n - 1) + d) <= f /\ copies' <= c + 1
    BY <1>3, <2>4
  <2> QED
    BY <1>4, <2>3, <2>4, <2>5
<1>10. CASE HandleRemove
  <2>1. events # <<>> /\ events' = Tail(events) /\ One(Head(events)) = 0
    BY <1>10 DEF HandleRemove, NextIs, One
  <2>2. n = Cardinality(FaultsIn(events'))
    <3>1. n = Cardinality(FaultsIn(Tail(events))) + One(Head(events))
      BY <1>2, <2>1, CountTail DEF HandlerType
    <3>2. Cardinality(FaultsIn(Tail(events))) \in Nat
      BY <2>1, HeldIn, FaultsFinite DEF HandlerType
    <3> QED
      BY <2>1, <3>1, <3>2
  <2>3. Counts(q, n, d)
    BY <1>2, <1>10, <2>2 DEF Counts, HandleRemove, QueuedFaults
  <2>4. copied_pages' = c /\ copies' = k /\ faults' = f
    BY <1>3, <1>10 DEF HandleRemove
  <2> QED
    BY <1>3, <1>4, <2>3, <2>4
<1>11. CASE DeferPagefault
  <2>1. /\ events # <<>> /\ events' = Tail(events) /\ Head(events) \in Events
        /\ deferred' = Append(deferred, Head(events))
        /\ One(Head(events)) = 1
    BY <1>11, HeldIn DEF DeferPagefault, NextIs, HandlerType, One
  <2>2. /\ n = Cardinality(FaultsIn(events')) + 1
        /\ Cardinality(FaultsIn(events')) \in Nat
        /\ Cardinality(FaultsIn(deferred')) = d + 1
    BY <1>2, <2>1, CountTail, CountAppend, HeldIn, FaultsFinite DEF HandlerType
  <2>3. n - 1 \in Nat /\ Counts(q, n - 1, d + 1)
    BY <1>2, <1>11, <2>2 DEF Counts, DeferPagefault, QueuedFaults, kernelVars
  <2>4. copied_pages' = c /\ copies' = k /\ faults' = f
    BY <1>3, <1>11 DEF DeferPagefault, kernelVars
  <2>5. c + (q + (n - 1) + (d + 1)) <= f /\ d + 1 \in Nat
    BY <1>3
  <2> QED
    BY <1>3, <1>4, <2>3, <2>4, <2>5
<1>12. CASE EndRound
  <2>1. events = <<>> /\ events' = deferred /\ deferred' = <<>>
    BY <1>12 DEF EndRound
  <2>2. n = 0 /\ Counts(q, d, 0)
    BY <1>2, <1>12, <2>1, NoFaultsIn, FS_EmptySet
       DEF Counts, EndRound, QueuedFaults, kernelVars
  <2>3. copied_pages' = c /\ copies' = k /\ faults' = f
    BY <1>3, <1>12 DEF EndRound, kernelVars
  <2>4. c + (q + d + 0) <= f
    BY <1>3, <2>2
  <2> QED
    BY <1>3, <1>4, <2>2, <2>3, <2>4
<1>13. CASE UNCHANGED <<queue, events, deferred, copies, copied_pages, faults>>
  <2>1. Counts(q, n, d)
    BY <1>2, <1>13 DEF Counts, QueuedFaults
  <2> QED
    BY <1>3, <1>4, <1>13, <2>1
<1>14. CASE Dispatch
  BY <1>13, <1>14 DEF Dispatch, NothingHeld, kernelVars
<1> QED
  BY <1>5, <1>6, <1>7, <1>8, <1>9, <1>10, <1>11, <1>12, <1>13, <1>14
     DEF Next, Kernel, Handle, ZeroFill, Unblock, Zap, ReadNone,
         PanicPagefault, Quiet, vars, kernelVars

(***************************************************************************)
(* For any guest and any order of events, a vCPU that sleeps waits for a   *)
(* page that can still be copied, its fault is queued or in the handler's  *)
(* vectors, and a UFFDIO_COPY that failed with EAGAIN is kept              *)
(* (on_demand_handler.rs, the loop over events_to_handle).                 *)
(***************************************************************************)
THEOREM HandlerInductive == Spec => []HandlerInv
<1>1. Init => HandlerInv
  BY HandlerInitially
<1>2. HandlerInv /\ [Next]_vars => HandlerInv'
  BY HandlerTypeStep, NothingHeldStep, SleepersWaitStep, SleepersKnownStep,
     CountedStep DEF HandlerInv
<1> QED
  BY <1>1, <1>2, PTL DEF Spec

(***************************************************************************)
(* No fault is lost between rounds and none is counted twice, for any      *)
(* number of vCPUs, pages, faults and removals                             *)
(* (on_demand_handler.rs and remote_range_handler.rs, the loop over        *)
(* events_to_handle and deferred_events).                                  *)
(***************************************************************************)
THEOREM FaultsAreKept == Spec => []NoLostFault
<1>1. HandlerInv => NoLostFault
  <2> SUFFICES ASSUME HandlerInv PROVE NoLostFault
    OBVIOUS
  <2>1. Unanswered \in Nat
    <3>1. QueuedFaults \subseteq queue
      BY DEF QueuedFaults
    <3>2. Cardinality(QueuedFaults) \in Nat
      BY <3>1, FS_Subset, FS_CardinalityType DEF HandlerInv, HandlerType
    <3>3. /\ Cardinality(FaultsIn(events)) \in Nat
          /\ Cardinality(FaultsIn(deferred)) \in Nat
      BY FaultsFinite DEF HandlerInv, HandlerType
    <3> QED
      BY <3>2, <3>3 DEF Unanswered
  <2>2. copies <= copied_pages /\ copied_pages <= faults
    BY <2>1 DEF HandlerInv, HandlerType, FaultsCounted
  <2> QED
    BY <2>2 DEF HandlerInv, SleepersKnown, Unwoken, NoLostFault
<1> QED
  BY <1>1, HandlerInductive, PTL
=============================================================================
