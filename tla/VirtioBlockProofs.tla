------------------------- MODULE VirtioBlockProofs -------------------------
(***************************************************************************)
(* What holds of the block device for any chains, ring and disk sizes,     *)
(* budgets and number of requests: requests are neither lost nor doubled,  *)
(* a snapshot holds no request half done, and no access leaves the disk.   *)
(***************************************************************************)
EXTENDS VirtioBlock, FiniteSetTheorems, SequenceTheorems, TLAPS

-----------------------------------------------------------------------------
(***************************************************************************)
(* The inductive invariant.                                                *)
(***************************************************************************)
Completions == [chain : Ids, res : {"full", "partial", "error"}]

BlockType ==
    /\ avail \in Seq(Chains) /\ Len(avail) <= MaxReqs
    /\ next_avail \in 0..Len(avail)
    /\ used \in Seq(Ids) /\ used_idx \in Nat /\ seen \in Nat
    /\ DOMAIN status = Ids
    /\ engine \in {"Sync", "Async"} /\ nsectors \in NumSectors
    /\ sq \subseteq Ids /\ in_kernel \subseteq Ids
    /\ cq \in Seq(Completions)
    /\ trace.lines \in Nat

\* The limiter is charged one operation for each request that passes it, and
\* another for each one that a full ring had put back.
Charged ==
    /\ ops \in Nat /\ admitted \in Nat /\ put_back \in Nat
    /\ ops + admitted + put_back = OpsBudget

\* How far a drain has come, and that the Sync engine keeps nothing.
Drained ==
    /\ pc \in {"draining", "save_completions", "saved", "dropping", "dropped"}
          => sq = {}
    /\ pc \in {"save_completions", "saved", "dropped"} => in_kernel = {}
    /\ pc = "saved" => cq = <<>>
    /\ engine = "Sync" => sq = {} /\ in_kernel = {} /\ cq = <<>>

\* A chain that was popped is in one place.
Placed ==
    /\ sq \intersect in_kernel = {}
    /\ pc # "dropped" =>
         /\ UsedSet \union sq \union in_kernel \union CompletedSet = 1..next_avail
         /\ Len(used) + InRing = next_avail

\* The driver has been told of what it may look at, and outside the handlers it
\* may look at everything.
Signalled ==
    /\ seen <= used_idx /\ used_idx <= Len(used)
    /\ interrupt \/ seen = used_idx
    /\ pc \in {"idle", "draining", "saved"} => used_idx = Len(used)
    /\ pc = "save_completions" /\ engine = "Sync" => used_idx = Len(used)
    /\ pc \in {"queue", "queue_done"} /\ ~used_any => used_idx = Len(used)

\* A chain that every disk image could have served.
Servable(c) == c.status = "wo" /\ \A n \in NumSectors : Parses(c, n)

StatusWritten ==
    \A r \in UsedSet :
        r \in 1..next_avail /\ (Servable(avail[r]) => status[r] # "none")

BlockInv ==
    /\ BlockType /\ Charged /\ Drained
    /\ Placed /\ Signalled /\ StatusWritten

-----------------------------------------------------------------------------
(***************************************************************************)
(* The rings as sets.                                                      *)
(***************************************************************************)

\* A chain added to the used ring is the only one added.
LEMMA UsedGrows ==
    ASSUME used \in Seq(Ids), NEW r \in Ids, used' = Append(used, r)
    PROVE  /\ used' \in Seq(Ids) /\ Len(used') = Len(used) + 1
           /\ UsedSet' = UsedSet \union {r}
<1>1. /\ used' \in Seq(Ids) /\ Len(used') = Len(used) + 1
      /\ \A k \in 1..Len(used) : used'[k] = used[k]
      /\ used'[Len(used) + 1] = r /\ Len(used) \in Nat
  BY AppendProperties, LenProperties
<1>2. 1..Len(used') = 1..Len(used) \union {Len(used) + 1}
  BY <1>1
<1>3. UsedSet' = {used'[k] : k \in 1..Len(used) \union {Len(used) + 1}}
  BY <1>2 DEF UsedSet
<1> QED
  BY <1>1, <1>3 DEF UsedSet

LEMMA CompletedGrows ==
    ASSUME cq \in Seq(Completions), NEW c \in Completions, cq' = Append(cq, c)
    PROVE  /\ cq' \in Seq(Completions) /\ Len(cq') = Len(cq) + 1
           /\ CompletedSet' = CompletedSet \union {c.chain}
<1>1. /\ cq' \in Seq(Completions) /\ Len(cq') = Len(cq) + 1
      /\ \A k \in 1..Len(cq) : cq'[k] = cq[k]
      /\ cq'[Len(cq) + 1] = c /\ Len(cq) \in Nat
  BY AppendProperties, LenProperties
<1>2. 1..Len(cq') = 1..Len(cq) \union {Len(cq) + 1}
  BY <1>1
<1>3. CompletedSet' = {cq'[k].chain : k \in 1..Len(cq) \union {Len(cq) + 1}}
  BY <1>2 DEF CompletedSet
<1> QED
  BY <1>1, <1>3 DEF CompletedSet

\* Taking a completion off the queue takes that one only.
LEMMA CompletedShrinks ==
    ASSUME cq \in Seq(Completions), cq # <<>>, cq' = Tail(cq)
    PROVE  /\ cq' \in Seq(Completions) /\ Len(cq') = Len(cq) - 1
           /\ Len(cq) \in Nat \ {0} /\ Head(cq) \in Completions
           /\ CompletedSet = CompletedSet' \union {Head(cq).chain}
<1>1. /\ cq' \in Seq(Completions) /\ Len(cq') = Len(cq) - 1
      /\ Len(cq) \in Nat \ {0} /\ Head(cq) \in Completions /\ Head(cq) = cq[1]
      /\ \A k \in 1..Len(cq') : cq'[k] = cq[k + 1]
  BY HeadTailProperties, EmptySeq
<1>2. ASSUME NEW r
      PROVE  r \in CompletedSet <=> r \in CompletedSet' \union {cq[1].chain}
  <2>1. ASSUME NEW k \in 1..Len(cq), r = cq[k].chain
        PROVE  r \in CompletedSet' \union {cq[1].chain}
    <3>1. CASE k = 1
      BY <2>1, <3>1
    <3>2. CASE k # 1
      <4>1. k - 1 \in 1..Len(cq') /\ (k - 1) + 1 = k
        BY <1>1, <3>2
      <4>2. cq'[k - 1] = cq[k]
        BY <1>1, <4>1
      <4> QED
        BY <2>1, <4>1, <4>2 DEF CompletedSet
    <3> QED
      BY <3>1, <3>2
  <2>2. ASSUME NEW k \in 1..Len(cq'), r = cq'[k].chain
        PROVE  r \in CompletedSet
    <3>1. k + 1 \in 1..Len(cq) /\ cq'[k] = cq[k + 1]
      BY <1>1
    <3> QED
      BY <2>2, <3>1 DEF CompletedSet
  <2>3. cq[1].chain \in CompletedSet
    <3>1. 1 \in 1..Len(cq)
      BY <1>1
    <3> QED
      BY <3>1 DEF CompletedSet
  <2> QED
    BY <2>1, <2>2, <2>3 DEF CompletedSet
<1> QED
  BY <1>1, <1>2

LEMMA Finite ==
    ASSUME NEW S, S \subseteq Ids
    PROVE  IsFiniteSet(S) /\ Cardinality(S) \in Nat
<1>1. MaxReqs \in Int /\ 1 \in Int
  BY BlockAssumption
<1>2. IsFiniteSet(Ids)
  BY <1>1, FS_Interval DEF Ids
<1> QED
  BY <1>2, FS_Subset, FS_CardinalityType

LEMMA PoppedIsChain ==
    ASSUME BlockType, Popping
    PROVE  /\ Chain \in Chains /\ next_avail + 1 \in Ids
           /\ next_avail + 1 \in 1..Len(avail)
<1>1. next_avail + 1 \in 1..Len(avail) /\ Len(avail) \in Nat
  BY LenProperties DEF BlockType, Popping
<1> QED
  BY <1>1, ElementOfSeq, BlockAssumption DEF BlockType, Chain, Ids

-----------------------------------------------------------------------------
(***************************************************************************)
(* Initially, and what kinds of steps there are.                           *)
(***************************************************************************)
LEMMA BlockInitially == Init => BlockInv
<1> SUFFICES ASSUME Init PROVE BlockInv
  OBVIOUS
<1>1. BlockType
  <2>1. engine \in {"Sync", "Async"} /\ nsectors \in NumSectors
    BY BlockAssumption DEF Init
  <2>2. MaxReqs \in Nat
    BY BlockAssumption
  <2>3. /\ avail \in Seq(Chains) /\ Len(avail) = 0
        /\ used \in Seq(Ids) /\ cq \in Seq(Completions)
    BY DEF Init
  <2> QED
    BY <2>1, <2>2, <2>3 DEF Init, BlockType
<1>2. Charged
  BY BlockAssumption DEF Init, Charged
<1>3. Drained /\ Signalled
  BY DEF Init, Drained, Signalled
<1>4. UsedSet = {} /\ CompletedSet = {}
  <2>1. Len(used) = 0 /\ Len(cq) = 0
    BY DEF Init
  <2> QED
    BY <2>1 DEF UsedSet, CompletedSet
<1>5. Placed
  <2>1. InRing = 0
    BY FS_EmptySet DEF Init, InRing
  <2> QED
    BY <1>4, <2>1 DEF Init, Placed
<1>6. StatusWritten
  BY <1>4 DEF StatusWritten
<1> QED
  BY <1>1, <1>2, <1>3, <1>5, <1>6 DEF BlockInv

requests == <<avail, next_avail, used, status, sq, in_kernel, cq>>

\* The popped chain is executed at once.
Execute == ParseFails \/ Answer \/ ExecuteSync \/ SubmitFails

\* What was pushed goes to the kernel.
Kick == QueueDone \/ prepare_save \/ drop

\* Steps that move no request.
Quiet ==
    \/ HandleInterrupt \/ process_queue_event \/ process_rate_limiter_event
    \/ process_async_completion_event \/ RateLimited \/ Throttled
    \/ NothingAvailable \/ CompletionsDone \/ SaveDrained \/ SaveDone
    \/ ResumeSaved \/ (\E n \in NumSectors : update_disk_image(n))
    \/ UNCHANGED vars

LEMMA StepKinds ==
    ASSUME [Next]_vars
    PROVE  \/ \E c \in Chains : Post(c)
           \/ Execute \/ SubmitAsync \/ Kick \/ PopCompletion \/ Quiet
           \/ RestoreSaved \/ Dropped
           \/ \E r \in in_kernel : Complete(r)
BY DEF Next, Device, Execute, Kick, Quiet, Gone

LEMMA QuietKeeps == Quiet => UNCHANGED <<requests, engine>>
BY DEF Quiet, requests, HandleInterrupt, process_queue_event,
       process_rate_limiter_event, process_async_completion_event, RateLimited,
       Throttled, NothingAvailable, CompletionsDone, SaveDrained, SaveDone,
       ResumeSaved, update_disk_image, vars, guest, ring

LEMMA ExecuteIs ==
    ASSUME Execute
    PROVE  Popping /\ \E st : Executed(st)
BY DEF Execute, ParseFails, Answer, ExecuteSync, SubmitFails, ToEngine, Admitted

\* The engine does not change, and a new image has one of the sizes.
LEMMA EngineKept ==
    ASSUME BlockType, [Next]_vars
    PROVE  /\ engine' = engine /\ nsectors' \in NumSectors
           /\ trace'.lines \in Nat
           /\ trace' = trace \/ ToEngine
<1>1. nsectors \in NumSectors /\ trace.lines \in Nat
  BY DEF BlockType
<1>2. engine' = engine
  BY DEF Next, Device, vars, Post, HandleInterrupt, process_queue_event,
     process_rate_limiter_event, process_async_completion_event, ParseFails,
     RateLimited, Answer, ExecuteSync, SubmitFails, SubmitAsync, Throttled,
     NothingAvailable, QueueDone, PopCompletion, CompletionsDone, SaveDrained,
     SaveDone, ResumeSaved, Dropped, prepare_save, RestoreSaved, drop, Gone,
     update_disk_image, Complete, Executed
<1>3. nsectors' = nsectors \/ nsectors' \in NumSectors
  BY DEF Next, Device, vars, Post, HandleInterrupt, process_queue_event,
     process_rate_limiter_event, process_async_completion_event, ParseFails,
     RateLimited, Answer, ExecuteSync, SubmitFails, SubmitAsync, Throttled,
     NothingAvailable, QueueDone, PopCompletion, CompletionsDone, SaveDrained,
     SaveDone, ResumeSaved, Dropped, prepare_save, RestoreSaved, drop, Gone,
     update_disk_image, Complete, Executed
<1>4. trace' = trace \/ ToEngine
  BY DEF Next, Device, vars, Post, HandleInterrupt, process_queue_event,
     process_rate_limiter_event, process_async_completion_event, ParseFails,
     RateLimited, Answer, ExecuteSync, SubmitFails, SubmitAsync, Throttled,
     NothingAvailable, QueueDone, PopCompletion, CompletionsDone, SaveDrained,
     SaveDone, ResumeSaved, Dropped, prepare_save, RestoreSaved, drop, Gone,
     update_disk_image, Complete
<1>5. trace'.lines \in Nat
  BY <1>1, <1>4 DEF ToEngine
<1> QED
  BY <1>1, <1>2, <1>3, <1>4, <1>5

-----------------------------------------------------------------------------
(***************************************************************************)
(* Each part of the invariant is preserved.                                *)
(***************************************************************************)
LEMMA BlockTypeStep ==
    ASSUME BlockType, [Next]_vars
    PROVE  BlockType'
<1>1. /\ engine' \in {"Sync", "Async"} /\ nsectors' \in NumSectors
      /\ trace'.lines \in Nat
  BY EngineKept DEF BlockType
<1>2. used_idx' \in Nat /\ seen' \in Nat
  <2>1. used_idx' \in {used_idx, Len(used)} /\ seen' \in {seen, used_idx}
    BY DEF Next, Device, vars, Post, HandleInterrupt, process_queue_event,
       process_rate_limiter_event, process_async_completion_event, ParseFails,
       RateLimited, Answer, ExecuteSync, SubmitFails, SubmitAsync, Throttled,
       NothingAvailable, QueueDone, PopCompletion, CompletionsDone, SaveDrained,
       SaveDone, ResumeSaved, Dropped, prepare_save, RestoreSaved, drop, Gone,
       update_disk_image, Complete, Executed, Publish, guest, driver
  <2> QED
    BY <2>1, LenProperties DEF BlockType
<1> DEFINE Rings ==
             /\ avail' \in Seq(Chains) /\ Len(avail') <= MaxReqs
             /\ next_avail' \in 0..Len(avail') /\ used' \in Seq(Ids)
             /\ DOMAIN status' = Ids
             /\ sq' \subseteq Ids /\ in_kernel' \subseteq Ids
             /\ cq' \in Seq(Completions)
<1>3. ASSUME Rings PROVE BlockType'
  BY <1>1, <1>2, <1>3 DEF BlockType
<1>4. ASSUME NEW c \in Chains, Post(c) PROVE Rings
  <2>1. /\ avail' \in Seq(Chains) /\ Len(avail') = Len(avail) + 1
        /\ Len(avail) \in Nat /\ Len(avail) < MaxReqs
    BY <1>4, AppendProperties, LenProperties DEF Post, BlockType
  <2>2. Len(avail') <= MaxReqs
    BY <2>1, BlockAssumption
  <2> QED
    BY <1>4, <2>1, <2>2 DEF Post, BlockType, ring
<1>5. ASSUME Execute PROVE Rings
  <2>1. PICK st : Executed(st)
    BY <1>5, ExecuteIs
  <2>2. next_avail + 1 \in Ids /\ next_avail + 1 \in 1..Len(avail)
    BY <1>5, ExecuteIs, PoppedIsChain
  <2>3. used' \in Seq(Ids)
    BY <2>1, <2>2, UsedGrows DEF Executed, BlockType
  <2> QED
    BY <2>1, <2>2, <2>3 DEF Executed, BlockType, ring
<1>6. ASSUME SubmitAsync PROVE Rings
  <2>1. next_avail + 1 \in Ids /\ next_avail + 1 \in 1..Len(avail)
    BY <1>6, PoppedIsChain DEF SubmitAsync, ToEngine, Admitted
  <2> QED
    BY <1>6, <2>1 DEF SubmitAsync, BlockType
<1>7. ASSUME Kick PROVE Rings
  BY <1>7 DEF Kick, QueueDone, prepare_save, drop, Drain, guest, BlockType
<1>8. ASSUME PopCompletion PROVE Rings
  <2>1. cq' \in Seq(Completions) /\ Head(cq) \in Completions
    BY <1>8, CompletedShrinks DEF PopCompletion, BlockType
  <2>2. Head(cq).chain \in Ids
    BY <2>1 DEF Completions
  <2>3. used' \in Seq(Ids)
    BY <1>8, <2>2, UsedGrows DEF PopCompletion, BlockType
  <2> QED
    BY <1>8, <2>1, <2>3 DEF PopCompletion, BlockType
<1>9. ASSUME Quiet PROVE Rings
  BY <1>9, QuietKeeps DEF requests, BlockType
<1>10. ASSUME RestoreSaved \/ Dropped PROVE Rings
  <2>1. cq' = <<>> /\ <<>> \in Seq(Completions)
    BY <1>10 DEF RestoreSaved, Dropped
  <2>2. sq' \in {{}, sq} /\ in_kernel' \in {{}, in_kernel}
    BY <1>10 DEF RestoreSaved, Dropped
  <2>3. UNCHANGED <<avail, next_avail, used, status>>
    BY <1>10 DEF RestoreSaved, Dropped, guest
  <2> QED
    BY <2>1, <2>2, <2>3 DEF BlockType
<1>11. ASSUME NEW r \in in_kernel, Complete(r) PROVE Rings
  <2>1. PICK res \in Results(avail[r]) : cq' = Append(cq, [chain |-> r, res |-> res])
    BY <1>11 DEF Complete
  <2>2. [chain |-> r, res |-> res] \in Completions
    BY <1>11, <2>1 DEF Results, Completions, BlockType
  <2>3. cq' \in Seq(Completions)
    BY <2>1, <2>2, CompletedGrows DEF BlockType
  <2> QED
    BY <1>11, <2>3 DEF Complete, guest, BlockType
<1> QED
  BY <1>3, <1>4, <1>5, <1>6, <1>7, <1>8, <1>9, <1>10, <1>11, StepKinds

LEMMA ChargedStep ==
    ASSUME Charged, [Next]_vars
    PROVE  Charged'
<1>1. \/ UNCHANGED <<ops, admitted, put_back>>
      \/ ops' = OpsBudget /\ admitted' = 0 /\ put_back' = 0
      \/ /\ ops # 0 /\ ops' = ops - 1
         /\ \/ admitted' = admitted + 1 /\ put_back' = put_back
            \/ admitted' = admitted /\ put_back' = put_back + 1
  BY DEF Next, Device, vars, limiter, Post, HandleInterrupt, process_queue_event,
     process_rate_limiter_event, process_async_completion_event, ParseFails,
     RateLimited, Answer, ExecuteSync, SubmitFails, SubmitAsync, Throttled,
     NothingAvailable, QueueDone, PopCompletion, CompletionsDone, SaveDrained,
     SaveDone, ResumeSaved, Dropped, prepare_save, RestoreSaved, drop, Gone,
     update_disk_image, Complete, ToEngine, Admitted, OpsLimited, Passes
<1>2. OpsBudget \in Nat
  BY BlockAssumption
<1> QED
  BY <1>1, <1>2 DEF Charged

LEMMA DrainedStep ==
    ASSUME BlockType, Drained, [Next]_vars
    PROVE  Drained'
<1>1. engine' = engine
  BY EngineKept
<1>2. ASSUME NEW c \in Chains, Post(c) PROVE Drained'
  BY <1>1, <1>2 DEF Post, ring, Drained
<1>3. CASE Execute
  <2>1. pc = "queue" /\ \E st : Executed(st)
    BY <1>3, ExecuteIs DEF Popping
  <2> QED
    BY <1>1, <2>1 DEF Executed, ring, Drained
<1>4. CASE SubmitAsync
  <2>1. pc = "queue" /\ engine = "Async"
    BY <1>4 DEF SubmitAsync, ToEngine, Admitted, Popping
  <2> QED
    BY <1>1, <1>4, <2>1 DEF SubmitAsync, Drained
<1>5. CASE Kick
  BY <1>1, <1>5 DEF Kick, QueueDone, prepare_save, drop, Drain, Drained
<1>6. CASE PopCompletion
  BY <1>1, <1>6 DEF PopCompletion, Drained
<1>7. CASE Quiet
  <2>1. UNCHANGED <<sq, in_kernel, cq>>
    BY <1>7, QuietKeeps DEF requests
  <2>2. \/ pc' \in {"queue", "queue_done", "idle", "completions"}
        \/ pc' = pc
        \/ pc = "draining" /\ in_kernel = {} /\ pc' = "save_completions"
        \/ pc = "save_completions" /\ cq = <<>> /\ pc' = "saved"
    BY <1>7 DEF Quiet, HandleInterrupt, process_queue_event, BeginQueue,
       process_rate_limiter_event, process_async_completion_event, RateLimited,
       Throttled, NothingAvailable, CompletionsDone, SaveDrained, SaveDone,
       ResumeSaved, update_disk_image, vars
  <2> QED
    BY <1>1, <2>1, <2>2 DEF Drained
<1>8. CASE RestoreSaved
  BY <1>1, <1>8 DEF RestoreSaved, BeginQueue, Drained
<1>9. CASE Dropped
  BY <1>1, <1>9 DEF Dropped, Drained
<1>10. ASSUME NEW r \in in_kernel, Complete(r) PROVE Drained'
  BY <1>1, <1>10 DEF Complete, Drained
<1> QED
  BY <1>2, <1>3, <1>4, <1>5, <1>6, <1>7, <1>8, <1>9, <1>10, StepKinds

\* The number of requests in the ring, as a number.
LEMMA Counted ==
    ASSUME BlockType
    PROVE  \E s \in Nat, k \in Nat, m \in Nat, l \in Nat :
              /\ s = Cardinality(sq) /\ k = Cardinality(in_kernel)
              /\ m = Len(cq) /\ l = Len(used)
              /\ InRing = s + k + m
BY Finite, LenProperties DEF BlockType, InRing

LEMMA PlacedStep ==
    ASSUME BlockType, Drained, Placed, [Next]_vars
    PROVE  Placed'
<1>1. PICK s \in Nat, k \in Nat, m \in Nat, l \in Nat :
         /\ s = Cardinality(sq) /\ k = Cardinality(in_kernel)
         /\ m = Len(cq) /\ l = Len(used)
         /\ InRing = s + k + m
  BY Counted
<1>2. PICK n \in Nat : n = next_avail
  BY DEF BlockType
<1> DEFINE Sets == UsedSet \union sq \union in_kernel \union CompletedSet
<1>3. ASSUME pc # "dropped"
      PROVE  Sets = 1..n /\ l + (s + k + m) = n
  BY <1>1, <1>2, <1>3 DEF Placed
<1>4. sq \intersect in_kernel = {}
  BY DEF Placed
<1>5. ASSUME NEW s1 \in Nat, NEW k1 \in Nat, NEW m1 \in Nat, NEW l1 \in Nat,
             Cardinality(sq)' = s1, Cardinality(in_kernel)' = k1,
             Len(cq)' = m1, Len(used)' = l1,
             l1 + (s1 + k1 + m1) = next_avail', Sets' = 1..next_avail',
             (sq \intersect in_kernel)' = {}
      PROVE  Placed'
  BY <1>5 DEF Placed, InRing
<1>6. ASSUME UNCHANGED <<next_avail, used, sq, in_kernel, cq>>,
             pc = "dropped" => pc' = "dropped"
      PROVE  Placed'
  BY <1>6 DEF Placed, UsedSet, CompletedSet, InRing
<1>7. ASSUME NEW c \in Chains, Post(c) PROVE Placed'
  BY <1>6, <1>7 DEF Post, ring
<1>8. CASE Execute
  <2>1. PICK st : Executed(st)
    BY <1>8, ExecuteIs
  <2>2. next_avail + 1 \in Ids /\ pc # "dropped"
    BY <1>8, ExecuteIs, PoppedIsChain DEF Popping
  <2>3. UsedSet' = UsedSet \union {n + 1} /\ Len(used)' = l + 1
    BY <1>1, <1>2, <2>1, <2>2, UsedGrows DEF Executed, BlockType
  <2>4. UNCHANGED <<sq, in_kernel, cq>> /\ next_avail' = n + 1
    BY <1>2, <2>1 DEF Executed, ring
  <2>5. CompletedSet' = CompletedSet
    BY <2>4 DEF CompletedSet
  <2>6. Sets' = 1..(n + 1)
    BY <1>3, <2>2, <2>3, <2>4, <2>5
  <2>7. (l + 1) + (s + k + m) = n + 1
    BY <1>3, <2>2
  <2>8. /\ Cardinality(sq)' = s /\ Cardinality(in_kernel)' = k /\ Len(cq)' = m
        /\ (sq \intersect in_kernel)' = {}
    BY <1>1, <1>4, <2>4
  <2> QED
    BY <1>5, <2>3, <2>4, <2>6, <2>7, <2>8
<1>9. CASE SubmitAsync
  <2>1. pc # "dropped" /\ next_avail + 1 \in Ids
    BY <1>9, PoppedIsChain DEF SubmitAsync, ToEngine, Admitted, Popping
  <2>2. /\ UNCHANGED <<used, in_kernel, cq>> /\ next_avail' = n + 1
        /\ sq' = sq \union {n + 1}
    BY <1>2, <1>9 DEF SubmitAsync
  <2>3. UsedSet' = UsedSet /\ CompletedSet' = CompletedSet
    BY <2>2 DEF UsedSet, CompletedSet
  <2>4. n + 1 \notin sq \union in_kernel
    BY <1>3, <2>1
  <2>5. Cardinality(sq') = s + 1
    BY <1>1, <2>2, <2>4, Finite, FS_AddElement DEF BlockType
  <2>6. Sets' = 1..(n + 1)
    BY <1>3, <2>1, <2>2, <2>3
  <2>7. l + ((s + 1) + k + m) = n + 1
    BY <1>3, <2>1
  <2>8. /\ Cardinality(in_kernel)' = k /\ Len(cq)' = m /\ Len(used)' = l
        /\ (sq \intersect in_kernel)' = {}
    BY <1>1, <1>4, <2>2, <2>4
  <2> QED
    BY <1>5, <2>2, <2>5, <2>6, <2>7, <2>8
<1>10. CASE Kick
  <2>1. /\ pc # "dropped" /\ UNCHANGED <<next_avail, used, cq>>
        /\ in_kernel' = in_kernel \union sq /\ sq' = {}
    BY <1>10 DEF Kick, QueueDone, prepare_save, drop, Drain, guest
  <2>2. UsedSet' = UsedSet /\ CompletedSet' = CompletedSet
    BY <2>1 DEF UsedSet, CompletedSet
  <2>3. Cardinality(in_kernel') = k + s
    <3>1. /\ IsFiniteSet(sq) /\ IsFiniteSet(in_kernel)
          /\ in_kernel \intersect sq = {}
      BY <1>4, Finite DEF BlockType
    <3>2. Cardinality(in_kernel \union sq) = Cardinality(in_kernel) + Cardinality(sq)
             - Cardinality(in_kernel \intersect sq)
      BY <3>1, FS_Union
    <3>3. Cardinality(in_kernel \intersect sq) = 0
      BY <3>1, FS_EmptySet
    <3> QED
      BY <1>1, <2>1, <3>2, <3>3
  <2>4. Cardinality(sq') = 0
    BY <2>1, FS_EmptySet
  <2>5. Sets' = 1..n /\ next_avail' = n
    BY <1>2, <1>3, <2>1, <2>2
  <2>6. l + (0 + (k + s) + m) = n
    BY <1>3, <2>1
  <2>7. /\ Len(cq)' = m /\ Len(used)' = l
        /\ (sq \intersect in_kernel)' = {}
    BY <1>1, <2>1
  <2> QED
    BY <1>5, <2>3, <2>4, <2>5, <2>6, <2>7
<1>11. CASE PopCompletion
  <2>1. /\ pc # "dropped" /\ UNCHANGED <<next_avail, sq, in_kernel>>
        /\ cq # <<>> /\ cq' = Tail(cq) /\ used' = Append(used, Head(cq).chain)
    BY <1>11 DEF PopCompletion
  <2>2. /\ Len(cq') = m - 1 /\ m - 1 \in Nat /\ Head(cq) \in Completions
        /\ CompletedSet = CompletedSet' \union {Head(cq).chain}
    BY <1>1, <2>1, CompletedShrinks DEF BlockType
  <2>3. UsedSet' = UsedSet \union {Head(cq).chain} /\ Len(used') = l + 1
    <3>1. Head(cq).chain \in Ids
      BY <2>2 DEF Completions
    <3> QED
      BY <1>1, <2>1, <3>1, UsedGrows DEF BlockType
  <2>4. Sets' = 1..n /\ next_avail' = n
    BY <1>2, <1>3, <2>1, <2>2, <2>3
  <2>5. (l + 1) + (s + k + (m - 1)) = n
    BY <1>3, <2>1
  <2>6. /\ Cardinality(sq)' = s /\ Cardinality(in_kernel)' = k
        /\ (sq \intersect in_kernel)' = {}
    BY <1>1, <1>4, <2>1
  <2> QED
    BY <1>5, <2>2, <2>3, <2>4, <2>5, <2>6
<1>12. CASE Quiet
  <2>1. pc = "dropped" => pc' = "dropped"
    BY <1>12 DEF Quiet, HandleInterrupt, process_queue_event, Stopped,
       process_rate_limiter_event, process_async_completion_event, RateLimited,
       Throttled, NothingAvailable, CompletionsDone, SaveDrained, SaveDone,
       ResumeSaved, update_disk_image, vars, ToEngine, Admitted, Popping
  <2> QED
    BY <1>6, <1>12, <2>1, QuietKeeps DEF requests
<1>13. CASE RestoreSaved
  BY <1>6, <1>13 DEF RestoreSaved, guest, Drained
<1>14. CASE Dropped
  BY <1>4, <1>14 DEF Dropped, Placed
<1>15. ASSUME NEW r \in in_kernel, Complete(r) PROVE Placed'
  <2>1. PICK res \in Results(avail[r]) : cq' = Append(cq, [chain |-> r, res |-> res])
    BY <1>15 DEF Complete
  <2>2. [chain |-> r, res |-> res] \in Completions
    BY <1>15, <2>1 DEF Results, Completions, BlockType
  <2>3. CompletedSet' = CompletedSet \union {r} /\ Len(cq)' = m + 1
    BY <1>1, <2>1, <2>2, CompletedGrows DEF BlockType
  <2>4. /\ UNCHANGED <<next_avail, used, sq>> /\ in_kernel' = in_kernel \ {r}
        /\ UsedSet' = UsedSet
    BY <1>15 DEF Complete, guest, UsedSet
  <2>5. pc # "dropped"
    BY <1>15 DEF Drained
  <2>6. Cardinality(in_kernel') = k - 1 /\ k - 1 \in Nat
    <3>1. Cardinality(in_kernel') = k - 1
      BY <1>1, <1>15, <2>4, Finite, FS_RemoveElement DEF BlockType
    <3>2. Cardinality(in_kernel') \in Nat
      BY <2>4, Finite DEF BlockType
    <3> QED
      BY <3>1, <3>2
  <2>7. Sets' = 1..n /\ next_avail' = n
    BY <1>2, <1>3, <1>15, <2>3, <2>4, <2>5
  <2>8. l + (s + (k - 1) + (m + 1)) = n
    BY <1>3, <2>5
  <2>9. /\ Cardinality(sq)' = s /\ Len(used)' = l
        /\ (sq \intersect in_kernel)' = {}
    BY <1>1, <1>4, <2>4
  <2> QED
    BY <1>5, <2>3, <2>6, <2>7, <2>8, <2>9
<1> QED
  BY <1>7, <1>8, <1>9, <1>10, <1>11, <1>12, <1>13, <1>14, <1>15, StepKinds

LEMMA SignalledStep ==
    ASSUME BlockType, Drained, Signalled, [Next]_vars
    PROVE  Signalled'
<1>1. PICK l \in Nat, u \in Nat, d \in Nat :
         l = Len(used) /\ u = used_idx /\ d = seen /\ d <= u /\ u <= l
  BY LenProperties DEF BlockType, Signalled
<1>2. engine' = engine
  BY EngineKept
<1>3. ASSUME UNCHANGED <<used, used_idx, seen, interrupt, used_any>>,
             \/ pc' = pc
             \/ pc' \notin {"idle", "draining", "save_completions", "saved",
                            "queue", "queue_done"}
             \/ pc = "idle" /\ pc' = "draining"
             \/ pc = "draining" /\ pc' = "save_completions"
             \/ pc = "queue" /\ pc' = "queue_done"
      PROVE  Signalled'
  BY <1>2, <1>3 DEF Signalled
<1>4. ASSUME UNCHANGED <<used, used_idx, seen, interrupt>>, BeginQueue,
             pc \in {"idle", "saved"}
      PROVE  Signalled'
  BY <1>4 DEF Signalled, BeginQueue
<1>5. ASSUME Len(used') = l + 1, UNCHANGED <<used_idx, seen, interrupt>>,
             \/ pc' = "queue" /\ used_any'
             \/ pc' = "completions"
             \/ pc' = "save_completions" /\ engine' # "Sync"
      PROVE  Signalled'
  BY <1>1, <1>5 DEF Signalled
<1>6. ASSUME used' = used, used_idx' = l, seen' = d,
             interrupt' \/ d = l
      PROVE  Signalled'
  BY <1>1, <1>6 DEF Signalled
<1>7. ASSUME NEW c \in Chains, Post(c) PROVE Signalled'
  BY <1>3, <1>7 DEF Post, driver
<1>8. CASE Execute
  <2>1. PICK st : Executed(st)
    BY <1>8, ExecuteIs
  <2>2. pc = "queue" /\ next_avail + 1 \in Ids
    BY <1>8, ExecuteIs, PoppedIsChain DEF Popping
  <2>3. Len(used') = l + 1
    BY <1>1, <2>1, <2>2, UsedGrows DEF Executed, BlockType
  <2> QED
    BY <1>5, <2>1, <2>2, <2>3 DEF Executed, driver
<1>9. CASE SubmitAsync
  BY <1>3, <1>9 DEF SubmitAsync, driver
<1>10. CASE Kick
  <2>1. CASE prepare_save \/ drop
    BY <1>3, <2>1 DEF prepare_save, drop, guest, driver
  <2>2. CASE QueueDone
    <3>1. CASE used_any
      <4>1. interrupt' \/ d = l
        <5>1. Len(used) > seen => interrupt'
          BY <2>2, <3>1, Zenon DEF QueueDone
        <5>2. l > d \/ d = l
          BY <1>1
        <5> QED
          BY <1>1, <5>1, <5>2
      <4> QED
        BY <1>1, <1>6, <2>2, <4>1 DEF QueueDone
    <3>2. CASE ~used_any
      <4>1. u = l
        BY <1>1, <2>2, <3>2 DEF QueueDone, Signalled
      <4>2. interrupt' \/ d = l
        BY <1>1, <2>2, <4>1 DEF QueueDone, Signalled
      <4> QED
        BY <1>1, <1>6, <2>2, <4>2 DEF QueueDone
    <3> QED
      BY <3>1, <3>2
  <2> QED
    BY <1>10, <2>1, <2>2 DEF Kick
<1>11. CASE PopCompletion
  <2>1. Len(used') = l + 1
    <3>1. Head(cq).chain \in Ids
      <4>1. Head(cq) \in Completions
        BY <1>11, CompletedShrinks DEF PopCompletion, BlockType
      <4> QED
        BY <4>1 DEF Completions
    <3> QED
      BY <1>1, <1>11, <3>1, UsedGrows DEF PopCompletion, BlockType
  <2>2. engine' # "Sync"
    BY <1>2, <1>11 DEF PopCompletion, Drained
  <2> QED
    BY <1>5, <1>11, <2>1, <2>2 DEF PopCompletion, driver
<1>12. CASE Quiet
  <2>1. CASE HandleInterrupt
    BY <1>1, <1>2, <2>1 DEF HandleInterrupt, guest, Signalled
  <2>2. CASE \/ process_async_completion_event \/ RateLimited \/ Throttled
             \/ NothingAvailable \/ SaveDrained
             \/ \E n \in NumSectors : update_disk_image(n)
             \/ UNCHANGED vars
    <3>1. /\ UNCHANGED <<used, used_idx, seen, interrupt, used_any>>
          /\ \/ pc' = pc \/ pc' = "completions"
             \/ pc = "draining" /\ pc' = "save_completions"
             \/ pc = "queue" /\ pc' = "queue_done"
      BY <2>2 DEF process_async_completion_event, RateLimited, Throttled,
         NothingAvailable, SaveDrained, update_disk_image, vars, guest, driver,
         ToEngine, Admitted, Popping
    <3> QED
      BY <1>3, <3>1
  <2>3. CASE process_queue_event \/ process_rate_limiter_event \/ ResumeSaved
    <3>1. /\ UNCHANGED <<used, used_idx, seen, interrupt>>
          /\ pc \in {"idle", "saved"}
          /\ BeginQueue \/ UNCHANGED <<pc, used_any>>
      BY <2>3 DEF process_queue_event, process_rate_limiter_event, ResumeSaved,
         guest, driver
    <3> QED
      BY <1>3, <1>4, <3>1
  <2>4. CASE CompletionsDone \/ (SaveDone /\ engine = "Async")
    <3>1. Publish /\ UNCHANGED <<used, seen>>
      BY <2>4 DEF CompletionsDone, SaveDone
    <3>2. interrupt' \/ d = l
      <4>1. Len(used) > seen => interrupt'
        BY <3>1, Zenon DEF Publish
      <4>2. l > d \/ d = l
        BY <1>1
      <4> QED
        BY <1>1, <4>1, <4>2
    <3> QED
      BY <1>1, <1>6, <3>1, <3>2 DEF Publish
  <2>5. CASE SaveDone /\ engine # "Async"
    <3>1. engine = "Sync"
      BY <2>5 DEF BlockType
    <3> QED
      BY <1>2, <2>5, <3>1 DEF SaveDone, Signalled
  <2> QED
    BY <1>12, <2>1, <2>2, <2>3, <2>4, <2>5 DEF Quiet
<1>13. CASE RestoreSaved
  BY <1>4, <1>13 DEF RestoreSaved, guest, driver
<1>14. CASE Dropped
  BY <1>3, <1>14 DEF Dropped, guest, driver
<1>15. ASSUME NEW r \in in_kernel, Complete(r) PROVE Signalled'
  BY <1>3, <1>15 DEF Complete, guest, driver
<1> QED
  BY <1>7, <1>8, <1>9, <1>10, <1>11, <1>12, <1>13, <1>14, <1>15, StepKinds

\* finish writes a status byte wherever there is memory for it.
LEMMA StatusIsWritten ==
    ASSUME NEW c, NEW res, c.status = "wo"
    PROVE  StatusOf(c, res) # "none"
<1>1. CASE c.type = "Unsupported"
  BY <1>1 DEF StatusOf
<1>2. CASE c.type # "Unsupported"
  BY <1>2 DEF StatusOf
<1> QED
  BY <1>1, <1>2

LEMMA StatusStep ==
    ASSUME BlockType, Drained, Placed, StatusWritten, [Next]_vars
    PROVE  StatusWritten'
<1>1. PICK n \in Nat, a \in Nat : n = next_avail /\ a = Len(avail) /\ n <= a
  BY LenProperties DEF BlockType
<1>2. ASSUME UNCHANGED <<used, next_avail, avail, status>>
      PROVE  StatusWritten'
  BY <1>2 DEF StatusWritten, UsedSet, Servable, Parses, Fits, IsData
<1>3. ASSUME NEW r \in Ids, used' = Append(used, r), avail' = avail,
             NEW st, status' = [status EXCEPT ![r] = st],
             next_avail' \in {n, n + 1}, r \in 1..next_avail',
             Servable(avail[r]) => st # "none"
      PROVE  StatusWritten'
  <2>1. UsedSet' = UsedSet \union {r}
    BY <1>3, UsedGrows DEF BlockType
  <2>2. ASSUME NEW q \in UsedSet'
        PROVE  q \in 1..next_avail' /\ (Servable(avail[q]) => status'[q] # "none")
    <3>1. CASE q = r
      BY <1>3, <3>1 DEF BlockType
    <3>2. CASE q # r
      <4>1. q \in UsedSet
        BY <2>1, <2>2, <3>2
      <4>2. q \in 1..n /\ (Servable(avail[q]) => status[q] # "none")
        BY <1>1, <4>1 DEF StatusWritten
      <4>3. q \in 1..next_avail'
        BY <1>3, <4>2
      <4>4. status'[q] = status[q]
        BY <1>3, <3>2, <4>2 DEF BlockType
      <4> QED
        BY <4>2, <4>3, <4>4
    <3> QED
      BY <3>1, <3>2
  <2>3. \A q : Servable(avail[q])' = Servable(avail[q])
    BY <1>3 DEF Servable, Parses, Fits, IsData
  <2> QED
    BY <1>3, <2>2, <2>3 DEF StatusWritten
<1>4. ASSUME NEW c \in Chains, Post(c) PROVE StatusWritten'
  <2>1. UNCHANGED <<used, next_avail, status>> /\ avail' = Append(avail, c)
    BY <1>4 DEF Post
  <2>2. \A r \in 1..n : avail'[r] = avail[r]
    BY <1>1, <1>4, <2>1, AppendProperties DEF BlockType
  <2> QED
    BY <1>1, <2>1, <2>2 DEF StatusWritten, UsedSet, Servable, Parses, Fits, IsData
<1>5. CASE Execute
  <2>1. /\ next_avail + 1 \in Ids /\ Popping
        /\ n + 1 \in Ids /\ n + 1 \in 1..(n + 1) /\ Chain = avail[n + 1]
    BY <1>1, <1>5, ExecuteIs, PoppedIsChain DEF Chain
  <2>2. PICK st : Executed(st) /\ (Servable(Chain) => st # "none")
    <3>1. CASE ParseFails
      BY <3>1 DEF ParseFails, Servable, BlockType
    <3>2. CASE Answer
      BY <3>2, StatusIsWritten DEF Answer, Servable
    <3>3. CASE ExecuteSync
      BY <3>3, StatusIsWritten DEF ExecuteSync, Servable
    <3>4. CASE SubmitFails
      BY <3>4, StatusIsWritten DEF SubmitFails, Servable
    <3> QED
      BY <1>5, <3>1, <3>2, <3>3, <3>4 DEF Execute
  <2>3. /\ used' = Append(used, n + 1) /\ avail' = avail /\ next_avail' = n + 1
        /\ status' = [status EXCEPT ![n + 1] = st]
    BY <1>1, <2>2 DEF Executed
  <2> QED
    BY <1>3, <2>1, <2>2, <2>3
<1>6. CASE SubmitAsync
  <2>1. UNCHANGED <<used, avail, status>> /\ next_avail' = n + 1
    BY <1>1, <1>6 DEF SubmitAsync
  <2>2. UsedSet' = UsedSet /\ \A q : Servable(avail[q])' = Servable(avail[q])
    BY <2>1 DEF UsedSet, Servable, Parses, Fits, IsData
  <2>3. \A q \in 1..n : q \in 1..next_avail'
    BY <2>1
  <2> QED
    BY <1>1, <2>1, <2>2, <2>3 DEF StatusWritten
<1>7. CASE PopCompletion
  <2>1. Head(cq).chain \in Ids /\ Head(cq).chain \in CompletedSet
    <3>1. Head(cq) \in Completions /\ Head(cq).chain \in CompletedSet
      BY <1>7, CompletedShrinks DEF PopCompletion, BlockType
    <3> QED
      BY <3>1 DEF Completions
  <2>2. PICK h \in Ids : h = Head(cq).chain
    BY <2>1
  <2>3. h \in 1..n
    BY <1>1, <1>7, <2>1, <2>2 DEF PopCompletion, Placed
  <2>4. /\ used' = Append(used, h) /\ avail' = avail /\ next_avail' = n
        /\ status' = [status EXCEPT ![h] = StatusOf(avail[h], Head(cq).res)]
    BY <1>1, <1>7, <2>2 DEF PopCompletion
  <2>5. Servable(avail[h]) => StatusOf(avail[h], Head(cq).res) # "none"
    BY StatusIsWritten DEF Servable
  <2> QED
    BY <1>3, <2>3, <2>4, <2>5
<1>8. CASE Quiet
  BY <1>2, <1>8, QuietKeeps DEF requests
<1>9. CASE Kick \/ RestoreSaved \/ Dropped \/ \E r \in in_kernel : Complete(r)
  BY <1>2, <1>9 DEF Kick, QueueDone, prepare_save, drop, RestoreSaved, Dropped,
     Complete, guest
<1> QED
  BY <1>4, <1>5, <1>6, <1>7, <1>8, <1>9, StepKinds

LEMMA BlockStep == BlockInv /\ [Next]_vars => BlockInv'
BY BlockTypeStep, ChargedStep, DrainedStep, PlacedStep, SignalledStep, StatusStep
   DEF BlockInv

-----------------------------------------------------------------------------
(***************************************************************************)
(* Sectors and bytes.                                                      *)
(***************************************************************************)
LEMMA Division ==
    ASSUME NEW len \in Nat, NEW d \in Nat \ {0}, len % d = 0
    PROVE  len \div d \in Nat /\ len = (len \div d) * d
OBVIOUS

LEMMA TimesMonotone ==
    ASSUME NEW x \in Nat, NEW y \in Nat, NEW d \in Nat, x <= y
    PROVE  x * d <= y * d /\ x * d \in Nat /\ y * d \in Nat
<1>1. PICK z \in Nat : y = x + z
  <2>1. y - x \in Nat /\ y = x + (y - x)
    OBVIOUS
  <2> QED
    BY <2>1
<1>2. y * d = x * d + z * d /\ x * d \in Nat /\ z * d \in Nat
  BY <1>1
<1> QED
  BY <1>2

LEMMA SmallModulo ==
    ASSUME NEW x \in Nat, NEW m \in Nat, x < m
    PROVE  x % m = x
OBVIOUS

\* A request that parses ends on the disk, and none of its sums wrapped.
LEMMA ParsedInDisk ==
    ASSUME NEW c \in Chains, NEW n \in NumSectors, Parses(c, n)
    PROVE  Record(c).offset + Record(c).length <= n * SECTOR_SIZE
<1>1. /\ SECTOR_SIZE \in Nat \ {0} /\ U64 \in Nat
      /\ n \in Nat /\ n * SECTOR_SIZE < U64
  BY BlockAssumption
<1>2. c.sector \in Nat /\ c.len \in Nat
  <2>1. c.sector \in 0..(U64 - 1) /\ c.len \in Nat
    BY ChainAssumption
  <2> QED
    BY <2>1
<1>3. n * SECTOR_SIZE \in Nat
  BY <1>1, TimesMonotone
<1>4. CASE IsData(c)
  <2>1. /\ c.len % SECTOR_SIZE = 0
        /\ c.sector + c.len \div SECTOR_SIZE <= n
    BY <1>4 DEF Parses, Fits
  <2>2. PICK q \in Nat : q = c.len \div SECTOR_SIZE /\ c.len = q * SECTOR_SIZE
    BY <1>1, <1>2, <2>1, Division
  <2>3. (c.sector + q) * SECTOR_SIZE <= n * SECTOR_SIZE
    BY <1>1, <1>2, <2>1, <2>2, TimesMonotone
  <2>4. PICK x \in Nat : x = c.sector * SECTOR_SIZE
    BY <1>1, <1>2, TimesMonotone
  <2>5. (c.sector + q) * SECTOR_SIZE = x + c.len
    BY <1>1, <1>2, <2>2, <2>4
  <2>6. x + c.len <= n * SECTOR_SIZE
    BY <2>3, <2>5
  <2>7. x % U64 = x
    <3>1. x < U64
      BY <1>1, <1>2, <1>3, <2>6
    <3> QED
      BY <1>1, <3>1, SmallModulo
  <2>8. Record(c).offset = x /\ Record(c).length = c.len
    BY <1>4, <2>4, <2>7 DEF Record
  <2> QED
    BY <2>6, <2>8
<1>5. CASE ~IsData(c)
  <2>1. Record(c).offset = 0 /\ Record(c).length = 0
    BY <1>5 DEF Record, NoRecord
  <2> QED
    BY <1>3, <2>1
<1> QED
  BY <1>4, <1>5

-----------------------------------------------------------------------------
(***************************************************************************)
(* The theorems.                                                           *)
(***************************************************************************)

(***************************************************************************)
(* For any chains, sizes and budgets the device keeps its books: popped    *)
(* chains are placed, drains complete, used entries are signalled          *)
(* (device.rs process_queue, process_async_completion_queue, prepare_save).*)
(***************************************************************************)
THEOREM BlockInductive == Spec => []BlockInv
BY BlockInitially, BlockStep, PTL DEF Spec

(***************************************************************************)
(* For any ring size and budgets, process_queue, undo_pop and the          *)
(* completion queue (device.rs) neither lose nor double a request, and the *)
(* rate limiter is charged once for each that passes it and once more each *)
(* time a full ring has one put back.                                      *)
(***************************************************************************)
THEOREM RequestsInOnePlace == Spec => []EveryRequestInOnePlace
<1>1. BlockInv => EveryRequestInOnePlace
  BY DEF BlockInv, Charged, Drained, Placed, EveryRequestInOnePlace
<1> QED
  BY <1>1, BlockInductive, PTL

(***************************************************************************)
(* For any number of requests, what prepare_save (device.rs) leaves holds  *)
(* every popped chain in the used ring, its status written, published and  *)
(* signalled to the driver.                                                *)
(***************************************************************************)
THEOREM SnapshotsAreComplete == Spec => []SnapshotComplete
<1>1. BlockInv => SnapshotComplete
  <2> SUFFICES ASSUME BlockInv, pc = "saved"
               PROVE  /\ UsedSet = 1..next_avail /\ used_idx = Len(used)
                      /\ interrupt \/ seen = Len(used)
                      /\ \A r \in UsedSet : Servable(avail[r]) => status[r] # "none"
    BY DEF SnapshotComplete, Servable
  <2>1. sq = {} /\ in_kernel = {} /\ cq = <<>>
    BY DEF BlockInv, Drained
  <2>2. CompletedSet = {}
    <3>1. Len(cq) = 0
      BY <2>1
    <3> QED
      BY <3>1 DEF CompletedSet
  <2>3. UsedSet = 1..next_avail
    BY <2>1, <2>2 DEF BlockInv, Placed
  <2>4. used_idx = Len(used) /\ (interrupt \/ seen = used_idx)
    BY DEF BlockInv, Signalled
  <2>5. \A r \in UsedSet : Servable(avail[r]) => status[r] # "none"
    BY DEF BlockInv, StatusWritten
  <2> QED
    BY <2>3, <2>4, <2>5
<1> QED
  BY <1>1, BlockInductive, PTL

(***************************************************************************)
(* For every image size and every sector a driver may name, a request that *)
(* reaches the engine (request.rs parse, process) stays within the image   *)
(* the device has at that moment.                                          *)
(***************************************************************************)
THEOREM AccessesStayInDisk == Spec => StaysInDisk
<1>1. BlockInv /\ [Next]_vars =>
        [trace'.lines > trace.lines =>
            trace'.last.offset + trace'.last.length <= nsectors * SECTOR_SIZE]_vars
  <2> SUFFICES ASSUME BlockInv, [Next]_vars, trace'.lines > trace.lines
               PROVE  trace'.last.offset + trace'.last.length
                          <= nsectors * SECTOR_SIZE
    OBVIOUS
  <2>1. BlockType
    BY DEF BlockInv
  <2>2. ToEngine
    BY <2>1, EngineKept DEF BlockType
  <2>3. /\ trace'.last = Record(Chain) /\ Parses(Chain, nsectors)
        /\ Chain \in Chains
    BY <2>1, <2>2, PoppedIsChain DEF ToEngine, Admitted
  <2> QED
    BY <2>1, <2>3, ParsedInDisk DEF BlockType
<1> QED
  BY <1>1, BlockInductive, PTL DEF Spec, StaysInDisk
=============================================================================
