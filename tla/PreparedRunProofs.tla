------------------------- MODULE PreparedRunProofs -------------------------
(***************************************************************************)
(* What is proved of the prepared runs, for any number of workers and of   *)
(* operations, any choice of operations and any number of failures that    *)
(* nobody looks at: the four invariants of PreparedRun, that a run keeps   *)
(* the gates of WorkerGate, what these promise, and which addresses        *)
(* HostNet gives to the networks.                                          *)
(*                                                                         *)
(* PreparedInv is the inductive invariant.  It is kept for each worker on  *)
(* its own; WorkerMoves says when a step of one worker leaves the others   *)
(* alone, and each action has a lemma that its step is such a step.        *)
(***************************************************************************)
EXTENDS PreparedRun, FiniteSetTheorems, TLAPS

-----------------------------------------------------------------------------
(***************************************************************************)
(* Sequences and the steps of restoring a VM.                              *)
(***************************************************************************)
Follows(built, steps) ==
    \A n \in 1..Len(steps) :
        LET earlier == built \cup {steps[m] : m \in 1..(n - 1)} IN
        Before(steps[n]) \subseteq earlier /\ steps[n] \notin earlier

StepNames == {"kvm", "mmap", "vm", "vcpus", "memory", "vcpu_states",
              "vm_state", "devices", "kick", "resume", "spawn"}

LEMMA RangeEmpty == Range(<<>>) = {}
BY DEF Range

LEMMA RangeOne == ASSUME NEW x PROVE Range(<<x>>) = {x}
BY DEF Range

LEMMA RangeIndexed ==
    ASSUME NEW S, NEW s \in Seq(S)
    PROVE  Range(s) = {s[i] : i \in 1..Len(s)} /\ Range(s) \subseteq S
BY DEF Range

LEMMA RangeAppend ==
    ASSUME NEW S, NEW s \in Seq(S), NEW x \in S
    PROVE  /\ Range(Append(s, x)) = Range(s) \cup {x}
           /\ Append(s, x) \in Seq(S) /\ Len(Append(s, x)) = Len(s) + 1
<1>1. Append(s, x) \in Seq(S) /\ Len(Append(s, x)) = Len(s) + 1
  OBVIOUS
<1>2. \A i \in 1..(Len(s) + 1) :
         Append(s, x)[i] = IF i = Len(s) + 1 THEN x ELSE s[i]
  OBVIOUS
<1>6. PICK a \in Seq(S) : a = Append(s, x)
  BY <1>1
<1>7. Range(a) = {a[i] : i \in 1..(Len(s) + 1)}
  <2>1. Range(a) = {a[i] : i \in 1..Len(a)}
    BY RangeIndexed
  <2>2. Len(a) = Len(s) + 1
    BY <1>1, <1>6
  <2> QED
    BY <2>1, <2>2
<1>8. \A i \in 1..(Len(s) + 1) : a[i] = IF i = Len(s) + 1 THEN x ELSE s[i]
  BY <1>2, <1>6
<1>3. ASSUME NEW y \in Range(a) PROVE y \in Range(s) \cup {x}
  <2>1. PICK i \in 1..(Len(s) + 1) : y = a[i]
    BY <1>7
  <2>2. i = Len(s) + 1 \/ i \in 1..Len(s)
    OBVIOUS
  <2> QED
    BY <1>8, <2>1, <2>2, RangeIndexed
<1>4. ASSUME NEW y \in Range(s) PROVE y \in Range(a)
  <2>1. PICK i \in 1..Len(s) : y = s[i]
    BY RangeIndexed
  <2>2. i \in 1..(Len(s) + 1) /\ i # Len(s) + 1
    BY <2>1
  <2> QED
    BY <1>7, <1>8, <2>1, <2>2
<1>5. x \in Range(a)
  <2>1. Len(s) + 1 \in 1..(Len(s) + 1)
    OBVIOUS
  <2> QED
    BY <1>7, <1>8, <2>1
<1> QED
  BY <1>1, <1>3, <1>4, <1>5, <1>6

LEMMA RangeTail ==
    ASSUME NEW S, NEW s \in Seq(S), s # <<>>
    PROVE  /\ Range(s) = {Head(s)} \cup Range(Tail(s))
           /\ Head(s) \in S /\ Tail(s) \in Seq(S) /\ Len(Tail(s)) + 1 = Len(s)
<1>1. /\ Head(s) \in S /\ Tail(s) \in Seq(S) /\ Len(Tail(s)) + 1 = Len(s)
      /\ Len(s) \in Nat /\ Len(s) > 0
  OBVIOUS
<1>2. Head(s) = s[1] /\ \A i \in 1..Len(Tail(s)) : Tail(s)[i] = s[i + 1]
  OBVIOUS
<1>3. ASSUME NEW y \in Range(s) PROVE y \in {Head(s)} \cup Range(Tail(s))
  <2>1. PICK i \in 1..Len(s) : y = s[i]
    BY RangeIndexed
  <2>2. CASE i = 1
    BY <1>2, <2>1, <2>2
  <2>3. CASE i # 1
    <3>1. i - 1 \in 1..Len(Tail(s)) /\ (i - 1) + 1 = i
      BY <1>1, <2>3
    <3>2. Tail(s)[i - 1] = y
      BY <1>2, <2>1, <3>1
    <3>3. Range(Tail(s)) = {Tail(s)[j] : j \in 1..Len(Tail(s))}
      BY <1>1, RangeIndexed
    <3> QED
      BY <3>1, <3>2, <3>3
  <2> QED
    BY <2>2, <2>3
<1>4. ASSUME NEW y \in {Head(s)} \cup Range(Tail(s)) PROVE y \in Range(s)
  <2>1. CASE y = Head(s)
    <3>1. 1 \in 1..Len(s)
      BY <1>1
    <3> QED
      BY <1>2, <2>1, <3>1, RangeIndexed
  <2>2. CASE y \in Range(Tail(s))
    <3>1. PICK i \in 1..Len(Tail(s)) : y = Tail(s)[i]
      BY <1>1, <2>2, RangeIndexed
    <3>2. i + 1 \in 1..Len(s) /\ y = s[i + 1]
      BY <1>1, <1>2, <3>1
    <3> QED
      BY <3>2, RangeIndexed
  <2> QED
    BY <2>1, <2>2
<1> QED
  BY <1>1, <1>3, <1>4

LEMMA RangeConcat ==
    ASSUME NEW S, NEW s \in Seq(S), NEW t \in Seq(S)
    PROVE  /\ Range(s \o t) = Range(s) \cup Range(t)
           /\ s \o t \in Seq(S) /\ Len(s \o t) = Len(s) + Len(t)
<1>1. s \o t \in Seq(S) /\ Len(s \o t) = Len(s) + Len(t)
  OBVIOUS
<1>2. \A i \in 1..(Len(s) + Len(t)) :
         (s \o t)[i] = IF i <= Len(s) THEN s[i] ELSE t[i - Len(s)]
  OBVIOUS
<1>6. Range(s \o t) = {(s \o t)[i] : i \in 1..(Len(s) + Len(t))}
  BY <1>1, RangeIndexed
<1>3. ASSUME NEW y \in Range(s \o t) PROVE y \in Range(s) \cup Range(t)
  <2>1. PICK i \in 1..(Len(s) + Len(t)) : y = (s \o t)[i]
    BY <1>6
  <2>2. CASE i <= Len(s)
    <3>1. i \in 1..Len(s) /\ y = s[i]
      BY <1>2, <2>1, <2>2
    <3> QED
      BY <3>1, RangeIndexed
  <2>3. CASE ~(i <= Len(s))
    <3>1. i - Len(s) \in 1..Len(t) /\ y = t[i - Len(s)]
      BY <1>2, <2>1, <2>3
    <3> QED
      BY <3>1, RangeIndexed
  <2> QED
    BY <2>2, <2>3
<1>4. ASSUME NEW y \in Range(s) PROVE y \in Range(s \o t)
  <2>1. PICK i \in 1..Len(s) : y = s[i]
    BY RangeIndexed
  <2>2. i \in 1..(Len(s) + Len(t)) /\ (s \o t)[i] = y
    BY <1>2, <2>1
  <2> QED
    BY <1>6, <2>2
<1>5. ASSUME NEW y \in Range(t) PROVE y \in Range(s \o t)
  <2>1. PICK i \in 1..Len(t) : y = t[i]
    BY RangeIndexed
  <2>2. Len(s) + i \in 1..(Len(s) + Len(t)) /\ (s \o t)[Len(s) + i] = y
    BY <1>2, <2>1
  <2> QED
    BY <1>6, <2>2
<1> QED
  BY <1>1, <1>3, <1>4, <1>5

LEMMA FollowsConcat ==
    ASSUME NEW built, NEW s \in Seq(StepNames), NEW t \in Seq(StepNames),
           Follows(built, s), Follows(built \cup Range(s), t)
    PROVE  Follows(built, s \o t)
<1> DEFINE E(q, n) == built \cup {q[m] : m \in 1..(n - 1)}
<1>1. Len(s \o t) = Len(s) + Len(t) /\ Len(s) \in Nat /\ Len(t) \in Nat
  OBVIOUS
<1>2. \A i \in 1..(Len(s) + Len(t)) :
         (s \o t)[i] = IF i <= Len(s) THEN s[i] ELSE t[i - Len(s)]
  OBVIOUS
<1>3. SUFFICES ASSUME NEW n \in 1..(Len(s) + Len(t))
      PROVE  /\ Before((s \o t)[n]) \subseteq E(s \o t, n)
             /\ (s \o t)[n] \notin E(s \o t, n)
  BY <1>1 DEF Follows
<1>4. CASE n <= Len(s)
  <2>1. n \in 1..Len(s) /\ (s \o t)[n] = s[n]
    BY <1>2, <1>4
  <2>2. Before(s[n]) \subseteq E(s, n) /\ s[n] \notin E(s, n)
    BY <2>1 DEF Follows
  <2>3. \A m \in 1..(n - 1) : (s \o t)[m] = s[m]
    BY <1>1, <1>2, <2>1
  <2>4. {(s \o t)[m] : m \in 1..(n - 1)} = {s[m] : m \in 1..(n - 1)}
    BY <2>3, Zenon
  <2> QED
    BY <2>1, <2>2, <2>4
<1>5. CASE ~(n <= Len(s))
  <2>7. n - Len(s) \in 1..Len(t)
    BY <1>1, <1>5
  <2>1. PICK k \in 1..Len(t) : k = n - Len(s)
    BY <2>7
  <2>2. (s \o t)[n] = t[k]
    BY <1>2, <1>5, <2>1
  <2> DEFINE F == (built \cup Range(s)) \cup {t[m] : m \in 1..(k - 1)}
  <2>3. Before(t[k]) \subseteq F /\ t[k] \notin F
    BY <2>1 DEF Follows
  <2>4. ASSUME NEW y \in F PROVE y \in E(s \o t, n)
    <3>1. CASE y \in built
      BY <3>1
    <3>2. CASE y \in Range(s)
      <4>1. PICK i \in 1..Len(s) : y = s[i]
        BY <3>2, RangeIndexed
      <4>2. i \in 1..(n - 1) /\ (s \o t)[i] = y
        BY <1>1, <1>2, <1>5, <4>1
      <4> QED
        BY <4>2
    <3>3. CASE y \in {t[m] : m \in 1..(k - 1)}
      <4>1. PICK m \in 1..(k - 1) : y = t[m]
        BY <3>3
      <4>2. Len(s) + m \in 1..(n - 1) /\ (s \o t)[Len(s) + m] = y
        BY <1>1, <1>2, <2>1, <4>1
      <4> QED
        BY <4>2
    <3> QED
      BY <3>1, <3>2, <3>3
  <2>5. ASSUME NEW y \in E(s \o t, n) PROVE y \in F
    <3>1. CASE y \in built
      BY <3>1
    <3>2. CASE y \in {(s \o t)[m] : m \in 1..(n - 1)}
      <4>1. PICK m \in 1..(n - 1) : y = (s \o t)[m]
        BY <3>2
      <4>2. CASE m <= Len(s)
        <5>1. m \in 1..Len(s) /\ y = s[m]
          BY <1>1, <1>2, <4>1, <4>2
        <5> QED
          BY <5>1, RangeIndexed
      <4>3. CASE ~(m <= Len(s))
        <5>1. m - Len(s) \in 1..(k - 1) /\ y = t[m - Len(s)]
          BY <1>1, <1>2, <2>1, <4>1, <4>3
        <5> QED
          BY <5>1
      <4> QED
        BY <4>2, <4>3
    <3> QED
      BY <3>1, <3>2
  <2>6. E(s \o t, n) = F
    BY <2>4, <2>5
  <2> HIDE DEF E, F
  <2> QED
    BY <2>2, <2>3, <2>6
<1> QED
  BY <1>4, <1>5

LEMMA FollowsPrefix ==
    ASSUME NEW built, NEW s \in Seq(StepNames), NEW t \in Seq(StepNames),
           Follows(built, s \o t)
    PROVE  Follows(built, s)
<1> DEFINE E(q, n) == built \cup {q[m] : m \in 1..(n - 1)}
<1>1. Len(s \o t) = Len(s) + Len(t) /\ Len(s) \in Nat /\ Len(t) \in Nat
  OBVIOUS
<1>2. \A i \in 1..Len(s) : (s \o t)[i] = s[i]
  OBVIOUS
<1>3. SUFFICES ASSUME NEW n \in 1..Len(s)
      PROVE  Before(s[n]) \subseteq E(s, n) /\ s[n] \notin E(s, n)
  BY DEF Follows
<1>4. n \in 1..Len(s \o t)
  BY <1>1
<1>5. /\ Before((s \o t)[n]) \subseteq E(s \o t, n)
      /\ (s \o t)[n] \notin E(s \o t, n)
  BY <1>4 DEF Follows
<1>6. E(s \o t, n) = E(s, n)
  BY <1>1, <1>2
<1> QED
  BY <1>2, <1>5, <1>6

-----------------------------------------------------------------------------
(***************************************************************************)
(* Every operation that get_op knows (mod.rs) takes the steps of a restore *)
(* in their order: what it prepares, and what it measures upon that.       *)
(***************************************************************************)
LEMMA FollowsNone == ASSUME NEW built PROVE Follows(built, <<>>)
BY DEF Follows

LEMMA FollowsOne ==
    ASSUME NEW built, NEW a, Before(a) \subseteq built, a \notin built
    PROVE  Follows(built, <<a>>)
BY DEF Follows

LEMMA FollowsTwo ==
    ASSUME NEW built, NEW a, Before(a) \subseteq built, a \notin built,
           NEW b, Before(b) \subseteq built \cup {a}, b \notin built \cup {a}
    PROVE  Follows(built, <<a, b>>)
<1>1. ASSUME NEW n \in 1..2
      PROVE  LET earlier == built \cup {<<a, b>>[m] : m \in 1..(n - 1)} IN
             Before(<<a, b>>[n]) \subseteq earlier
             /\ <<a, b>>[n] \notin earlier
  <2>1. CASE n = 1
    BY <2>1
  <2>2. CASE n = 2
    <3>1. {<<a, b>>[m] : m \in 1..(n - 1)} = {a}
      BY <2>2
    <3> QED
      BY <2>2, <3>1
  <2> QED
    BY <2>1, <2>2
<1> QED
  BY <1>1 DEF Follows

LEMMA FollowsFour ==
    ASSUME NEW built, NEW a, Before(a) \subseteq built, a \notin built,
           NEW b, Before(b) \subseteq built \cup {a}, b \notin built \cup {a},
           NEW c, Before(c) \subseteq built \cup {a, b}, c \notin built \cup {a, b},
           NEW d, Before(d) \subseteq built \cup {a, b, c},
           d \notin built \cup {a, b, c}
    PROVE  Follows(built, <<a, b, c, d>>) /\ Follows(built, <<a, b, c>>)
<1>1. ASSUME NEW q, q = <<a, b, c, d>> \/ q = <<a, b, c>>, NEW n \in 1..Len(q)
      PROVE  LET earlier == built \cup {q[m] : m \in 1..(n - 1)} IN
             Before(q[n]) \subseteq earlier /\ q[n] \notin earlier
  <2>1. CASE n = 1
    BY <1>1, <2>1
  <2>2. CASE n = 2
    <3>1. {q[m] : m \in 1..(n - 1)} = {a}
      BY <1>1, <2>2
    <3> QED
      BY <1>1, <2>2, <3>1
  <2>3. CASE n = 3
    <3>1. {q[m] : m \in 1..(n - 1)} = {a, b}
      BY <1>1, <2>3
    <3> QED
      BY <1>1, <2>3, <3>1
  <2>4. CASE n = 4
    <3>1. q = <<a, b, c, d>>
      <4>1. ASSUME q = <<a, b, c>> PROVE FALSE
        <5>1. Len(q) = 3
          BY <4>1
        <5>2. 4 \in 1..3
          BY <1>1, <2>4, <5>1
        <5> QED
          BY <5>2
      <4> QED
        BY <1>1, <4>1
    <3>2. q[1] = a /\ q[2] = b /\ q[3] = c /\ q[n] = d
      BY <2>4, <3>1
    <3>3. 1..(n - 1) = {1, 2, 3}
      BY <2>4
    <3>4. {q[m] : m \in 1..(n - 1)} = {q[1], q[2], q[3]}
      BY <3>3
    <3> QED
      BY <3>2, <3>4
  <2> QED
    BY <1>1, <2>1, <2>2, <2>3, <2>4
<1> QED
  BY <1>1 DEF Follows

OpOk(r) ==
    /\ r.netns \in {"none", "minimal", "full"} /\ r.keeps \in BOOLEAN
    /\ r.prepare \in Seq(StepNames) /\ r.late \in Seq(StepNames)
    /\ r.measure \in Seq(StepNames)
    /\ Follows({}, r.prepare \o r.late)
    /\ r.measure # <<"spawn">> =>
          Follows({}, (r.prepare \o r.late) \o r.measure)

LEMMA OpCases ==
    ASSUME NEW o \in DOMAIN OpTable
    PROVE  \/ OpTable[o] \in {guest_memory, restore_kvm, vm_new, create_vcpus,
                              restore_memory_regions, restore_vcpu_states,
                              restore_state}
           \/ \E n \in {"none", "minimal", "full"} :
                 OpTable[o] \in {device_restore(n), kick_virtio(n), resume_vcpus(n),
                                 resume_vm(n), create_firecracker(n)}
BY DEF OpTable

\* Names as the prover is to see them.
Chain(built, steps, taken) ==
    /\ steps \in Seq(StepNames) /\ Range(steps) = taken
    /\ Follows(built, steps)

LEMMA ChainNone == ASSUME NEW built PROVE Chain(built, <<>>, {})
BY FollowsNone, RangeEmpty DEF Chain

LEMMA ChainOne ==
    ASSUME NEW built, NEW a \in StepNames, Before(a) \subseteq built, a \notin built
    PROVE  Chain(built, <<a>>, {a})
BY FollowsOne, RangeOne DEF Chain

LEMMA ChainTwo ==
    ASSUME NEW built, NEW a \in StepNames, Before(a) \subseteq built, a \notin built,
           NEW b \in StepNames, Before(b) \subseteq built \cup {a},
           b \notin built \cup {a}
    PROVE  Chain(built, <<a, b>>, {a, b})
<1>1. Range(<<a, b>>) = {a, b}
  BY DEF Range
<1> QED
  BY <1>1, FollowsTwo DEF Chain

LEMMA ChainConcat ==
    ASSUME NEW built, NEW s, NEW t, NEW taken, NEW more,
           Chain(built, s, taken), Chain(built \cup taken, t, more)
    PROVE  Chain(built, s \o t, taken \cup more)
BY FollowsConcat, RangeConcat DEF Chain

LEMMA BeforeIs ==
    /\ Before("kvm") = {} /\ Before("mmap") = {} /\ Before("vm") = {"kvm"}
    /\ Before("vcpus") = {"vm"} /\ Before("memory") = {"vm", "mmap"}
    /\ Before("vcpu_states") = {"vcpus", "memory"}
    /\ Before("vm_state") = {"vcpu_states"} /\ Before("devices") = {"vm_state"}
    /\ Before("kick") = {"devices"} /\ Before("resume") = {"kick"}
BY DEF Before

LEMMA ChainVm ==
    ASSUME NEW built \in SUBSET {"mmap"}
    PROVE  Chain(built, build_vm, {"kvm", "vm"})
BY BeforeIs, ChainTwo DEF build_vm, StepNames

LEMMA ChainStates ==
    /\ Chain({"mmap", "kvm", "vm"}, <<"vcpus", "memory">>, {"vcpus", "memory"})
    /\ Chain({"mmap", "kvm", "vm"}, <<"vcpus", "memory", "vcpu_states">>,
             {"vcpus", "memory", "vcpu_states"})
    /\ Chain({"mmap", "kvm", "vm"}, <<"vcpus", "memory", "vcpu_states",
             "vm_state">>,
             {"vcpus", "memory", "vcpu_states", "vm_state"})
<1>1. /\ Range(<<"vcpus", "memory", "vcpu_states">>)
            = {"vcpus", "memory", "vcpu_states"}
      /\ Range(<<"vcpus", "memory", "vcpu_states", "vm_state">>)
            = {"vcpus", "memory", "vcpu_states", "vm_state"}
  BY DEF Range
<1>2. /\ <<"vcpus", "memory", "vcpu_states">> \in Seq(StepNames)
      /\ <<"vcpus", "memory", "vcpu_states", "vm_state">> \in Seq(StepNames)
  BY DEF StepNames
<1>3. /\ Follows({"mmap", "kvm", "vm"}, <<"vcpus", "memory", "vcpu_states">>)
      /\ Follows({"mmap", "kvm", "vm"},
                 <<"vcpus", "memory", "vcpu_states", "vm_state">>)
  BY BeforeIs, FollowsFour
<1>4. Chain({"mmap", "kvm", "vm"}, <<"vcpus", "memory">>, {"vcpus", "memory"})
  BY BeforeIs, ChainTwo DEF StepNames
<1> QED
  BY <1>1, <1>2, <1>3, <1>4 DEF Chain

Restored == {"kvm", "vm", "vcpus", "memory", "vcpu_states", "vm_state"}

LEMMA ChainContexts ==
    /\ Chain({}, <<"mmap">> \o build_vm, {"mmap", "kvm", "vm"})
    /\ Chain({}, <<"mmap">> \o build_device_restore_context,
             {"mmap"} \cup Restored)
    /\ Chain({}, <<"mmap">> \o build_paused_vmm_from_snapshot,
             {"mmap", "devices"} \cup Restored)
<1>1. Chain({}, <<"mmap">>, {"mmap"})
  BY BeforeIs, ChainOne DEF StepNames
<1>2. Chain({"mmap"}, build_vm, {"kvm", "vm"})
  BY ChainVm
<1>3. Chain({}, <<"mmap">> \o build_vm, {"mmap", "kvm", "vm"})
  <2>1. {} \cup {"mmap"} = {"mmap"}
        /\ {"mmap"} \cup {"kvm", "vm"} = {"mmap", "kvm", "vm"}
    OBVIOUS
  <2> QED
    BY <1>1, <1>2, <2>1, ChainConcat
<1>4. Chain({"mmap"}, build_device_restore_context, Restored)
  <2>1. /\ {"mmap"} \cup {"kvm", "vm"} = {"mmap", "kvm", "vm"}
        /\ {"kvm", "vm"} \cup {"vcpus", "memory", "vcpu_states", "vm_state"}
             = Restored
    BY DEF Restored
  <2> QED
    BY <1>2, <2>1, ChainConcat, ChainStates DEF build_device_restore_context
<1>5. Chain({"mmap"} \cup Restored, <<"devices">>, {"devices"})
  BY BeforeIs, ChainOne DEF StepNames, Restored
<1>6. Chain({"mmap"}, build_paused_vmm_from_snapshot, Restored \cup {"devices"})
  BY <1>4, <1>5, ChainConcat DEF build_paused_vmm_from_snapshot
<1>7. {} \cup {"mmap"} = {"mmap"}
      /\ {"mmap"} \cup (Restored \cup {"devices"})
           = {"mmap", "devices"} \cup Restored
  OBVIOUS
<1> QED
  BY <1>1, <1>3, <1>4, <1>6, <1>7, ChainConcat

\* An operation whose steps are a chain.
LEMMA OpChained ==
    ASSUME NEW r, r.netns \in {"none", "minimal", "full"}, r.keeps \in BOOLEAN,
           NEW taken, Chain({}, r.prepare, taken),
           NEW more, Chain(taken, r.late, more),
           NEW all, all = taken \cup more,
           NEW last, Chain(all, r.measure, last)
    PROVE  OpOk(r)
<1>1. {} \cup taken = taken /\ {} \cup all = all
  OBVIOUS
<1>2. Chain({}, r.prepare \o r.late, all)
  BY <1>1, ChainConcat
<1>3. Chain({}, (r.prepare \o r.late) \o r.measure, all \cup last)
  BY <1>1, <1>2, ChainConcat
<1> QED
  BY <1>2, <1>3 DEF Chain, OpOk

LEMMA GuestMemoryOk ==
    OpOk(guest_memory)
<1> DEFINE r == guest_memory
<1>1. /\ r.netns = "none" /\ r.keeps = FALSE /\ r.prepare = <<>>
      /\ r.late = <<>> /\ r.measure = <<"mmap">>
  BY DEF guest_memory, Operation
<1> HIDE DEF r
<1>2. Chain({}, <<"mmap">>, {"mmap"})
  BY BeforeIs, ChainOne DEF StepNames, Restored
<1> DEFINE taken == {}
           more == {}
           all == {}
           last == {"mmap"}
<1>3. /\ Chain({}, r.prepare, taken) /\ Chain(taken, r.late, more)
      /\ Chain(all, r.measure, last)
  BY <1>1, <1>2, ChainNone, RangeEmpty
<1>4. all = taken \cup more
  OBVIOUS
<1>5. r.netns \in {"none", "minimal", "full"} /\ r.keeps \in BOOLEAN
  BY <1>1
<1> HIDE DEF taken, more, all, last
<1>6. OpOk(r)
  BY <1>3, <1>4, <1>5, OpChained
<1> QED
  BY <1>6 DEF r

LEMMA RestoreKvmOk ==
    OpOk(restore_kvm)
<1> DEFINE r == restore_kvm
<1>1. /\ r.netns = "none" /\ r.keeps = FALSE /\ r.prepare = <<>>
      /\ r.late = <<>> /\ r.measure = <<"kvm">>
  BY DEF restore_kvm, Operation
<1> HIDE DEF r
<1>2. Chain({}, <<"kvm">>, {"kvm"})
  BY BeforeIs, ChainOne DEF StepNames, Restored
<1> DEFINE taken == {}
           more == {}
           all == {}
           last == {"kvm"}
<1>3. /\ Chain({}, r.prepare, taken) /\ Chain(taken, r.late, more)
      /\ Chain(all, r.measure, last)
  BY <1>1, <1>2, ChainNone, RangeEmpty
<1>4. all = taken \cup more
  OBVIOUS
<1>5. r.netns \in {"none", "minimal", "full"} /\ r.keeps \in BOOLEAN
  BY <1>1
<1> HIDE DEF taken, more, all, last
<1>6. OpOk(r)
  BY <1>3, <1>4, <1>5, OpChained
<1> QED
  BY <1>6 DEF r

LEMMA VmNewOk ==
    OpOk(vm_new)
<1> DEFINE r == vm_new
<1>1. /\ r.netns = "none" /\ r.keeps = FALSE /\ r.prepare = <<"kvm">>
      /\ r.late = <<>> /\ r.measure = <<"vm">>
  BY DEF vm_new, Operation
<1> HIDE DEF r
<1>2. Chain({}, <<"kvm">>, {"kvm"}) /\ Chain({"kvm"}, <<"vm">>, {"vm"})
  BY BeforeIs, ChainOne DEF StepNames
<1> DEFINE taken == {"kvm"}
           more == {}
           all == {"kvm"}
           last == {"vm"}
<1>3. /\ Chain({}, r.prepare, taken) /\ Chain(taken, r.late, more)
      /\ Chain(all, r.measure, last)
  BY <1>1, <1>2, ChainNone, RangeEmpty
<1>4. all = taken \cup more
  OBVIOUS
<1>5. r.netns \in {"none", "minimal", "full"} /\ r.keeps \in BOOLEAN
  BY <1>1
<1> HIDE DEF taken, more, all, last
<1>6. OpOk(r)
  BY <1>3, <1>4, <1>5, OpChained
<1> QED
  BY <1>6 DEF r

LEMMA CreateVcpusOk ==
    OpOk(create_vcpus)
<1> DEFINE r == create_vcpus
<1>1. /\ r.netns = "none" /\ r.keeps = FALSE /\ r.prepare = build_vm
      /\ r.late = <<>> /\ r.measure = <<"vcpus">>
  BY DEF create_vcpus, Operation
<1> HIDE DEF r
<1>2. Chain({"kvm", "vm"}, <<"vcpus">>, {"vcpus"})
  BY BeforeIs, ChainOne DEF StepNames, Restored
<1> DEFINE taken == {"kvm", "vm"}
           more == {}
           all == {"kvm", "vm"}
           last == {"vcpus"}
<1>3. /\ Chain({}, r.prepare, taken) /\ Chain(taken, r.late, more)
      /\ Chain(all, r.measure, last)
  BY <1>1, <1>2, ChainNone, ChainVm
<1>4. all = taken \cup more
  OBVIOUS
<1>5. r.netns \in {"none", "minimal", "full"} /\ r.keeps \in BOOLEAN
  BY <1>1
<1> HIDE DEF taken, more, all, last
<1>6. OpOk(r)
  BY <1>3, <1>4, <1>5, OpChained
<1> QED
  BY <1>6 DEF r

LEMMA RestoreMemoryOk ==
    OpOk(restore_memory_regions)
<1> DEFINE r == restore_memory_regions
<1>1. /\ r.netns = "none" /\ r.keeps = TRUE
      /\ r.prepare = build_vm \o <<"mmap">>
      /\ r.late = <<>> /\ r.measure = <<"memory">>
  BY DEF restore_memory_regions, Operation
<1> HIDE DEF r
<1>2. /\ Chain({}, build_vm \o <<"mmap">>, {"mmap", "kvm", "vm"})
      /\ Chain({"mmap", "kvm", "vm"}, <<"memory">>, {"memory"})
  <2>1. {} \cup {"kvm", "vm"} = {"kvm", "vm"}
        /\ {"kvm", "vm"} \cup {"mmap"} = {"mmap", "kvm", "vm"}
    OBVIOUS
  <2>2. Chain({"kvm", "vm"}, <<"mmap">>, {"mmap"})
    BY BeforeIs, ChainOne DEF StepNames
  <2>3. Chain({}, build_vm \o <<"mmap">>, {"mmap", "kvm", "vm"})
    BY <2>1, <2>2, ChainVm, ChainConcat
  <2>4. Chain({"mmap", "kvm", "vm"}, <<"memory">>, {"memory"})
    BY BeforeIs, ChainOne DEF StepNames
  <2> QED
    BY <2>3, <2>4
<1> DEFINE taken == {"mmap", "kvm", "vm"}
           more == {}
           all == {"mmap", "kvm", "vm"}
           last == {"memory"}
<1>3. /\ Chain({}, r.prepare, taken) /\ Chain(taken, r.late, more)
      /\ Chain(all, r.measure, last)
  BY <1>1, <1>2, ChainNone, RangeEmpty
<1>4. all = taken \cup more
  OBVIOUS
<1>5. r.netns \in {"none", "minimal", "full"} /\ r.keeps \in BOOLEAN
  BY <1>1
<1> HIDE DEF taken, more, all, last
<1>6. OpOk(r)
  BY <1>3, <1>4, <1>5, OpChained
<1> QED
  BY <1>6 DEF r

LEMMA RestoreVcpuStatesOk ==
    OpOk(restore_vcpu_states)
<1> DEFINE r == restore_vcpu_states
<1>1. /\ r.netns = "none" /\ r.keeps = TRUE
      /\ r.prepare = <<"mmap">> \o build_vm \o <<"vcpus", "memory">>
      /\ r.late = <<>> /\ r.measure = <<"vcpu_states">>
  BY DEF restore_vcpu_states, Operation
<1> HIDE DEF r
<1>2. /\ Chain({}, <<"mmap">> \o build_vm \o <<"vcpus", "memory">>,
               {"mmap", "kvm", "vm", "vcpus", "memory"})
      /\ Chain({"mmap", "kvm", "vm", "vcpus", "memory"}, <<"vcpu_states">>,
               {"vcpu_states"})
  <2>1. {} \cup {"mmap", "kvm", "vm"} = {"mmap", "kvm", "vm"}
        /\ {"mmap", "kvm", "vm"} \cup {"vcpus", "memory"}
             = {"mmap", "kvm", "vm", "vcpus", "memory"}
    OBVIOUS
  <2>2. Chain({}, <<"mmap">> \o build_vm \o <<"vcpus", "memory">>,
              {"mmap", "kvm", "vm", "vcpus", "memory"})
    BY <2>1, ChainStates, ChainContexts, ChainConcat
  <2>3. Chain({"mmap", "kvm", "vm", "vcpus", "memory"}, <<"vcpu_states">>,
              {"vcpu_states"})
    BY BeforeIs, ChainOne DEF StepNames
  <2> QED
    BY <2>2, <2>3
<1> DEFINE taken == {"mmap", "kvm", "vm", "vcpus", "memory"}
           more == {}
           all == {"mmap", "kvm", "vm", "vcpus", "memory"}
           last == {"vcpu_states"}
<1>3. /\ Chain({}, r.prepare, taken) /\ Chain(taken, r.late, more)
      /\ Chain(all, r.measure, last)
  BY <1>1, <1>2, ChainNone, RangeEmpty
<1>4. all = taken \cup more
  OBVIOUS
<1>5. r.netns \in {"none", "minimal", "full"} /\ r.keeps \in BOOLEAN
  BY <1>1
<1> HIDE DEF taken, more, all, last
<1>6. OpOk(r)
  BY <1>3, <1>4, <1>5, OpChained
<1> QED
  BY <1>6 DEF r

LEMMA RestoreStateOk ==
    OpOk(restore_state)
<1> DEFINE r == restore_state
<1>1. /\ r.netns = "none" /\ r.keeps = TRUE
      /\ r.prepare
           = <<"mmap">> \o build_vm \o <<"vcpus", "memory", "vcpu_states">>
      /\ r.late = <<>> /\ r.measure = <<"vm_state">>
  BY DEF restore_state, Operation
<1> HIDE DEF r
<1>2. /\ Chain({}, <<"mmap">> \o build_vm \o <<"vcpus", "memory", "vcpu_states">>,
               {"mmap", "kvm", "vm", "vcpus", "memory", "vcpu_states"})
      /\ Chain({"mmap", "kvm", "vm", "vcpus", "memory", "vcpu_states"}, <<"vm_state">>,
               {"vm_state"})
  <2>1. {} \cup {"mmap", "kvm", "vm"} = {"mmap", "kvm", "vm"}
        /\ {"mmap", "kvm", "vm"} \cup {"vcpus", "memory", "vcpu_states"}
             = {"mmap", "kvm", "vm", "vcpus", "memory", "vcpu_states"}
    OBVIOUS
  <2>2. Chain({}, <<"mmap">> \o build_vm \o <<"vcpus", "memory", "vcpu_states">>,
              {"mmap", "kvm", "vm", "vcpus", "memory", "vcpu_states"})
    BY <2>1, ChainStates, ChainContexts, ChainConcat
  <2>3. Chain({"mmap", "kvm", "vm", "vcpus", "memory", "vcpu_states"}, <<"vm_state">>,
              {"vm_state"})
    BY BeforeIs, ChainOne DEF StepNames
  <2> QED
    BY <2>2, <2>3
<1> DEFINE taken == {"mmap", "kvm", "vm", "vcpus", "memory", "vcpu_states"}
           more == {}
           all == {"mmap", "kvm", "vm", "vcpus", "memory", "vcpu_states"}
           last == {"vm_state"}
<1>3. /\ Chain({}, r.prepare, taken) /\ Chain(taken, r.late, more)
      /\ Chain(all, r.measure, last)
  BY <1>1, <1>2, ChainNone, RangeEmpty
<1>4. all = taken \cup more
  OBVIOUS
<1>5. r.netns \in {"none", "minimal", "full"} /\ r.keeps \in BOOLEAN
  BY <1>1
<1> HIDE DEF taken, more, all, last
<1>6. OpOk(r)
  BY <1>3, <1>4, <1>5, OpChained
<1> QED
  BY <1>6 DEF r

LEMMA DeviceRestoreOk ==
    ASSUME NEW n \in {"none", "minimal", "full"}
    PROVE  OpOk(device_restore(n))
<1> DEFINE r == device_restore(n)
<1>1. /\ r.netns = n /\ r.keeps = TRUE
      /\ r.prepare = <<"mmap">> \o build_device_restore_context
      /\ r.late = <<>> /\ r.measure = <<"devices">>
  BY DEF device_restore, Operation
<1> HIDE DEF r
<1>2. Chain({"mmap"} \cup Restored, <<"devices">>, {"devices"})
  BY BeforeIs, ChainOne DEF StepNames, Restored
<1> DEFINE taken == ({"mmap"} \cup Restored)
           more == {}
           all == ({"mmap"} \cup Restored)
           last == {"devices"}
<1>3. /\ Chain({}, r.prepare, taken) /\ Chain(taken, r.late, more)
      /\ Chain(all, r.measure, last)
  BY <1>1, <1>2, ChainNone, ChainContexts
<1>4. all = taken \cup more
  OBVIOUS
<1>5. r.netns \in {"none", "minimal", "full"} /\ r.keeps \in BOOLEAN
  BY <1>1
<1> HIDE DEF taken, more, all, last
<1>6. OpOk(r)
  BY <1>3, <1>4, <1>5, OpChained
<1> QED
  BY <1>6 DEF r

LEMMA KickVirtioOk ==
    ASSUME NEW n \in {"none", "minimal", "full"}
    PROVE  OpOk(kick_virtio(n))
<1> DEFINE r == kick_virtio(n)
<1>1. /\ r.netns = n /\ r.keeps = TRUE
      /\ r.prepare = <<"mmap">> \o build_paused_vmm_from_snapshot
      /\ r.late = <<>> /\ r.measure = <<"kick">>
  BY DEF kick_virtio, Operation
<1> HIDE DEF r
<1>2. Chain({"mmap", "devices"} \cup Restored, <<"kick">>, {"kick"})
  BY BeforeIs, ChainOne DEF StepNames, Restored
<1> DEFINE taken == ({"mmap", "devices"} \cup Restored)
           more == {}
           all == ({"mmap", "devices"} \cup Restored)
           last == {"kick"}
<1>3. /\ Chain({}, r.prepare, taken) /\ Chain(taken, r.late, more)
      /\ Chain(all, r.measure, last)
  BY <1>1, <1>2, ChainNone, ChainContexts
<1>4. all = taken \cup more
  OBVIOUS
<1>5. r.netns \in {"none", "minimal", "full"} /\ r.keeps \in BOOLEAN
  BY <1>1
<1> HIDE DEF taken, more, all, last
<1>6. OpOk(r)
  BY <1>3, <1>4, <1>5, OpChained
<1> QED
  BY <1>6 DEF r

LEMMA ResumeVcpusOk ==
    ASSUME NEW n \in {"none", "minimal", "full"}
    PROVE  OpOk(resume_vcpus(n))
<1> DEFINE r == resume_vcpus(n)
<1>1. /\ r.netns = n /\ r.keeps = TRUE
      /\ r.prepare = <<"mmap">> \o build_paused_vmm_from_snapshot
      /\ r.late = <<"kick">> /\ r.measure = <<"resume">>
  BY DEF resume_vcpus, Operation
<1> HIDE DEF r
<1>2. /\ Chain({"mmap", "devices"} \cup Restored, <<"kick">>, {"kick"})
      /\ Chain(({"mmap", "devices"} \cup Restored) \cup {"kick"}, <<"resume">>,
               {"resume"})
  BY BeforeIs, ChainOne DEF StepNames, Restored
<1> DEFINE taken == ({"mmap", "devices"} \cup Restored)
           more == {"kick"}
           all == (({"mmap", "devices"} \cup Restored) \cup {"kick"})
           last == {"resume"}
<1>3. /\ Chain({}, r.prepare, taken) /\ Chain(taken, r.late, more)
      /\ Chain(all, r.measure, last)
  BY <1>1, <1>2, ChainNone, ChainContexts
<1>4. all = taken \cup more
  OBVIOUS
<1>5. r.netns \in {"none", "minimal", "full"} /\ r.keeps \in BOOLEAN
  BY <1>1
<1> HIDE DEF taken, more, all, last
<1>6. OpOk(r)
  BY <1>3, <1>4, <1>5, OpChained
<1> QED
  BY <1>6 DEF r

LEMMA ResumeVmOk ==
    ASSUME NEW n \in {"none", "minimal", "full"}
    PROVE  OpOk(resume_vm(n))
<1> DEFINE r == resume_vm(n)
<1>1. /\ r.netns = n /\ r.keeps = TRUE
      /\ r.prepare = <<"mmap">> \o build_paused_vmm_from_snapshot
      /\ r.late = <<>> /\ r.measure = <<"kick", "resume">>
  BY DEF resume_vm, Operation
<1> HIDE DEF r
<1>2. Chain({"mmap", "devices"} \cup Restored, <<"kick", "resume">>,
            {"kick", "resume"})
  BY BeforeIs, ChainTwo DEF StepNames, Restored
<1> DEFINE taken == ({"mmap", "devices"} \cup Restored)
           more == {}
           all == ({"mmap", "devices"} \cup Restored)
           last == {"kick", "resume"}
<1>3. /\ Chain({}, r.prepare, taken) /\ Chain(taken, r.late, more)
      /\ Chain(all, r.measure, last)
  BY <1>1, <1>2, ChainNone, ChainContexts
<1>4. all = taken \cup more
  OBVIOUS
<1>5. r.netns \in {"none", "minimal", "full"} /\ r.keeps \in BOOLEAN
  BY <1>1
<1> HIDE DEF taken, more, all, last
<1>6. OpOk(r)
  BY <1>3, <1>4, <1>5, OpChained
<1> QED
  BY <1>6 DEF r

LEMMA CreateFirecrackerOk ==
    ASSUME NEW n \in {"none", "minimal", "full"}
    PROVE  OpOk(create_firecracker(n))
<1> DEFINE r == create_firecracker(n)
<1>1. /\ r.netns = n /\ r.keeps = FALSE /\ r.prepare = <<>>
      /\ r.late = <<>> /\ r.measure = <<"spawn">>
  BY DEF create_firecracker, Operation
<1> HIDE DEF r
<1>2. /\ <<>> \in Seq(StepNames) /\ <<"spawn">> \in Seq(StepNames)
      /\ <<>> \o <<>> = <<>>
  BY DEF StepNames
<1>3. OpOk(r)
  BY <1>1, <1>2, FollowsNone DEF OpOk
<1> QED
  BY <1>3 DEF r

LEMMA OpTableOk ==
    ASSUME NEW o \in DOMAIN OpTable
    PROVE  OpOk(OpTable[o])
BY OpCases, GuestMemoryOk, RestoreKvmOk, VmNewOk, CreateVcpusOk,
   RestoreMemoryOk, RestoreVcpuStatesOk, RestoreStateOk, DeviceRestoreOk,
   KickVirtioOk, ResumeVcpusOk, ResumeVmOk, CreateFirecrackerOk

-----------------------------------------------------------------------------
(***************************************************************************)
(* The slots of iteration_offset: worker w has iterations(w) of them, and no*)
(* two workers share one.                                                  *)
(***************************************************************************)
Slot(w, k) == iteration_offset(Total, NumWorkers, w) + k

LEMMA Divided ==
    ASSUME NEW t \in Nat, NEW n \in Nat, n > 0
    PROVE  /\ t \div n \in Nat /\ t % n \in Nat /\ t % n < n
           /\ t = n * (t \div n) + (t % n)
OBVIOUS

LEMMA Multiples ==
    ASSUME NEW w \in Nat, NEW v \in Nat, w < v, NEW b \in Nat
    PROVE  w * b \in Nat /\ v * b \in Nat /\ w * b + b <= v * b
<1>1. PICK d \in Nat : v = w + 1 + d
  <2>1. v - w - 1 \in Nat /\ v = w + 1 + (v - w - 1)
    OBVIOUS
  <2> QED
    BY <2>1
<1>2. v * b = w * b + b + d * b /\ d * b \in Nat /\ w * b \in Nat
  BY <1>1
<1> QED
  BY <1>2

LEMMA ShareBefore ==
    ASSUME NEW w \in Crew, NEW v \in Nat, w < v, v <= NumWorkers
    PROVE  /\ Slot(w, 0) \in Nat /\ iterations(w) \in Nat
           /\ Slot(w, 0) + iterations(w) <= Slot(v, 0)
           /\ Slot(NumWorkers, 0) = Total
<1>0. NumWorkers \in Nat /\ NumWorkers > 0 /\ Total \in Nat /\ w \in Nat
  BY PreparedConfig DEF Crew
<1>1. PICK b \in Nat, r \in Nat :
         /\ b = Total \div NumWorkers /\ r = Total % NumWorkers
         /\ r < NumWorkers /\ Total = NumWorkers * b + r
  BY <1>0, Divided
<1>2. PICK x \in Nat, y \in Nat : x = w * b /\ y = v * b /\ x + b <= y
  BY <1>0, Multiples
<1>3. /\ Slot(w, 0) = x + (IF w < r THEN w ELSE r)
      /\ Slot(v, 0) = y + (IF v < r THEN v ELSE r)
      /\ iterations(w) = b + (IF w < r THEN 1 ELSE 0)
  <2>1. \A u \in Nat : iteration_offset(Total, NumWorkers, u)
                          = u * b + (IF u < r THEN u ELSE r)
    BY <1>1 DEF iteration_offset
  <2>2. /\ iteration_offset(Total, NumWorkers, w) = x + (IF w < r THEN w ELSE r)
        /\ iteration_offset(Total, NumWorkers, v) = y + (IF v < r THEN v ELSE r)
    BY <1>0, <1>2, <2>1
  <2>3. iterations(w) = b + (IF w < r THEN 1 ELSE 0)
    BY <1>1 DEF iterations, iteration_count
  <2> QED
    BY <2>2, <2>3, <1>0 DEF Slot
<1>4. Slot(NumWorkers, 0) = Total
  <2>1. iteration_offset(Total, NumWorkers, NumWorkers) = NumWorkers * b + r
    BY <1>0, <1>1 DEF iteration_offset
  <2> QED
    BY <1>0, <1>1, <2>1 DEF Slot
<1>5. /\ Slot(w, 0) \in Nat /\ iterations(w) \in Nat
  BY <1>0, <1>3
<1>6. Slot(w, 0) + iterations(w) <= Slot(v, 0)
  <2>1. CASE w < r
    <3>1. Slot(w, 0) = x + w /\ iterations(w) = b + 1
      BY <1>3, <2>1
    <3>2. PICK z \in Nat : z = (IF v < r THEN v ELSE r) /\ z >= w + 1
      BY <1>0, <2>1
    <3>3. Slot(v, 0) = y + z
      BY <1>3, <3>2
    <3> QED
      BY <1>0, <1>2, <3>1, <3>2, <3>3
  <2>2. CASE ~(w < r)
    <3>1. Slot(w, 0) = x + r /\ iterations(w) = b
      BY <1>3, <2>2
    <3>2. Slot(v, 0) = y + r
      BY <1>0, <1>3, <2>2
    <3> QED
      BY <1>0, <1>2, <3>1, <3>2
  <2> QED
    BY <2>1, <2>2
<1> QED
  BY <1>4, <1>5, <1>6

LEMMA SlotOffset ==
    ASSUME NEW w \in Crew, NEW k \in Nat
    PROVE  Slot(w, k) = Slot(w, 0) + k
<1>1. Slot(w, 0) \in Nat
  BY ShareBefore, PreparedConfig DEF Crew
<1>2. \E b \in Nat : iteration_offset(Total, NumWorkers, w) = b
  <2>1. NumWorkers \in Nat /\ NumWorkers > 0 /\ Total \in Nat /\ w \in Nat
    BY PreparedConfig DEF Crew
  <2>2. PICK b \in Nat, r \in Nat : b = Total \div NumWorkers
        /\ r = Total % NumWorkers
    BY <2>1, Divided
  <2>3. PICK x \in Nat : x = w * b
    BY <2>1
  <2> QED
    BY <2>1, <2>2, <2>3 DEF iteration_offset
<1> QED
  BY <1>2 DEF Slot

LEMMA SlotsApart ==
    ASSUME NEW w \in Crew, NEW k \in 0..(iterations(w) - 1)
    PROVE  /\ Slot(w, k) \in Instances
           /\ \A v \in Crew : \A j \in 0..(iterations(v) - 1) :
                 Slot(w, k) = Slot(v, j) => w = v /\ k = j
<1>0. /\ NumWorkers \in Nat /\ NumWorkers > 0 /\ Total \in Nat
      /\ \A u \in Crew : u \in Nat /\ u < NumWorkers
  BY PreparedConfig DEF Crew
<1>1. \A u \in Crew : Slot(u, 0) \in Nat /\ iterations(u) \in Nat
                      /\ Slot(u, 0) + iterations(u) <= Total
  BY <1>0, ShareBefore
<1>2. Slot(w, k) = Slot(w, 0) + k /\ k \in Nat /\ k < iterations(w)
  BY <1>1, SlotOffset
<1>3. Slot(w, k) \in Instances
  BY <1>0, <1>1, <1>2 DEF Instances
<1>4. ASSUME NEW v \in Crew, NEW j \in 0..(iterations(v) - 1),
             Slot(w, k) = Slot(v, j)
      PROVE  w = v /\ k = j
  <2>1. Slot(v, j) = Slot(v, 0) + j /\ j \in Nat /\ j < iterations(v)
    BY <1>1, SlotOffset
  <2>2. CASE w < v
    <3>1. Slot(w, 0) + iterations(w) <= Slot(v, 0)
      BY <1>0, <2>2, ShareBefore
    <3> QED
      BY <1>1, <1>2, <1>4, <2>1, <3>1
  <2>3. CASE v < w
    <3>1. Slot(v, 0) + iterations(v) <= Slot(w, 0)
      BY <1>0, <2>3, ShareBefore
    <3> QED
      BY <1>1, <1>2, <1>4, <2>1, <3>1
  <2>4. CASE w = v
    BY <1>1, <1>2, <1>4, <2>1, <2>4
  <2> QED
    BY <1>0, <2>2, <2>3, <2>4
<1> QED
  BY <1>3, <1>4

-----------------------------------------------------------------------------
(***************************************************************************)
(* The gates, for any number of workers.                                   *)
(***************************************************************************)
GateType ==
    /\ phase \in [Crew -> {"prepare", "gate", "run", "finish", "done", "failed"}]
    /\ started \in BOOLEAN /\ failure \in BOOLEAN /\ released \in BOOLEAN
    /\ main \in {"gate", "finish", "join", "ok", "error"}

\* The gate opened for all or for nobody.
StartTogether ==
    /\ started => main # "gate" /\ ~failure /\ \A w \in Crew : phase[w] # "prepare"
    /\ \A w \in Crew : phase[w] \in {"run", "finish", "done"} => started

\* Main waits at the finish gate only for workers that may come.
FinishAwaited == main = "finish" => started /\ ~released

\* Workers have left the finish gate only after it was opened.
LeftReleased ==
    \A w \in Crew : phase[w] = "done" => released

GateInv == GateType /\ StartTogether /\ FinishAwaited /\ LeftReleased

LEMMA GateInitially == GateInit => GateInv
BY DEF GateInit, GateInv, GateType, StartTogether, FinishAwaited, LeftReleased

LEMMA GateWorkerStep ==
    ASSUME GateInv, NEW w \in Crew, GateWorker(w)
    PROVE  GateInv'
<1> USE DEF GateInv
<1>1. GateType'
  BY DEF GateType, GateWorker, Ready, PrepareFailed, Begin, GiveUp, Finished,
     OpFailed, Leave, Go, MainStays
<1>2. StartTogether'
  BY DEF GateType, StartTogether, GateWorker, Ready, PrepareFailed, Begin,
     GiveUp, Finished, OpFailed, Leave, Go, MainStays
<1>3. FinishAwaited'
  BY DEF FinishAwaited, GateWorker, Ready, PrepareFailed, Begin, GiveUp,
     Finished, OpFailed, Leave, MainStays
<1>4. LeftReleased'
  BY DEF GateType, LeftReleased, GateWorker, Ready, PrepareFailed, Begin,
     GiveUp, Finished, OpFailed, Leave, Go, MainStays
<1> QED
  BY <1>1, <1>2, <1>3, <1>4

LEMMA GateMainStep ==
    ASSUME GateInv, GateMain
    PROVE  GateInv'
<1> USE DEF GateInv, GateType
<1>1. CASE OpenStart
  <2>1. CASE failure
    <3>1. ~started' /\ main' \in {"join", "error"}
      BY <1>1, <2>1 DEF OpenStart, StartTogether
    <3> QED
      BY <1>1, <2>1, <3>1 DEF OpenStart, StartTogether, FinishAwaited,
         LeftReleased
  <2>2. CASE ~failure
    <3>1. /\ started' \in BOOLEAN
          /\ main' \in {"join", "finish", "error"}
          /\ main' = "finish" => started' /\ ~released
      BY <1>1, <2>2 DEF OpenStart
    <3>2. \A w \in Crew : phase[w] = "gate"
      BY <1>1, <2>2 DEF OpenStart
    <3> QED
      BY <1>1, <2>2, <3>1, <3>2 DEF OpenStart, StartTogether, FinishAwaited,
         LeftReleased
  <2> QED
    BY <2>1, <2>2
<1>2. CASE OpenFinish
  BY <1>2 DEF OpenFinish, StartTogether, FinishAwaited, LeftReleased
<1>3. CASE Join
  BY <1>3 DEF Join, StartTogether, FinishAwaited, LeftReleased
<1>4. CASE Report
  BY <1>4 DEF Report, StartTogether, FinishAwaited, LeftReleased
<1> QED
  BY <1>1, <1>2, <1>3, <1>4 DEF GateMain

(***************************************************************************)
(* In every state of the gates (mod.rs:342-370, 478-521): a worker that    *)
(* measures does so after every worker was prepared and none has failed,   *)
(* and one that has left had been let go.                                  *)
(***************************************************************************)
THEOREM GateSafe == GateSpec => []GateInv
<1>1. GateInv /\ [GateMain \/ \E w \in Crew : GateWorker(w)]_gateVars => GateInv'
  <2> SUFFICES ASSUME GateInv,
                      [GateMain \/ \E w \in Crew : GateWorker(w)]_gateVars
               PROVE  GateInv'
    OBVIOUS
  <2>1. CASE GateMain
    BY <2>1, GateMainStep
  <2>2. CASE \E w \in Crew : GateWorker(w)
    BY <2>2, GateWorkerStep
  <2>3. CASE UNCHANGED gateVars
    BY <2>3 DEF gateVars, GateInv, GateType, StartTogether, FinishAwaited,
       LeftReleased
  <2> QED
    BY <2>1, <2>2, <2>3
<1> QED
  BY <1>1, GateInitially, PTL DEF GateSpec

-----------------------------------------------------------------------------
(***************************************************************************)
(* The addresses of the networks.                                          *)
(***************************************************************************)
\* A number below 2^14 is its octets put together again.
LEMMA OctetsDetermine ==
    ASSUME NEW s \in 0..(AddressCount - 1)
    PROVE  s = 256 * (octets(s)[1] - 64) + octets(s)[2]
<1>1. s \div 256 \in 0..63 /\ s = 256 * (s \div 256) + (s % 256)
  <2>1. s \in Int /\ 0 <= s /\ s < 16384
    BY DEF AddressCount
  <2>2. s = 256 * (s \div 256) + (s % 256)
    BY <2>1
  <2>3. s \div 256 \in Int /\ 0 <= s \div 256 /\ s \div 256 <= 63
    BY <2>1
  <2> QED
    BY <2>2, <2>3
<1>2. (s \div 256) % 64 = s \div 256
  BY <1>1
<1> QED
  BY <1>1, <1>2 DEF octets

(***************************************************************************)
(* build_instance (instance.rs:13-36) gives the first AddressCount         *)
(* instances of a run different addresses, so that their host ends, their  *)
(* routes and the MASQUERADE rules that -D removes are told apart.         *)
(***************************************************************************)
THEOREM AddressesDistinct ==
    ASSUME NEW s \in 0..(AddressCount - 1), NEW t \in 0..(AddressCount - 1),
           octets(s) = octets(t)
    PROVE  s = t
BY OctetsDetermine

(***************************************************************************)
(* The bound is sharp: the instance AddressCount later has the address     *)
(* again.                                                                  *)
(***************************************************************************)
THEOREM AddressesRepeat ==
    ASSUME NEW s \in Nat
    PROVE  octets(s + AddressCount) = octets(s)
<1>1. (s + (64 * 256)) % 256 = s % 256
  OBVIOUS
<1>2. (s + (64 * 256)) \div 256 = s \div 256 + 64
  OBVIOUS
<1>3. s \div 256 \in Nat
  OBVIOUS
<1>4. (s \div 256 + 64) % 64 = (s \div 256) % 64
  BY <1>3
<1> QED
  BY <1>1, <1>2, <1>4 DEF octets, AddressCount

-----------------------------------------------------------------------------
(***************************************************************************)
(* The inductive invariant of the prepared runs.  What holds of one worker *)
(* is said of its locals t alone, with what it needs of the rest: its      *)
(* phase p, the operation r and the host.                                  *)
(***************************************************************************)
Fields == {"at", "cur", "ctx", "idx", "contexts", "completed", "doomed", "err",
           "child", "sock"}

Preparing == {"iter", "stage", "undo", "build", "leave", "push"}
Waiting == {"await", "reap", "waitpid"}
Operating == {"enter", "op", "leaveop", "after"} \cup Waiting
Places == Preparing \cup Operating \cup {"gate", "next", "finish", "drop", "ended"}

\* Where the worker has a context in its hands, and where it builds upon it.
Handling == {"stage", "undo", "build", "leave", "push"} \cup Operating
Within == {"build", "op"} \cup Waiting

\* Where a worker that found every namespace it looked for is at home.
AtHome == {"iter", "stage", "undo", "push", "gate", "next", "enter", "finish",
           "ended"}

StageNames == {"netns_add", "tap_add", "tap_addr", "tap_up", "veth_add",
               "ns_veth_addr", "ns_veth_up", "host_veth_addr", "host_veth_up",
               "route_add", "ns_nat", "host_nat", "forward_accept"}

Contexts == [seq : 0..Total, root : 0..Total, steps : Seq(StepNames)]

\* The contexts a worker holds, and the namespaces of these.
Kept(t) == Range(t.contexts) \cup Range(t.completed) \cup Range(t.doomed)
Held(t) == {t.ctx} \cup Kept(t)
Numbers(t) == {c.seq : c \in Held(t)} \ {NoNetns}

Typed(t) ==
    /\ DOMAIN t = Fields /\ t.at \in Places
    /\ t.cur \in 0..Total /\ t.idx \in Nat /\ t.ctx \in Contexts
    /\ t.contexts \in Seq(Contexts) /\ t.completed \in Seq(Contexts)
    /\ t.doomed \in Seq(Contexts)
    /\ t.err \in BOOLEAN /\ t.sock \in BOOLEAN
    /\ t.child \in {"none", "running", "zombie"}

\* The worker's place in its code and its phase at the gates.
PhaseFits(t, p, rel) ==
    /\ t.at \in Preparing => p = "prepare"
    /\ t.at = "gate" => p = "gate"
    /\ t.at \in Operating \cup {"next"} => p = "run"
    /\ t.at = "finish" => p = "finish"
    /\ t.at = "drop" => p \in {"prepare", "gate", "run", "finish"}
    /\ t.at = "drop" /\ p = "finish" => rel
    /\ t.at = "ended" => p \in {"done", "failed"}

\* Which locals are in use at which place.
InUse(t, p) ==
    /\ t.at \notin Handling => t.ctx = NoContext
    /\ t.at # "drop" => t.doomed = <<>>
    /\ t.at \in Preparing \cup {"gate"} => t.completed = <<>>
    /\ t.at = "ended" \/ (t.at = "drop" /\ (t.err \/ p # "run")) =>
          t.contexts = <<>> /\ t.completed = <<>>
    /\ t.err => t.at \in {"leave", "drop", "reap", "waitpid", "leaveop",
                          "after", "ended"}
    /\ t.at \notin Waiting => t.child = "none" /\ (t.sock => t.err)

\* Either every context has a namespace or none has.
ModeFits(r, t) ==
    /\ r.netns = "none" =>
          /\ t.cur = Root /\ Numbers(t) = {} /\ t.doomed = <<>>
          /\ t.at \notin {"stage", "undo", "leave", "enter", "leaveop"}
    /\ r.netns # "none" =>
          /\ t.at \in Handling => t.ctx.seq # NoNetns
          /\ \A c \in Kept(t) : c.seq # NoNetns

\* What has been done to the VM of a context, prepared or measured.
Ready0(r) == r.prepare \o r.late
Taken(r) ==
    {<<>>, r.prepare, Ready0(r)}
        \cup (IF r.measure = <<"spawn">> THEN {} ELSE {Ready0(r) \o r.measure})

StepsFit(r, t) ==
    /\ \A c \in Held(t) : c.steps \in Taken(r)
    /\ t.at \in {"stage", "undo", "build"} => t.ctx.steps = <<>>
    /\ t.at = "leave" /\ ~t.err => t.ctx.steps = r.prepare
    /\ t.at = "push" => t.ctx.steps = r.prepare
    /\ t.at \in {"enter", "op"} \cup Waiting => t.ctx.steps = Ready0(r)
    /\ \A c \in Range(t.contexts) : c.steps = Ready0(r)

\* How many of its n contexts the worker has made, and where it has them.
CountFits(n, r, t, p) ==
    /\ t.at = "iter" => Len(t.contexts) <= n
    /\ t.at \in Preparing \ {"iter"} => Len(t.contexts) < n
    /\ t.at = "gate" => Len(t.contexts) = n
    /\ r.keeps =>
          /\ t.at = "next" => Len(t.contexts) + Len(t.completed) = n
          /\ t.at \in Operating => Len(t.contexts) + Len(t.completed) + 1 = n
          /\ t.at = "finish" => Len(t.completed) = n
          /\ t.at = "drop" /\ p = "run" => t.err

\* The thread and the host side of its networks are where they should be.
Placed(t, seqs, sides, ign) ==
    /\ \A c \in Held(t) :
          /\ c.seq = NoNetns => c.root = Root
          /\ c.seq # NoNetns => c.seq < seqs /\ c.root = sides[c.seq]
    /\ t.at \in {"stage", "undo"} => t.cur = t.ctx.root
    /\ t.at \in Within => t.cur = t.ctx.seq
    /\ t.at = "drop" /\ t.idx > 0 /\ t.doomed # <<>> =>
          Head(t.doomed).seq \in ign \/ t.cur = Head(t.doomed).root
    /\ ign = {} =>
          /\ t.at \in AtHome => t.cur = Root
          /\ t.at = "after" /\ ~t.err => t.cur = Root
          /\ t.at = "drop" /\ (t.idx > 0 \/ t.doomed = <<>>) => t.cur = Root

\* How far a clean-up has come.
CleanupOf(r) == IF r.netns = "full" THEN cleanup ELSE <<"netns_del">>

NatGone(i, hosts, ign) == i \in ign \/ "host_nat" \notin hosts[i]

CleanFits(r, t, hosts, ign) ==
    /\ t.at = "stage" => t.idx >= 1
    /\ t.at = "undo" => t.idx \in 1..Len(CleanupOf(r))
    /\ t.at = "drop" => t.idx \in 0..Len(CleanupOf(r))
    /\ t.at = "undo" /\ t.idx >= 2 => NatGone(t.ctx.seq, hosts, ign)
    /\ t.at = "drop" /\ t.idx >= 2 /\ t.doomed # <<>> =>
          NatGone(Head(t.doomed).seq, hosts, ign)

LocalsFit(n, r, t, p, rel) ==
    /\ Typed(t) /\ PhaseFits(t, p, rel) /\ InUse(t, p) /\ ModeFits(r, t)
    /\ StepsFit(r, t) /\ CountFits(n, r, t, p)

WorkerOk(w) ==
    /\ LocalsFit(iterations(w), OpTable[op], thr[w], phase[w], released)
    /\ Placed(thr[w], next_seq, side, ignored)
    /\ CleanFits(OpTable[op], thr[w], made, ignored)

\* The slots of iteration_offset that contexts have been made for.
MadeSoFar(n, t, p) ==
    IF p # "prepare" \/ t.at \in {"drop", "ended"} THEN n
    ELSE IF t.at = "iter" THEN Len(t.contexts) ELSE Len(t.contexts) + 1

SlotsUsed ==
    {s \in Instances : \E w \in Crew :
        \E k \in 0..(MadeSoFar(iterations(w), thr[w], phase[w]) - 1) :
            s = Slot(w, k)}

HostOk ==
    /\ op \in Ops /\ next_seq \in Nat /\ next_seq <= Cardinality(SlotsUsed)
    /\ made \in [Instances -> SUBSET StageNames]
    /\ side \in [Instances -> 0..Total]
    /\ OpTable[op].netns # "full" =>
          \A i \in Instances : "host_nat" \notin made[i]
    /\ ignored = {} => \A i \in Instances : side[i] = Root

\* A namespace is one worker's, and what is in it has a worker to remove it.
Apart ==
    \A w, v \in Crew : w # v => Numbers(thr[w]) \cap Numbers(thr[v]) = {}

Accounted ==
    \A i \in Instances \ ignored :
        made[i] # {} => \E w \in Crew : i \in Numbers(thr[w])

GatesPassed ==
    /\ joined \in 0..NumWorkers
    /\ \A w \in 0..(joined - 1) : phase[w] = "done"
    /\ released => \A w \in Crew : phase[w] \in {"finish", "done"}

PreparedInv ==
    /\ GateInv /\ GatesPassed /\ HostOk /\ Apart /\ Accounted
    /\ DOMAIN thr = Crew /\ \A w \in Crew : WorkerOk(w)

-----------------------------------------------------------------------------
(***************************************************************************)
(* What a worker holds, and what a change of the host leaves true.         *)
(***************************************************************************)
LEMMA HeldFacts ==
    ASSUME NEW t, Typed(t)
    PROVE  /\ Held(t) \subseteq Contexts /\ Kept(t) \subseteq Held(t)
           /\ t.ctx \in Held(t)
           /\ \A c \in Held(t) : c.seq \in 0..Total /\ c.root \in 0..Total
           /\ t.doomed # <<>> =>
                 /\ Head(t.doomed) \in Kept(t)
                 /\ Range(t.doomed)
                      = {Head(t.doomed)} \cup Range(Tail(t.doomed))
                 /\ Tail(t.doomed) \in Seq(Contexts)
<1>1. /\ Range(t.contexts) \subseteq Contexts
      /\ Range(t.completed) \subseteq Contexts
      /\ Range(t.doomed) \subseteq Contexts
  BY RangeIndexed DEF Typed
<1>2. Held(t) \subseteq Contexts /\ Kept(t) \subseteq Held(t)
      /\ t.ctx \in Held(t)
  BY <1>1 DEF Held, Kept, Typed
<1>3. \A c \in Contexts : c.seq \in 0..Total /\ c.root \in 0..Total
  BY DEF Contexts
<1>4. t.doomed # <<>> =>
         /\ Head(t.doomed) \in Kept(t)
         /\ Range(t.doomed) = {Head(t.doomed)} \cup Range(Tail(t.doomed))
         /\ Tail(t.doomed) \in Seq(Contexts)
  <2>1. t.doomed # <<>> =>
          /\ Range(t.doomed) = {Head(t.doomed)} \cup Range(Tail(t.doomed))
          /\ Tail(t.doomed) \in Seq(Contexts)
    BY RangeTail DEF Typed
  <2> QED
    BY <2>1 DEF Kept
<1> QED
  BY <1>1, <1>2, <1>3, <1>4

\* The namespace that is being cleaned up is one of the worker's.
LEMMA CleanedIsHeld ==
    ASSUME NEW t, Typed(t), NEW r, ModeFits(r, t)
    PROVE  /\ t.at \in {"stage", "undo"} => t.ctx.seq \in Numbers(t)
           /\ t.doomed # <<>> /\ r.netns # "none" =>
                 Head(t.doomed).seq \in Numbers(t)
           /\ t.doomed # <<>> /\ r.netns = "none" =>
                 Head(t.doomed).seq = NoNetns
           /\ Numbers(t) \subseteq Instances
<1>1. t.at \in {"stage", "undo"} => t.ctx.seq \in Numbers(t)
  BY HeldFacts DEF ModeFits, Handling, Numbers
<1>2. t.doomed # <<>> /\ r.netns # "none" => Head(t.doomed).seq \in Numbers(t)
  BY HeldFacts DEF ModeFits, Numbers
<1>3. t.doomed # <<>> /\ r.netns = "none" => Head(t.doomed).seq = NoNetns
  BY HeldFacts DEF ModeFits, Numbers
<1>4. Numbers(t) \subseteq Instances
  <2>1. ASSUME NEW i \in Numbers(t) PROVE i \in 0..Total /\ i # Total
    BY HeldFacts DEF Numbers, NoNetns
  <2> QED
    BY <2>1, PreparedConfig DEF Instances
<1> QED
  BY <1>1, <1>2, <1>3, <1>4

LEMMA PlacedStays ==
    ASSUME NEW t, Typed(t), NEW r, ModeFits(r, t),
           NEW seqs \in Nat, NEW seqs2 \in Nat, seqs <= seqs2,
           NEW sides, NEW sides2,
           \A i \in Instances : i < seqs => sides2[i] = sides[i],
           NEW ign, NEW ign2, ign \subseteq ign2,
           Placed(t, seqs, sides, ign)
    PROVE  Placed(t, seqs2, sides2, ign2)
<1>1. ASSUME NEW c \in Held(t)
      PROVE  /\ c.seq = NoNetns => c.root = Root
             /\ c.seq # NoNetns => c.seq < seqs2 /\ c.root = sides2[c.seq]
  <2>1. CASE c.seq = NoNetns
    BY <2>1 DEF Placed
  <2>2. CASE c.seq # NoNetns
    <3>1. c.seq \in Instances
      BY <2>2, CleanedIsHeld DEF Numbers
    <3>2. c.seq < seqs /\ c.root = sides[c.seq]
      BY <2>2 DEF Placed
    <3>3. c.seq \in Int
      BY <3>1 DEF Instances
    <3> QED
      BY <3>1, <3>2, <3>3, <2>2
  <2> QED
    BY <2>1, <2>2
<1>2. ign2 = {} => ign = {}
  OBVIOUS
<1> QED
  BY <1>1, <1>2 DEF Placed

LEMMA CleanFitsStays ==
    ASSUME NEW t, Typed(t), NEW r, ModeFits(r, t),
           NEW hosts, NEW hosts2,
           \A i \in Numbers(t) : hosts2[i] = hosts[i],
           NEW ign, NEW ign2, ign \subseteq ign2, t.at # "drop" => t.doomed = <<>>,
           r.netns = "none" => t.at # "undo",
           CleanFits(r, t, hosts, ign)
    PROVE  CleanFits(r, t, hosts2, ign2)
<1>1. t.at = "undo" /\ t.idx >= 2 => NatGone(t.ctx.seq, hosts2, ign2)
  BY CleanedIsHeld DEF CleanFits, NatGone
<1>2. t.at = "drop" /\ t.idx >= 2 /\ t.doomed # <<>> =>
          NatGone(Head(t.doomed).seq, hosts2, ign2)
  <2>1. CASE r.netns # "none"
    BY <2>1, CleanedIsHeld DEF CleanFits, NatGone
  <2>2. CASE r.netns = "none"
    <3>1. Len(CleanupOf(r)) = 1
      BY <2>2 DEF CleanupOf
    <3> QED
      BY <3>1 DEF CleanFits, Typed
  <2> QED
    BY <2>1, <2>2
<1> QED
  BY <1>1, <1>2 DEF CleanFits

-----------------------------------------------------------------------------
(***************************************************************************)
(* A step of one worker.                                                   *)
(***************************************************************************)
LEMMA CrewIs ==
    /\ NumWorkers \in Nat /\ NumWorkers > 0 /\ Total \in Nat
    /\ \A w \in Crew : w \in Nat /\ w < NumWorkers /\ iterations(w) \in Nat
BY PreparedConfig, ShareBefore DEF Crew

LEMMA MadeIsInt ==
    ASSUME NEW n \in Nat, NEW t, Typed(t), NEW p
    PROVE  MadeSoFar(n, t, p) \in Nat
<1>1. Len(t.contexts) \in Nat
  BY DEF Typed
<1> QED
  BY <1>1 DEF MadeSoFar

LEMMA SlotsFinite ==
    /\ IsFiniteSet(SlotsUsed) /\ Cardinality(SlotsUsed) \in Nat
    /\ Cardinality(SlotsUsed) <= Total
<1>1. IsFiniteSet(Instances) /\ Cardinality(Instances) = Total
  <2>1. 0 \in Int /\ Total - 1 \in Int
    BY CrewIs
  <2> QED
    BY <2>1, CrewIs, FS_Interval DEF Instances
<1>2. SlotsUsed \subseteq Instances
  BY DEF SlotsUsed
<1> QED
  BY <1>1, <1>2, FS_Subset, FS_CardinalityType

LEMMA SlotsGrow ==
    ASSUME \A w \in Crew :
              /\ MadeSoFar(iterations(w), thr[w], phase[w]) \in Int
              /\ MadeSoFar(iterations(w), thr'[w], phase'[w]) \in Int
              /\ MadeSoFar(iterations(w), thr[w], phase[w])
                    <= MadeSoFar(iterations(w), thr'[w], phase'[w])
    PROVE  /\ Cardinality(SlotsUsed) <= Cardinality(SlotsUsed')
           /\ Cardinality(SlotsUsed) \in Nat /\ Cardinality(SlotsUsed') \in Nat
<1>1. ASSUME NEW s \in SlotsUsed PROVE s \in SlotsUsed'
  <2>1. PICK w \in Crew :
          \E k \in 0..(MadeSoFar(iterations(w), thr[w], phase[w]) - 1) :
             s = Slot(w, k)
    BY DEF SlotsUsed
  <2>2. PICK k \in 0..(MadeSoFar(iterations(w), thr[w], phase[w]) - 1) :
             s = Slot(w, k)
    BY <2>1
  <2>3. k \in 0..(MadeSoFar(iterations(w), thr'[w], phase'[w]) - 1)
    BY <2>2
  <2>4. s \in Instances
    BY DEF SlotsUsed
  <2> QED
    BY <2>2, <2>3, <2>4 DEF SlotsUsed
<1>2. IsFiniteSet(Instances)
  <2>1. 0 \in Int /\ Total - 1 \in Int
    BY CrewIs
  <2> QED
    BY <2>1, FS_Interval DEF Instances
<1>3. SlotsUsed' \subseteq Instances
  BY DEF SlotsUsed
<1>4. IsFiniteSet(SlotsUsed')
  BY <1>2, <1>3, FS_Subset
<1>5. Cardinality(SlotsUsed') \in Nat
  BY <1>4, FS_CardinalityType
<1> QED
  BY <1>1, <1>4, <1>5, FS_Subset, SlotsFinite

LEMMA GateWorkerKeeps ==
    ASSUME DOMAIN phase = Crew, NEW w \in Crew, GateWorker(w) \/ UNCHANGED gateVars
    PROVE  /\ \A v \in Crew : v # w => phase'[v] = phase[v]
           /\ released' = released /\ joined' = joined /\ main' = main
           /\ phase[w] = "done" => phase'[w] = "done"
           /\ phase[w] = "finish" => phase'[w] \in {"finish", "done"}
BY DEF GateWorker, Ready, PrepareFailed, Begin, GiveUp, Finished, OpFailed,
   Leave, Go, MainStays, gateVars

LEMMA WorkerMoves ==
    ASSUME PreparedInv, NEW w \in Crew, NEW u,
           op' = op, GateWorker(w) \/ UNCHANGED gateVars,
           thr' = [thr EXCEPT ![w] = u],
           LocalsFit(iterations(w), OpTable[op], u, phase'[w], released),
           Placed(u, next_seq', side', ignored'),
           CleanFits(OpTable[op], u, made', ignored'),
           ignored \subseteq ignored', HostOk', next_seq <= next_seq',
           \A i \in Instances : i < next_seq => side'[i] = side[i],
           \A i \in Instances \ Numbers(thr[w]) : made'[i] = made[i],
           \A i \in Numbers(u) : i \in Numbers(thr[w]) \/ i >= next_seq,
           \A i \in Numbers(thr[w]) :
              i \in Numbers(u) \/ i \in ignored' \/ made'[i] = {}
    PROVE  PreparedInv'
<1> USE DEF PreparedInv
<1>1. /\ DOMAIN thr' = Crew /\ thr'[w] = u
      /\ \A v \in Crew : v # w => thr'[v] = thr[v]
  OBVIOUS
<1>2. /\ \A v \in Crew : v # w => phase'[v] = phase[v]
      /\ released' = released /\ joined' = joined
      /\ phase[w] = "done" => phase'[w] = "done"
      /\ phase[w] = "finish" => phase'[w] \in {"finish", "done"}
  BY GateWorkerKeeps DEF GateInv, GateType
<1>3. GateInv'
  <2>1. CASE GateWorker(w)
    BY <2>1, GateWorkerStep
  <2>2. CASE UNCHANGED gateVars
    BY <2>2 DEF gateVars, GateInv, GateType, StartTogether, FinishAwaited,
       LeftReleased
  <2> QED
    BY <2>1, <2>2
<1>4. GatesPassed'
  BY <1>2, CrewIs DEF GatesPassed, Crew
<1>5. \A v \in Crew : Typed(thr[v]) /\ ModeFits(OpTable[op], thr[v])
                      /\ Placed(thr[v], next_seq, side, ignored)
  BY DEF WorkerOk, LocalsFit
<1>6. Apart'
  <2>1. ASSUME NEW v \in Crew, v # w PROVE Numbers(u) \cap Numbers(thr[v]) = {}
    <3>1. ASSUME NEW i \in Numbers(u), i \in Numbers(thr[v]) PROVE FALSE
      <4>1. PICK c \in Held(thr[v]) : c.seq = i /\ c.seq # NoNetns
        BY <3>1 DEF Numbers
      <4>2. c.seq < next_seq
        BY <1>5, <4>1 DEF Placed
      <4>3. c.seq \in Int /\ next_seq \in Int
        BY <1>5, <4>1, HeldFacts DEF HostOk
      <4>4. i \in Numbers(thr[w])
        BY <4>1, <4>2, <4>3
      <4> QED
        BY <2>1, <3>1, <4>4 DEF Apart
    <3> QED
      BY <3>1
  <2> QED
    BY <1>1, <2>1 DEF Apart
<1>7. ASSUME NEW v \in Crew, v # w
      PROVE  WorkerOk(v)'
  <2>1. \A i \in Numbers(thr[v]) : made'[i] = made[i]
    <3>1. Numbers(thr[v]) \subseteq Instances
      BY <1>5, CleanedIsHeld
    <3> QED
      BY <1>7, <3>1 DEF Apart
  <2>2. next_seq \in Nat /\ next_seq' \in Nat
    BY DEF HostOk
  <2>3. Placed(thr[v], next_seq', side', ignored')
    BY <1>5, <2>2, PlacedStays
  <2>4. CleanFits(OpTable[op], thr[v], made', ignored')
    <3>1. CleanFits(OpTable[op], thr[v], made, ignored)
      BY DEF WorkerOk
    <3>2. thr[v].at # "drop" => thr[v].doomed = <<>>
      BY DEF WorkerOk, LocalsFit, InUse
    <3>3. OpTable[op].netns = "none" => thr[v].at # "undo"
      BY <1>5 DEF ModeFits
    <3> QED
      BY <1>5, <2>1, <3>1, <3>2, <3>3, CleanFitsStays
  <2>5. LocalsFit(iterations(v), OpTable[op], thr[v], phase[v], released)
    BY DEF WorkerOk
  <2> QED
    BY <1>1, <1>2, <1>7, <2>3, <2>4, <2>5 DEF WorkerOk
<1>8. WorkerOk(w)'
  BY <1>1, <1>2 DEF WorkerOk
<1>9. Accounted'
  <2>1. ASSUME NEW i \in Instances \ ignored', made'[i] # {}
        PROVE  \E v \in Crew : i \in Numbers(thr'[v])
    <3>1. CASE i \in Numbers(thr[w])
      BY <1>1, <2>1, <3>1
    <3>2. CASE i \notin Numbers(thr[w])
      <4>1. made[i] # {}
        BY <2>1, <3>2
      <4>2. PICK v \in Crew : i \in Numbers(thr[v])
        BY <2>1, <4>1 DEF Accounted
      <4> QED
        BY <1>1, <3>2, <4>2
    <3> QED
      BY <3>1, <3>2
  <2> QED
    BY <2>1 DEF Accounted
<1> QED
  BY <1>1, <1>3, <1>4, <1>6, <1>7, <1>8, <1>9

-----------------------------------------------------------------------------
(***************************************************************************)
(* A step of one worker that leaves the host as it is.                     *)
(***************************************************************************)
\* A step of a worker that keeps its namespaces and makes no fewer contexts.
Goes(n, t, p, u, p2) ==
    /\ Numbers(u) = Numbers(t) /\ MadeSoFar(n, t, p) <= MadeSoFar(n, u, p2)

LEMMA WorkerFacts ==
    ASSUME PreparedInv, NEW w \in Crew
    PROVE  /\ LocalsFit(iterations(w), OpTable[op], thr[w], phase[w], released)
           /\ Typed(thr[w]) /\ InUse(thr[w], phase[w])
           /\ ModeFits(OpTable[op], thr[w])
           /\ Placed(thr[w], next_seq, side, ignored)
           /\ CleanFits(OpTable[op], thr[w], made, ignored)
           /\ iterations(w) \in Nat /\ OpOk(OpTable[op])
           /\ DOMAIN thr = Crew /\ DOMAIN phase = Crew /\ next_seq \in Nat
           /\ PhaseFits(thr[w], phase[w], released)
<1>1. OpOk(OpTable[op])
  BY OpsKnown, OpTableOk DEF PreparedInv, HostOk
<1> QED
  BY <1>1, CrewIs DEF PreparedInv, WorkerOk, LocalsFit, HostOk, GateInv,
     GateType

LEMMA SlotsStep ==
    ASSUME PreparedInv, NEW w \in Crew, NEW u, Typed(u),
           GateWorker(w) \/ UNCHANGED gateVars,
           thr' = [thr EXCEPT ![w] = u],
           MadeSoFar(iterations(w), thr[w], phase[w])
              <= MadeSoFar(iterations(w), u, phase'[w])
    PROVE  /\ Cardinality(SlotsUsed) <= Cardinality(SlotsUsed')
           /\ Cardinality(SlotsUsed) \in Nat /\ Cardinality(SlotsUsed') \in Nat
<1>1. DOMAIN thr = Crew /\ DOMAIN phase = Crew
  BY WorkerFacts
<1>2. /\ thr'[w] = u /\ \A v \in Crew : v # w => thr'[v] = thr[v]
      /\ \A v \in Crew : v # w => phase'[v] = phase[v]
  BY <1>1, GateWorkerKeeps
<1>3. ASSUME NEW v \in Crew
      PROVE  /\ MadeSoFar(iterations(v), thr[v], phase[v]) \in Int
             /\ MadeSoFar(iterations(v), thr'[v], phase'[v]) \in Int
             /\ MadeSoFar(iterations(v), thr[v], phase[v])
                   <= MadeSoFar(iterations(v), thr'[v], phase'[v])
  <2>1. MadeSoFar(iterations(v), thr[v], phase[v]) \in Nat
    BY WorkerFacts, MadeIsInt
  <2>2. CASE v = w
    BY <1>2, <2>1, <2>2, WorkerFacts, MadeIsInt
  <2>3. CASE v # w
    BY <1>2, <2>1, <2>3
  <2> QED
    BY <2>2, <2>3
<1> QED
  BY <1>3, SlotsGrow

LEMMA QuietStep ==
    ASSUME PreparedInv, NEW w \in Crew, NEW u,
           op' = op, GateWorker(w) \/ UNCHANGED gateVars,
           UNCHANGED <<next_seq, made, side>>, ignored \subseteq ignored',
           thr' = [thr EXCEPT ![w] = u],
           LocalsFit(iterations(w), OpTable[op], u, phase'[w], released),
           Placed(u, next_seq, side, ignored'),
           CleanFits(OpTable[op], u, made, ignored'),
           Goes(iterations(w), thr[w], phase[w], u, phase'[w])
    PROVE  PreparedInv'
<1>1. /\ Cardinality(SlotsUsed) <= Cardinality(SlotsUsed')
      /\ Cardinality(SlotsUsed) \in Nat /\ Cardinality(SlotsUsed') \in Nat
  BY SlotsStep DEF Goes, LocalsFit
<1>2. ignored' = {} => ignored = {}
  OBVIOUS
<1>3. HostOk'
  BY <1>1, <1>2 DEF PreparedInv, HostOk
<1>4. next_seq \in Nat /\ next_seq' = next_seq /\ side' = side /\ made' = made
  BY WorkerFacts
<1>5. /\ Placed(u, next_seq', side', ignored')
      /\ CleanFits(OpTable[op], u, made', ignored')
  BY <1>4
<1>6. Numbers(u) = Numbers(thr[w])
  BY DEF Goes
<1>7. /\ \A i \in Instances : i < next_seq => side'[i] = side[i]
      /\ \A i \in Instances \ Numbers(thr[w]) : made'[i] = made[i]
      /\ \A i \in Numbers(u) : i \in Numbers(thr[w]) \/ i >= next_seq
      /\ \A i \in Numbers(thr[w]) :
            i \in Numbers(u) \/ i \in ignored' \/ made'[i] = {}
      /\ next_seq <= next_seq'
  BY <1>4, <1>6
<1> QED
  BY <1>3, <1>5, <1>7, WorkerMoves

LEMMA LocalStep ==
    ASSUME PreparedInv, NEW w \in Crew, NEW locals, Local(w, locals),
           NEW u, u = With(thr[w], locals),
           LocalsFit(iterations(w), OpTable[op], u, phase[w], released),
           Placed(u, next_seq, side, ignored),
           CleanFits(OpTable[op], u, made, ignored),
           Goes(iterations(w), thr[w], phase[w], u, phase[w])
    PROVE  PreparedInv'
BY QuietStep DEF Local, Set, hostVars, gateVars

\* u is t with the same contexts in the same places.
SameContexts(t, u) ==
    /\ DOMAIN u = Fields /\ u.ctx = t.ctx /\ u.contexts = t.contexts
    /\ u.completed = t.completed /\ u.doomed = t.doomed

LEMMA SameHeld ==
    ASSUME NEW t, NEW u, SameContexts(t, u)
    PROVE  Kept(u) = Kept(t) /\ Held(u) = Held(t) /\ Numbers(u) = Numbers(t)
BY DEF SameContexts, Kept, Held, Numbers

\* While nothing has been ignored, every namespace was made from the root.
LEMMA RootsHome ==
    ASSUME PreparedInv, NEW w \in Crew, NEW c \in Held(thr[w]),
           ignored = {} \/ OpTable[op].netns = "none"
    PROVE  c.root = Root
<1>1. CASE c.seq = NoNetns
  BY <1>1, WorkerFacts DEF Placed
<1>2. CASE c.seq # NoNetns
  <2>1. c.seq \in Numbers(thr[w])
    BY <1>2 DEF Numbers
  <2>2. ignored = {} /\ c.seq \in Instances
    BY <2>1, WorkerFacts, CleanedIsHeld DEF ModeFits
  <2>3. c.root = side[c.seq]
    BY <1>2, WorkerFacts DEF Placed
  <2> QED
    BY <2>2, <2>3 DEF PreparedInv, HostOk
<1> QED
  BY <1>1, <1>2

-----------------------------------------------------------------------------
(***************************************************************************)
(* The steps of a worker that keep its contexts where they are: one lemma  *)
(* for each outcome of an action.                                          *)
(***************************************************************************)
LEMMA KeepNetnsStep ==
    ASSUME PreparedInv, NEW w \in Crew,
           thr[w].at = "stage",
           OpTable[op].prepare = <<>>,
           Local(w, [at |-> "push"])
    PROVE  PreparedInv'
<1> DEFINE n == iterations(w)
           r == OpTable[op]
           t == thr[w]
           p == phase[w]
<1>1. PICK u : u = With(t, [at |-> "push"])
  OBVIOUS
<1>2. /\ LocalsFit(n, r, t, p, released) /\ Typed(t) /\ n \in Nat
      /\ Placed(t, next_seq, side, ignored) /\ CleanFits(r, t, made, ignored)
  BY WorkerFacts
<1>3. /\ SameContexts(t, u)
      /\ u.at = "push" /\ u.cur = t.cur /\ u.idx = t.idx
      /\ u.err = t.err /\ u.child = t.child /\ u.sock = t.sock
  BY <1>1, <1>2 DEF With, Fields, SameContexts, Typed
<1>4. t.at = "stage" /\ r.prepare = <<>>
  BY DEF t
<1> HIDE DEF n, r, t, p
<1>5. Typed(u)
  BY <1>2, <1>3, <1>4, HeldFacts DEF SameContexts, Typed, Places, Preparing,
     Operating, Waiting
<1>6. PhaseFits(u, p, released)
  BY <1>2, <1>3, <1>4 DEF LocalsFit, PhaseFits, Preparing, Operating, Waiting
<1>7. InUse(u, p)
  BY <1>2, <1>3, <1>4 DEF SameContexts, LocalsFit, InUse, PhaseFits, Preparing,
     Operating, Waiting, Handling
<1>8. ModeFits(r, u)
  BY <1>2, <1>3, <1>4, SameHeld DEF SameContexts, LocalsFit, ModeFits,
     Operating, Waiting, Handling
<1>9. StepsFit(r, u)
  BY <1>2, <1>3, <1>4, SameHeld DEF SameContexts, LocalsFit, StepsFit,
     Operating, Waiting
<1>10. CountFits(n, r, u, p)
  BY <1>2, <1>3, <1>4 DEF SameContexts, LocalsFit, CountFits, InUse, Preparing,
     Operating, Waiting
<1>11. Placed(u, next_seq, side, ignored)
  BY <1>2, <1>3, <1>4, SameHeld DEF SameContexts, LocalsFit, ModeFits, Placed,
     Within, AtHome, Waiting
<1>12. CleanFits(r, u, made, ignored)
  BY <1>2, <1>3, <1>4 DEF SameContexts, CleanFits
<1>13. Goes(n, t, p, u, p)
  BY <1>2, <1>3, <1>4, SameHeld, MadeIsInt DEF SameContexts, LocalsFit,
     PhaseFits, CountFits, Goes, MadeSoFar, Preparing, Operating, Waiting
<1>14. LocalsFit(n, r, u, p, released)
  BY <1>5, <1>6, <1>7, <1>8, <1>9, <1>10 DEF LocalsFit
<1> QED
  BY <1>1, <1>11, <1>12, <1>13, <1>14, LocalStep DEF n, r, t, p

LEMMA EnterStep ==
    ASSUME PreparedInv, NEW w \in Crew,
           thr[w].at = "stage",
           Local(w, [at |-> "build", cur |-> thr[w].ctx.seq])
    PROVE  PreparedInv'
<1> DEFINE n == iterations(w)
           r == OpTable[op]
           t == thr[w]
           p == phase[w]
<1>1. PICK u : u = With(t, [at |-> "build", cur |-> t.ctx.seq])
  OBVIOUS
<1>2. /\ LocalsFit(n, r, t, p, released) /\ Typed(t) /\ n \in Nat
      /\ Placed(t, next_seq, side, ignored) /\ CleanFits(r, t, made, ignored)
  BY WorkerFacts
<1>3. /\ SameContexts(t, u)
      /\ u.at = "build" /\ u.cur = t.ctx.seq /\ u.idx = t.idx
      /\ u.err = t.err /\ u.child = t.child /\ u.sock = t.sock
  BY <1>1, <1>2 DEF With, Fields, SameContexts, Typed
<1>4. t.at = "stage"
  BY DEF t
<1> HIDE DEF n, r, t, p
<1>5. Typed(u)
  BY <1>2, <1>3, <1>4, HeldFacts DEF SameContexts, Typed, Places, Preparing,
     Operating, Waiting
<1>6. PhaseFits(u, p, released)
  BY <1>2, <1>3, <1>4 DEF LocalsFit, PhaseFits, Preparing, Operating, Waiting
<1>7. InUse(u, p)
  BY <1>2, <1>3, <1>4 DEF SameContexts, LocalsFit, InUse, PhaseFits, Preparing,
     Operating, Waiting, Handling
<1>8. ModeFits(r, u)
  BY <1>2, <1>3, <1>4, SameHeld DEF SameContexts, LocalsFit, ModeFits,
     Operating, Waiting, Handling
<1>9. StepsFit(r, u)
  BY <1>2, <1>3, <1>4, SameHeld DEF SameContexts, LocalsFit, StepsFit,
     Operating, Waiting
<1>10. CountFits(n, r, u, p)
  BY <1>2, <1>3, <1>4 DEF SameContexts, LocalsFit, CountFits, InUse, Preparing,
     Operating, Waiting
<1>11. Placed(u, next_seq, side, ignored)
  BY <1>2, <1>3, <1>4, SameHeld DEF SameContexts, LocalsFit, ModeFits, Placed,
     Within, AtHome, Waiting
<1>12. CleanFits(r, u, made, ignored)
  BY <1>2, <1>3, <1>4 DEF SameContexts, CleanFits
<1>13. Goes(n, t, p, u, p)
  BY <1>2, <1>3, <1>4, SameHeld, MadeIsInt DEF SameContexts, LocalsFit,
     PhaseFits, CountFits, Goes, MadeSoFar, Preparing, Operating, Waiting
<1>14. LocalsFit(n, r, u, p, released)
  BY <1>5, <1>6, <1>7, <1>8, <1>9, <1>10 DEF LocalsFit
<1> QED
  BY <1>1, <1>11, <1>12, <1>13, <1>14, LocalStep DEF n, r, t, p

LEMMA SetupFailsStep ==
    ASSUME PreparedInv, NEW w \in Crew,
           thr[w].at = "stage",
           Local(w, [at |-> "undo", idx |-> 1])
    PROVE  PreparedInv'
<1> DEFINE n == iterations(w)
           r == OpTable[op]
           t == thr[w]
           p == phase[w]
<1>1. PICK u : u = With(t, [at |-> "undo", idx |-> 1])
  OBVIOUS
<1>2. /\ LocalsFit(n, r, t, p, released) /\ Typed(t) /\ n \in Nat
      /\ Placed(t, next_seq, side, ignored) /\ CleanFits(r, t, made, ignored)
  BY WorkerFacts
<1>3. /\ SameContexts(t, u)
      /\ u.at = "undo" /\ u.cur = t.cur /\ u.idx = 1
      /\ u.err = t.err /\ u.child = t.child /\ u.sock = t.sock
  BY <1>1, <1>2 DEF With, Fields, SameContexts, Typed
<1>4. t.at = "stage" /\ Len(CleanupOf(r)) >= 1
  BY DEF t, CleanupOf, cleanup
<1> HIDE DEF n, r, t, p
<1>5. Typed(u)
  BY <1>2, <1>3, <1>4, HeldFacts DEF SameContexts, Typed, Places, Preparing,
     Operating, Waiting
<1>6. PhaseFits(u, p, released)
  BY <1>2, <1>3, <1>4 DEF LocalsFit, PhaseFits, Preparing, Operating, Waiting
<1>7. InUse(u, p)
  BY <1>2, <1>3, <1>4 DEF SameContexts, LocalsFit, InUse, PhaseFits, Preparing,
     Operating, Waiting, Handling
<1>8. ModeFits(r, u)
  BY <1>2, <1>3, <1>4, SameHeld DEF SameContexts, LocalsFit, ModeFits,
     Operating, Waiting, Handling
<1>9. StepsFit(r, u)
  BY <1>2, <1>3, <1>4, SameHeld DEF SameContexts, LocalsFit, StepsFit,
     Operating, Waiting
<1>10. CountFits(n, r, u, p)
  BY <1>2, <1>3, <1>4 DEF SameContexts, LocalsFit, CountFits, InUse, Preparing,
     Operating, Waiting
<1>11. Placed(u, next_seq, side, ignored)
  BY <1>2, <1>3, <1>4, SameHeld DEF SameContexts, LocalsFit, ModeFits, Placed,
     Within, AtHome, Waiting
<1>12. CleanFits(r, u, made, ignored)
  BY <1>2, <1>3, <1>4 DEF SameContexts, CleanFits
<1>13. Goes(n, t, p, u, p)
  BY <1>2, <1>3, <1>4, SameHeld, MadeIsInt DEF SameContexts, LocalsFit,
     PhaseFits, CountFits, Goes, MadeSoFar, Preparing, Operating, Waiting
<1>14. LocalsFit(n, r, u, p, released)
  BY <1>5, <1>6, <1>7, <1>8, <1>9, <1>10 DEF LocalsFit
<1> QED
  BY <1>1, <1>11, <1>12, <1>13, <1>14, LocalStep DEF n, r, t, p

LEMMA BuildFailsStep ==
    ASSUME PreparedInv, NEW w \in Crew,
           thr[w].at = "build",
           OpTable[op].netns # "none",
           Local(w, [at |-> "leave", err |-> TRUE])
    PROVE  PreparedInv'
<1> DEFINE n == iterations(w)
           r == OpTable[op]
           t == thr[w]
           p == phase[w]
<1>1. PICK u : u = With(t, [at |-> "leave", err |-> TRUE])
  OBVIOUS
<1>2. /\ LocalsFit(n, r, t, p, released) /\ Typed(t) /\ n \in Nat
      /\ Placed(t, next_seq, side, ignored) /\ CleanFits(r, t, made, ignored)
  BY WorkerFacts
<1>3. /\ SameContexts(t, u)
      /\ u.at = "leave" /\ u.cur = t.cur /\ u.idx = t.idx
      /\ u.err = TRUE /\ u.child = t.child /\ u.sock = t.sock
  BY <1>1, <1>2 DEF With, Fields, SameContexts, Typed
<1>4. t.at = "build" /\ r.netns # "none"
  BY DEF t, r
<1> HIDE DEF n, r, t, p
<1>5. Typed(u)
  BY <1>2, <1>3, <1>4, HeldFacts DEF SameContexts, Typed, Places, Preparing,
     Operating, Waiting
<1>6. PhaseFits(u, p, released)
  BY <1>2, <1>3, <1>4 DEF LocalsFit, PhaseFits, Preparing, Operating, Waiting
<1>7. InUse(u, p)
  BY <1>2, <1>3, <1>4 DEF SameContexts, LocalsFit, InUse, PhaseFits, Preparing,
     Operating, Waiting, Handling
<1>8. ModeFits(r, u)
  BY <1>2, <1>3, <1>4, SameHeld DEF SameContexts, LocalsFit, ModeFits,
     Operating, Waiting, Handling
<1>9. StepsFit(r, u)
  BY <1>2, <1>3, <1>4, SameHeld DEF SameContexts, LocalsFit, StepsFit,
     Operating, Waiting
<1>10. CountFits(n, r, u, p)
  BY <1>2, <1>3, <1>4 DEF SameContexts, LocalsFit, CountFits, InUse, Preparing,
     Operating, Waiting
<1>11. Placed(u, next_seq, side, ignored)
  BY <1>2, <1>3, <1>4, SameHeld DEF SameContexts, LocalsFit, ModeFits, Placed,
     Within, AtHome, Waiting
<1>12. CleanFits(r, u, made, ignored)
  BY <1>2, <1>3, <1>4 DEF SameContexts, CleanFits
<1>13. Goes(n, t, p, u, p)
  BY <1>2, <1>3, <1>4, SameHeld, MadeIsInt DEF SameContexts, LocalsFit,
     PhaseFits, CountFits, Goes, MadeSoFar, Preparing, Operating, Waiting
<1>14. LocalsFit(n, r, u, p, released)
  BY <1>5, <1>6, <1>7, <1>8, <1>9, <1>10 DEF LocalsFit
<1> QED
  BY <1>1, <1>11, <1>12, <1>13, <1>14, LocalStep DEF n, r, t, p

LEMMA LeaveOkStep ==
    ASSUME PreparedInv, NEW w \in Crew,
           thr[w].at = "leaveop",
           Local(w, [at |-> "after", cur |-> thr[w].ctx.root])
    PROVE  PreparedInv'
<1> DEFINE n == iterations(w)
           r == OpTable[op]
           t == thr[w]
           p == phase[w]
<1>1. PICK u : u = With(t, [at |-> "after", cur |-> t.ctx.root])
  OBVIOUS
<1>2. /\ LocalsFit(n, r, t, p, released) /\ Typed(t) /\ n \in Nat
      /\ Placed(t, next_seq, side, ignored) /\ CleanFits(r, t, made, ignored)
  BY WorkerFacts
<1>3. /\ SameContexts(t, u)
      /\ u.at = "after" /\ u.cur = t.ctx.root /\ u.idx = t.idx
      /\ u.err = t.err /\ u.child = t.child /\ u.sock = t.sock
  BY <1>1, <1>2 DEF With, Fields, SameContexts, Typed
<1>4. t.at = "leaveop"
      /\ (ignored = {} \/ r.netns = "none" => t.ctx.root = Root)
  BY WorkerFacts, HeldFacts, RootsHome DEF t, r
<1> HIDE DEF n, r, t, p
<1>5. Typed(u)
  BY <1>2, <1>3, <1>4, HeldFacts DEF SameContexts, Typed, Places, Preparing,
     Operating, Waiting
<1>6. PhaseFits(u, p, released)
  BY <1>2, <1>3, <1>4 DEF LocalsFit, PhaseFits, Preparing, Operating, Waiting
<1>7. InUse(u, p)
  BY <1>2, <1>3, <1>4 DEF SameContexts, LocalsFit, InUse, PhaseFits, Preparing,
     Operating, Waiting, Handling
<1>8. ModeFits(r, u)
  BY <1>2, <1>3, <1>4, SameHeld DEF SameContexts, LocalsFit, ModeFits,
     Operating, Waiting, Handling
<1>9. StepsFit(r, u)
  BY <1>2, <1>3, <1>4, SameHeld DEF SameContexts, LocalsFit, StepsFit,
     Operating, Waiting
<1>10. CountFits(n, r, u, p)
  BY <1>2, <1>3, <1>4 DEF SameContexts, LocalsFit, CountFits, InUse, Preparing,
     Operating, Waiting
<1>11. Placed(u, next_seq, side, ignored)
  BY <1>2, <1>3, <1>4, SameHeld DEF SameContexts, LocalsFit, ModeFits, Placed,
     Within, AtHome, Waiting
<1>12. CleanFits(r, u, made, ignored)
  BY <1>2, <1>3, <1>4 DEF SameContexts, CleanFits
<1>13. Goes(n, t, p, u, p)
  BY <1>2, <1>3, <1>4, SameHeld, MadeIsInt DEF SameContexts, LocalsFit,
     PhaseFits, CountFits, Goes, MadeSoFar, Preparing, Operating, Waiting
<1>14. LocalsFit(n, r, u, p, released)
  BY <1>5, <1>6, <1>7, <1>8, <1>9, <1>10 DEF LocalsFit
<1> QED
  BY <1>1, <1>11, <1>12, <1>13, <1>14, LocalStep DEF n, r, t, p

LEMMA LeaveErrStep ==
    ASSUME PreparedInv, NEW w \in Crew,
           thr[w].at = "leaveop",
           Local(w, [at |-> "after", err |-> TRUE])
    PROVE  PreparedInv'
<1> DEFINE n == iterations(w)
           r == OpTable[op]
           t == thr[w]
           p == phase[w]
<1>1. PICK u : u = With(t, [at |-> "after", err |-> TRUE])
  OBVIOUS
<1>2. /\ LocalsFit(n, r, t, p, released) /\ Typed(t) /\ n \in Nat
      /\ Placed(t, next_seq, side, ignored) /\ CleanFits(r, t, made, ignored)
  BY WorkerFacts
<1>3. /\ SameContexts(t, u)
      /\ u.at = "after" /\ u.cur = t.cur /\ u.idx = t.idx
      /\ u.err = TRUE /\ u.child = t.child /\ u.sock = t.sock
  BY <1>1, <1>2 DEF With, Fields, SameContexts, Typed
<1>4. t.at = "leaveop"
  BY DEF t
<1> HIDE DEF n, r, t, p
<1>5. Typed(u)
  BY <1>2, <1>3, <1>4, HeldFacts DEF SameContexts, Typed, Places, Preparing,
     Operating, Waiting
<1>6. PhaseFits(u, p, released)
  BY <1>2, <1>3, <1>4 DEF LocalsFit, PhaseFits, Preparing, Operating, Waiting
<1>7. InUse(u, p)
  BY <1>2, <1>3, <1>4 DEF SameContexts, LocalsFit, InUse, PhaseFits, Preparing,
     Operating, Waiting, Handling
<1>8. ModeFits(r, u)
  BY <1>2, <1>3, <1>4, SameHeld DEF SameContexts, LocalsFit, ModeFits,
     Operating, Waiting, Handling
<1>9. StepsFit(r, u)
  BY <1>2, <1>3, <1>4, SameHeld DEF SameContexts, LocalsFit, StepsFit,
     Operating, Waiting
<1>10. CountFits(n, r, u, p)
  BY <1>2, <1>3, <1>4 DEF SameContexts, LocalsFit, CountFits, InUse, Preparing,
     Operating, Waiting
<1>11. Placed(u, next_seq, side, ignored)
  BY <1>2, <1>3, <1>4, SameHeld DEF SameContexts, LocalsFit, ModeFits, Placed,
     Within, AtHome, Waiting
<1>12. CleanFits(r, u, made, ignored)
  BY <1>2, <1>3, <1>4 DEF SameContexts, CleanFits
<1>13. Goes(n, t, p, u, p)
  BY <1>2, <1>3, <1>4, SameHeld, MadeIsInt DEF SameContexts, LocalsFit,
     PhaseFits, CountFits, Goes, MadeSoFar, Preparing, Operating, Waiting
<1>14. LocalsFit(n, r, u, p, released)
  BY <1>5, <1>6, <1>7, <1>8, <1>9, <1>10 DEF LocalsFit
<1> QED
  BY <1>1, <1>11, <1>12, <1>13, <1>14, LocalStep DEF n, r, t, p

LEMMA EnterForOpStep ==
    ASSUME PreparedInv, NEW w \in Crew,
           thr[w].at = "enter",
           Local(w, [at |-> "op", cur |-> thr[w].ctx.seq])
    PROVE  PreparedInv'
<1> DEFINE n == iterations(w)
           r == OpTable[op]
           t == thr[w]
           p == phase[w]
<1>1. PICK u : u = With(t, [at |-> "op", cur |-> t.ctx.seq])
  OBVIOUS
<1>2. /\ LocalsFit(n, r, t, p, released) /\ Typed(t) /\ n \in Nat
      /\ Placed(t, next_seq, side, ignored) /\ CleanFits(r, t, made, ignored)
  BY WorkerFacts
<1>3. /\ SameContexts(t, u)
      /\ u.at = "op" /\ u.cur = t.ctx.seq /\ u.idx = t.idx
      /\ u.err = t.err /\ u.child = t.child /\ u.sock = t.sock
  BY <1>1, <1>2 DEF With, Fields, SameContexts, Typed
<1>4. t.at = "enter"
  BY DEF t
<1> HIDE DEF n, r, t, p
<1>5. Typed(u)
  BY <1>2, <1>3, <1>4, HeldFacts DEF SameContexts, Typed, Places, Preparing,
     Operating, Waiting
<1>6. PhaseFits(u, p, released)
  BY <1>2, <1>3, <1>4 DEF LocalsFit, PhaseFits, Preparing, Operating, Waiting
<1>7. InUse(u, p)
  BY <1>2, <1>3, <1>4 DEF SameContexts, LocalsFit, InUse, PhaseFits, Preparing,
     Operating, Waiting, Handling
<1>8. ModeFits(r, u)
  BY <1>2, <1>3, <1>4, SameHeld DEF SameContexts, LocalsFit, ModeFits,
     Operating, Waiting, Handling
<1>9. StepsFit(r, u)
  BY <1>2, <1>3, <1>4, SameHeld DEF SameContexts, LocalsFit, StepsFit,
     Operating, Waiting
<1>10. CountFits(n, r, u, p)
  BY <1>2, <1>3, <1>4 DEF SameContexts, LocalsFit, CountFits, InUse, Preparing,
     Operating, Waiting
<1>11. Placed(u, next_seq, side, ignored)
  BY <1>2, <1>3, <1>4, SameHeld DEF SameContexts, LocalsFit, ModeFits, Placed,
     Within, AtHome, Waiting
<1>12. CleanFits(r, u, made, ignored)
  BY <1>2, <1>3, <1>4 DEF SameContexts, CleanFits
<1>13. Goes(n, t, p, u, p)
  BY <1>2, <1>3, <1>4, SameHeld, MadeIsInt DEF SameContexts, LocalsFit,
     PhaseFits, CountFits, Goes, MadeSoFar, Preparing, Operating, Waiting
<1>14. LocalsFit(n, r, u, p, released)
  BY <1>5, <1>6, <1>7, <1>8, <1>9, <1>10 DEF LocalsFit
<1> QED
  BY <1>1, <1>11, <1>12, <1>13, <1>14, LocalStep DEF n, r, t, p

LEMMA SpawnOkStep ==
    ASSUME PreparedInv, NEW w \in Crew,
           thr[w].at = "op",
           Local(w, [at |-> "await", child |-> "running", idx |-> 1])
    PROVE  PreparedInv'
<1> DEFINE n == iterations(w)
           r == OpTable[op]
           t == thr[w]
           p == phase[w]
<1>1. PICK u : u = With(t, [at |-> "await", child |-> "running", idx |-> 1])
  OBVIOUS
<1>2. /\ LocalsFit(n, r, t, p, released) /\ Typed(t) /\ n \in Nat
      /\ Placed(t, next_seq, side, ignored) /\ CleanFits(r, t, made, ignored)
  BY WorkerFacts
<1>3. /\ SameContexts(t, u)
      /\ u.at = "await" /\ u.cur = t.cur /\ u.idx = 1
      /\ u.err = t.err /\ u.child = "running" /\ u.sock = t.sock
  BY <1>1, <1>2 DEF With, Fields, SameContexts, Typed
<1>4. t.at = "op"
  BY DEF t
<1> HIDE DEF n, r, t, p
<1>5. Typed(u)
  BY <1>2, <1>3, <1>4, HeldFacts DEF SameContexts, Typed, Places, Preparing,
     Operating, Waiting
<1>6. PhaseFits(u, p, released)
  BY <1>2, <1>3, <1>4 DEF LocalsFit, PhaseFits, Preparing, Operating, Waiting
<1>7. InUse(u, p)
  BY <1>2, <1>3, <1>4 DEF SameContexts, LocalsFit, InUse, PhaseFits, Preparing,
     Operating, Waiting, Handling
<1>8. ModeFits(r, u)
  BY <1>2, <1>3, <1>4, SameHeld DEF SameContexts, LocalsFit, ModeFits,
     Operating, Waiting, Handling
<1>9. StepsFit(r, u)
  BY <1>2, <1>3, <1>4, SameHeld DEF SameContexts, LocalsFit, StepsFit,
     Operating, Waiting
<1>10. CountFits(n, r, u, p)
  BY <1>2, <1>3, <1>4 DEF SameContexts, LocalsFit, CountFits, InUse, Preparing,
     Operating, Waiting
<1>11. Placed(u, next_seq, side, ignored)
  BY <1>2, <1>3, <1>4, SameHeld DEF SameContexts, LocalsFit, ModeFits, Placed,
     Within, AtHome, Waiting
<1>12. CleanFits(r, u, made, ignored)
  BY <1>2, <1>3, <1>4 DEF SameContexts, CleanFits
<1>13. Goes(n, t, p, u, p)
  BY <1>2, <1>3, <1>4, SameHeld, MadeIsInt DEF SameContexts, LocalsFit,
     PhaseFits, CountFits, Goes, MadeSoFar, Preparing, Operating, Waiting
<1>14. LocalsFit(n, r, u, p, released)
  BY <1>5, <1>6, <1>7, <1>8, <1>9, <1>10 DEF LocalsFit
<1> QED
  BY <1>1, <1>11, <1>12, <1>13, <1>14, LocalStep DEF n, r, t, p

LEMMA OpFailsStep ==
    ASSUME PreparedInv, NEW w \in Crew,
           thr[w].at = "op",
           Local(w, [at |-> OpEnds(w), err |-> TRUE])
    PROVE  PreparedInv'
<1> DEFINE n == iterations(w)
           r == OpTable[op]
           t == thr[w]
           p == phase[w]
<1>1. PICK u : u = With(t, [at |-> OpEnds(w), err |-> TRUE])
  OBVIOUS
<1>2. /\ LocalsFit(n, r, t, p, released) /\ Typed(t) /\ n \in Nat
      /\ Placed(t, next_seq, side, ignored) /\ CleanFits(r, t, made, ignored)
  BY WorkerFacts
<1>3. /\ SameContexts(t, u)
      /\ u.at = OpEnds(w) /\ u.cur = t.cur /\ u.idx = t.idx
      /\ u.err = TRUE /\ u.child = t.child /\ u.sock = t.sock
  BY <1>1, <1>2 DEF With, Fields, SameContexts, Typed
<1>4. t.at = "op"
      /\ OpEnds(w) = (IF r.netns = "none" THEN "after" ELSE "leaveop")
  BY DEF t, r, OpEnds, Mode
<1> HIDE DEF n, r, t, p
<1>5. Typed(u)
  BY <1>2, <1>3, <1>4, HeldFacts DEF SameContexts, Typed, Places, Preparing,
     Operating, Waiting
<1>6. PhaseFits(u, p, released)
  BY <1>2, <1>3, <1>4 DEF LocalsFit, PhaseFits, Preparing, Operating, Waiting
<1>7. InUse(u, p)
  BY <1>2, <1>3, <1>4 DEF SameContexts, LocalsFit, InUse, PhaseFits, Preparing,
     Operating, Waiting, Handling
<1>8. ModeFits(r, u)
  BY <1>2, <1>3, <1>4, SameHeld DEF SameContexts, LocalsFit, ModeFits,
     Operating, Waiting, Handling
<1>9. StepsFit(r, u)
  BY <1>2, <1>3, <1>4, SameHeld DEF SameContexts, LocalsFit, StepsFit,
     Operating, Waiting
<1>10. CountFits(n, r, u, p)
  BY <1>2, <1>3, <1>4 DEF SameContexts, LocalsFit, CountFits, InUse, Preparing,
     Operating, Waiting
<1>11. Placed(u, next_seq, side, ignored)
  BY <1>2, <1>3, <1>4, SameHeld DEF SameContexts, LocalsFit, ModeFits, Placed,
     Within, AtHome, Waiting
<1>12. CleanFits(r, u, made, ignored)
  BY <1>2, <1>3, <1>4 DEF SameContexts, CleanFits
<1>13. Goes(n, t, p, u, p)
  BY <1>2, <1>3, <1>4, SameHeld, MadeIsInt DEF SameContexts, LocalsFit,
     PhaseFits, CountFits, Goes, MadeSoFar, Preparing, Operating, Waiting
<1>14. LocalsFit(n, r, u, p, released)
  BY <1>5, <1>6, <1>7, <1>8, <1>9, <1>10 DEF LocalsFit
<1> QED
  BY <1>1, <1>11, <1>12, <1>13, <1>14, LocalStep DEF n, r, t, p

LEMMA ListensStep ==
    ASSUME PreparedInv, NEW w \in Crew,
           thr[w].child = "running",
           Local(w, [sock |-> TRUE])
    PROVE  PreparedInv'
<1> DEFINE n == iterations(w)
           r == OpTable[op]
           t == thr[w]
           p == phase[w]
<1>1. PICK u : u = With(t, [sock |-> TRUE])
  OBVIOUS
<1>2. /\ LocalsFit(n, r, t, p, released) /\ Typed(t) /\ n \in Nat
      /\ Placed(t, next_seq, side, ignored) /\ CleanFits(r, t, made, ignored)
  BY WorkerFacts
<1>3. /\ SameContexts(t, u)
      /\ u.at = t.at /\ u.cur = t.cur /\ u.idx = t.idx
      /\ u.err = t.err /\ u.child = t.child /\ u.sock = TRUE
  BY <1>1, <1>2 DEF With, Fields, SameContexts, Typed
<1>4. t.at \in Waiting
  BY WorkerFacts DEF InUse, t
<1> HIDE DEF n, r, t, p
<1>5. Typed(u)
  BY <1>2, <1>3, <1>4, HeldFacts DEF SameContexts, Typed, Places, Preparing,
     Operating, Waiting
<1>6. PhaseFits(u, p, released)
  BY <1>2, <1>3, <1>4 DEF LocalsFit, PhaseFits, Preparing, Operating, Waiting
<1>7. InUse(u, p)
  BY <1>2, <1>3, <1>4 DEF SameContexts, LocalsFit, InUse, PhaseFits, Preparing,
     Operating, Waiting, Handling
<1>8. ModeFits(r, u)
  BY <1>2, <1>3, <1>4, SameHeld DEF SameContexts, LocalsFit, ModeFits,
     Operating, Waiting, Handling
<1>9. StepsFit(r, u)
  BY <1>2, <1>3, <1>4, SameHeld DEF SameContexts, LocalsFit, StepsFit,
     Operating, Waiting
<1>10. CountFits(n, r, u, p)
  BY <1>2, <1>3, <1>4 DEF SameContexts, LocalsFit, CountFits, InUse, Preparing,
     Operating, Waiting
<1>11. Placed(u, next_seq, side, ignored)
  BY <1>2, <1>3, <1>4, SameHeld DEF SameContexts, LocalsFit, ModeFits, Placed,
     Within, AtHome, Waiting
<1>12. CleanFits(r, u, made, ignored)
  BY <1>2, <1>3, <1>4 DEF SameContexts, CleanFits
<1>13. Goes(n, t, p, u, p)
  BY <1>2, <1>3, <1>4, SameHeld, MadeIsInt DEF SameContexts, LocalsFit,
     PhaseFits, CountFits, Goes, MadeSoFar, Preparing, Operating, Waiting
<1>14. LocalsFit(n, r, u, p, released)
  BY <1>5, <1>6, <1>7, <1>8, <1>9, <1>10 DEF LocalsFit
<1> QED
  BY <1>1, <1>11, <1>12, <1>13, <1>14, LocalStep DEF n, r, t, p

LEMMA ExitsStep ==
    ASSUME PreparedInv, NEW w \in Crew,
           thr[w].child = "running",
           Local(w, [child |-> "zombie"])
    PROVE  PreparedInv'
<1> DEFINE n == iterations(w)
           r == OpTable[op]
           t == thr[w]
           p == phase[w]
<1>1. PICK u : u = With(t, [child |-> "zombie"])
  OBVIOUS
<1>2. /\ LocalsFit(n, r, t, p, released) /\ Typed(t) /\ n \in Nat
      /\ Placed(t, next_seq, side, ignored) /\ CleanFits(r, t, made, ignored)
  BY WorkerFacts
<1>3. /\ SameContexts(t, u)
      /\ u.at = t.at /\ u.cur = t.cur /\ u.idx = t.idx
      /\ u.err = t.err /\ u.child = "zombie" /\ u.sock = t.sock
  BY <1>1, <1>2 DEF With, Fields, SameContexts, Typed
<1>4. t.at \in Waiting
  BY WorkerFacts DEF InUse, t
<1> HIDE DEF n, r, t, p
<1>5. Typed(u)
  BY <1>2, <1>3, <1>4, HeldFacts DEF SameContexts, Typed, Places, Preparing,
     Operating, Waiting
<1>6. PhaseFits(u, p, released)
  BY <1>2, <1>3, <1>4 DEF LocalsFit, PhaseFits, Preparing, Operating, Waiting
<1>7. InUse(u, p)
  BY <1>2, <1>3, <1>4 DEF SameContexts, LocalsFit, InUse, PhaseFits, Preparing,
     Operating, Waiting, Handling
<1>8. ModeFits(r, u)
  BY <1>2, <1>3, <1>4, SameHeld DEF SameContexts, LocalsFit, ModeFits,
     Operating, Waiting, Handling
<1>9. StepsFit(r, u)
  BY <1>2, <1>3, <1>4, SameHeld DEF SameContexts, LocalsFit, StepsFit,
     Operating, Waiting
<1>10. CountFits(n, r, u, p)
  BY <1>2, <1>3, <1>4 DEF SameContexts, LocalsFit, CountFits, InUse, Preparing,
     Operating, Waiting
<1>11. Placed(u, next_seq, side, ignored)
  BY <1>2, <1>3, <1>4, SameHeld DEF SameContexts, LocalsFit, ModeFits, Placed,
     Within, AtHome, Waiting
<1>12. CleanFits(r, u, made, ignored)
  BY <1>2, <1>3, <1>4 DEF SameContexts, CleanFits
<1>13. Goes(n, t, p, u, p)
  BY <1>2, <1>3, <1>4, SameHeld, MadeIsInt DEF SameContexts, LocalsFit,
     PhaseFits, CountFits, Goes, MadeSoFar, Preparing, Operating, Waiting
<1>14. LocalsFit(n, r, u, p, released)
  BY <1>5, <1>6, <1>7, <1>8, <1>9, <1>10 DEF LocalsFit
<1> QED
  BY <1>1, <1>11, <1>12, <1>13, <1>14, LocalStep DEF n, r, t, p

LEMMA AwaitErrStep ==
    ASSUME PreparedInv, NEW w \in Crew,
           thr[w].at = "await",
           Local(w, [at |-> "reap", err |-> TRUE])
    PROVE  PreparedInv'
<1> DEFINE n == iterations(w)
           r == OpTable[op]
           t == thr[w]
           p == phase[w]
<1>1. PICK u : u = With(t, [at |-> "reap", err |-> TRUE])
  OBVIOUS
<1>2. /\ LocalsFit(n, r, t, p, released) /\ Typed(t) /\ n \in Nat
      /\ Placed(t, next_seq, side, ignored) /\ CleanFits(r, t, made, ignored)
  BY WorkerFacts
<1>3. /\ SameContexts(t, u)
      /\ u.at = "reap" /\ u.cur = t.cur /\ u.idx = t.idx
      /\ u.err = TRUE /\ u.child = t.child /\ u.sock = t.sock
  BY <1>1, <1>2 DEF With, Fields, SameContexts, Typed
<1>4. t.at = "await"
  BY DEF t
<1> HIDE DEF n, r, t, p
<1>5. Typed(u)
  BY <1>2, <1>3, <1>4, HeldFacts DEF SameContexts, Typed, Places, Preparing,
     Operating, Waiting
<1>6. PhaseFits(u, p, released)
  BY <1>2, <1>3, <1>4 DEF LocalsFit, PhaseFits, Preparing, Operating, Waiting
<1>7. InUse(u, p)
  BY <1>2, <1>3, <1>4 DEF SameContexts, LocalsFit, InUse, PhaseFits, Preparing,
     Operating, Waiting, Handling
<1>8. ModeFits(r, u)
  BY <1>2, <1>3, <1>4, SameHeld DEF SameContexts, LocalsFit, ModeFits,
     Operating, Waiting, Handling
<1>9. StepsFit(r, u)
  BY <1>2, <1>3, <1>4, SameHeld DEF SameContexts, LocalsFit, StepsFit,
     Operating, Waiting
<1>10. CountFits(n, r, u, p)
  BY <1>2, <1>3, <1>4 DEF SameContexts, LocalsFit, CountFits, InUse, Preparing,
     Operating, Waiting
<1>11. Placed(u, next_seq, side, ignored)
  BY <1>2, <1>3, <1>4, SameHeld DEF SameContexts, LocalsFit, ModeFits, Placed,
     Within, AtHome, Waiting
<1>12. CleanFits(r, u, made, ignored)
  BY <1>2, <1>3, <1>4 DEF SameContexts, CleanFits
<1>13. Goes(n, t, p, u, p)
  BY <1>2, <1>3, <1>4, SameHeld, MadeIsInt DEF SameContexts, LocalsFit,
     PhaseFits, CountFits, Goes, MadeSoFar, Preparing, Operating, Waiting
<1>14. LocalsFit(n, r, u, p, released)
  BY <1>5, <1>6, <1>7, <1>8, <1>9, <1>10 DEF LocalsFit
<1> QED
  BY <1>1, <1>11, <1>12, <1>13, <1>14, LocalStep DEF n, r, t, p

LEMMA AwaitOkStep ==
    ASSUME PreparedInv, NEW w \in Crew,
           thr[w].at = "await",
           Local(w, [at |-> "reap"])
    PROVE  PreparedInv'
<1> DEFINE n == iterations(w)
           r == OpTable[op]
           t == thr[w]
           p == phase[w]
<1>1. PICK u : u = With(t, [at |-> "reap"])
  OBVIOUS
<1>2. /\ LocalsFit(n, r, t, p, released) /\ Typed(t) /\ n \in Nat
      /\ Placed(t, next_seq, side, ignored) /\ CleanFits(r, t, made, ignored)
  BY WorkerFacts
<1>3. /\ SameContexts(t, u)
      /\ u.at = "reap" /\ u.cur = t.cur /\ u.idx = t.idx
      /\ u.err = t.err /\ u.child = t.child /\ u.sock = t.sock
  BY <1>1, <1>2 DEF With, Fields, SameContexts, Typed
<1>4. t.at = "await"
  BY DEF t
<1> HIDE DEF n, r, t, p
<1>5. Typed(u)
  BY <1>2, <1>3, <1>4, HeldFacts DEF SameContexts, Typed, Places, Preparing,
     Operating, Waiting
<1>6. PhaseFits(u, p, released)
  BY <1>2, <1>3, <1>4 DEF LocalsFit, PhaseFits, Preparing, Operating, Waiting
<1>7. InUse(u, p)
  BY <1>2, <1>3, <1>4 DEF SameContexts, LocalsFit, InUse, PhaseFits, Preparing,
     Operating, Waiting, Handling
<1>8. ModeFits(r, u)
  BY <1>2, <1>3, <1>4, SameHeld DEF SameContexts, LocalsFit, ModeFits,
     Operating, Waiting, Handling
<1>9. StepsFit(r, u)
  BY <1>2, <1>3, <1>4, SameHeld DEF SameContexts, LocalsFit, StepsFit,
     Operating, Waiting
<1>10. CountFits(n, r, u, p)
  BY <1>2, <1>3, <1>4 DEF SameContexts, LocalsFit, CountFits, InUse, Preparing,
     Operating, Waiting
<1>11. Placed(u, next_seq, side, ignored)
  BY <1>2, <1>3, <1>4, SameHeld DEF SameContexts, LocalsFit, ModeFits, Placed,
     Within, AtHome, Waiting
<1>12. CleanFits(r, u, made, ignored)
  BY <1>2, <1>3, <1>4 DEF SameContexts, CleanFits
<1>13. Goes(n, t, p, u, p)
  BY <1>2, <1>3, <1>4, SameHeld, MadeIsInt DEF SameContexts, LocalsFit,
     PhaseFits, CountFits, Goes, MadeSoFar, Preparing, Operating, Waiting
<1>14. LocalsFit(n, r, u, p, released)
  BY <1>5, <1>6, <1>7, <1>8, <1>9, <1>10 DEF LocalsFit
<1> QED
  BY <1>1, <1>11, <1>12, <1>13, <1>14, LocalStep DEF n, r, t, p

LEMMA AwaitAgainStep ==
    ASSUME PreparedInv, NEW w \in Crew,
           thr[w].at = "await",
           Local(w, [idx |-> thr[w].idx + 1])
    PROVE  PreparedInv'
<1> DEFINE n == iterations(w)
           r == OpTable[op]
           t == thr[w]
           p == phase[w]
<1>1. PICK u : u = With(t, [idx |-> t.idx + 1])
  OBVIOUS
<1>2. /\ LocalsFit(n, r, t, p, released) /\ Typed(t) /\ n \in Nat
      /\ Placed(t, next_seq, side, ignored) /\ CleanFits(r, t, made, ignored)
  BY WorkerFacts
<1>3. /\ SameContexts(t, u)
      /\ u.at = t.at /\ u.cur = t.cur /\ u.idx = t.idx + 1
      /\ u.err = t.err /\ u.child = t.child /\ u.sock = t.sock
  BY <1>1, <1>2 DEF With, Fields, SameContexts, Typed
<1>4. t.at = "await"
  BY DEF t
<1> HIDE DEF n, r, t, p
<1>5. Typed(u)
  BY <1>2, <1>3, <1>4, HeldFacts DEF SameContexts, Typed, Places, Preparing,
     Operating, Waiting
<1>6. PhaseFits(u, p, released)
  BY <1>2, <1>3, <1>4 DEF LocalsFit, PhaseFits, Preparing, Operating, Waiting
<1>7. InUse(u, p)
  BY <1>2, <1>3, <1>4 DEF SameContexts, LocalsFit, InUse, PhaseFits, Preparing,
     Operating, Waiting, Handling
<1>8. ModeFits(r, u)
  BY <1>2, <1>3, <1>4, SameHeld DEF SameContexts, LocalsFit, ModeFits,
     Operating, Waiting, Handling
<1>9. StepsFit(r, u)
  BY <1>2, <1>3, <1>4, SameHeld DEF SameContexts, LocalsFit, StepsFit,
     Operating, Waiting
<1>10. CountFits(n, r, u, p)
  BY <1>2, <1>3, <1>4 DEF SameContexts, LocalsFit, CountFits, InUse, Preparing,
     Operating, Waiting
<1>11. Placed(u, next_seq, side, ignored)
  BY <1>2, <1>3, <1>4, SameHeld DEF SameContexts, LocalsFit, ModeFits, Placed,
     Within, AtHome, Waiting
<1>12. CleanFits(r, u, made, ignored)
  BY <1>2, <1>3, <1>4 DEF SameContexts, CleanFits
<1>13. Goes(n, t, p, u, p)
  BY <1>2, <1>3, <1>4, SameHeld, MadeIsInt DEF SameContexts, LocalsFit,
     PhaseFits, CountFits, Goes, MadeSoFar, Preparing, Operating, Waiting
<1>14. LocalsFit(n, r, u, p, released)
  BY <1>5, <1>6, <1>7, <1>8, <1>9, <1>10 DEF LocalsFit
<1> QED
  BY <1>1, <1>11, <1>12, <1>13, <1>14, LocalStep DEF n, r, t, p

LEMMA KillOkStep ==
    ASSUME PreparedInv, NEW w \in Crew,
           thr[w].at = "reap",
           Local(w, [at |-> "waitpid", child |-> "zombie"])
    PROVE  PreparedInv'
<1> DEFINE n == iterations(w)
           r == OpTable[op]
           t == thr[w]
           p == phase[w]
<1>1. PICK u : u = With(t, [at |-> "waitpid", child |-> "zombie"])
  OBVIOUS
<1>2. /\ LocalsFit(n, r, t, p, released) /\ Typed(t) /\ n \in Nat
      /\ Placed(t, next_seq, side, ignored) /\ CleanFits(r, t, made, ignored)
  BY WorkerFacts
<1>3. /\ SameContexts(t, u)
      /\ u.at = "waitpid" /\ u.cur = t.cur /\ u.idx = t.idx
      /\ u.err = t.err /\ u.child = "zombie" /\ u.sock = t.sock
  BY <1>1, <1>2 DEF With, Fields, SameContexts, Typed
<1>4. t.at = "reap"
  BY DEF t
<1> HIDE DEF n, r, t, p
<1>5. Typed(u)
  BY <1>2, <1>3, <1>4, HeldFacts DEF SameContexts, Typed, Places, Preparing,
     Operating, Waiting
<1>6. PhaseFits(u, p, released)
  BY <1>2, <1>3, <1>4 DEF LocalsFit, PhaseFits, Preparing, Operating, Waiting
<1>7. InUse(u, p)
  BY <1>2, <1>3, <1>4 DEF SameContexts, LocalsFit, InUse, PhaseFits, Preparing,
     Operating, Waiting, Handling
<1>8. ModeFits(r, u)
  BY <1>2, <1>3, <1>4, SameHeld DEF SameContexts, LocalsFit, ModeFits,
     Operating, Waiting, Handling
<1>9. StepsFit(r, u)
  BY <1>2, <1>3, <1>4, SameHeld DEF SameContexts, LocalsFit, StepsFit,
     Operating, Waiting
<1>10. CountFits(n, r, u, p)
  BY <1>2, <1>3, <1>4 DEF SameContexts, LocalsFit, CountFits, InUse, Preparing,
     Operating, Waiting
<1>11. Placed(u, next_seq, side, ignored)
  BY <1>2, <1>3, <1>4, SameHeld DEF SameContexts, LocalsFit, ModeFits, Placed,
     Within, AtHome, Waiting
<1>12. CleanFits(r, u, made, ignored)
  BY <1>2, <1>3, <1>4 DEF SameContexts, CleanFits
<1>13. Goes(n, t, p, u, p)
  BY <1>2, <1>3, <1>4, SameHeld, MadeIsInt DEF SameContexts, LocalsFit,
     PhaseFits, CountFits, Goes, MadeSoFar, Preparing, Operating, Waiting
<1>14. LocalsFit(n, r, u, p, released)
  BY <1>5, <1>6, <1>7, <1>8, <1>9, <1>10 DEF LocalsFit
<1> QED
  BY <1>1, <1>11, <1>12, <1>13, <1>14, LocalStep DEF n, r, t, p

LEMMA KillErrStep ==
    ASSUME PreparedInv, NEW w \in Crew,
           thr[w].at = "reap",
           Local(w, [at |-> "waitpid", err |-> TRUE])
    PROVE  PreparedInv'
<1> DEFINE n == iterations(w)
           r == OpTable[op]
           t == thr[w]
           p == phase[w]
<1>1. PICK u : u = With(t, [at |-> "waitpid", err |-> TRUE])
  OBVIOUS
<1>2. /\ LocalsFit(n, r, t, p, released) /\ Typed(t) /\ n \in Nat
      /\ Placed(t, next_seq, side, ignored) /\ CleanFits(r, t, made, ignored)
  BY WorkerFacts
<1>3. /\ SameContexts(t, u)
      /\ u.at = "waitpid" /\ u.cur = t.cur /\ u.idx = t.idx
      /\ u.err = TRUE /\ u.child = t.child /\ u.sock = t.sock
  BY <1>1, <1>2 DEF With, Fields, SameContexts, Typed
<1>4. t.at = "reap"
  BY DEF t
<1> HIDE DEF n, r, t, p
<1>5. Typed(u)
  BY <1>2, <1>3, <1>4, HeldFacts DEF SameContexts, Typed, Places, Preparing,
     Operating, Waiting
<1>6. PhaseFits(u, p, released)
  BY <1>2, <1>3, <1>4 DEF LocalsFit, PhaseFits, Preparing, Operating, Waiting
<1>7. InUse(u, p)
  BY <1>2, <1>3, <1>4 DEF SameContexts, LocalsFit, InUse, PhaseFits, Preparing,
     Operating, Waiting, Handling
<1>8. ModeFits(r, u)
  BY <1>2, <1>3, <1>4, SameHeld DEF SameContexts, LocalsFit, ModeFits,
     Operating, Waiting, Handling
<1>9. StepsFit(r, u)
  BY <1>2, <1>3, <1>4, SameHeld DEF SameContexts, LocalsFit, StepsFit,
     Operating, Waiting
<1>10. CountFits(n, r, u, p)
  BY <1>2, <1>3, <1>4 DEF SameContexts, LocalsFit, CountFits, InUse, Preparing,
     Operating, Waiting
<1>11. Placed(u, next_seq, side, ignored)
  BY <1>2, <1>3, <1>4, SameHeld DEF SameContexts, LocalsFit, ModeFits, Placed,
     Within, AtHome, Waiting
<1>12. CleanFits(r, u, made, ignored)
  BY <1>2, <1>3, <1>4 DEF SameContexts, CleanFits
<1>13. Goes(n, t, p, u, p)
  BY <1>2, <1>3, <1>4, SameHeld, MadeIsInt DEF SameContexts, LocalsFit,
     PhaseFits, CountFits, Goes, MadeSoFar, Preparing, Operating, Waiting
<1>14. LocalsFit(n, r, u, p, released)
  BY <1>5, <1>6, <1>7, <1>8, <1>9, <1>10 DEF LocalsFit
<1> QED
  BY <1>1, <1>11, <1>12, <1>13, <1>14, LocalStep DEF n, r, t, p

LEMMA ReapOkStep ==
    ASSUME PreparedInv, NEW w \in Crew,
           thr[w].at \in {"reap", "waitpid"},
           Local(w, [at |-> OpEnds(w), child |-> "none", sock |-> FALSE])
    PROVE  PreparedInv'
<1> DEFINE n == iterations(w)
           r == OpTable[op]
           t == thr[w]
           p == phase[w]
<1>1. PICK u : u = With(t, [at |-> OpEnds(w), child |-> "none", sock |-> FALSE])
  OBVIOUS
<1>2. /\ LocalsFit(n, r, t, p, released) /\ Typed(t) /\ n \in Nat
      /\ Placed(t, next_seq, side, ignored) /\ CleanFits(r, t, made, ignored)
  BY WorkerFacts
<1>3. /\ SameContexts(t, u)
      /\ u.at = OpEnds(w) /\ u.cur = t.cur /\ u.idx = t.idx
      /\ u.err = t.err /\ u.child = "none" /\ u.sock = FALSE
  BY <1>1, <1>2 DEF With, Fields, SameContexts, Typed
<1>4. t.at \in {"reap", "waitpid"}
      /\ OpEnds(w) = (IF r.netns = "none" THEN "after" ELSE "leaveop")
  BY DEF t, r, OpEnds, Mode
<1> HIDE DEF n, r, t, p
<1>5. Typed(u)
  BY <1>2, <1>3, <1>4, HeldFacts DEF SameContexts, Typed, Places, Preparing,
     Operating, Waiting
<1>6. PhaseFits(u, p, released)
  BY <1>2, <1>3, <1>4 DEF LocalsFit, PhaseFits, Preparing, Operating, Waiting
<1>7. InUse(u, p)
  BY <1>2, <1>3, <1>4 DEF SameContexts, LocalsFit, InUse, PhaseFits, Preparing,
     Operating, Waiting, Handling
<1>8. ModeFits(r, u)
  BY <1>2, <1>3, <1>4, SameHeld DEF SameContexts, LocalsFit, ModeFits,
     Operating, Waiting, Handling
<1>9. StepsFit(r, u)
  BY <1>2, <1>3, <1>4, SameHeld DEF SameContexts, LocalsFit, StepsFit,
     Operating, Waiting
<1>10. CountFits(n, r, u, p)
  BY <1>2, <1>3, <1>4 DEF SameContexts, LocalsFit, CountFits, InUse, Preparing,
     Operating, Waiting
<1>11. Placed(u, next_seq, side, ignored)
  BY <1>2, <1>3, <1>4, SameHeld DEF SameContexts, LocalsFit, ModeFits, Placed,
     Within, AtHome, Waiting
<1>12. CleanFits(r, u, made, ignored)
  BY <1>2, <1>3, <1>4 DEF SameContexts, CleanFits
<1>13. Goes(n, t, p, u, p)
  BY <1>2, <1>3, <1>4, SameHeld, MadeIsInt DEF SameContexts, LocalsFit,
     PhaseFits, CountFits, Goes, MadeSoFar, Preparing, Operating, Waiting
<1>14. LocalsFit(n, r, u, p, released)
  BY <1>5, <1>6, <1>7, <1>8, <1>9, <1>10 DEF LocalsFit
<1> QED
  BY <1>1, <1>11, <1>12, <1>13, <1>14, LocalStep DEF n, r, t, p

LEMMA ReapErrStep ==
    ASSUME PreparedInv, NEW w \in Crew,
           thr[w].at \in {"reap", "waitpid"},
           Local(w, [at |-> OpEnds(w), child |-> "none", err |-> TRUE])
    PROVE  PreparedInv'
<1> DEFINE n == iterations(w)
           r == OpTable[op]
           t == thr[w]
           p == phase[w]
<1>1. PICK u : u = With(t, [at |-> OpEnds(w), child |-> "none", err |-> TRUE])
  OBVIOUS
<1>2. /\ LocalsFit(n, r, t, p, released) /\ Typed(t) /\ n \in Nat
      /\ Placed(t, next_seq, side, ignored) /\ CleanFits(r, t, made, ignored)
  BY WorkerFacts
<1>3. /\ SameContexts(t, u)
      /\ u.at = OpEnds(w) /\ u.cur = t.cur /\ u.idx = t.idx
      /\ u.err = TRUE /\ u.child = "none" /\ u.sock = t.sock
  BY <1>1, <1>2 DEF With, Fields, SameContexts, Typed
<1>4. t.at \in {"reap", "waitpid"}
      /\ OpEnds(w) = (IF r.netns = "none" THEN "after" ELSE "leaveop")
  BY DEF t, r, OpEnds, Mode
<1> HIDE DEF n, r, t, p
<1>5. Typed(u)
  BY <1>2, <1>3, <1>4, HeldFacts DEF SameContexts, Typed, Places, Preparing,
     Operating, Waiting
<1>6. PhaseFits(u, p, released)
  BY <1>2, <1>3, <1>4 DEF LocalsFit, PhaseFits, Preparing, Operating, Waiting
<1>7. InUse(u, p)
  BY <1>2, <1>3, <1>4 DEF SameContexts, LocalsFit, InUse, PhaseFits, Preparing,
     Operating, Waiting, Handling
<1>8. ModeFits(r, u)
  BY <1>2, <1>3, <1>4, SameHeld DEF SameContexts, LocalsFit, ModeFits,
     Operating, Waiting, Handling
<1>9. StepsFit(r, u)
  BY <1>2, <1>3, <1>4, SameHeld DEF SameContexts, LocalsFit, StepsFit,
     Operating, Waiting
<1>10. CountFits(n, r, u, p)
  BY <1>2, <1>3, <1>4 DEF SameContexts, LocalsFit, CountFits, InUse, Preparing,
     Operating, Waiting
<1>11. Placed(u, next_seq, side, ignored)
  BY <1>2, <1>3, <1>4, SameHeld DEF SameContexts, LocalsFit, ModeFits, Placed,
     Within, AtHome, Waiting
<1>12. CleanFits(r, u, made, ignored)
  BY <1>2, <1>3, <1>4 DEF SameContexts, CleanFits
<1>13. Goes(n, t, p, u, p)
  BY <1>2, <1>3, <1>4, SameHeld, MadeIsInt DEF SameContexts, LocalsFit,
     PhaseFits, CountFits, Goes, MadeSoFar, Preparing, Operating, Waiting
<1>14. LocalsFit(n, r, u, p, released)
  BY <1>5, <1>6, <1>7, <1>8, <1>9, <1>10 DEF LocalsFit
<1> QED
  BY <1>1, <1>11, <1>12, <1>13, <1>14, LocalStep DEF n, r, t, p

LEMMA NextStep ==
    ASSUME PreparedInv, NEW w \in Crew,
           thr[w].at = "drop",
           thr[w].doomed = <<>>,
           phase[w] = "run",
           ~thr[w].err,
           Local(w, [at |-> "next"])
    PROVE  PreparedInv'
<1> DEFINE n == iterations(w)
           r == OpTable[op]
           t == thr[w]
           p == phase[w]
<1>1. PICK u : u = With(t, [at |-> "next"])
  OBVIOUS
<1>2. /\ LocalsFit(n, r, t, p, released) /\ Typed(t) /\ n \in Nat
      /\ Placed(t, next_seq, side, ignored) /\ CleanFits(r, t, made, ignored)
  BY WorkerFacts
<1>3. /\ SameContexts(t, u)
      /\ u.at = "next" /\ u.cur = t.cur /\ u.idx = t.idx
      /\ u.err = t.err /\ u.child = t.child /\ u.sock = t.sock
  BY <1>1, <1>2 DEF With, Fields, SameContexts, Typed
<1>4. t.at = "drop" /\ t.doomed = <<>> /\ p = "run" /\ ~t.err
  BY DEF t, p
<1> HIDE DEF n, r, t, p
<1>5. Typed(u)
  BY <1>2, <1>3, <1>4, HeldFacts DEF SameContexts, Typed, Places, Preparing,
     Operating, Waiting
<1>6. PhaseFits(u, p, released)
  BY <1>2, <1>3, <1>4 DEF LocalsFit, PhaseFits, Preparing, Operating, Waiting
<1>7. InUse(u, p)
  BY <1>2, <1>3, <1>4 DEF SameContexts, LocalsFit, InUse, PhaseFits, Preparing,
     Operating, Waiting, Handling
<1>8. ModeFits(r, u)
  BY <1>2, <1>3, <1>4, SameHeld DEF SameContexts, LocalsFit, ModeFits,
     Operating, Waiting, Handling
<1>9. StepsFit(r, u)
  BY <1>2, <1>3, <1>4, SameHeld DEF SameContexts, LocalsFit, StepsFit,
     Operating, Waiting
<1>10. CountFits(n, r, u, p)
  BY <1>2, <1>3, <1>4 DEF SameContexts, LocalsFit, CountFits, InUse, Preparing,
     Operating, Waiting
<1>11. Placed(u, next_seq, side, ignored)
  BY <1>2, <1>3, <1>4, SameHeld DEF SameContexts, LocalsFit, ModeFits, Placed,
     Within, AtHome, Waiting
<1>12. CleanFits(r, u, made, ignored)
  BY <1>2, <1>3, <1>4 DEF SameContexts, CleanFits
<1>13. Goes(n, t, p, u, p)
  BY <1>2, <1>3, <1>4, SameHeld, MadeIsInt DEF SameContexts, LocalsFit,
     PhaseFits, CountFits, Goes, MadeSoFar, Preparing, Operating, Waiting
<1>14. LocalsFit(n, r, u, p, released)
  BY <1>5, <1>6, <1>7, <1>8, <1>9, <1>10 DEF LocalsFit
<1> QED
  BY <1>1, <1>11, <1>12, <1>13, <1>14, LocalStep DEF n, r, t, p

-----------------------------------------------------------------------------
(***************************************************************************)
(* The steps through the gates.                                            *)
(***************************************************************************)
LEMMA PreparedStep ==
    ASSUME PreparedInv, NEW w \in Crew,
           thr[w].at = "iter",
           Len(thr[w].contexts) = iterations(w),
           ~failure,
           Ready(w),
           UNCHANGED <<op, hostVars>>,
           Set(w, [at |-> "gate"])
    PROVE  PreparedInv'
<1> DEFINE n == iterations(w)
           r == OpTable[op]
           t == thr[w]
           p == phase[w]
           q == phase'[w]
<1>0. q = "gate"
  BY WorkerFacts DEF Ready, Go
<1>1. PICK u : u = With(t, [at |-> "gate"])
  OBVIOUS
<1>2. /\ LocalsFit(n, r, t, p, released) /\ Typed(t) /\ n \in Nat
      /\ Placed(t, next_seq, side, ignored) /\ CleanFits(r, t, made, ignored)
  BY WorkerFacts
<1>3. /\ SameContexts(t, u)
      /\ u.at = "gate" /\ u.cur = t.cur /\ u.idx = t.idx
      /\ u.err = t.err /\ u.child = t.child /\ u.sock = t.sock
  BY <1>1, <1>2 DEF With, Fields, SameContexts, Typed
<1>4. t.at = "iter" /\ Len(t.contexts) = n
  BY DEF t, n
<1> HIDE DEF n, r, t, p, q
<1>5. Typed(u)
  BY <1>2, <1>3, <1>0, <1>4, HeldFacts DEF SameContexts, Typed, Places,
     Preparing, Operating, Waiting
<1>6. PhaseFits(u, q, released)
  BY <1>2, <1>3, <1>0, <1>4 DEF LocalsFit, PhaseFits, Preparing, Operating,
     Waiting
<1>7. InUse(u, q)
  BY <1>2, <1>3, <1>0, <1>4 DEF SameContexts, LocalsFit, InUse, PhaseFits,
     Preparing, Operating, Waiting, Handling
<1>8. ModeFits(r, u)
  BY <1>2, <1>3, <1>0, <1>4, SameHeld DEF SameContexts, LocalsFit, ModeFits,
     Operating, Waiting, Handling
<1>9. StepsFit(r, u)
  BY <1>2, <1>3, <1>0, <1>4, SameHeld DEF SameContexts, LocalsFit, StepsFit,
     Operating, Waiting
<1>10. CountFits(n, r, u, q)
  BY <1>2, <1>3, <1>0, <1>4 DEF SameContexts, LocalsFit, CountFits, InUse,
     Preparing, Operating, Waiting
<1>11. Placed(u, next_seq, side, ignored)
  BY <1>2, <1>3, <1>0, <1>4, SameHeld DEF SameContexts, LocalsFit, ModeFits,
     Placed, Within, AtHome, Waiting
<1>12. CleanFits(r, u, made, ignored)
  BY <1>2, <1>3, <1>0, <1>4 DEF SameContexts, CleanFits
<1>13. Goes(n, t, p, u, q)
  BY <1>2, <1>3, <1>0, <1>4, SameHeld, MadeIsInt DEF SameContexts, LocalsFit,
     PhaseFits, CountFits, Goes, MadeSoFar, Preparing, Operating, Waiting
<1>14. LocalsFit(n, r, u, q, released)
  BY <1>5, <1>6, <1>7, <1>8, <1>9, <1>10 DEF LocalsFit
<1>15. thr' = [thr EXCEPT ![w] = u]
  BY <1>1 DEF Set, t
<1> QED
  BY <1>11, <1>12, <1>13, <1>14, <1>15, QuietStep DEF n, r, t, p, q, hostVars,
     GateWorker

LEMMA BeginRunStep ==
    ASSUME PreparedInv, NEW w \in Crew,
           thr[w].at = "gate",
           Begin(w),
           UNCHANGED <<op, hostVars>>,
           Set(w, [at |-> "next"])
    PROVE  PreparedInv'
<1> DEFINE n == iterations(w)
           r == OpTable[op]
           t == thr[w]
           p == phase[w]
           q == phase'[w]
<1>0. q = "run"
  BY WorkerFacts DEF Begin, Go
<1>1. PICK u : u = With(t, [at |-> "next"])
  OBVIOUS
<1>2. /\ LocalsFit(n, r, t, p, released) /\ Typed(t) /\ n \in Nat
      /\ Placed(t, next_seq, side, ignored) /\ CleanFits(r, t, made, ignored)
  BY WorkerFacts
<1>3. /\ SameContexts(t, u)
      /\ u.at = "next" /\ u.cur = t.cur /\ u.idx = t.idx
      /\ u.err = t.err /\ u.child = t.child /\ u.sock = t.sock
  BY <1>1, <1>2 DEF With, Fields, SameContexts, Typed
<1>4. t.at = "gate" /\ t.completed = <<>>
  BY WorkerFacts DEF InUse, t
<1> HIDE DEF n, r, t, p, q
<1>5. Typed(u)
  BY <1>2, <1>3, <1>0, <1>4, HeldFacts DEF SameContexts, Typed, Places,
     Preparing, Operating, Waiting
<1>6. PhaseFits(u, q, released)
  BY <1>2, <1>3, <1>0, <1>4 DEF LocalsFit, PhaseFits, Preparing, Operating,
     Waiting
<1>7. InUse(u, q)
  BY <1>2, <1>3, <1>0, <1>4 DEF SameContexts, LocalsFit, InUse, PhaseFits,
     Preparing, Operating, Waiting, Handling
<1>8. ModeFits(r, u)
  BY <1>2, <1>3, <1>0, <1>4, SameHeld DEF SameContexts, LocalsFit, ModeFits,
     Operating, Waiting, Handling
<1>9. StepsFit(r, u)
  BY <1>2, <1>3, <1>0, <1>4, SameHeld DEF SameContexts, LocalsFit, StepsFit,
     Operating, Waiting
<1>10. CountFits(n, r, u, q)
  BY <1>2, <1>3, <1>0, <1>4 DEF SameContexts, LocalsFit, CountFits, InUse,
     Preparing, Operating, Waiting
<1>11. Placed(u, next_seq, side, ignored)
  BY <1>2, <1>3, <1>0, <1>4, SameHeld DEF SameContexts, LocalsFit, ModeFits,
     Placed, Within, AtHome, Waiting
<1>12. CleanFits(r, u, made, ignored)
  BY <1>2, <1>3, <1>0, <1>4 DEF SameContexts, CleanFits
<1>13. Goes(n, t, p, u, q)
  BY <1>2, <1>3, <1>0, <1>4, SameHeld, MadeIsInt DEF SameContexts, LocalsFit,
     PhaseFits, CountFits, Goes, MadeSoFar, Preparing, Operating, Waiting
<1>14. LocalsFit(n, r, u, q, released)
  BY <1>5, <1>6, <1>7, <1>8, <1>9, <1>10 DEF LocalsFit
<1>15. thr' = [thr EXCEPT ![w] = u]
  BY <1>1 DEF Set, t
<1> QED
  BY <1>11, <1>12, <1>13, <1>14, <1>15, QuietStep DEF n, r, t, p, q, hostVars,
     GateWorker

LEMMA AllMeasuredStep ==
    ASSUME PreparedInv, NEW w \in Crew,
           thr[w].at = "next",
           thr[w].contexts = <<>>,
           Finished(w),
           UNCHANGED <<op, hostVars>>,
           Set(w, [at |-> "finish"])
    PROVE  PreparedInv'
<1> DEFINE n == iterations(w)
           r == OpTable[op]
           t == thr[w]
           p == phase[w]
           q == phase'[w]
<1>0. q = "finish"
  BY WorkerFacts DEF PreparedInv, GatesPassed, Finished, Go
<1>1. PICK u : u = With(t, [at |-> "finish"])
  OBVIOUS
<1>2. /\ LocalsFit(n, r, t, p, released) /\ Typed(t) /\ n \in Nat
      /\ Placed(t, next_seq, side, ignored) /\ CleanFits(r, t, made, ignored)
  BY WorkerFacts
<1>3. /\ SameContexts(t, u)
      /\ u.at = "finish" /\ u.cur = t.cur /\ u.idx = t.idx
      /\ u.err = t.err /\ u.child = t.child /\ u.sock = t.sock
  BY <1>1, <1>2 DEF With, Fields, SameContexts, Typed
<1>4. t.at = "next" /\ t.contexts = <<>>
  BY DEF t
<1> HIDE DEF n, r, t, p, q
<1>5. Typed(u)
  BY <1>2, <1>3, <1>0, <1>4, HeldFacts DEF SameContexts, Typed, Places,
     Preparing, Operating, Waiting
<1>6. PhaseFits(u, q, released)
  BY <1>2, <1>3, <1>0, <1>4 DEF LocalsFit, PhaseFits, Preparing, Operating,
     Waiting
<1>7. InUse(u, q)
  BY <1>2, <1>3, <1>0, <1>4 DEF SameContexts, LocalsFit, InUse, PhaseFits,
     Preparing, Operating, Waiting, Handling
<1>8. ModeFits(r, u)
  BY <1>2, <1>3, <1>0, <1>4, SameHeld DEF SameContexts, LocalsFit, ModeFits,
     Operating, Waiting, Handling
<1>9. StepsFit(r, u)
  BY <1>2, <1>3, <1>0, <1>4, SameHeld DEF SameContexts, LocalsFit, StepsFit,
     Operating, Waiting
<1>10. CountFits(n, r, u, q)
  BY <1>2, <1>3, <1>0, <1>4 DEF SameContexts, LocalsFit, CountFits, InUse,
     Preparing, Operating, Waiting
<1>11. Placed(u, next_seq, side, ignored)
  BY <1>2, <1>3, <1>0, <1>4, SameHeld DEF SameContexts, LocalsFit, ModeFits,
     Placed, Within, AtHome, Waiting
<1>12. CleanFits(r, u, made, ignored)
  BY <1>2, <1>3, <1>0, <1>4 DEF SameContexts, CleanFits
<1>13. Goes(n, t, p, u, q)
  BY <1>2, <1>3, <1>0, <1>4, SameHeld, MadeIsInt DEF SameContexts, LocalsFit,
     PhaseFits, CountFits, Goes, MadeSoFar, Preparing, Operating, Waiting
<1>14. LocalsFit(n, r, u, q, released)
  BY <1>5, <1>6, <1>7, <1>8, <1>9, <1>10 DEF LocalsFit
<1>15. thr' = [thr EXCEPT ![w] = u]
  BY <1>1 DEF Set, t
<1> QED
  BY <1>11, <1>12, <1>13, <1>14, <1>15, QuietStep DEF n, r, t, p, q, hostVars,
     GateWorker

LEMMA EndedStep ==
    ASSUME PreparedInv, NEW w \in Crew,
           thr[w].at = "drop",
           thr[w].doomed = <<>>,
           ~(phase[w] = "run" /\ ~thr[w].err),
           PrepareFailed(w) \/ GiveUp(w) \/ OpFailed(w) \/ Leave(w),
           UNCHANGED <<op, hostVars>>,
           Set(w, [at |-> "ended"])
    PROVE  PreparedInv'
<1> DEFINE n == iterations(w)
           r == OpTable[op]
           t == thr[w]
           p == phase[w]
           q == phase'[w]
<1>0. q = "failed" \/ q = "done"
  BY WorkerFacts DEF PrepareFailed, GiveUp, OpFailed, Leave, Go
<1>1. PICK u : u = With(t, [at |-> "ended"])
  OBVIOUS
<1>2. /\ LocalsFit(n, r, t, p, released) /\ Typed(t) /\ n \in Nat
      /\ Placed(t, next_seq, side, ignored) /\ CleanFits(r, t, made, ignored)
  BY WorkerFacts
<1>3. /\ SameContexts(t, u)
      /\ u.at = "ended" /\ u.cur = t.cur /\ u.idx = t.idx
      /\ u.err = t.err /\ u.child = t.child /\ u.sock = t.sock
  BY <1>1, <1>2 DEF With, Fields, SameContexts, Typed
<1>4. t.at = "drop" /\ t.doomed = <<>> /\ (p # "run" \/ t.err)
  BY WorkerFacts DEF t, p, Typed
<1> HIDE DEF n, r, t, p, q
<1>5. Typed(u)
  BY <1>2, <1>3, <1>0, <1>4, HeldFacts DEF SameContexts, Typed, Places,
     Preparing, Operating, Waiting
<1>6. PhaseFits(u, q, released)
  BY <1>2, <1>3, <1>0, <1>4 DEF LocalsFit, PhaseFits, Preparing, Operating,
     Waiting
<1>7. InUse(u, q)
  BY <1>2, <1>3, <1>0, <1>4 DEF SameContexts, LocalsFit, InUse, PhaseFits,
     Preparing, Operating, Waiting, Handling
<1>8. ModeFits(r, u)
  BY <1>2, <1>3, <1>0, <1>4, SameHeld DEF SameContexts, LocalsFit, ModeFits,
     Operating, Waiting, Handling
<1>9. StepsFit(r, u)
  BY <1>2, <1>3, <1>0, <1>4, SameHeld DEF SameContexts, LocalsFit, StepsFit,
     Operating, Waiting
<1>10. CountFits(n, r, u, q)
  BY <1>2, <1>3, <1>0, <1>4 DEF SameContexts, LocalsFit, CountFits, InUse,
     Preparing, Operating, Waiting
<1>11. Placed(u, next_seq, side, ignored)
  BY <1>2, <1>3, <1>0, <1>4, SameHeld DEF SameContexts, LocalsFit, ModeFits,
     Placed, Within, AtHome, Waiting
<1>12. CleanFits(r, u, made, ignored)
  BY <1>2, <1>3, <1>0, <1>4 DEF SameContexts, CleanFits
<1>13. Goes(n, t, p, u, q)
  BY <1>2, <1>3, <1>0, <1>4, SameHeld, MadeIsInt DEF SameContexts, LocalsFit,
     PhaseFits, CountFits, Goes, MadeSoFar, Preparing, Operating, Waiting
<1>14. LocalsFit(n, r, u, q, released)
  BY <1>5, <1>6, <1>7, <1>8, <1>9, <1>10 DEF LocalsFit
<1>15. thr' = [thr EXCEPT ![w] = u]
  BY <1>1 DEF Set, t
<1> QED
  BY <1>11, <1>12, <1>13, <1>14, <1>15, QuietStep DEF n, r, t, p, q, hostVars,
     GateWorker

-----------------------------------------------------------------------------
(***************************************************************************)
(* Leaving a namespace, whether or not anybody looks at the result.        *)
(***************************************************************************)
LEMMA DropLeaveStep ==
    ASSUME PreparedInv, NEW w \in Crew,
           thr[w].at = "drop",
           thr[w].doomed # <<>>,
           UNCHANGED <<gateVars, op, next_seq, made, side>>,
           UNCHANGED ignored,
           Set(w, [idx |-> 1, cur |-> Head(thr[w].doomed).root])
    PROVE  PreparedInv'
<1> DEFINE n == iterations(w)
           r == OpTable[op]
           t == thr[w]
           p == phase[w]
<1>1. PICK u : u = With(t, [idx |-> 1, cur |-> Head(t.doomed).root])
  OBVIOUS
<1>2. /\ LocalsFit(n, r, t, p, released) /\ Typed(t) /\ n \in Nat
      /\ Placed(t, next_seq, side, ignored) /\ CleanFits(r, t, made, ignored)
  BY WorkerFacts
<1>3. /\ SameContexts(t, u)
      /\ u.at = t.at /\ u.cur = Head(t.doomed).root /\ u.idx = 1
      /\ u.err = t.err /\ u.child = t.child /\ u.sock = t.sock
  BY <1>1, <1>2 DEF With, Fields, SameContexts, Typed
<1>4. t.at = "drop" /\ t.doomed # <<>> /\ Head(t.doomed).root \in 0..Total
      /\ (ignored = {} \/ r.netns = "none" => Head(t.doomed).root = Root)
      /\ Len(CleanupOf(r)) >= 1
  BY WorkerFacts, HeldFacts, RootsHome DEF t, r, CleanupOf, cleanup
<1> HIDE DEF n, r, t, p
<1>5. Typed(u)
  BY <1>2, <1>3, <1>4, HeldFacts DEF SameContexts, Typed, Places, Preparing,
     Operating, Waiting
<1>6. PhaseFits(u, p, released)
  BY <1>2, <1>3, <1>4 DEF LocalsFit, PhaseFits, Preparing, Operating, Waiting
<1>7. InUse(u, p)
  BY <1>2, <1>3, <1>4 DEF SameContexts, LocalsFit, InUse, PhaseFits, Preparing,
     Operating, Waiting, Handling
<1>8. ModeFits(r, u)
  BY <1>2, <1>3, <1>4, SameHeld DEF SameContexts, LocalsFit, ModeFits,
     Operating, Waiting, Handling
<1>9. StepsFit(r, u)
  BY <1>2, <1>3, <1>4, SameHeld DEF SameContexts, LocalsFit, StepsFit,
     Operating, Waiting
<1>10. CountFits(n, r, u, p)
  BY <1>2, <1>3, <1>4 DEF SameContexts, LocalsFit, CountFits, InUse, Preparing,
     Operating, Waiting
<1>11. Placed(u, next_seq, side, ignored)
  BY <1>2, <1>3, <1>4, SameHeld DEF SameContexts, LocalsFit, ModeFits, Placed,
     Within, AtHome, Waiting
<1>12. CleanFits(r, u, made, ignored)
  BY <1>2, <1>3, <1>4 DEF SameContexts, CleanFits
<1>13. Goes(n, t, p, u, p)
  BY <1>2, <1>3, <1>4, SameHeld, MadeIsInt DEF SameContexts, LocalsFit,
     PhaseFits, CountFits, Goes, MadeSoFar, Preparing, Operating, Waiting
<1>14. LocalsFit(n, r, u, p, released)
  BY <1>5, <1>6, <1>7, <1>8, <1>9, <1>10 DEF LocalsFit
<1>16. /\ op' = op /\ UNCHANGED gateVars /\ UNCHANGED <<next_seq, made, side>>
      /\ ignored \subseteq ignored' /\ phase' = phase
  BY DEF MayIgnore, gateVars
<1>15. thr' = [thr EXCEPT ![w] = u]
  BY <1>1 DEF Set, t
<1> QED
  BY <1>11, <1>12, <1>13, <1>14, <1>15, <1>16, QuietStep DEF n, r, t, p

LEMMA DropLeaveIgnoredStep ==
    ASSUME PreparedInv, NEW w \in Crew,
           thr[w].at = "drop",
           thr[w].doomed # <<>>,
           UNCHANGED <<gateVars, op, next_seq, made, side>>,
           MayIgnore(Head(thr[w].doomed).seq),
           Set(w, [idx |-> 1])
    PROVE  PreparedInv'
<1> DEFINE n == iterations(w)
           r == OpTable[op]
           t == thr[w]
           p == phase[w]
<1>1. PICK u : u = With(t, [idx |-> 1])
  OBVIOUS
<1>2. /\ LocalsFit(n, r, t, p, released) /\ Typed(t) /\ n \in Nat
      /\ Placed(t, next_seq, side, ignored) /\ CleanFits(r, t, made, ignored)
  BY WorkerFacts
<1>3. /\ SameContexts(t, u)
      /\ u.at = t.at /\ u.cur = t.cur /\ u.idx = 1
      /\ u.err = t.err /\ u.child = t.child /\ u.sock = t.sock
  BY <1>1, <1>2 DEF With, Fields, SameContexts, Typed
<1>4. t.at = "drop" /\ t.doomed # <<>> /\ Head(t.doomed).root \in 0..Total
      /\ (ignored = {} \/ r.netns = "none" => Head(t.doomed).root = Root)
      /\ Len(CleanupOf(r)) >= 1
      /\ Head(t.doomed).seq \in ignored' /\ ignored \subseteq ignored'
  BY WorkerFacts, HeldFacts, RootsHome DEF t, r, CleanupOf, cleanup, MayIgnore
<1> HIDE DEF n, r, t, p
<1>5. Typed(u)
  BY <1>2, <1>3, <1>4, HeldFacts DEF SameContexts, Typed, Places, Preparing,
     Operating, Waiting
<1>6. PhaseFits(u, p, released)
  BY <1>2, <1>3, <1>4 DEF LocalsFit, PhaseFits, Preparing, Operating, Waiting
<1>7. InUse(u, p)
  BY <1>2, <1>3, <1>4 DEF SameContexts, LocalsFit, InUse, PhaseFits, Preparing,
     Operating, Waiting, Handling
<1>8. ModeFits(r, u)
  BY <1>2, <1>3, <1>4, SameHeld DEF SameContexts, LocalsFit, ModeFits,
     Operating, Waiting, Handling
<1>9. StepsFit(r, u)
  BY <1>2, <1>3, <1>4, SameHeld DEF SameContexts, LocalsFit, StepsFit,
     Operating, Waiting
<1>10. CountFits(n, r, u, p)
  BY <1>2, <1>3, <1>4 DEF SameContexts, LocalsFit, CountFits, InUse, Preparing,
     Operating, Waiting
<1>11. Placed(u, next_seq, side, ignored')
  BY <1>2, <1>3, <1>4, SameHeld DEF SameContexts, LocalsFit, ModeFits, Placed,
     Within, AtHome, Waiting
<1>12. CleanFits(r, u, made, ignored')
  BY <1>2, <1>3, <1>4 DEF SameContexts, CleanFits
<1>13. Goes(n, t, p, u, p)
  BY <1>2, <1>3, <1>4, SameHeld, MadeIsInt DEF SameContexts, LocalsFit,
     PhaseFits, CountFits, Goes, MadeSoFar, Preparing, Operating, Waiting
<1>14. LocalsFit(n, r, u, p, released)
  BY <1>5, <1>6, <1>7, <1>8, <1>9, <1>10 DEF LocalsFit
<1>16. /\ op' = op /\ UNCHANGED gateVars /\ UNCHANGED <<next_seq, made, side>>
      /\ ignored \subseteq ignored' /\ phase' = phase
  BY DEF MayIgnore, gateVars
<1>15. thr' = [thr EXCEPT ![w] = u]
  BY <1>1 DEF Set, t
<1> QED
  BY <1>11, <1>12, <1>13, <1>14, <1>15, <1>16, QuietStep DEF n, r, t, p

LEMMA LeftIgnoredStep ==
    ASSUME PreparedInv, NEW w \in Crew,
           thr[w].at = "leave",
           ~thr[w].err,
           UNCHANGED <<gateVars, op, next_seq, made, side>>,
           MayIgnore(thr[w].ctx.seq),
           Set(w, [at |-> "push"])
    PROVE  PreparedInv'
<1> DEFINE n == iterations(w)
           r == OpTable[op]
           t == thr[w]
           p == phase[w]
<1>1. PICK u : u = With(t, [at |-> "push"])
  OBVIOUS
<1>2. /\ LocalsFit(n, r, t, p, released) /\ Typed(t) /\ n \in Nat
      /\ Placed(t, next_seq, side, ignored) /\ CleanFits(r, t, made, ignored)
  BY WorkerFacts
<1>3. /\ SameContexts(t, u)
      /\ u.at = "push" /\ u.cur = t.cur /\ u.idx = t.idx
      /\ u.err = t.err /\ u.child = t.child /\ u.sock = t.sock
  BY <1>1, <1>2 DEF With, Fields, SameContexts, Typed
<1>4. t.at = "leave" /\ ~t.err /\ t.ctx.seq \in ignored'
      /\ ignored \subseteq ignored'
  BY DEF t, MayIgnore
<1> HIDE DEF n, r, t, p
<1>5. Typed(u)
  BY <1>2, <1>3, <1>4, HeldFacts DEF SameContexts, Typed, Places, Preparing,
     Operating, Waiting
<1>6. PhaseFits(u, p, released)
  BY <1>2, <1>3, <1>4 DEF LocalsFit, PhaseFits, Preparing, Operating, Waiting
<1>7. InUse(u, p)
  BY <1>2, <1>3, <1>4 DEF SameContexts, LocalsFit, InUse, PhaseFits, Preparing,
     Operating, Waiting, Handling
<1>8. ModeFits(r, u)
  BY <1>2, <1>3, <1>4, SameHeld DEF SameContexts, LocalsFit, ModeFits,
     Operating, Waiting, Handling
<1>9. StepsFit(r, u)
  BY <1>2, <1>3, <1>4, SameHeld DEF SameContexts, LocalsFit, StepsFit,
     Operating, Waiting
<1>10. CountFits(n, r, u, p)
  BY <1>2, <1>3, <1>4 DEF SameContexts, LocalsFit, CountFits, InUse, Preparing,
     Operating, Waiting
<1>11. Placed(u, next_seq, side, ignored')
  BY <1>2, <1>3, <1>4, SameHeld DEF SameContexts, LocalsFit, ModeFits, Placed,
     Within, AtHome, Waiting
<1>12. CleanFits(r, u, made, ignored')
  BY <1>2, <1>3, <1>4 DEF SameContexts, CleanFits
<1>13. Goes(n, t, p, u, p)
  BY <1>2, <1>3, <1>4, SameHeld, MadeIsInt DEF SameContexts, LocalsFit,
     PhaseFits, CountFits, Goes, MadeSoFar, Preparing, Operating, Waiting
<1>14. LocalsFit(n, r, u, p, released)
  BY <1>5, <1>6, <1>7, <1>8, <1>9, <1>10 DEF LocalsFit
<1>16. /\ op' = op /\ UNCHANGED gateVars /\ UNCHANGED <<next_seq, made, side>>
      /\ ignored \subseteq ignored' /\ phase' = phase
  BY DEF MayIgnore, gateVars
<1>15. thr' = [thr EXCEPT ![w] = u]
  BY <1>1 DEF Set, t
<1> QED
  BY <1>11, <1>12, <1>13, <1>14, <1>15, <1>16, QuietStep DEF n, r, t, p

LEMMA LeftStep ==
    ASSUME PreparedInv, NEW w \in Crew,
           thr[w].at = "leave",
           ~thr[w].err,
           UNCHANGED <<gateVars, op, next_seq, made, side>>,
           UNCHANGED ignored,
           thr' = [thr EXCEPT ![w] =
                      With([@ EXCEPT !.cur = thr[w].ctx.root], [at |-> "push"])]
    PROVE  PreparedInv'
<1> DEFINE n == iterations(w)
           r == OpTable[op]
           t == thr[w]
           p == phase[w]
<1>1. PICK u : u = With([t EXCEPT !.cur = t.ctx.root], [at |-> "push"])
  OBVIOUS
<1>2. /\ LocalsFit(n, r, t, p, released) /\ Typed(t) /\ n \in Nat
      /\ Placed(t, next_seq, side, ignored) /\ CleanFits(r, t, made, ignored)
  BY WorkerFacts
<1>3. /\ SameContexts(t, u)
      /\ u.at = "push" /\ u.cur = t.ctx.root /\ u.idx = t.idx
      /\ u.err = t.err /\ u.child = t.child /\ u.sock = t.sock
  BY <1>1, <1>2 DEF With, Fields, SameContexts, Typed
<1>4. t.at = "leave" /\ ~t.err /\ t.ctx.root \in 0..Total
      /\ (ignored = {} \/ r.netns = "none" => t.ctx.root = Root)
  BY WorkerFacts, HeldFacts, RootsHome DEF t, r
<1> HIDE DEF n, r, t, p
<1>5. Typed(u)
  BY <1>2, <1>3, <1>4, HeldFacts DEF SameContexts, Typed, Places, Preparing,
     Operating, Waiting
<1>6. PhaseFits(u, p, released)
  BY <1>2, <1>3, <1>4 DEF LocalsFit, PhaseFits, Preparing, Operating, Waiting
<1>7. InUse(u, p)
  BY <1>2, <1>3, <1>4 DEF SameContexts, LocalsFit, InUse, PhaseFits, Preparing,
     Operating, Waiting, Handling
<1>8. ModeFits(r, u)
  BY <1>2, <1>3, <1>4, SameHeld DEF SameContexts, LocalsFit, ModeFits,
     Operating, Waiting, Handling
<1>9. StepsFit(r, u)
  BY <1>2, <1>3, <1>4, SameHeld DEF SameContexts, LocalsFit, StepsFit,
     Operating, Waiting
<1>10. CountFits(n, r, u, p)
  BY <1>2, <1>3, <1>4 DEF SameContexts, LocalsFit, CountFits, InUse, Preparing,
     Operating, Waiting
<1>11. Placed(u, next_seq, side, ignored)
  BY <1>2, <1>3, <1>4, SameHeld DEF SameContexts, LocalsFit, ModeFits, Placed,
     Within, AtHome, Waiting
<1>12. CleanFits(r, u, made, ignored)
  BY <1>2, <1>3, <1>4 DEF SameContexts, CleanFits
<1>13. Goes(n, t, p, u, p)
  BY <1>2, <1>3, <1>4, SameHeld, MadeIsInt DEF SameContexts, LocalsFit,
     PhaseFits, CountFits, Goes, MadeSoFar, Preparing, Operating, Waiting
<1>14. LocalsFit(n, r, u, p, released)
  BY <1>5, <1>6, <1>7, <1>8, <1>9, <1>10 DEF LocalsFit
<1>16. /\ op' = op /\ UNCHANGED gateVars /\ UNCHANGED <<next_seq, made, side>>
      /\ ignored \subseteq ignored' /\ phase' = phase
  BY DEF MayIgnore, gateVars
<1>15. thr' = [thr EXCEPT ![w] = u]
  BY <1>1 DEF t
<1> QED
  BY <1>11, <1>12, <1>13, <1>14, <1>15, <1>16, QuietStep DEF n, r, t, p

-----------------------------------------------------------------------------
(***************************************************************************)
(* A step of the restore path is taken.                                    *)
(***************************************************************************)
LEMMA BeginBuildStep ==
    ASSUME PreparedInv, NEW w \in Crew,
           thr[w].at = "iter",
           Len(thr[w].contexts) < iterations(w),
           OpTable[op].netns = "none",
           Local(w, [at |-> "build", ctx |-> NoContext])
    PROVE  PreparedInv'
<1> DEFINE n == iterations(w)
           r == OpTable[op]
           t == thr[w]
           p == phase[w]
<1>1. PICK u : u = With(t, [at |-> "build", ctx |-> NoContext])
  OBVIOUS
<1>2. /\ LocalsFit(n, r, t, p, released) /\ Typed(t) /\ n \in Nat
      /\ Placed(t, next_seq, side, ignored) /\ CleanFits(r, t, made, ignored)
  BY WorkerFacts
<1>3. /\ SameContexts(t, u)
      /\ u.at = "build" /\ u.cur = t.cur /\ u.idx = t.idx
      /\ u.err = t.err /\ u.child = t.child /\ u.sock = t.sock
  BY <1>1, <1>2 DEF With, Fields, SameContexts, Typed, LocalsFit, InUse,
     Handling, Operating, Waiting, NoContext
<1>4. t.at = "iter" /\ Len(t.contexts) < n /\ r.netns = "none"
      /\ t.ctx = NoContext
  BY WorkerFacts DEF InUse, Handling, Operating, Waiting, t, n, r
<1> HIDE DEF n, r, t, p
<1>5. Typed(u)
  BY <1>2, <1>3, <1>4, HeldFacts DEF SameContexts, Typed, Places, Preparing,
     Operating, Waiting
<1>6. PhaseFits(u, p, released)
  BY <1>2, <1>3, <1>4 DEF LocalsFit, PhaseFits, Preparing, Operating, Waiting
<1>7. InUse(u, p)
  BY <1>2, <1>3, <1>4 DEF SameContexts, LocalsFit, InUse, PhaseFits, Preparing,
     Operating, Waiting, Handling
<1>8. ModeFits(r, u)
  BY <1>2, <1>3, <1>4, SameHeld DEF SameContexts, LocalsFit, ModeFits,
     Operating, Waiting, Handling
<1>9. StepsFit(r, u)
  BY <1>2, <1>3, <1>4, SameHeld DEF SameContexts, LocalsFit, StepsFit,
     Operating, Waiting, NoContext
<1>10. CountFits(n, r, u, p)
  BY <1>2, <1>3, <1>4 DEF SameContexts, LocalsFit, CountFits, InUse, Preparing,
     Operating, Waiting
<1>11. Placed(u, next_seq, side, ignored)
  BY <1>2, <1>3, <1>4, SameHeld DEF SameContexts, LocalsFit, ModeFits, Placed,
     Within, AtHome, Waiting, NoContext, Root, NoNetns
<1>12. CleanFits(r, u, made, ignored)
  BY <1>2, <1>3, <1>4 DEF SameContexts, CleanFits
<1>13. Goes(n, t, p, u, p)
  BY <1>2, <1>3, <1>4, SameHeld, MadeIsInt DEF SameContexts, LocalsFit,
     PhaseFits, CountFits, Goes, MadeSoFar, Preparing, Operating, Waiting
<1>14. LocalsFit(n, r, u, p, released)
  BY <1>5, <1>6, <1>7, <1>8, <1>9, <1>10 DEF LocalsFit
<1> QED
  BY <1>1, <1>11, <1>12, <1>13, <1>14, LocalStep DEF n, r, t, p

\* A context that another step has been taken upon.
LEMMA Stepped ==
    ASSUME NEW c \in Contexts, NEW q \in Seq(StepNames),
           NEW d, d = [c EXCEPT !.steps = q]
    PROVE  d \in Contexts /\ d.seq = c.seq /\ d.root = c.root /\ d.steps = q
BY DEF Contexts

LEMMA SteppedHeld ==
    ASSUME NEW t, Typed(t), NEW u, u.contexts = t.contexts, u.completed = t.completed,
           u.doomed = t.doomed, u.ctx.seq = t.ctx.seq, u.ctx.root = t.ctx.root
    PROVE  /\ Kept(u) = Kept(t) /\ Held(u) = {u.ctx} \cup Kept(t)
           /\ Numbers(u) = Numbers(t) /\ Kept(t) \subseteq Held(t)
           /\ t.ctx \in Held(t)
<1>1. Kept(u) = Kept(t) /\ Held(u) = {u.ctx} \cup Kept(t)
      /\ Held(t) = {t.ctx} \cup Kept(t)
  BY DEF Kept, Held
<1>2. {c.seq : c \in Held(u)} = {c.seq : c \in Held(t)}
  BY <1>1
<1> QED
  BY <1>1, <1>2 DEF Numbers

LEMMA BuildStep ==
    ASSUME PreparedInv, NEW w \in Crew,
           thr[w].at = "build",
           Local(w, [at |-> IF Mode = "none" THEN "push" ELSE "leave",
                     ctx |-> [thr[w].ctx EXCEPT !.steps = OpTable[op].prepare]])
    PROVE  PreparedInv'
<1> DEFINE n == iterations(w)
           r == OpTable[op]
           t == thr[w]
           p == phase[w]
<1>1. PICK u : u = With(t, [at |-> IF Mode = "none" THEN "push" ELSE "leave",
                            ctx |-> [t.ctx EXCEPT !.steps = OpTable[op].prepare]])
  OBVIOUS
<1>2. /\ LocalsFit(n, r, t, p, released) /\ Typed(t) /\ n \in Nat /\ OpOk(r)
      /\ Placed(t, next_seq, side, ignored) /\ CleanFits(r, t, made, ignored)
      /\ PhaseFits(t, p, released) /\ InUse(t, p)
  BY WorkerFacts
<1>3. /\ DOMAIN u = Fields
      /\ u.at = IF Mode = "none" THEN "push" ELSE "leave"
      /\ u.cur = t.cur
      /\ u.ctx = [t.ctx EXCEPT !.steps = OpTable[op].prepare]
      /\ u.idx = t.idx
      /\ u.contexts = t.contexts
      /\ u.completed = t.completed
      /\ u.doomed = t.doomed
      /\ u.err = t.err
      /\ u.child = t.child
      /\ u.sock = t.sock
  BY <1>1, <1>2 DEF With, Fields, Typed
<1>4. t.at = "build" /\ OpTable[op] = r
      /\ (Mode = "none") = (r.netns = "none")
  BY DEF t, r, Mode
<1> HIDE DEF n, r, t, p
<1>20. /\ u.ctx \in Contexts /\ u.ctx.seq = t.ctx.seq
       /\ u.ctx.root = t.ctx.root
       /\ u.ctx.steps = r.prepare
       /\ Kept(u) = Kept(t) /\ Held(u) = {u.ctx} \cup Kept(t)
       /\ Kept(t) \subseteq Held(t) /\ t.ctx \in Held(t)
       /\ Numbers(u) = Numbers(t)
  <2>1. r.prepare \in Seq(StepNames)
    BY <1>2, <1>4 DEF OpOk
  <2>2. /\ u.ctx \in Contexts /\ u.ctx.seq = t.ctx.seq
        /\ u.ctx.root = t.ctx.root
        /\ u.ctx.steps = r.prepare
    BY <1>2, <1>3, <1>4, <2>1, Stepped DEF Typed
  <2> QED
    BY <1>2, <1>3, <2>2, SteppedHeld
<1>5. Typed(u)
  BY <1>2, <1>3, <1>4, <1>20, HeldFacts DEF Typed, Places, Preparing,
     Operating, Waiting
<1>6. PhaseFits(u, p, released)
  BY <1>2, <1>3, <1>4, <1>20 DEF PhaseFits, Preparing, Operating, Waiting
<1>7. InUse(u, p)
  BY <1>2, <1>3, <1>4, <1>20 DEF InUse, PhaseFits, Preparing, Operating,
     Waiting, Handling
<1>8. ModeFits(r, u)
  BY <1>2, <1>3, <1>4, <1>20 DEF LocalsFit, ModeFits, Operating, Waiting,
     Handling
<1>9. StepsFit(r, u)
  BY <1>2, <1>3, <1>4, <1>20 DEF LocalsFit, StepsFit, Operating, Waiting, Taken
<1>10. CountFits(n, r, u, p)
  BY <1>2, <1>3, <1>4, <1>20 DEF LocalsFit, CountFits, InUse, Preparing,
     Operating, Waiting
<1>11. Placed(u, next_seq, side, ignored)
  <2>1. ASSUME NEW c \in Held(u)
        PROVE  /\ c.seq = NoNetns => c.root = Root
               /\ c.seq # NoNetns => c.seq < next_seq /\ c.root = side[c.seq]
    <3>1. c = u.ctx \/ c \in Held(t)
      BY <1>20
    <3>2. \A d \in Held(t) :
             /\ d.seq = NoNetns => d.root = Root
             /\ d.seq # NoNetns => d.seq < next_seq /\ d.root = side[d.seq]
      BY <1>2 DEF Placed
    <3>3. t.ctx \in Held(t) /\ u.ctx.seq = t.ctx.seq /\ u.ctx.root = t.ctx.root
      BY <1>20
    <3> QED
      BY <3>1, <3>2, <3>3
  <2> QED
    BY <2>1, <1>2, <1>3, <1>4, <1>20 DEF LocalsFit, ModeFits, Placed, Within,
       AtHome, Waiting
<1>12. CleanFits(r, u, made, ignored)
  BY <1>2, <1>3, <1>4, <1>20 DEF CleanFits
<1>13. Goes(n, t, p, u, p)
  BY <1>2, <1>3, <1>4, <1>20, MadeIsInt DEF LocalsFit, PhaseFits, CountFits,
     Goes, MadeSoFar, Preparing, Operating, Waiting
<1>14. LocalsFit(n, r, u, p, released)
  BY <1>5, <1>6, <1>7, <1>8, <1>9, <1>10 DEF LocalsFit
<1> QED
  BY <1>1, <1>11, <1>12, <1>13, <1>14, LocalStep DEF n, r, t, p

LEMMA OpStepsStep ==
    ASSUME PreparedInv, NEW w \in Crew,
           thr[w].at = "op",
           OpTable[op].measure # <<"spawn">>,
           Local(w, [at |-> OpEnds(w),
                     ctx |-> [thr[w].ctx EXCEPT !.steps = @ \o OpTable[op].measure]])
    PROVE  PreparedInv'
<1> DEFINE n == iterations(w)
           r == OpTable[op]
           t == thr[w]
           p == phase[w]
<1>1. PICK u : u = With(t, [at |-> OpEnds(w),
                            ctx |-> [t.ctx EXCEPT !.steps = @ \o OpTable[op].measure]])
  OBVIOUS
<1>2. /\ LocalsFit(n, r, t, p, released) /\ Typed(t) /\ n \in Nat /\ OpOk(r)
      /\ Placed(t, next_seq, side, ignored) /\ CleanFits(r, t, made, ignored)
      /\ PhaseFits(t, p, released) /\ InUse(t, p)
  BY WorkerFacts
<1>3. /\ DOMAIN u = Fields
      /\ u.at = OpEnds(w)
      /\ u.cur = t.cur
      /\ u.ctx = [t.ctx EXCEPT !.steps = @ \o OpTable[op].measure]
      /\ u.idx = t.idx
      /\ u.contexts = t.contexts
      /\ u.completed = t.completed
      /\ u.doomed = t.doomed
      /\ u.err = t.err
      /\ u.child = t.child
      /\ u.sock = t.sock
  BY <1>1, <1>2 DEF With, Fields, Typed
<1>4. t.at = "op" /\ OpTable[op] = r /\ t.ctx.steps = Ready0(r)
      /\ r.measure # <<"spawn">>
      /\ OpEnds(w) = (IF r.netns = "none" THEN "after" ELSE "leaveop")
  BY WorkerFacts DEF LocalsFit, StepsFit, t, r, OpEnds, Mode
<1> HIDE DEF n, r, t, p
<1>20. /\ u.ctx \in Contexts /\ u.ctx.seq = t.ctx.seq
       /\ u.ctx.root = t.ctx.root
       /\ u.ctx.steps = Ready0(r) \o r.measure
       /\ Kept(u) = Kept(t) /\ Held(u) = {u.ctx} \cup Kept(t)
       /\ Kept(t) \subseteq Held(t) /\ t.ctx \in Held(t)
       /\ Numbers(u) = Numbers(t)
  <2>1. Ready0(r) \o r.measure \in Seq(StepNames)
    BY <1>2 DEF OpOk, Ready0
  <2>2. /\ u.ctx \in Contexts /\ u.ctx.seq = t.ctx.seq
        /\ u.ctx.root = t.ctx.root
        /\ u.ctx.steps = Ready0(r) \o r.measure
    <3>1. u.ctx = [t.ctx EXCEPT !.steps = Ready0(r) \o r.measure]
      BY <1>3, <1>4
    <3>2. t.ctx \in Contexts
      BY <1>2 DEF Typed
    <3> QED
      BY <2>1, <3>1, <3>2 DEF Contexts
  <2> QED
    BY <1>2, <1>3, <2>2, SteppedHeld
<1>5. Typed(u)
  BY <1>2, <1>3, <1>4, <1>20, HeldFacts DEF Typed, Places, Preparing,
     Operating, Waiting
<1>6. PhaseFits(u, p, released)
  BY <1>2, <1>3, <1>4, <1>20 DEF PhaseFits, Preparing, Operating, Waiting
<1>7. InUse(u, p)
  BY <1>2, <1>3, <1>4, <1>20 DEF InUse, PhaseFits, Preparing, Operating,
     Waiting, Handling
<1>8. ModeFits(r, u)
  BY <1>2, <1>3, <1>4, <1>20 DEF LocalsFit, ModeFits, Operating, Waiting,
     Handling
<1>9. StepsFit(r, u)
  BY <1>2, <1>3, <1>4, <1>20 DEF LocalsFit, StepsFit, Operating, Waiting, Taken
<1>10. CountFits(n, r, u, p)
  BY <1>2, <1>3, <1>4, <1>20 DEF LocalsFit, CountFits, InUse, Preparing,
     Operating, Waiting
<1>11. Placed(u, next_seq, side, ignored)
  <2>1. ASSUME NEW c \in Held(u)
        PROVE  /\ c.seq = NoNetns => c.root = Root
               /\ c.seq # NoNetns => c.seq < next_seq /\ c.root = side[c.seq]
    <3>1. c = u.ctx \/ c \in Held(t)
      BY <1>20
    <3>2. \A d \in Held(t) :
             /\ d.seq = NoNetns => d.root = Root
             /\ d.seq # NoNetns => d.seq < next_seq /\ d.root = side[d.seq]
      BY <1>2 DEF Placed
    <3>3. t.ctx \in Held(t) /\ u.ctx.seq = t.ctx.seq /\ u.ctx.root = t.ctx.root
      BY <1>20
    <3> QED
      BY <3>1, <3>2, <3>3
  <2> QED
    BY <2>1, <1>2, <1>3, <1>4, <1>20 DEF LocalsFit, ModeFits, Placed, Within,
       AtHome, Waiting
<1>12. CleanFits(r, u, made, ignored)
  BY <1>2, <1>3, <1>4, <1>20 DEF CleanFits
<1>13. Goes(n, t, p, u, p)
  BY <1>2, <1>3, <1>4, <1>20, MadeIsInt DEF LocalsFit, PhaseFits, CountFits,
     Goes, MadeSoFar, Preparing, Operating, Waiting
<1>14. LocalsFit(n, r, u, p, released)
  BY <1>5, <1>6, <1>7, <1>8, <1>9, <1>10 DEF LocalsFit
<1> QED
  BY <1>1, <1>11, <1>12, <1>13, <1>14, LocalStep DEF n, r, t, p

-----------------------------------------------------------------------------
(***************************************************************************)
(* A context is handed on: to the queue, to the operation, or to the end.  *)
(***************************************************************************)
LEMMA OneMore ==
    \A a, b \in Nat : (a + 1) + b = a + b + 1 /\ a + (b + 1) = a + b + 1
OBVIOUS

LEMMA NoContextIs ==
    /\ NoContext \in Contexts /\ NoContext.seq = NoNetns
    /\ NoContext.root = Root
    /\ NoContext.steps = <<>>
<1>1. Total \in 0..Total
  BY CrewIs
<1> QED
  BY <1>1 DEF NoContext, Contexts, NoNetns, Root

LEMMA PushStep ==
    ASSUME PreparedInv, NEW w \in Crew,
           thr[w].at = "push",
           Local(w, [at |-> "iter",
                     ctx |-> NoContext,
                     contexts |-> Append(thr[w].contexts,
                                 [thr[w].ctx EXCEPT !.steps = @ \o OpTable[op].late])])
    PROVE  PreparedInv'
<1> DEFINE n == iterations(w)
           r == OpTable[op]
           t == thr[w]
           p == phase[w]
<1>1. PICK u : u = With(t, [at |-> "iter",
                            ctx |-> NoContext,
                            contexts |-> Append(t.contexts,
                                        [t.ctx EXCEPT !.steps = @ \o OpTable[op].late])])
  OBVIOUS
<1>2. /\ LocalsFit(n, r, t, p, released) /\ Typed(t) /\ n \in Nat /\ OpOk(r)
      /\ Placed(t, next_seq, side, ignored) /\ CleanFits(r, t, made, ignored)
      /\ PhaseFits(t, p, released) /\ InUse(t, p)
  BY WorkerFacts
<1>3. /\ DOMAIN u = Fields
      /\ u.at = "iter"
      /\ u.cur = t.cur
      /\ u.ctx = NoContext
      /\ u.idx = t.idx
      /\ u.contexts = Append(t.contexts, [t.ctx EXCEPT !.steps = @ \o OpTable[op].late])
      /\ u.completed = t.completed
      /\ u.doomed = t.doomed
      /\ u.err = t.err
      /\ u.child = t.child
      /\ u.sock = t.sock
  BY <1>1, <1>2 DEF With, Fields, Typed
<1>4. t.at = "push" /\ OpTable[op] = r /\ t.ctx.steps = r.prepare
  BY WorkerFacts DEF LocalsFit, StepsFit, t, r
<1> HIDE DEF n, r, t, p
<1> DEFINE b == [t.ctx EXCEPT !.steps = t.ctx.steps \o OpTable[op].late]
<1>19. /\ b \in Contexts /\ b.seq = t.ctx.seq /\ b.root = t.ctx.root
       /\ b.steps = Ready0(r)
  <2>1. t.ctx.steps \o OpTable[op].late = Ready0(r)
    BY <1>4 DEF Ready0
  <2>2. t.ctx.steps \o OpTable[op].late \in Seq(StepNames)
    BY <1>2, <2>1 DEF OpOk, Ready0
  <2> QED
    BY <1>2, <2>1, <2>2, Stepped DEF Typed
<1>18. u.contexts = Append(t.contexts, b)
  BY <1>3
<1> HIDE DEF b
<1>20. /\ u.contexts \in Seq(Contexts) /\ Len(u.contexts) = Len(t.contexts) + 1
       /\ Range(u.contexts) = Range(t.contexts) \cup {b}
       /\ Kept(u) = Kept(t) \cup {b} /\ Held(u) = {NoContext, b} \cup Kept(t)
       /\ Kept(t) \subseteq Held(t) /\ t.ctx \in Held(t)
       /\ Numbers(u) = Numbers(t)
       /\ NoContext \in Contexts /\ NoContext.seq = NoNetns
       /\ NoContext.root = Root
       /\ NoContext.steps = <<>>
       /\ b \in Contexts /\ b.seq = t.ctx.seq /\ b.root = t.ctx.root
       /\ b.steps = Ready0(r)
  <2>1. /\ u.contexts \in Seq(Contexts)
        /\ Len(u.contexts) = Len(t.contexts) + 1
        /\ Range(u.contexts) = Range(t.contexts) \cup {b}
    BY <1>2, <1>18, <1>19, RangeAppend DEF Typed
  <2>2. Kept(u) = Kept(t) \cup {b} /\ Held(u) = {NoContext, b} \cup Kept(t)
        /\ Held(t) = {t.ctx} \cup Kept(t)
    BY <1>3, <2>1 DEF Kept, Held
  <2>3. Numbers(u) = Numbers(t)
    BY <1>19, <2>2, NoContextIs DEF Numbers
  <2> QED
    BY <1>19, <2>1, <2>2, <2>3, NoContextIs
<1>5. Typed(u)
  BY <1>2, <1>3, <1>4, <1>20, HeldFacts DEF Typed, Places, Preparing,
     Operating, Waiting
<1>6. PhaseFits(u, p, released)
  BY <1>2, <1>3, <1>4, <1>20 DEF PhaseFits, Preparing, Operating, Waiting
<1>7. InUse(u, p)
  BY <1>2, <1>3, <1>4, <1>20 DEF InUse, PhaseFits, Preparing, Operating,
     Waiting, Handling
<1>8. ModeFits(r, u)
  BY <1>2, <1>3, <1>4, <1>20 DEF LocalsFit, ModeFits, Operating, Waiting,
     Handling
<1>9. StepsFit(r, u)
  BY <1>2, <1>3, <1>4, <1>20 DEF LocalsFit, StepsFit, Operating, Waiting, Taken
<1>10. CountFits(n, r, u, p)
  BY <1>2, <1>3, <1>4, <1>20 DEF LocalsFit, CountFits, InUse, Preparing,
     Operating, Waiting
<1>11. Placed(u, next_seq, side, ignored)
  <2>1. \A c \in Held(u) :
           /\ c.seq = NoNetns => c.root = Root
           /\ c.seq # NoNetns => c.seq < next_seq /\ c.root = side[c.seq]
    BY <1>2, <1>3, <1>4, <1>20 DEF Placed
  <2> QED
    BY <2>1, <1>2, <1>3, <1>4, <1>20 DEF LocalsFit, ModeFits, Placed, Within,
       AtHome, Waiting
<1>12. CleanFits(r, u, made, ignored)
  BY <1>2, <1>3, <1>4, <1>20 DEF CleanFits
<1>13. Goes(n, t, p, u, p)
  BY <1>2, <1>3, <1>4, <1>20, MadeIsInt DEF LocalsFit, PhaseFits, CountFits,
     Goes, MadeSoFar, Preparing, Operating, Waiting
<1>14. LocalsFit(n, r, u, p, released)
  BY <1>5, <1>6, <1>7, <1>8, <1>9, <1>10 DEF LocalsFit
<1> QED
  BY <1>1, <1>11, <1>12, <1>13, <1>14, LocalStep DEF n, r, t, p

LEMMA PopContextStep ==
    ASSUME PreparedInv, NEW w \in Crew,
           thr[w].at = "next",
           thr[w].contexts # <<>>,
           Local(w, [at |-> IF Mode = "none" THEN "op" ELSE "enter",
                     ctx |-> Head(thr[w].contexts),
                     contexts |-> Tail(thr[w].contexts)])
    PROVE  PreparedInv'
<1> DEFINE n == iterations(w)
           r == OpTable[op]
           t == thr[w]
           p == phase[w]
<1>1. PICK u : u = With(t, [at |-> IF Mode = "none" THEN "op" ELSE "enter",
                            ctx |-> Head(t.contexts),
                            contexts |-> Tail(t.contexts)])
  OBVIOUS
<1>2. /\ LocalsFit(n, r, t, p, released) /\ Typed(t) /\ n \in Nat /\ OpOk(r)
      /\ Placed(t, next_seq, side, ignored) /\ CleanFits(r, t, made, ignored)
      /\ PhaseFits(t, p, released) /\ InUse(t, p)
  BY WorkerFacts
<1>3. /\ DOMAIN u = Fields
      /\ u.at = IF Mode = "none" THEN "op" ELSE "enter"
      /\ u.cur = t.cur
      /\ u.ctx = Head(t.contexts)
      /\ u.idx = t.idx
      /\ u.contexts = Tail(t.contexts)
      /\ u.completed = t.completed
      /\ u.doomed = t.doomed
      /\ u.err = t.err
      /\ u.child = t.child
      /\ u.sock = t.sock
  BY <1>1, <1>2 DEF With, Fields, Typed
<1>4. t.at = "next" /\ t.contexts # <<>> /\ t.ctx = NoContext
      /\ (Mode = "none") = (r.netns = "none")
  BY WorkerFacts DEF InUse, Handling, Operating, Waiting, t, r, Mode
<1> HIDE DEF n, r, t, p
<1>20. /\ u.contexts \in Seq(Contexts) /\ Len(u.contexts) + 1 = Len(t.contexts)
       /\ u.ctx \in Contexts /\ u.ctx \in Range(t.contexts)
       /\ Range(u.contexts) \subseteq Range(t.contexts)
       /\ Kept(u) \subseteq Kept(t) /\ Held(u) \subseteq Held(t)
       /\ u.ctx \in Kept(t) /\ Kept(t) \subseteq Held(t)
       /\ Numbers(u) = Numbers(t)
       /\ r.netns = "none" => u.ctx.seq = NoNetns
       /\ Len(t.contexts) \in Nat /\ Len(u.contexts) \in Nat
       /\ Len(t.completed) \in Nat
       /\ r.keeps => Len(u.contexts) + Len(u.completed) + 1 = n
       /\ u.at \in {"op", "enter"}
  <2>1. /\ Range(t.contexts) = {u.ctx} \cup Range(u.contexts)
        /\ u.ctx \in Contexts
        /\ u.contexts \in Seq(Contexts)
        /\ Len(u.contexts) + 1 = Len(t.contexts)
    BY <1>2, <1>3, <1>4, RangeTail DEF Typed
  <2>2. Held(t) = {NoContext} \cup Held(u) /\ Kept(u) \subseteq Kept(t)
        /\ u.ctx \in Kept(t) /\ Kept(t) \subseteq Held(t)
    BY <1>3, <1>4, <2>1 DEF Kept, Held
  <2>3. Numbers(u) = Numbers(t)
    BY <2>2, NoContextIs DEF Numbers
  <2>4. r.netns = "none" => u.ctx.seq = NoNetns
    BY <1>2, <2>2 DEF LocalsFit, ModeFits, Numbers
  <2>5. /\ Len(t.contexts) \in Nat /\ Len(u.contexts) \in Nat
        /\ Len(t.completed) \in Nat
    BY <1>2, <2>1 DEF Typed
  <2>6. r.keeps => Len(u.contexts) + Len(u.completed) + 1 = n
    <3>1. r.keeps => Len(t.contexts) + Len(t.completed) = n
      BY <1>2, <1>4 DEF LocalsFit, CountFits
    <3>2. Len(u.completed) = Len(t.completed)
      BY <1>3
    <3>3. Len(u.contexts) + 1 = Len(t.contexts)
      BY <2>1
    <3>4. PICK a \in Nat, b \in Nat : a = Len(u.contexts)
          /\ b = Len(t.completed)
      BY <2>5
    <3>5. Len(t.contexts) = a + 1
      BY <3>3, <3>4
    <3>6. r.keeps => (a + 1) + b = n
      BY <3>1, <3>4, <3>5
    <3>7. (a + 1) + b = a + b + 1
      BY <3>4, OneMore
    <3>8. Len(u.completed) = b
      BY <3>2, <3>4
    <3>9. Len(u.contexts) + Len(u.completed) + 1 = a + b + 1
      BY <3>4, <3>8
    <3> QED
      BY <3>6, <3>7, <3>9
  <2>7. u.at \in {"op", "enter"}
    BY <1>3
  <2> QED
    BY <2>1, <2>2, <2>3, <2>4, <2>5, <2>6, <2>7
<1>5. Typed(u)
  BY <1>2, <1>3, <1>4, <1>20, HeldFacts DEF Typed, Places, Preparing,
     Operating, Waiting
<1>6. PhaseFits(u, p, released)
  BY <1>2, <1>3, <1>4, <1>20 DEF PhaseFits, Preparing, Operating, Waiting
<1>7. InUse(u, p)
  BY <1>2, <1>3, <1>4, <1>20 DEF InUse, PhaseFits, Preparing, Operating,
     Waiting, Handling
<1>8. ModeFits(r, u)
  BY <1>2, <1>3, <1>4, <1>20 DEF LocalsFit, ModeFits, Operating, Waiting,
     Handling
<1>9. StepsFit(r, u)
  BY <1>2, <1>3, <1>4, <1>20 DEF LocalsFit, StepsFit, Operating, Waiting
<1>10. CountFits(n, r, u, p)
  BY <1>2, <1>3, <1>4, <1>20 DEF LocalsFit, CountFits, InUse, Preparing,
     Operating, Waiting
<1>11. Placed(u, next_seq, side, ignored)
  <2>1. \A c \in Held(u) :
           /\ c.seq = NoNetns => c.root = Root
           /\ c.seq # NoNetns => c.seq < next_seq /\ c.root = side[c.seq]
    BY <1>2, <1>3, <1>4, <1>20 DEF Placed, ModeFits
  <2> QED
    BY <2>1, <1>2, <1>3, <1>4, <1>20 DEF LocalsFit, ModeFits, Placed, Within,
       AtHome, Waiting, Root, NoNetns, Numbers
<1>12. CleanFits(r, u, made, ignored)
  BY <1>2, <1>3, <1>4, <1>20 DEF CleanFits
<1>13. Goes(n, t, p, u, p)
  BY <1>2, <1>3, <1>4, <1>20, MadeIsInt DEF LocalsFit, PhaseFits, CountFits,
     Goes, MadeSoFar, Preparing, Operating, Waiting
<1>14. LocalsFit(n, r, u, p, released)
  BY <1>5, <1>6, <1>7, <1>8, <1>9, <1>10 DEF LocalsFit
<1> QED
  BY <1>1, <1>11, <1>12, <1>13, <1>14, LocalStep DEF n, r, t, p

LEMMA KeepContextStep ==
    ASSUME PreparedInv, NEW w \in Crew,
           thr[w].at = "after",
           ~thr[w].err,
           OpTable[op].keeps,
           Local(w, [at |-> "next",
                     ctx |-> NoContext,
                     completed |-> Append(thr[w].completed, thr[w].ctx)])
    PROVE  PreparedInv'
<1> DEFINE n == iterations(w)
           r == OpTable[op]
           t == thr[w]
           p == phase[w]
<1>1. PICK u : u = With(t, [at |-> "next",
                            ctx |-> NoContext,
                            completed |-> Append(t.completed, t.ctx)])
  OBVIOUS
<1>2. /\ LocalsFit(n, r, t, p, released) /\ Typed(t) /\ n \in Nat /\ OpOk(r)
      /\ Placed(t, next_seq, side, ignored) /\ CleanFits(r, t, made, ignored)
      /\ PhaseFits(t, p, released) /\ InUse(t, p)
  BY WorkerFacts
<1>3. /\ DOMAIN u = Fields
      /\ u.at = "next"
      /\ u.cur = t.cur
      /\ u.ctx = NoContext
      /\ u.idx = t.idx
      /\ u.contexts = t.contexts
      /\ u.completed = Append(t.completed, t.ctx)
      /\ u.doomed = t.doomed
      /\ u.err = t.err
      /\ u.child = t.child
      /\ u.sock = t.sock
  BY <1>1, <1>2 DEF With, Fields, Typed
<1>4. t.at = "after" /\ ~t.err /\ r.keeps
  BY DEF t, r
<1> HIDE DEF n, r, t, p
<1>20. /\ u.completed \in Seq(Contexts)
       /\ Len(u.completed) = Len(t.completed) + 1
       /\ Kept(u) = Kept(t) \cup {t.ctx}
       /\ Held(u) = {NoContext, t.ctx} \cup Kept(t)
       /\ Kept(t) \subseteq Held(t) /\ t.ctx \in Held(t)
       /\ Numbers(u) = Numbers(t)
       /\ NoContext \in Contexts /\ NoContext.seq = NoNetns
       /\ NoContext.root = Root
       /\ NoContext.steps = <<>>
       /\ Len(u.contexts) + Len(u.completed) = n
  <2>1. /\ u.completed \in Seq(Contexts)
        /\ Len(u.completed) = Len(t.completed) + 1
        /\ Range(u.completed) = Range(t.completed) \cup {t.ctx}
    BY <1>2, <1>3, RangeAppend DEF Typed
  <2>2. Kept(u) = Kept(t) \cup {t.ctx}
        /\ Held(u) = {NoContext, t.ctx} \cup Kept(t)
        /\ Held(t) = {t.ctx} \cup Kept(t)
    BY <1>3, <2>1 DEF Kept, Held
  <2>3. Numbers(u) = Numbers(t)
    BY <2>2, NoContextIs DEF Numbers
  <2>4. Len(u.contexts) + Len(u.completed) = n
    <3>1. Len(t.contexts) + Len(t.completed) + 1 = n
      BY <1>2, <1>4 DEF LocalsFit, CountFits, Operating
    <3>2. Len(t.contexts) \in Nat /\ Len(t.completed) \in Nat
      BY <1>2 DEF Typed
    <3>3. u.contexts = t.contexts
      BY <1>3
    <3>4. Len(u.completed) = Len(t.completed) + 1
      BY <2>1
    <3>5. PICK a \in Nat, b \in Nat : a = Len(t.contexts)
          /\ b = Len(t.completed)
      BY <3>2
    <3>6. a + b + 1 = n
      BY <3>1, <3>5
    <3>7. Len(u.contexts) = a /\ Len(u.completed) = b + 1
      BY <3>3, <3>4, <3>5
    <3>8. a + (b + 1) = a + b + 1
      BY <3>5, OneMore
    <3>9. Len(u.contexts) + Len(u.completed) = a + (b + 1)
      BY <3>7
    <3> QED
      BY <3>6, <3>8, <3>9
  <2> QED
    BY <2>1, <2>2, <2>3, <2>4, NoContextIs
<1>5. Typed(u)
  BY <1>2, <1>3, <1>4, <1>20, HeldFacts DEF Typed, Places, Preparing,
     Operating, Waiting
<1>6. PhaseFits(u, p, released)
  BY <1>2, <1>3, <1>4, <1>20 DEF PhaseFits, Preparing, Operating, Waiting
<1>7. InUse(u, p)
  BY <1>2, <1>3, <1>4, <1>20 DEF InUse, PhaseFits, Preparing, Operating,
     Waiting, Handling
<1>8. ModeFits(r, u)
  BY <1>2, <1>3, <1>4, <1>20 DEF LocalsFit, ModeFits, Operating, Waiting,
     Handling
<1>9. StepsFit(r, u)
  BY <1>2, <1>3, <1>4, <1>20 DEF LocalsFit, StepsFit, Operating, Waiting, Taken
<1>10. CountFits(n, r, u, p)
  BY <1>2, <1>3, <1>4, <1>20 DEF LocalsFit, CountFits, InUse, Preparing,
     Operating, Waiting
<1>11. Placed(u, next_seq, side, ignored)
  <2>1. \A c \in Held(u) :
           /\ c.seq = NoNetns => c.root = Root
           /\ c.seq # NoNetns => c.seq < next_seq /\ c.root = side[c.seq]
    BY <1>2, <1>3, <1>4, <1>20 DEF Placed
  <2> QED
    BY <2>1, <1>2, <1>3, <1>4, <1>20 DEF LocalsFit, ModeFits, Placed, Within,
       AtHome, Waiting
<1>12. CleanFits(r, u, made, ignored)
  BY <1>2, <1>3, <1>4, <1>20 DEF CleanFits
<1>13. Goes(n, t, p, u, p)
  BY <1>2, <1>3, <1>4, <1>20, MadeIsInt DEF LocalsFit, PhaseFits, CountFits,
     Goes, MadeSoFar, Preparing, Operating, Waiting
<1>14. LocalsFit(n, r, u, p, released)
  BY <1>5, <1>6, <1>7, <1>8, <1>9, <1>10 DEF LocalsFit
<1> QED
  BY <1>1, <1>11, <1>12, <1>13, <1>14, LocalStep DEF n, r, t, p

LEMMA LetGoStep ==
    ASSUME PreparedInv, NEW w \in Crew,
           thr[w].at = "after",
           ~thr[w].err,
           ~OpTable[op].keeps,
           Local(w, [at |-> "drop",
                     idx |-> 0,
                     ctx |-> NoContext,
                     doomed |-> Doomed(<<thr[w].ctx>>)])
    PROVE  PreparedInv'
<1> DEFINE n == iterations(w)
           r == OpTable[op]
           t == thr[w]
           p == phase[w]
<1>1. PICK u : u = With(t, [at |-> "drop",
                            idx |-> 0,
                            ctx |-> NoContext,
                            doomed |-> Doomed(<<t.ctx>>)])
  OBVIOUS
<1>2. /\ LocalsFit(n, r, t, p, released) /\ Typed(t) /\ n \in Nat /\ OpOk(r)
      /\ Placed(t, next_seq, side, ignored) /\ CleanFits(r, t, made, ignored)
      /\ PhaseFits(t, p, released) /\ InUse(t, p)
  BY WorkerFacts
<1>3. /\ DOMAIN u = Fields
      /\ u.at = "drop"
      /\ u.cur = t.cur
      /\ u.ctx = NoContext
      /\ u.idx = 0
      /\ u.contexts = t.contexts
      /\ u.completed = t.completed
      /\ u.doomed = Doomed(<<t.ctx>>)
      /\ u.err = t.err
      /\ u.child = t.child
      /\ u.sock = t.sock
  BY <1>1, <1>2 DEF With, Fields, Typed
<1>4. t.at = "after" /\ ~t.err /\ ~r.keeps /\ p = "run"
      /\ (Mode = "none") = (r.netns = "none")
  BY WorkerFacts DEF PhaseFits, Operating, t, p, r, Mode
<1> HIDE DEF n, r, t, p
<1>20. /\ u.doomed \in Seq(Contexts)
       /\ Kept(u) \subseteq Kept(t) \cup {t.ctx}
       /\ Held(u) \subseteq {NoContext} \cup Held(t)
       /\ Kept(t) \subseteq Held(t) /\ t.ctx \in Held(t)
       /\ Numbers(u) = Numbers(t)
       /\ NoContext \in Contexts /\ NoContext.seq = NoNetns
       /\ NoContext.root = Root
       /\ NoContext.steps = <<>>
       /\ u.doomed = <<>> => t.cur = Root
       /\ r.netns = "none" => u.doomed = <<>>
  <2>1. Range(t.doomed) = {}
    BY <1>2, <1>4, RangeEmpty DEF InUse
  <2>2. Held(t) = {t.ctx} \cup Kept(t)
    BY DEF Kept, Held
  <2>3. CASE r.netns = "none"
    <3>1. u.doomed = <<>>
      BY <1>3, <1>4, <2>3 DEF Doomed
    <3>2. Kept(u) = Kept(t) /\ Held(u) = {NoContext} \cup Kept(t)
      BY <1>3, <2>1, <3>1, RangeEmpty DEF Kept, Held
    <3>3. Numbers(t) = {} /\ t.cur = Root
      BY <1>2, <2>3 DEF LocalsFit, ModeFits
    <3>4. Numbers(u) = {}
      BY <2>2, <3>2, <3>3, NoContextIs DEF Numbers
    <3> QED
      BY <2>2, <2>3, <3>1, <3>2, <3>3, <3>4, NoContextIs
  <2>4. CASE r.netns # "none"
    <3>1. u.doomed = <<t.ctx>> /\ t.ctx \in Contexts
      BY <1>2, <1>3, <1>4, <2>4 DEF Doomed, Typed
    <3>2. /\ Range(u.doomed) = {t.ctx} /\ u.doomed \in Seq(Contexts)
          /\ u.doomed # <<>>
      BY <3>1, RangeOne
    <3>3. /\ Kept(u) = Kept(t) \cup {t.ctx}
          /\ Held(u) = {NoContext, t.ctx} \cup Kept(t)
      BY <1>3, <2>1, <3>2 DEF Kept, Held
    <3>4. Numbers(u) = Numbers(t)
      BY <2>2, <3>3, NoContextIs DEF Numbers
    <3> QED
      BY <2>2, <2>4, <3>2, <3>3, <3>4, NoContextIs
  <2> QED
    BY <2>3, <2>4
<1>5. Typed(u)
  BY <1>2, <1>3, <1>4, <1>20, HeldFacts DEF Typed, Places, Preparing,
     Operating, Waiting
<1>6. PhaseFits(u, p, released)
  BY <1>2, <1>3, <1>4, <1>20 DEF PhaseFits, Preparing, Operating, Waiting
<1>7. InUse(u, p)
  BY <1>2, <1>3, <1>4, <1>20 DEF InUse, PhaseFits, Preparing, Operating,
     Waiting, Handling
<1>8. ModeFits(r, u)
  BY <1>2, <1>3, <1>4, <1>20 DEF LocalsFit, ModeFits, Operating, Waiting,
     Handling
<1>9. StepsFit(r, u)
  BY <1>2, <1>3, <1>4, <1>20 DEF LocalsFit, StepsFit, Operating, Waiting, Taken
<1>10. CountFits(n, r, u, p)
  BY <1>2, <1>3, <1>4, <1>20 DEF LocalsFit, CountFits, InUse, Preparing,
     Operating, Waiting
<1>11. Placed(u, next_seq, side, ignored)
  <2>1. \A c \in Held(u) :
           /\ c.seq = NoNetns => c.root = Root
           /\ c.seq # NoNetns => c.seq < next_seq /\ c.root = side[c.seq]
    BY <1>2, <1>3, <1>4, <1>20 DEF Placed
  <2> QED
    BY <2>1, <1>2, <1>3, <1>4, <1>20 DEF LocalsFit, ModeFits, Placed, Within,
       AtHome, Waiting
<1>12. CleanFits(r, u, made, ignored)
  BY <1>2, <1>3, <1>4, <1>20 DEF CleanFits
<1>13. Goes(n, t, p, u, p)
  BY <1>2, <1>3, <1>4, <1>20, MadeIsInt DEF LocalsFit, PhaseFits, CountFits,
     Goes, MadeSoFar, Preparing, Operating, Waiting
<1>14. LocalsFit(n, r, u, p, released)
  BY <1>5, <1>6, <1>7, <1>8, <1>9, <1>10 DEF LocalsFit
<1> QED
  BY <1>1, <1>11, <1>12, <1>13, <1>14, LocalStep DEF n, r, t, p

-----------------------------------------------------------------------------
(***************************************************************************)
(* A function returns and drops what it holds.                             *)
(***************************************************************************)
\* What a worker that gives up has to drop: all that it holds.
LEMMA FailIs ==
    ASSUME PreparedInv, NEW w \in Crew, thr[w].at # "drop"
    PROVE  \E D \in Seq(Contexts) :
              /\ Fail(w) = Return(w, D)
              /\ Range(D) = Kept(thr[w]) \cup (IF thr[w].ctx.seq = NoNetns THEN {}
                                               ELSE {thr[w].ctx})
<1> DEFINE t == thr[w]
           h == InHand(w)
           D == IF phase[w] = "run" /\ OpTable[op].keeps
                THEN t.contexts \o t.completed \o h
                ELSE h \o t.contexts \o t.completed
<1>1. /\ t.contexts \in Seq(Contexts) /\ t.completed \in Seq(Contexts)
      /\ t.ctx \in Contexts /\ Range(t.doomed) = {}
  BY WorkerFacts, RangeEmpty DEF Typed, InUse
<1>2. /\ h \in Seq(Contexts)
      /\ Range(h) = IF t.ctx.seq = NoNetns THEN {} ELSE {t.ctx}
  <2>1. CASE t.ctx.seq = NoNetns
    BY <2>1, RangeEmpty DEF InHand
  <2>2. CASE t.ctx.seq # NoNetns
    <3>1. h = <<t.ctx>>
      BY <2>2 DEF InHand
    <3> QED
      BY <1>1, <2>2, <3>1, RangeOne
  <2> QED
    BY <2>1, <2>2
<1>3. Fail(w) = Return(w, D)
  BY DEF Fail
<1> HIDE DEF t, h
<1>4. /\ t.contexts \o t.completed \in Seq(Contexts)
      /\ Range(t.contexts \o t.completed)
           = Range(t.contexts) \cup Range(t.completed)
  BY <1>1, RangeConcat
<1> DEFINE a == t.contexts \o t.completed
           b == h \o t.contexts
<1>6. /\ b \in Seq(Contexts) /\ Range(b) = Range(h) \cup Range(t.contexts)
  BY <1>1, <1>2, RangeConcat
<1>5. /\ a \o h \in Seq(Contexts)
      /\ Range(a \o h) = Range(t.contexts) \cup Range(t.completed) \cup Range(h)
  <2>0. a \in Seq(Contexts)
    BY <1>4
  <2> HIDE DEF a
  <2>1. a \o h \in Seq(Contexts) /\ Range(a \o h) = Range(a) \cup Range(h)
    BY <1>2, <2>0, RangeConcat
  <2> QED
    BY <1>4, <2>1 DEF a
<1>7. /\ b \o t.completed \in Seq(Contexts)
      /\ Range(b \o t.completed)
            = Range(h) \cup Range(t.contexts) \cup Range(t.completed)
  <2> HIDE DEF b
  <2>1. /\ b \o t.completed \in Seq(Contexts)
        /\ Range(b \o t.completed) = Range(b) \cup Range(t.completed)
    BY <1>1, <1>6, RangeConcat
  <2> QED
    BY <1>6, <2>1
<1>8. /\ D \in Seq(Contexts)
      /\ Range(D) = Range(h) \cup Range(t.contexts) \cup Range(t.completed)
  BY <1>5, <1>7
<1>9. Kept(t) = Range(t.contexts) \cup Range(t.completed)
  BY <1>1 DEF Kept
<1>10. Range(D) = Kept(t) \cup (IF t.ctx.seq = NoNetns THEN {} ELSE {t.ctx})
  BY <1>2, <1>8, <1>9
<1> QED
  BY <1>3, <1>8, <1>10 DEF t

\* u is t when it has returned and drops D.
Returns(t, D, u) ==
    /\ DOMAIN u = Fields /\ u.at = "drop" /\ u.idx = 0 /\ u.doomed = Doomed(D)
    /\ u.ctx = NoContext /\ u.contexts = <<>> /\ u.completed = <<>>
    /\ u.child = t.child /\ u.sock = t.sock

Failing == {"iter", "stage", "build", "gate", "enter", "leave", "after", "finish"}

LEMMA DropStep ==
    ASSUME PreparedInv, NEW w \in Crew, thr[w].at \in Failing,
           thr[w].at = "finish" => released,
           op' = op, UNCHANGED <<gateVars, next_seq, made, side>>,
           ignored \subseteq ignored',
           NEW D \in Seq(Contexts),
           Range(D) = Kept(thr[w]) \cup (IF thr[w].ctx.seq = NoNetns THEN {}
                                         ELSE {thr[w].ctx}),
           NEW u, Returns(thr[w], D, u), thr' = [thr EXCEPT ![w] = u],
           u.err \in BOOLEAN, u.err <=> thr[w].at # "finish", u.cur \in 0..Total,
           OpTable[op].netns = "none" => u.cur = Root,
           ignored' = {} /\ u.doomed = <<>> => u.cur = Root
    PROVE  PreparedInv'
<1> DEFINE n == iterations(w)
           r == OpTable[op]
           t == thr[w]
           p == phase[w]
<1>2. /\ LocalsFit(n, r, t, p, released) /\ Typed(t) /\ n \in Nat
      /\ Placed(t, next_seq, side, ignored) /\ CleanFits(r, t, made, ignored)
      /\ ModeFits(r, t)
  BY WorkerFacts
<1>3. /\ DOMAIN u = Fields /\ u.at = "drop" /\ u.idx = 0
      /\ u.doomed = IF r.netns = "none" THEN <<>> ELSE D
      /\ u.ctx = NoContext /\ u.contexts = <<>> /\ u.completed = <<>>
      /\ u.child = t.child /\ u.sock = t.sock
  BY DEF Returns, Doomed, Mode
<1>4. /\ t.at \in Failing /\ (t.at = "finish" => released)
      /\ u.err \in BOOLEAN /\ (u.err <=> t.at # "finish")
      /\ u.cur \in 0..Total /\ (r.netns = "none" => u.cur = Root)
      /\ (ignored' = {} /\ u.doomed = <<>> => u.cur = Root)
      /\ Range(D) = Kept(t) \cup (IF t.ctx.seq = NoNetns THEN {} ELSE {t.ctx})
  OBVIOUS
<1> HIDE DEF n, r, t, p
<1>20. /\ u.doomed \in Seq(Contexts) /\ Kept(u) = Range(u.doomed)
       /\ Held(u) \subseteq {NoContext} \cup Held(t)
       /\ Kept(t) \subseteq Held(t)
       /\ Numbers(u) = Numbers(t)
       /\ NoContext \in Contexts /\ NoContext.seq = NoNetns
       /\ NoContext.root = Root
       /\ NoContext.steps = <<>>
       /\ r.netns # "none" => \A c \in Kept(u) : c.seq # NoNetns
       /\ Range(u.contexts) = {}
  <2>1. Kept(u) = Range(u.doomed) /\ Held(u) = {NoContext} \cup Range(u.doomed)
        /\ Range(u.contexts) = {}
    BY <1>3, RangeEmpty DEF Kept, Held
  <2>2. Held(t) = {t.ctx} \cup Kept(t)
    BY DEF Kept, Held
  <2>3. CASE r.netns = "none"
    <3>1. u.doomed \in Seq(Contexts) /\ Range(u.doomed) = {}
      BY <1>3, <2>3, RangeEmpty
    <3>2. Numbers(u) = {} /\ Numbers(t) = {}
      BY <1>2, <2>1, <2>3, <3>1, NoContextIs DEF ModeFits, Numbers
    <3> QED
      BY <2>1, <2>2, <2>3, <3>1, <3>2, NoContextIs
  <2>4. CASE r.netns # "none"
    <3>1. u.doomed = D /\ \A c \in Kept(t) : c.seq # NoNetns
      BY <1>2, <1>3, <2>4 DEF ModeFits
    <3>2. Held(u) = {NoContext} \cup Kept(t)
                      \cup (IF t.ctx.seq = NoNetns THEN {} ELSE {t.ctx})
      BY <1>4, <2>1, <3>1
    <3>3. Numbers(u) = Numbers(t)
      BY <2>2, <3>2, NoContextIs DEF Numbers
    <3>4. \A c \in Kept(u) : c.seq # NoNetns
      BY <1>4, <2>1, <3>1
    <3>5. Held(u) \subseteq {NoContext} \cup Held(t)
          /\ Kept(t) \subseteq Held(t)
      BY <2>2, <3>2
    <3> QED
      BY <2>1, <3>1, <3>3, <3>4, <3>5, NoContextIs
  <2> QED
    BY <2>3, <2>4
<1>5. Typed(u)
  BY <1>2, <1>3, <1>4, <1>20 DEF Typed, Places
<1>6. PhaseFits(u, p, released)
  BY <1>2, <1>3, <1>4 DEF LocalsFit, PhaseFits, Failing, Preparing, Operating,
     Waiting
<1>7. InUse(u, p)
  BY <1>2, <1>3, <1>4 DEF LocalsFit, InUse, PhaseFits, Failing, Preparing,
     Operating, Waiting, Handling
<1>8. ModeFits(r, u)
  BY <1>2, <1>3, <1>4, <1>20 DEF ModeFits, Handling, Operating, Waiting
<1>9. StepsFit(r, u)
  BY <1>2, <1>3, <1>20 DEF LocalsFit, StepsFit, Operating, Waiting, Taken
<1>10. CountFits(n, r, u, p)
  BY <1>2, <1>3, <1>4 DEF LocalsFit, CountFits, PhaseFits, Preparing,
     Operating, Waiting
<1>11. Placed(u, next_seq, side, ignored')
  <2>1. \A c \in Held(u) :
           /\ c.seq = NoNetns => c.root = Root
           /\ c.seq # NoNetns => c.seq < next_seq /\ c.root = side[c.seq]
    BY <1>2, <1>20 DEF Placed
  <2> QED
    BY <2>1, <1>3, <1>4 DEF Placed, Within, AtHome, Waiting
<1>12. CleanFits(r, u, made, ignored')
  <2>1. 0 \in 0..Len(CleanupOf(r))
    BY DEF CleanupOf, cleanup
  <2> QED
    BY <1>3, <2>1 DEF CleanFits
<1>13. Goes(n, t, p, u, p)
  <2>1. MadeSoFar(n, u, p) = n
    BY <1>3 DEF MadeSoFar
  <2>2. MadeSoFar(n, t, p) <= n
    BY <1>2, <1>4 DEF LocalsFit, CountFits, Typed, MadeSoFar, Failing,
       PhaseFits, Preparing, Operating, Waiting
  <2> QED
    BY <1>20, <2>1, <2>2 DEF Goes
<1>14. LocalsFit(n, r, u, p, released)
  BY <1>5, <1>6, <1>7, <1>8, <1>9, <1>10 DEF LocalsFit
<1>15. /\ UNCHANGED gateVars /\ UNCHANGED <<next_seq, made, side>>
       /\ phase' = phase
  BY DEF gateVars
<1> QED
  BY <1>11, <1>12, <1>13, <1>14, <1>15, QuietStep DEF n, r, t, p

\* A worker with nothing to drop is at home, unless a leave() was ignored.
LEMMA NothingToDrop ==
    ASSUME PreparedInv, NEW w \in Crew, thr[w].at \in Failing,
           NEW D \in Seq(Contexts), Doomed(D) = <<>>,
           Range(D) = Kept(thr[w]) \cup (IF thr[w].ctx.seq = NoNetns THEN {}
                                         ELSE {thr[w].ctx})
    PROVE  /\ ignored = {} \/ OpTable[op].netns = "none" => thr[w].cur = Root
           /\ thr[w].at \notin {"leave", "after"} \/ OpTable[op].netns = "none"
<1>1. CASE OpTable[op].netns = "none"
  BY <1>1, WorkerFacts DEF ModeFits
<1>2. CASE OpTable[op].netns # "none"
  <2>1. Range(D) = {}
    BY <1>2, RangeEmpty DEF Doomed, Mode
  <2>2. thr[w].ctx.seq = NoNetns
    BY <2>1
  <2>3. thr[w].at \notin Handling
    BY <1>2, <2>2, WorkerFacts DEF ModeFits
  <2>4. thr[w].at \in {"iter", "gate", "finish"}
    BY <2>3 DEF Failing, Handling, Operating, Waiting
  <2> QED
    BY <1>2, <2>4, WorkerFacts DEF Placed, AtHome
<1> QED
  BY <1>1, <1>2

LEMMA FailStep ==
    ASSUME PreparedInv, NEW w \in Crew, thr[w].at \in Failing \ {"finish"},
           Local(w, Fail(w))
    PROVE  PreparedInv'
<1>1. thr[w].at # "drop" /\ DOMAIN thr[w] = Fields
      /\ thr[w].cur \in 0..Total
  BY WorkerFacts DEF Failing, Typed
<1>2. PICK D \in Seq(Contexts) :
         /\ Fail(w) = Return(w, D)
         /\ Range(D) = Kept(thr[w]) \cup (IF thr[w].ctx.seq = NoNetns THEN {}
                                          ELSE {thr[w].ctx})
  BY <1>1, FailIs
<1>3. PICK u : u = With(thr[w], Return(w, D))
  OBVIOUS
<1>4. Returns(thr[w], D, u) /\ u.err = TRUE /\ u.cur = thr[w].cur
  BY <1>1, <1>2, <1>3 DEF With, Return, Returns, Fields
<1>5. /\ op' = op /\ UNCHANGED <<gateVars, next_seq, made, side>>
      /\ ignored' = ignored /\ thr' = [thr EXCEPT ![w] = u]
  BY <1>2, <1>3 DEF Local, Set, hostVars
<1>6. u.doomed = Doomed(D)
  BY <1>4 DEF Returns
<1>7. /\ OpTable[op].netns = "none" => u.cur = Root
      /\ ignored' = {} /\ u.doomed = <<>> => u.cur = Root
  BY <1>2, <1>4, <1>5, <1>6, NothingToDrop, WorkerFacts DEF ModeFits
<1> QED
  BY <1>1, <1>2, <1>4, <1>5, <1>7, DropStep

LEMMA ReleasedStep ==
    ASSUME PreparedInv, NEW w \in Crew, thr[w].at = "finish", released,
           Local(w, [Fail(w) EXCEPT !.err = FALSE])
    PROVE  PreparedInv'
<1>1. thr[w].at # "drop" /\ DOMAIN thr[w] = Fields
      /\ thr[w].cur \in 0..Total /\ thr[w].at \in Failing
  BY WorkerFacts DEF Failing, Typed
<1>2. PICK D \in Seq(Contexts) :
         /\ Fail(w) = Return(w, D)
         /\ Range(D) = Kept(thr[w]) \cup (IF thr[w].ctx.seq = NoNetns THEN {}
                                          ELSE {thr[w].ctx})
  BY <1>1, FailIs
<1>3. PICK u : u = With(thr[w], [Return(w, D) EXCEPT !.err = FALSE])
  OBVIOUS
<1>4. Returns(thr[w], D, u) /\ u.err = FALSE /\ u.cur = thr[w].cur
  BY <1>1, <1>2, <1>3 DEF With, Return, Returns, Fields
<1>5. /\ op' = op /\ UNCHANGED <<gateVars, next_seq, made, side>>
      /\ ignored' = ignored /\ thr' = [thr EXCEPT ![w] = u]
  BY <1>2, <1>3 DEF Local, Set, hostVars
<1>6. u.doomed = Doomed(D)
  BY <1>4 DEF Returns
<1>7. /\ OpTable[op].netns = "none" => u.cur = Root
      /\ ignored' = {} /\ u.doomed = <<>> => u.cur = Root
  BY <1>1, <1>2, <1>4, <1>5, <1>6, NothingToDrop, WorkerFacts DEF ModeFits
<1> QED
  BY <1>1, <1>2, <1>4, <1>5, <1>7, DropStep

\* leave() after an error: whatever its result, the function returns.
LEMMA LeftErrStep ==
    ASSUME PreparedInv, NEW w \in Crew, thr[w].at = "leave",
           UNCHANGED <<gateVars, op, next_seq, made, side>>,
           \/ /\ thr' = [thr EXCEPT ![w] =
                            With([@ EXCEPT !.cur = thr[w].ctx.root], Fail(w))]
              /\ UNCHANGED ignored
           \/ MayIgnore(thr[w].ctx.seq) /\ Set(w, Fail(w))
    PROVE  PreparedInv'
<1>1. /\ thr[w].at # "drop" /\ DOMAIN thr[w] = Fields
      /\ thr[w].cur \in 0..Total /\ thr[w].at \in Failing
      /\ thr[w].ctx.root \in 0..Total
      /\ OpTable[op].netns # "none"
  <2>1. thr[w].ctx.root \in 0..Total
    BY WorkerFacts, HeldFacts
  <2> QED
    BY <2>1, WorkerFacts DEF Failing, Typed, ModeFits
<1>2. PICK D \in Seq(Contexts) :
         /\ Fail(w) = Return(w, D)
         /\ Range(D) = Kept(thr[w]) \cup (IF thr[w].ctx.seq = NoNetns THEN {}
                                          ELSE {thr[w].ctx})
  BY <1>1, FailIs
<1>3. Doomed(D) # <<>>
  BY <1>1, <1>2, NothingToDrop
<1>4. CASE /\ thr' = [thr EXCEPT ![w] =
                         With([@ EXCEPT !.cur = thr[w].ctx.root], Fail(w))]
           /\ UNCHANGED ignored
  <2>1. PICK x : x = [thr[w] EXCEPT !.cur = thr[w].ctx.root]
    OBVIOUS
  <2>2. DOMAIN x = Fields /\ x.cur = thr[w].ctx.root
        /\ x.child = thr[w].child /\ x.sock = thr[w].sock
    BY <1>1, <2>1 DEF Fields
  <2>3. PICK u : u = With(x, Return(w, D))
    OBVIOUS
  <2>4. Returns(x, D, u) /\ u.err = TRUE /\ u.cur = thr[w].ctx.root
    BY <2>2, <2>3 DEF With, Return, Returns, Fields
  <2>5. Returns(thr[w], D, u) /\ u.doomed # <<>>
    BY <1>3, <2>2, <2>4 DEF Returns
  <2>6. thr' = [thr EXCEPT ![w] = u]
    BY <1>2, <1>4, <2>1, <2>3
  <2> QED
    BY <1>1, <1>2, <1>4, <2>4, <2>5, <2>6, DropStep
<1>5. CASE MayIgnore(thr[w].ctx.seq) /\ Set(w, Fail(w))
  <2>1. PICK u : u = With(thr[w], Return(w, D))
    OBVIOUS
  <2>2. Returns(thr[w], D, u) /\ u.err = TRUE /\ u.cur = thr[w].cur
    BY <1>1, <2>1 DEF With, Return, Returns, Fields
  <2>3. u.doomed # <<>>
    BY <1>3, <2>2 DEF Returns
  <2>4. thr' = [thr EXCEPT ![w] = u] /\ ignored \subseteq ignored'
    BY <1>2, <1>5, <2>1 DEF Set, MayIgnore
  <2> QED
    BY <1>1, <1>2, <2>2, <2>3, <2>4, DropStep
<1> QED
  BY <1>4, <1>5

-----------------------------------------------------------------------------
(***************************************************************************)
(* A context with a namespace is begun.                                    *)
(***************************************************************************)
LEMMA MadeFits ==
    ASSUME NEW n \in Nat, NEW r, NEW t, NEW p, NEW rel, LocalsFit(n, r, t, p, rel)
    PROVE  MadeSoFar(n, t, p) \in Nat /\ MadeSoFar(n, t, p) <= n
<1>1. Len(t.contexts) \in Nat
  BY DEF LocalsFit, Typed
<1> QED
  BY <1>1 DEF LocalsFit, Typed, PhaseFits, CountFits, MadeSoFar, Places,
     Preparing, Operating, Waiting

LEMMA InstancesFinite == IsFiniteSet(Instances)
/\ Cardinality(Instances) = Total
<1>1. 0 \in Int /\ Total - 1 \in Int
  BY CrewIs
<1> QED
  BY <1>1, CrewIs, FS_Interval DEF Instances

\* A context that is begun takes a slot that nobody else ever takes.
LEMMA SlotTaken ==
    ASSUME PreparedInv, NEW w \in Crew, thr[w].at = "iter",
           Len(thr[w].contexts) < iterations(w),
           NEW u, u.at = "stage", u.contexts = thr[w].contexts,
           thr' = [thr EXCEPT ![w] = u], phase' = phase
    PROVE  /\ Cardinality(SlotsUsed) \in Nat /\ Cardinality(SlotsUsed') \in Nat
           /\ Cardinality(SlotsUsed) + 1 <= Cardinality(SlotsUsed')
           /\ Cardinality(SlotsUsed') <= Total
<1> DEFINE k == Len(thr[w].contexts)
           s == Slot(w, k)
<1>1. /\ phase[w] = "prepare" /\ DOMAIN thr = Crew /\ k \in Nat
      /\ iterations(w) \in Nat
  BY WorkerFacts DEF PhaseFits, Preparing, Typed
<1>2. k \in 0..(iterations(w) - 1)
  BY <1>1
<1>3. \A v \in Crew : /\ MadeSoFar(iterations(v), thr[v], phase[v]) \in Nat
                      /\ MadeSoFar(iterations(v), thr[v], phase[v]) <= iterations(v)
                      /\ iterations(v) \in Nat
  BY WorkerFacts, MadeFits
<1>4. /\ MadeSoFar(iterations(w), thr[w], phase[w]) = k
      /\ MadeSoFar(iterations(w), thr'[w], phase'[w]) = k + 1
  BY <1>1 DEF MadeSoFar
<1>5. s \in Instances
  BY <1>2, SlotsApart
<1>6. s \notin SlotsUsed
  <2>1. ASSUME s \in SlotsUsed PROVE FALSE
    <3>1. PICK v \in Crew :
            \E j \in 0..(MadeSoFar(iterations(v), thr[v], phase[v]) - 1) :
               s = Slot(v, j)
      BY <2>1 DEF SlotsUsed
    <3>2. PICK j \in 0..(MadeSoFar(iterations(v), thr[v], phase[v]) - 1) :
               s = Slot(v, j)
      BY <3>1
    <3>3. j \in 0..(iterations(v) - 1)
      BY <1>3, <3>2
    <3>4. w = v /\ k = j
      BY <1>2, <3>2, <3>3, SlotsApart
    <3> QED
      BY <1>1, <1>4, <3>2, <3>4
  <2> QED
    BY <2>1
<1>7. s \in SlotsUsed'
  <2>1. k \in 0..(MadeSoFar(iterations(w), thr'[w], phase'[w]) - 1)
    BY <1>1, <1>4
  <2> QED
    BY <1>5, <2>1 DEF SlotsUsed
<1>8. ASSUME NEW x \in SlotsUsed PROVE x \in SlotsUsed'
  <2>1. PICK v \in Crew :
          \E j \in 0..(MadeSoFar(iterations(v), thr[v], phase[v]) - 1) :
             x = Slot(v, j)
    BY DEF SlotsUsed
  <2>2. PICK j \in 0..(MadeSoFar(iterations(v), thr[v], phase[v]) - 1) :
             x = Slot(v, j)
    BY <2>1
  <2>3. j \in 0..(MadeSoFar(iterations(v), thr'[v], phase'[v]) - 1)
    <3>1. CASE v = w
      BY <1>1, <1>4, <2>2, <3>1
    <3>2. CASE v # w
      BY <1>1, <2>2, <3>2
    <3> QED
      BY <3>1, <3>2
  <2>4. x \in Instances
    BY DEF SlotsUsed
  <2> QED
    BY <2>2, <2>3, <2>4 DEF SlotsUsed
<1>9. IsFiniteSet(Instances) /\ Cardinality(Instances) = Total
  BY InstancesFinite
<1>10. SlotsUsed' \subseteq Instances
  BY DEF SlotsUsed
<1>11. IsFiniteSet(SlotsUsed') /\ Cardinality(SlotsUsed') <= Total
       /\ Cardinality(SlotsUsed') \in Nat
  BY <1>9, <1>10, FS_Subset, FS_CardinalityType
<1>12. IsFiniteSet(SlotsUsed) /\ Cardinality(SlotsUsed) \in Nat
  BY SlotsFinite
<1>13. /\ IsFiniteSet(SlotsUsed \cup {s})
       /\ Cardinality(SlotsUsed \cup {s}) = Cardinality(SlotsUsed) + 1
  BY <1>6, <1>12, FS_AddElement
<1>14. SlotsUsed \cup {s} \subseteq SlotsUsed'
  BY <1>7, <1>8
<1>15. Cardinality(SlotsUsed \cup {s}) <= Cardinality(SlotsUsed')
  BY <1>11, <1>14, FS_Subset
<1> QED
  BY <1>11, <1>12, <1>13, <1>15

LEMMA NewContextStep ==
    ASSUME PreparedInv, NEW w \in Crew, thr[w].at = "iter",
           Len(thr[w].contexts) < iterations(w), OpTable[op].netns # "none",
           next_seq' = next_seq + 1,
           side' = [side EXCEPT ![next_seq] = thr[w].cur],
           Set(w, [at |-> "stage", idx |-> 1,
                   ctx |-> [NoContext EXCEPT !.seq = next_seq,
                                             !.root = thr[w].cur]]),
           UNCHANGED <<gateVars, op, made, ignored>>
    PROVE  PreparedInv'
<1> DEFINE n == iterations(w)
           r == OpTable[op]
           t == thr[w]
           p == phase[w]
           c0 == [NoContext EXCEPT !.seq = next_seq, !.root = t.cur]
<1>1. PICK u : u = With(t, [at |-> "stage", idx |-> 1, ctx |-> c0])
  OBVIOUS
<1>2. /\ LocalsFit(n, r, t, p, released) /\ Typed(t) /\ n \in Nat
      /\ Placed(t, next_seq, side, ignored) /\ CleanFits(r, t, made, ignored)
      /\ ModeFits(r, t) /\ InUse(t, p) /\ next_seq \in Nat
      /\ HostOk
  BY WorkerFacts DEF PreparedInv
<1>3. /\ DOMAIN u = Fields /\ u.at = "stage" /\ u.idx = 1 /\ u.ctx = c0
      /\ u.cur = t.cur /\ u.contexts = t.contexts /\ u.completed = t.completed
      /\ u.doomed = t.doomed /\ u.err = t.err /\ u.child = t.child
      /\ u.sock = t.sock
  BY <1>1, <1>2 DEF With, Fields, Typed
<1>4. /\ thr' = [thr EXCEPT ![w] = u] /\ UNCHANGED gateVars /\ phase' = phase
      /\ op' = op /\ made' = made /\ ignored' = ignored
  BY <1>1 DEF Set, gateVars
<1>5. /\ Cardinality(SlotsUsed) \in Nat /\ Cardinality(SlotsUsed') \in Nat
      /\ Cardinality(SlotsUsed) + 1 <= Cardinality(SlotsUsed')
      /\ Cardinality(SlotsUsed') <= Total
  BY <1>3, <1>4, SlotTaken
<1>6. /\ next_seq' \in Nat /\ next_seq' <= Cardinality(SlotsUsed')
      /\ next_seq < Total /\ next_seq \in Instances /\ next_seq # NoNetns
  BY <1>2, <1>5, CrewIs DEF HostOk, Instances, NoNetns
<1>7. /\ t.at = "iter" /\ Len(t.contexts) < n /\ r.netns # "none"
      /\ t.ctx = NoContext /\ t.ctx.seq = NoNetns
      /\ t.cur \in 0..Total /\ (ignored = {} => t.cur = Root)
  BY <1>2 DEF InUse, Handling, Operating, Waiting, Typed, Placed, AtHome,
     NoContext
<1>8. /\ c0 \in Contexts /\ c0.seq = next_seq /\ c0.root = t.cur
      /\ c0.steps = <<>>
  <2>1. next_seq \in 0..Total /\ t.cur \in 0..Total
    BY <1>2, <1>6, <1>7, CrewIs
  <2>2. NoContext \in [seq : 0..Total, root : 0..Total, steps : Seq(StepNames)]
    BY CrewIs DEF NoContext, NoNetns, Root
  <2>3. c0 \in Contexts
    BY <2>1, <2>2 DEF Contexts
  <2> QED
    BY <2>3 DEF NoContext
<1>9. HostOk'
  <2>1. side' \in [Instances -> 0..Total]
    BY <1>2, <1>7 DEF HostOk
  <2>2. ignored' = {} => \A i \in Instances : side'[i] = Root
    BY <1>2, <1>4, <1>7 DEF HostOk
  <2> QED
    BY <1>2, <1>4, <1>6, <2>1, <2>2 DEF HostOk
<1>10. /\ \A i \in Instances : i < next_seq => side'[i] = side[i]
       /\ side'[next_seq] = t.cur
  BY <1>2, <1>6 DEF HostOk, Instances
<1> HIDE DEF n, r, t, p, c0
<1>20. /\ Kept(u) = Kept(t) /\ Held(u) = {c0} \cup Kept(t)
       /\ Kept(t) \subseteq Held(t) /\ Numbers(u) = {next_seq} \cup Numbers(t)
  <2>1. Kept(u) = Kept(t) /\ Held(u) = {c0} \cup Kept(t)
        /\ Held(t) = {t.ctx} \cup Kept(t)
    BY <1>3 DEF Kept, Held
  <2> QED
    BY <1>6, <1>7, <1>8, <2>1 DEF Numbers
<1>21. Typed(u)
  BY <1>2, <1>3, <1>8 DEF Typed, Places, Preparing
<1>22. PhaseFits(u, p, released)
  BY <1>2, <1>3, <1>7 DEF LocalsFit, PhaseFits, Preparing, Operating, Waiting
<1>23. InUse(u, p)
  BY <1>2, <1>3, <1>7 DEF InUse, Preparing, Operating, Waiting, Handling
<1>24. ModeFits(r, u)
  BY <1>2, <1>3, <1>6, <1>7, <1>8, <1>20 DEF ModeFits
<1>25. StepsFit(r, u)
  BY <1>2, <1>3, <1>8, <1>20 DEF LocalsFit, StepsFit, Operating, Waiting, Taken
<1>26. CountFits(n, r, u, p)
  BY <1>2, <1>3, <1>7 DEF LocalsFit, CountFits, Preparing, Operating, Waiting
<1>27. Placed(u, next_seq', side', ignored')
  <2>1. ASSUME NEW c \in Held(u), c.seq = NoNetns PROVE c.root = Root
    BY <1>2, <1>6, <1>8, <1>20, <2>1 DEF Placed
  <2>2. ASSUME NEW c \in Held(u), c.seq # NoNetns
        PROVE  c.seq < next_seq' /\ c.root = side'[c.seq]
    <3>1. CASE c = c0
      BY <1>2, <1>8, <1>10, <3>1
    <3>2. CASE c \in Kept(t)
      <4>1. c \in Held(t) /\ c.seq \in Instances
        BY <1>2, <1>20, <2>2, <3>2, CleanedIsHeld DEF Numbers
      <4>2. c.seq < next_seq /\ c.root = side[c.seq]
        BY <1>2, <2>2, <4>1 DEF Placed
      <4>3. side'[c.seq] = side[c.seq] /\ c.seq \in Int
        BY <1>10, <4>1, <4>2 DEF Instances
      <4> QED
        BY <1>2, <4>2, <4>3
    <3> QED
      BY <1>20, <3>1, <3>2
  <2> QED
    BY <1>3, <1>4, <1>7, <1>8, <2>1, <2>2 DEF Placed, Within, AtHome, Waiting
<1>28. CleanFits(r, u, made', ignored')
  BY <1>3 DEF CleanFits
<1>29. LocalsFit(n, r, u, p, released)
  BY <1>21, <1>22, <1>23, <1>24, <1>25, <1>26 DEF LocalsFit
<1>30. /\ \A i \in Instances \ Numbers(t) : made'[i] = made[i]
       /\ \A i \in Numbers(u) : i \in Numbers(t) \/ i >= next_seq
       /\ \A i \in Numbers(t) : i \in Numbers(u) \/ i \in ignored' \/ made'[i] = {}
       /\ next_seq <= next_seq' /\ ignored \subseteq ignored'
  BY <1>2, <1>4, <1>20
<1> QED
  BY <1>4, <1>9, <1>10, <1>27, <1>28, <1>29, <1>30, WorkerMoves DEF n, r, t, p

-----------------------------------------------------------------------------
(***************************************************************************)
(* The commands on the host.                                               *)
(***************************************************************************)
LEMMA StageKnown ==
    ASSUME NEW i \in 1..Len(Stages)
    PROVE  /\ Stages[i] \in StageNames
           /\ Mode # "full" => Stages[i] # "host_nat"
<1>1. CASE Mode = "full"
  <2>1. Stages = STAGES /\ i \in 1..13
    BY <1>1 DEF Stages, STAGES
  <2> QED
    BY <1>1, <2>1 DEF STAGES, StageNames
<1>2. CASE Mode # "full"
  <2>1. Stages = SubSeq(STAGES, 1, 4)
    BY <1>2 DEF Stages, MINIMAL_STAGES
  <2>2. STAGES \in Seq(StageNames) /\ Len(STAGES) = 13
    BY DEF STAGES, StageNames
  <2>3. Len(SubSeq(STAGES, 1, 4)) = 4
        /\ \A j \in 1..4 : SubSeq(STAGES, 1, 4)[j] = STAGES[j]
    BY <2>2
  <2>4. i \in 1..4 /\ Stages[i] = STAGES[i]
    BY <2>1, <2>3
  <2> QED
    BY <2>4 DEF STAGES, StageNames
<1> QED
  BY <1>1, <1>2

LEMMA CleanupIs ==
    ASSUME NEW k \in 1..Len(Cleanup)
    PROVE  /\ Cleanup = CleanupOf(OpTable[op])
           /\ Len(Cleanup) \in Nat \ {0}
           /\ Cleanup[k] \in {"delete_host_nat", "link_del", "netns_del"}
           /\ Mode = "full" => Cleanup[1] = "delete_host_nat"
           /\ Mode # "full" => Cleanup[1] = "netns_del"
           /\ k = Len(Cleanup) => Cleanup[k] = "netns_del"
           /\ k = Len(Cleanup) /\ Mode = "full" => k >= 2
BY DEF Cleanup, CleanupOf, cleanup, Mode

LEMMA AfterIs ==
    ASSUME NEW m \in SUBSET StageNames
    PROVE  /\ After(m, "delete_host_nat") = m \ {"host_nat"}
           /\ After(m, "link_del") = m \ VethStages
           /\ After(m, "netns_del") = m \cap {"host_nat"}
BY DEF After

\* A clean-up command that works takes away, the first one the rule on the
\* host, and the last one what is left.
LEMMA CleanupStep ==
    ASSUME PreparedInv, NEW w \in Crew, NEW i \in Instances, CleanupCommand(w, i),
           thr[w].idx \in 1..Len(Cleanup),
           i \in ignored \/ thr[w].cur = side[i],
           thr[w].idx >= 2 => NatGone(i, made, ignored)
    PROVE  /\ made' \in [Instances -> SUBSET StageNames]
           /\ \A j \in Instances : j # i => made'[j] = made[j]
           /\ ignored \subseteq ignored'
           /\ "host_nat" \in made'[i] => "host_nat" \in made[i]
           /\ NatGone(i, made', ignored')
           /\ thr[w].idx = Len(Cleanup) => made'[i] = {} \/ i \in ignored'
<1> DEFINE k == thr[w].idx
           m == Cleaned(w, i, Cleanup[k])
<1>1. /\ made \in [Instances -> SUBSET StageNames]
      /\ made[i] \in SUBSET StageNames
      /\ Mode # "full" => "host_nat" \notin made[i]
  BY DEF PreparedInv, HostOk, Mode
<1>2. ASSUME MayIgnore(i), UNCHANGED made
      PROVE  /\ i \in ignored' /\ ignored \subseteq ignored' /\ made' = made
             /\ NatGone(i, made', ignored')
  BY <1>2 DEF MayIgnore, NatGone
<1>3. ASSUME made' = [made EXCEPT ![i] = m], UNCHANGED ignored
      PROVE  /\ made' \in [Instances -> SUBSET StageNames]
             /\ \A j \in Instances : j # i => made'[j] = made[j]
             /\ "host_nat" \in made'[i] => "host_nat" \in made[i]
             /\ NatGone(i, made', ignored')
             /\ k = Len(Cleanup) => made'[i] = {} \/ i \in ignored'
  <2>1. Cleanup[k] \in {"delete_host_nat", "link_del", "netns_del"}
    BY CleanupIs
  <2>2. /\ After(made[i], "delete_host_nat") = made[i] \ {"host_nat"}
        /\ After(made[i], "link_del") = made[i] \ VethStages
        /\ After(made[i], "netns_del") = made[i] \cap {"host_nat"}
    BY <1>1, AfterIs
  <2>3. m = made[i] \/ m = After(made[i], Cleanup[k])
    BY DEF Cleaned
  <2>4. m \subseteq made[i]
    BY <2>1, <2>2, <2>3
  <2>5. made'[i] = m
    BY <1>1, <1>3
  <2>6. i \in ignored \/ m = After(made[i], Cleanup[k])
    BY DEF Cleaned
  <2>7. i \in ignored \/ "host_nat" \notin m
    <3>1. CASE k >= 2
      <4>1. i \in ignored \/ "host_nat" \notin made[i]
        BY <3>1 DEF NatGone
      <4> QED
        BY <2>4, <4>1
    <3>2. CASE ~(k >= 2)
      <4>1. k = 1
        BY <3>2
      <4>2. CASE Mode = "full"
        <5>1. Cleanup[k] = "delete_host_nat"
          BY <4>1, <4>2, CleanupIs
        <5> QED
          BY <2>2, <2>6, <5>1
      <4>3. CASE Mode # "full"
        BY <1>1, <2>4, <4>3
      <4> QED
        BY <4>2, <4>3
    <3> QED
      BY <3>1, <3>2
  <2>8. k = Len(Cleanup) => m = {} \/ i \in ignored
    <3>1. k = Len(Cleanup) => Cleanup[k] = "netns_del"
      BY CleanupIs
    <3> QED
      BY <2>2, <2>6, <2>7, <3>1
  <2>9. made' \in [Instances -> SUBSET StageNames]
    BY <1>1, <1>3, <2>4
  <2> QED
    BY <1>3, <1>1, <2>4, <2>5, <2>7, <2>8, <2>9 DEF NatGone
<1> QED
  BY <1>1, <1>2, <1>3 DEF CleanupCommand

\* A worker's step on what there is of one of its namespaces.
LEMMA HostMoves ==
    ASSUME PreparedInv, NEW w \in Crew, NEW i \in Instances, i \in Numbers(thr[w]),
           UNCHANGED <<gateVars, op, next_seq, side>>, ignored \subseteq ignored',
           made' \in [Instances -> SUBSET StageNames],
           OpTable[op].netns # "full" => "host_nat" \notin made'[i],
           \A j \in Instances : j # i => made'[j] = made[j],
           NEW u, thr' = [thr EXCEPT ![w] = u],
           LocalsFit(iterations(w), OpTable[op], u, phase[w], released),
           Placed(u, next_seq, side, ignored'),
           CleanFits(OpTable[op], u, made', ignored'),
           MadeSoFar(iterations(w), thr[w], phase[w])
              <= MadeSoFar(iterations(w), u, phase[w]),
           Numbers(u) \subseteq Numbers(thr[w]),
           \A j \in Numbers(thr[w]) : j # i => j \in Numbers(u),
           i \in Numbers(u) \/ i \in ignored' \/ made'[i] = {}
    PROVE  PreparedInv'
<1>1. UNCHANGED gateVars /\ phase' = phase /\ op' = op /\ side' = side
      /\ next_seq' = next_seq /\ next_seq \in Nat
  BY WorkerFacts DEF gateVars
<1>2. /\ Cardinality(SlotsUsed) <= Cardinality(SlotsUsed')
      /\ Cardinality(SlotsUsed) \in Nat /\ Cardinality(SlotsUsed') \in Nat
  BY <1>1, SlotsStep DEF LocalsFit
<1>3. ignored' = {} => ignored = {}
  OBVIOUS
<1>4. HostOk
  BY DEF PreparedInv
<1>5. HostOk'
  BY <1>1, <1>2, <1>3, <1>4 DEF HostOk
<1>6. /\ \A j \in Instances : j < next_seq => side'[j] = side[j]
      /\ \A j \in Instances \ Numbers(thr[w]) : made'[j] = made[j]
      /\ \A j \in Numbers(u) : j \in Numbers(thr[w]) \/ j >= next_seq
      /\ \A j \in Numbers(thr[w]) :
            j \in Numbers(u) \/ j \in ignored' \/ made'[j] = {}
      /\ next_seq <= next_seq'
  BY <1>1
<1>7. /\ LocalsFit(iterations(w), OpTable[op], u, phase'[w], released)
      /\ Placed(u, next_seq', side', ignored')
  BY <1>1
<1> QED
  BY <1>1, <1>5, <1>6, <1>7, WorkerMoves

LEMMA StageOkStep ==
    ASSUME PreparedInv, NEW w \in Crew, thr[w].at = "stage",
           thr[w].idx <= Len(Stages),
           UNCHANGED <<gateVars, op, next_seq, side>>,
           made' = [made EXCEPT ![thr[w].ctx.seq] =
                                @ \cup {Stages[thr[w].idx]}],
           UNCHANGED ignored,
           Set(w, [idx |-> thr[w].idx + 1])
    PROVE  PreparedInv'
<1> DEFINE n == iterations(w)
           r == OpTable[op]
           t == thr[w]
           p == phase[w]
<1>1. PICK u : u = With(t, [idx |-> t.idx + 1])
  OBVIOUS
<1>2. /\ LocalsFit(n, r, t, p, released) /\ Typed(t) /\ n \in Nat
      /\ Placed(t, next_seq, side, ignored) /\ CleanFits(r, t, made, ignored)
      /\ ModeFits(r, t)
  BY WorkerFacts
<1>3. /\ SameContexts(t, u)
      /\ u.at = t.at /\ u.cur = t.cur /\ u.idx = t.idx + 1
      /\ u.err = t.err /\ u.child = t.child /\ u.sock = t.sock
  BY <1>1, <1>2 DEF With, Fields, SameContexts, Typed
<1>4. t.at = "stage" /\ t.ctx.seq \in Numbers(t) /\ t.ctx.seq \in Instances
      /\ t.idx >= 1 /\ t.idx \in Nat
  <2>1. t.ctx.seq \in Numbers(t) /\ Numbers(t) \subseteq Instances
    BY <1>2, CleanedIsHeld
  <2> QED
    BY <1>2, <2>1 DEF CleanFits, Typed
<1>15. /\ made' \in [Instances -> SUBSET StageNames]
       /\ (r.netns # "full" => "host_nat" \notin made'[t.ctx.seq])
       /\ \A j \in Instances : j # t.ctx.seq => made'[j] = made[j]
       /\ ignored' = ignored /\ ignored \subseteq ignored'
       /\ (t.ctx.seq \in Numbers(t) \/ made'[t.ctx.seq] = {})
  <2>1. /\ made \in [Instances -> SUBSET StageNames]
        /\ r.netns # "full" => "host_nat" \notin made[t.ctx.seq]
    BY <1>4 DEF PreparedInv, HostOk
  <2>2. t.idx \in 1..Len(Stages)
    <3>1. Len(Stages) \in Nat
      BY DEF Stages, STAGES, MINIMAL_STAGES
    <3> QED
      BY <1>4, <3>1
  <2>3. /\ Stages[t.idx] \in StageNames
        /\ r.netns # "full" => Stages[t.idx] # "host_nat"
    BY <2>2, StageKnown DEF Mode
  <2> QED
    BY <1>4, <2>1, <2>3
<1>16. thr' = [thr EXCEPT ![w] = u]
  BY <1>1 DEF Set
<1> HIDE DEF n, r, t, p
<1>5. Typed(u)
  BY <1>2, <1>3 DEF SameContexts, Typed
<1>6. PhaseFits(u, p, released)
  BY <1>2, <1>3 DEF LocalsFit, PhaseFits
<1>7. InUse(u, p)
  BY <1>2, <1>3 DEF SameContexts, LocalsFit, InUse
<1>8. ModeFits(r, u)
  BY <1>2, <1>3, SameHeld DEF SameContexts, ModeFits
<1>9. StepsFit(r, u)
  BY <1>2, <1>3, SameHeld DEF SameContexts, LocalsFit, StepsFit
<1>10. CountFits(n, r, u, p)
  BY <1>2, <1>3 DEF SameContexts, LocalsFit, CountFits
<1>11. Placed(u, next_seq, side, ignored')
  BY <1>2, <1>3, <1>4, <1>15, SameHeld DEF SameContexts, Placed, Within,
     AtHome, Waiting
<1>12. CleanFits(r, u, made', ignored')
  BY <1>2, <1>3, <1>4, <1>15 DEF SameContexts, CleanFits
<1>13. LocalsFit(n, r, u, p, released)
  BY <1>5, <1>6, <1>7, <1>8, <1>9, <1>10 DEF LocalsFit
<1>14. /\ MadeSoFar(n, t, p) <= MadeSoFar(n, u, p)
       /\ Numbers(u) = Numbers(t)
  <2>1. MadeSoFar(n, t, p) \in Nat /\ MadeSoFar(n, u, p) = MadeSoFar(n, t, p)
    BY <1>2, <1>3, MadeIsInt DEF SameContexts, MadeSoFar
  <2> QED
    BY <1>3, <2>1, SameHeld
<1> QED
  BY <1>4, <1>11, <1>12, <1>13, <1>14, <1>15, <1>16, HostMoves DEF n, r, t, p

LEMMA UndoNextStep ==
    ASSUME PreparedInv, NEW w \in Crew, thr[w].at = "undo",
           thr[w].idx < Len(Cleanup),
           UNCHANGED <<gateVars, op, next_seq, side>>,
           CleanupCommand(w, thr[w].ctx.seq),
           Set(w, [idx |-> thr[w].idx + 1])
    PROVE  PreparedInv'
<1> DEFINE n == iterations(w)
           r == OpTable[op]
           t == thr[w]
           p == phase[w]
<1>1. PICK u : u = With(t, [idx |-> t.idx + 1])
  OBVIOUS
<1>2. /\ LocalsFit(n, r, t, p, released) /\ Typed(t) /\ n \in Nat
      /\ Placed(t, next_seq, side, ignored) /\ CleanFits(r, t, made, ignored)
      /\ ModeFits(r, t)
  BY WorkerFacts
<1>3. /\ SameContexts(t, u)
      /\ u.at = t.at /\ u.cur = t.cur /\ u.idx = t.idx + 1
      /\ u.err = t.err /\ u.child = t.child /\ u.sock = t.sock
  BY <1>1, <1>2 DEF With, Fields, SameContexts, Typed
<1>4. t.at = "undo" /\ t.ctx.seq \in Numbers(t) /\ t.ctx.seq \in Instances
      /\ t.idx \in 1..Len(Cleanup) /\ Cleanup = CleanupOf(r)
      /\ Len(Cleanup) \in Nat
      /\ t.cur = side[t.ctx.seq]
      /\ (t.idx >= 2 => NatGone(t.ctx.seq, made, ignored)) /\ t.idx < Len(Cleanup)
  <2>1. t.ctx.seq \in Numbers(t) /\ Numbers(t) \subseteq Instances
    BY <1>2, CleanedIsHeld
  <2>2. Cleanup = CleanupOf(r) /\ Len(Cleanup) \in Nat
    BY DEF Cleanup, CleanupOf, Mode, cleanup
  <2>3. t.cur = side[t.ctx.seq]
    BY <1>2, <2>1, HeldFacts DEF Placed, Numbers
  <2> QED
    BY <1>2, <2>1, <2>2, <2>3 DEF CleanFits
<1>15. /\ made' \in [Instances -> SUBSET StageNames]
       /\ \A j \in Instances : j # t.ctx.seq => made'[j] = made[j]
       /\ ignored \subseteq ignored'
       /\ (r.netns # "full" => "host_nat" \notin made'[t.ctx.seq])
       /\ NatGone(t.ctx.seq, made', ignored')
  <2>1. /\ made' \in [Instances -> SUBSET StageNames]
        /\ \A j \in Instances : j # t.ctx.seq => made'[j] = made[j]
        /\ ignored \subseteq ignored'
        /\ "host_nat" \in made'[t.ctx.seq] => "host_nat" \in made[t.ctx.seq]
        /\ NatGone(t.ctx.seq, made', ignored')
    BY <1>4, CleanupStep DEF t
  <2>2. r.netns # "full" => "host_nat" \notin made[t.ctx.seq]
    BY <1>4 DEF PreparedInv, HostOk, r
  <2> QED
    BY <2>1, <2>2
<1>16. thr' = [thr EXCEPT ![w] = u]
  BY <1>1 DEF Set
<1> HIDE DEF n, r, t, p
<1>5. Typed(u)
  BY <1>2, <1>3 DEF SameContexts, Typed
<1>6. PhaseFits(u, p, released)
  BY <1>2, <1>3 DEF LocalsFit, PhaseFits
<1>7. InUse(u, p)
  BY <1>2, <1>3 DEF SameContexts, LocalsFit, InUse
<1>8. ModeFits(r, u)
  BY <1>2, <1>3, SameHeld DEF SameContexts, ModeFits
<1>9. StepsFit(r, u)
  BY <1>2, <1>3, SameHeld DEF SameContexts, LocalsFit, StepsFit
<1>10. CountFits(n, r, u, p)
  BY <1>2, <1>3 DEF SameContexts, LocalsFit, CountFits
<1>11. Placed(u, next_seq, side, ignored')
  BY <1>2, <1>3, <1>4, <1>15, SameHeld DEF SameContexts, Placed, Within,
     AtHome, Waiting
<1>12. CleanFits(r, u, made', ignored')
  BY <1>2, <1>3, <1>4, <1>15 DEF SameContexts, CleanFits
<1>13. LocalsFit(n, r, u, p, released)
  BY <1>5, <1>6, <1>7, <1>8, <1>9, <1>10 DEF LocalsFit
<1>14. /\ MadeSoFar(n, t, p) <= MadeSoFar(n, u, p)
       /\ Numbers(u) = Numbers(t)
  <2>1. MadeSoFar(n, t, p) \in Nat /\ MadeSoFar(n, u, p) = MadeSoFar(n, t, p)
    BY <1>2, <1>3, MadeIsInt DEF SameContexts, MadeSoFar
  <2> QED
    BY <1>3, <2>1, SameHeld
<1> QED
  BY <1>4, <1>11, <1>12, <1>13, <1>14, <1>15, <1>16, HostMoves DEF n, r, t, p

LEMMA CleanNextStep ==
    ASSUME PreparedInv, NEW w \in Crew, thr[w].at = "drop",
           thr[w].doomed # <<>>, thr[w].idx > 0, thr[w].idx < Len(Cleanup),
           UNCHANGED <<gateVars, op, next_seq, side>>,
           CleanupCommand(w, Head(thr[w].doomed).seq),
           Set(w, [idx |-> thr[w].idx + 1])
    PROVE  PreparedInv'
<1> DEFINE n == iterations(w)
           r == OpTable[op]
           t == thr[w]
           p == phase[w]
           i == Head(t.doomed).seq
<1>1. PICK u : u = With(t, [idx |-> t.idx + 1])
  OBVIOUS
<1>2. /\ LocalsFit(n, r, t, p, released) /\ Typed(t) /\ n \in Nat
      /\ Placed(t, next_seq, side, ignored) /\ CleanFits(r, t, made, ignored)
      /\ ModeFits(r, t)
  BY WorkerFacts
<1>3. /\ SameContexts(t, u)
      /\ u.at = t.at /\ u.cur = t.cur /\ u.idx = t.idx + 1
      /\ u.err = t.err /\ u.child = t.child /\ u.sock = t.sock
  BY <1>1, <1>2 DEF With, Fields, SameContexts, Typed
<1>4. t.at = "drop" /\ t.doomed # <<>> /\ i \in Numbers(t) /\ i \in Instances
      /\ t.idx \in 1..Len(Cleanup) /\ Cleanup = CleanupOf(r)
      /\ Len(Cleanup) \in Nat /\ Head(t.doomed) \in Held(t)
      /\ (i \in ignored \/ t.cur = side[i])
      /\ (t.idx >= 2 => NatGone(i, made, ignored)) /\ t.idx < Len(Cleanup)
  <2>1. r.netns # "none"
    BY <1>2 DEF ModeFits
  <2>2. i \in Numbers(t) /\ Numbers(t) \subseteq Instances
    BY <1>2, <2>1, CleanedIsHeld
  <2>3. Cleanup = CleanupOf(r) /\ Len(Cleanup) \in Nat
    BY DEF Cleanup, CleanupOf, Mode, cleanup
  <2>4. Head(t.doomed) \in Held(t) /\ i # NoNetns
    BY <1>2, <2>2, HeldFacts DEF Numbers
  <2>5. Head(t.doomed).root = side[i]
    BY <1>2, <2>4 DEF Placed
  <2>6. i \in ignored \/ t.cur = side[i]
    BY <1>2, <2>5 DEF Placed
  <2>7. t.idx \in 1..Len(Cleanup)
    BY <1>2, <2>3 DEF CleanFits
  <2> QED
    BY <1>2, <2>2, <2>3, <2>4, <2>6, <2>7 DEF CleanFits
<1>15. /\ made' \in [Instances -> SUBSET StageNames]
       /\ \A j \in Instances : j # i => made'[j] = made[j]
       /\ ignored \subseteq ignored'
       /\ (r.netns # "full" => "host_nat" \notin made'[i])
       /\ NatGone(i, made', ignored')
  <2>1. /\ made' \in [Instances -> SUBSET StageNames]
        /\ \A j \in Instances : j # i => made'[j] = made[j]
        /\ ignored \subseteq ignored'
        /\ "host_nat" \in made'[i] => "host_nat" \in made[i]
        /\ NatGone(i, made', ignored')
    BY <1>4, CleanupStep DEF t
  <2>2. r.netns # "full" => "host_nat" \notin made[i]
    BY <1>4 DEF PreparedInv, HostOk, r
  <2> QED
    BY <2>1, <2>2
<1>16. thr' = [thr EXCEPT ![w] = u]
  BY <1>1 DEF Set
<1> HIDE DEF n, r, t, p
<1>5. Typed(u)
  BY <1>2, <1>3 DEF SameContexts, Typed
<1>6. PhaseFits(u, p, released)
  BY <1>2, <1>3 DEF LocalsFit, PhaseFits
<1>7. InUse(u, p)
  BY <1>2, <1>3 DEF SameContexts, LocalsFit, InUse
<1>8. ModeFits(r, u)
  BY <1>2, <1>3, SameHeld DEF SameContexts, ModeFits
<1>9. StepsFit(r, u)
  BY <1>2, <1>3, SameHeld DEF SameContexts, LocalsFit, StepsFit
<1>10. CountFits(n, r, u, p)
  BY <1>2, <1>3 DEF SameContexts, LocalsFit, CountFits
<1>11. Placed(u, next_seq, side, ignored')
  BY <1>2, <1>3, <1>4, <1>15, SameHeld DEF SameContexts, Placed, Within,
     AtHome, Waiting
<1>12. CleanFits(r, u, made', ignored')
  BY <1>2, <1>3, <1>4, <1>15 DEF SameContexts, CleanFits
<1>13. LocalsFit(n, r, u, p, released)
  BY <1>5, <1>6, <1>7, <1>8, <1>9, <1>10 DEF LocalsFit
<1>14. /\ MadeSoFar(n, t, p) <= MadeSoFar(n, u, p)
       /\ Numbers(u) = Numbers(t)
  <2>1. MadeSoFar(n, t, p) \in Nat /\ MadeSoFar(n, u, p) = MadeSoFar(n, t, p)
    BY <1>2, <1>3, MadeIsInt DEF SameContexts, MadeSoFar
  <2> QED
    BY <1>3, <2>1, SameHeld
<1> QED
  BY <1>4, <1>11, <1>12, <1>13, <1>14, <1>15, <1>16, HostMoves DEF n, r, t, p

LEMMA UndoLastStep ==
    ASSUME PreparedInv, NEW w \in Crew, thr[w].at = "undo",
           ~(thr[w].idx < Len(Cleanup)),
           UNCHANGED <<gateVars, op, next_seq, side>>,
           CleanupCommand(w, thr[w].ctx.seq), Set(w, Return(w, thr[w].contexts))
    PROVE  PreparedInv'
<1> DEFINE n == iterations(w)
           r == OpTable[op]
           t == thr[w]
           p == phase[w]
<1>1. PICK u : u = With(t, Return(w, t.contexts))
  OBVIOUS
<1>2. /\ LocalsFit(n, r, t, p, released) /\ Typed(t) /\ n \in Nat
      /\ Placed(t, next_seq, side, ignored) /\ CleanFits(r, t, made, ignored)
      /\ ModeFits(r, t)
  BY WorkerFacts
<1>3. /\ DOMAIN u = Fields /\ u.at = "drop" /\ u.idx = 0
      /\ u.doomed = Doomed(t.contexts) /\ u.err = TRUE
      /\ u.ctx = NoContext /\ u.contexts = <<>> /\ u.completed = <<>>
      /\ u.cur = t.cur /\ u.child = t.child /\ u.sock = t.sock
  BY <1>1, <1>2 DEF With, Return, Fields, Typed
<1>4. t.at = "undo" /\ t.ctx.seq \in Numbers(t) /\ t.ctx.seq \in Instances
      /\ t.idx \in 1..Len(Cleanup) /\ Cleanup = CleanupOf(r)
      /\ Len(Cleanup) \in Nat
      /\ t.cur = side[t.ctx.seq]
      /\ (t.idx >= 2 => NatGone(t.ctx.seq, made, ignored))
      /\ t.idx = Len(Cleanup) /\ u.doomed = t.contexts
      /\ r.netns # "none" /\ t.completed = <<>> /\ t.doomed = <<>>
      /\ p = "prepare" /\ t.contexts \in Seq(Contexts)
  <2>1. t.ctx.seq \in Numbers(t) /\ Numbers(t) \subseteq Instances
    BY <1>2, CleanedIsHeld
  <2>2. Cleanup = CleanupOf(r) /\ Len(Cleanup) \in Nat
    BY DEF Cleanup, CleanupOf, Mode, cleanup
  <2>3. t.cur = side[t.ctx.seq]
    BY <1>2, <2>1, HeldFacts DEF Placed, Numbers
  <2>4. t.idx \in 1..Len(Cleanup) /\ t.idx = Len(Cleanup)
    BY <1>2, <2>2 DEF CleanFits
  <2>5. /\ r.netns # "none" /\ t.completed = <<>> /\ t.doomed = <<>>
        /\ p = "prepare" /\ t.contexts \in Seq(Contexts)
    BY <1>2 DEF ModeFits, LocalsFit, InUse, PhaseFits, Preparing, Typed
  <2>6. u.doomed = t.contexts
    BY <1>3, <2>5 DEF Doomed, Mode
  <2> QED
    BY <1>2, <2>1, <2>2, <2>3, <2>4, <2>5, <2>6 DEF CleanFits
<1>15. /\ made' \in [Instances -> SUBSET StageNames]
       /\ \A j \in Instances : j # t.ctx.seq => made'[j] = made[j]
       /\ ignored \subseteq ignored'
       /\ (r.netns # "full" => "host_nat" \notin made'[t.ctx.seq])
       /\ (made'[t.ctx.seq] = {} \/ t.ctx.seq \in ignored')
  <2>1. /\ made' \in [Instances -> SUBSET StageNames]
        /\ \A j \in Instances : j # t.ctx.seq => made'[j] = made[j]
        /\ ignored \subseteq ignored'
        /\ "host_nat" \in made'[t.ctx.seq] => "host_nat" \in made[t.ctx.seq]
        /\ made'[t.ctx.seq] = {} \/ t.ctx.seq \in ignored'
    BY <1>4, CleanupStep DEF t
  <2>2. r.netns # "full" => "host_nat" \notin made[t.ctx.seq]
    BY <1>4 DEF PreparedInv, HostOk, r
  <2> QED
    BY <2>1, <2>2
<1>16. thr' = [thr EXCEPT ![w] = u]
  BY <1>1 DEF Set
<1> HIDE DEF n, r, t, p
<1>20. /\ Kept(u) = Range(t.contexts) /\ Held(u) = {NoContext} \cup Kept(t)
       /\ Kept(t) = Range(t.contexts) /\ Kept(t) \subseteq Held(t)
       /\ Numbers(u) \subseteq Numbers(t)
       /\ \A j \in Numbers(t) : j # t.ctx.seq => j \in Numbers(u)
       /\ Range(u.contexts) = {}
       /\ NoContext \in Contexts /\ NoContext.seq = NoNetns
       /\ NoContext.root = Root
       /\ NoContext.steps = <<>>
  <2>1. /\ Kept(u) = Range(t.contexts) /\ Held(u) = {NoContext} \cup Kept(t)
        /\ Kept(t) = Range(t.contexts) /\ Held(t) = {t.ctx} \cup Kept(t)
        /\ Range(u.contexts) = {}
    BY <1>3, <1>4, RangeEmpty DEF Kept, Held
  <2>2. /\ Numbers(u) \subseteq Numbers(t)
        /\ \A j \in Numbers(t) : j # t.ctx.seq => j \in Numbers(u)
    BY <2>1, NoContextIs DEF Numbers
  <2> QED
    BY <2>1, <2>2, NoContextIs
<1>5. Typed(u)
  <2>1. u.doomed \in Seq(Contexts) /\ <<>> \in Seq(Contexts)
    BY <1>4
  <2>2. u.err \in BOOLEAN /\ u.sock \in BOOLEAN /\ u.at \in Places
    BY <1>2, <1>3 DEF Typed, Places
  <2> QED
    BY <1>2, <1>3, <1>20, <2>1, <2>2 DEF Typed
<1>6. PhaseFits(u, p, released)
  BY <1>3, <1>4 DEF PhaseFits, Preparing, Operating, Waiting
<1>7. InUse(u, p)
  BY <1>2, <1>3, <1>4 DEF LocalsFit, InUse, Preparing, Operating, Waiting,
     Handling
<1>8. ModeFits(r, u)
  BY <1>2, <1>3, <1>4, <1>20 DEF ModeFits, Handling, Operating, Waiting
<1>9. StepsFit(r, u)
  BY <1>2, <1>3, <1>20 DEF LocalsFit, StepsFit, Operating, Waiting, Taken
<1>10. CountFits(n, r, u, p)
  BY <1>3, <1>4 DEF CountFits, Preparing, Operating, Waiting
<1>11. Placed(u, next_seq, side, ignored')
  <2>1. \A c \in Held(u) :
           /\ c.seq = NoNetns => c.root = Root
           /\ c.seq # NoNetns => c.seq < next_seq /\ c.root = side[c.seq]
    BY <1>2, <1>20 DEF Placed
  <2>2. ignored' = {} => t.cur = Root
    BY <1>2, <1>4, <1>15 DEF Placed, AtHome
  <2> QED
    BY <2>1, <2>2, <1>3 DEF Placed, Within, AtHome, Waiting
<1>12. CleanFits(r, u, made', ignored')
  BY <1>3, <1>4 DEF CleanFits
<1>13. LocalsFit(n, r, u, p, released)
  BY <1>5, <1>6, <1>7, <1>8, <1>9, <1>10 DEF LocalsFit
<1>14. MadeSoFar(n, t, p) <= MadeSoFar(n, u, p)
  <2>1. MadeSoFar(n, u, p) = n
    BY <1>3 DEF MadeSoFar
  <2>2. MadeSoFar(n, t, p) <= n
    BY <1>2, MadeFits
  <2> QED
    BY <2>1, <2>2
<1>21. PICK i : i = t.ctx.seq
  OBVIOUS
<1>22. /\ i \in Instances /\ i \in Numbers(t) /\ Numbers(u) \subseteq Numbers(t)
       /\ \A j \in Numbers(t) : j # i => j \in Numbers(u)
  BY <1>4, <1>20, <1>21
<1>23. /\ made' \in [Instances -> SUBSET StageNames]
       /\ \A j \in Instances : j # i => made'[j] = made[j]
       /\ ignored \subseteq ignored'
       /\ (r.netns # "full" => "host_nat" \notin made'[i])
       /\ (made'[i] = {} \/ i \in ignored')
  BY <1>15, <1>21
<1> QED
  BY <1>11, <1>12, <1>13, <1>14, <1>16, <1>22, <1>23, HostMoves DEF n, r, t, p

LEMMA CleanLastStep ==
    ASSUME PreparedInv, NEW w \in Crew, thr[w].at = "drop",
           thr[w].doomed # <<>>, thr[w].idx > 0, ~(thr[w].idx < Len(Cleanup)),
           UNCHANGED <<gateVars, op, next_seq, side>>,
           CleanupCommand(w, Head(thr[w].doomed).seq),
           Set(w, [idx |-> 0, doomed |-> Tail(thr[w].doomed)])
    PROVE  PreparedInv'
<1> DEFINE n == iterations(w)
           r == OpTable[op]
           t == thr[w]
           p == phase[w]
           i == Head(t.doomed).seq
<1>1. PICK u : u = With(t, [idx |-> 0, doomed |-> Tail(t.doomed)])
  OBVIOUS
<1>2. /\ LocalsFit(n, r, t, p, released) /\ Typed(t) /\ n \in Nat
      /\ Placed(t, next_seq, side, ignored) /\ CleanFits(r, t, made, ignored)
      /\ ModeFits(r, t)
  BY WorkerFacts
<1>3. /\ DOMAIN u = Fields /\ u.at = "drop" /\ u.idx = 0
      /\ u.doomed = Tail(t.doomed) /\ u.err = t.err
      /\ u.ctx = t.ctx /\ u.contexts = t.contexts /\ u.completed = t.completed
      /\ u.cur = t.cur /\ u.child = t.child /\ u.sock = t.sock
  BY <1>1, <1>2 DEF With, Fields, Typed
<1>4. t.at = "drop" /\ t.doomed # <<>> /\ i \in Numbers(t) /\ i \in Instances
      /\ t.idx \in 1..Len(Cleanup) /\ Cleanup = CleanupOf(r)
      /\ Len(Cleanup) \in Nat /\ Head(t.doomed) \in Held(t)
      /\ (i \in ignored \/ t.cur = side[i])
      /\ (t.idx >= 2 => NatGone(i, made, ignored))
      /\ t.idx = Len(Cleanup) /\ r.netns # "none" /\ t.idx > 0
  <2>1. r.netns # "none"
    BY <1>2 DEF ModeFits
  <2>2. i \in Numbers(t) /\ Numbers(t) \subseteq Instances
    BY <1>2, <2>1, CleanedIsHeld
  <2>3. Cleanup = CleanupOf(r) /\ Len(Cleanup) \in Nat
    BY DEF Cleanup, CleanupOf, Mode, cleanup
  <2>4. Head(t.doomed) \in Held(t) /\ i # NoNetns
    BY <1>2, <2>2, HeldFacts DEF Numbers
  <2>5. Head(t.doomed).root = side[i]
    BY <1>2, <2>4 DEF Placed
  <2>6. i \in ignored \/ t.cur = side[i]
    BY <1>2, <2>5 DEF Placed
  <2>7. t.idx \in 1..Len(Cleanup)
    BY <1>2, <2>3 DEF CleanFits
  <2>8. t.idx = Len(Cleanup)
    BY <2>3, <2>7
  <2> QED
    BY <1>2, <2>1, <2>2, <2>3, <2>4, <2>6, <2>7, <2>8 DEF CleanFits
<1>15. /\ made' \in [Instances -> SUBSET StageNames]
       /\ \A j \in Instances : j # i => made'[j] = made[j]
       /\ ignored \subseteq ignored'
       /\ (r.netns # "full" => "host_nat" \notin made'[i])
       /\ (made'[i] = {} \/ i \in ignored')
  <2>1. /\ made' \in [Instances -> SUBSET StageNames]
        /\ \A j \in Instances : j # i => made'[j] = made[j]
        /\ ignored \subseteq ignored'
        /\ "host_nat" \in made'[i] => "host_nat" \in made[i]
        /\ made'[i] = {} \/ i \in ignored'
    BY <1>4, CleanupStep DEF t
  <2>2. r.netns # "full" => "host_nat" \notin made[i]
    BY <1>4 DEF PreparedInv, HostOk, r
  <2> QED
    BY <2>1, <2>2
<1>16. thr' = [thr EXCEPT ![w] = u]
  BY <1>1 DEF Set
<1> HIDE DEF n, r, t, p, i
<1>20. /\ Kept(u) \subseteq Kept(t) /\ Held(u) \subseteq Held(t)
       /\ u.doomed \in Seq(Contexts)
       /\ Numbers(u) \subseteq Numbers(t)
       /\ \A j \in Numbers(t) : j # i => j \in Numbers(u)
  <2>1. /\ Range(t.doomed) = {Head(t.doomed)} \cup Range(u.doomed)
        /\ u.doomed \in Seq(Contexts)
    BY <1>2, <1>3, <1>4, HeldFacts
  <2>2. /\ Kept(t) = {Head(t.doomed)} \cup Kept(u)
        /\ Held(t) = {Head(t.doomed)} \cup Held(u)
    BY <1>3, <2>1 DEF Kept, Held
  <2>3. /\ Numbers(u) \subseteq Numbers(t)
        /\ \A j \in Numbers(t) : j # i => j \in Numbers(u)
    BY <2>2 DEF Numbers, i
  <2> QED
    BY <2>1, <2>2, <2>3
<1>5. Typed(u)
  BY <1>2, <1>3, <1>20 DEF Typed, Places
<1>6. PhaseFits(u, p, released)
  BY <1>2, <1>3, <1>4 DEF LocalsFit, PhaseFits
<1>7. InUse(u, p)
  BY <1>2, <1>3, <1>4 DEF LocalsFit, InUse
<1>8. ModeFits(r, u)
  BY <1>2, <1>3, <1>4, <1>20 DEF ModeFits, Handling, Operating, Waiting
<1>9. StepsFit(r, u)
  BY <1>2, <1>3, <1>4, <1>20 DEF LocalsFit, StepsFit, Operating, Waiting
<1>10. CountFits(n, r, u, p)
  BY <1>2, <1>3, <1>4 DEF LocalsFit, CountFits, Preparing, Operating, Waiting
<1>11. Placed(u, next_seq, side, ignored')
  <2>1. \A c \in Held(u) :
           /\ c.seq = NoNetns => c.root = Root
           /\ c.seq # NoNetns => c.seq < next_seq /\ c.root = side[c.seq]
    BY <1>2, <1>20 DEF Placed
  <2>2. ignored' = {} => t.cur = Root
    BY <1>2, <1>4, <1>15 DEF Placed
  <2> QED
    BY <2>1, <2>2, <1>3 DEF Placed, Within, AtHome, Waiting
<1>12. CleanFits(r, u, made', ignored')
  BY <1>3, <1>4 DEF CleanFits
<1>13. LocalsFit(n, r, u, p, released)
  BY <1>5, <1>6, <1>7, <1>8, <1>9, <1>10 DEF LocalsFit
<1>14. MadeSoFar(n, t, p) <= MadeSoFar(n, u, p)
  <2>1. MadeSoFar(n, u, p) = n
    BY <1>3 DEF MadeSoFar
  <2>2. MadeSoFar(n, t, p) <= n
    BY <1>2, MadeFits
  <2> QED
    BY <2>1, <2>2
<1>21. /\ i \in Instances /\ i \in Numbers(t)
       /\ Numbers(u) \subseteq Numbers(t)
       /\ \A j \in Numbers(t) : j # i => j \in Numbers(u)
  BY <1>4, <1>20
<1> QED
  BY <1>11, <1>12, <1>13, <1>14, <1>15, <1>16, <1>21, HostMoves DEF n, r, t, p

-----------------------------------------------------------------------------
(***************************************************************************)
(* The invariant, action by action.                                        *)
(***************************************************************************)
LEMMA NewContextPreserves ==
    ASSUME PreparedInv, NEW w \in Crew, NewContext(w)
    PROVE  PreparedInv'
<1>1. thr[w].at = "iter" /\ Len(thr[w].contexts) < iterations(w)
  BY DEF NewContext, At
<1>2. CASE OpTable[op].netns = "none"
  <2>1. Local(w, [at |-> "build", ctx |-> NoContext])
    BY <1>2 DEF NewContext, Mode
  <2> QED
    BY <1>1, <1>2, <2>1, BeginBuildStep
<1>3. CASE OpTable[op].netns # "none"
  <2>1. /\ next_seq' = next_seq + 1
        /\ side' = [side EXCEPT ![next_seq] = thr[w].cur]
        /\ Set(w, [at |-> "stage", idx |-> 1,
                   ctx |-> [NoContext EXCEPT !.seq = next_seq,
                                             !.root = thr[w].cur]])
        /\ UNCHANGED <<gateVars, op, made, ignored>>
    BY <1>3 DEF NewContext, Mode
  <2> QED
    BY <1>1, <1>3, <2>1, NewContextStep
<1> QED
  BY <1>2, <1>3

LEMMA PreparingPreserves ==
    ASSUME PreparedInv, NEW w \in Crew,
           \/ NewContext(w) \/ NewContextFails(w) \/ StageOk(w) \/ SetupFails(w)
           \/ Undo(w) \/ KeepNetns(w) \/ Enter(w) \/ Build(w) \/ BuildFails(w)
           \/ LeaveAfterBuild(w) \/ Push(w) \/ Prepared(w) \/ SendHome(w)
    PROVE  PreparedInv'
<1>1. CASE NewContext(w)
  BY <1>1, NewContextPreserves
<1>2. CASE NewContextFails(w)
  BY <1>2, FailStep DEF NewContextFails, At, Failing
<1>3. CASE StageOk(w)
  BY <1>3, StageOkStep DEF StageOk, At
<1>4. CASE SetupFails(w)
  BY <1>4, SetupFailsStep DEF SetupFails, At
<1>5. CASE Undo(w)
  <2>1. CASE thr[w].idx < Len(Cleanup)
    BY <1>5, <2>1, UndoNextStep DEF Undo, At
  <2>2. CASE ~(thr[w].idx < Len(Cleanup))
    BY <1>5, <2>2, UndoLastStep DEF Undo, At
  <2> QED
    BY <2>1, <2>2
<1>6. CASE KeepNetns(w)
  BY <1>6, KeepNetnsStep DEF KeepNetns, At
<1>7. CASE Enter(w)
  BY <1>7, EnterStep, FailStep DEF Enter, At, Failing
<1>8. CASE Build(w)
  BY <1>8, BuildStep DEF Build, At
<1>9. CASE BuildFails(w)
  BY <1>9, BuildFailsStep, FailStep DEF BuildFails, At, Failing, Mode
<1>10. CASE LeaveAfterBuild(w)
  <2>0. thr[w].at = "leave" /\ UNCHANGED <<gateVars, op, next_seq, made, side>>
    BY <1>10 DEF LeaveAfterBuild, At
  <2>1. CASE thr[w].err
    <3>1. \/ /\ thr' = [thr EXCEPT ![w] =
                           With([@ EXCEPT !.cur = thr[w].ctx.root], Fail(w))]
             /\ UNCHANGED ignored
          \/ MayIgnore(thr[w].ctx.seq) /\ Set(w, Fail(w))
      BY <1>10, <2>1 DEF LeaveAfterBuild
    <3> QED
      BY <2>0, <3>1, LeftErrStep
  <2>2. CASE ~thr[w].err
    <3>1. \/ /\ thr' = [thr EXCEPT ![w] =
                           With([@ EXCEPT !.cur = thr[w].ctx.root],
                                [at |-> "push"])]
             /\ UNCHANGED ignored
          \/ MayIgnore(thr[w].ctx.seq) /\ Set(w, [at |-> "push"])
      BY <1>10, <2>2 DEF LeaveAfterBuild
    <3> QED
      BY <2>0, <2>2, <3>1, LeftStep, LeftIgnoredStep
  <2> QED
    BY <2>1, <2>2
<1>11. CASE Push(w)
  BY <1>11, PushStep DEF Push, At
<1>12. CASE Prepared(w)
  BY <1>12, PreparedStep DEF Prepared, At
<1>13. CASE SendHome(w)
  BY <1>13, FailStep DEF SendHome, At, Failing
<1> QED
  BY <1>1, <1>2, <1>3, <1>4, <1>5, <1>6, <1>7, <1>8, <1>9, <1>10, <1>11, <1>12,
     <1>13

LEMMA MeasuringPreserves ==
    ASSUME PreparedInv, NEW w \in Crew,
           \/ BeginRun(w) \/ PopContext(w) \/ EnterForOp(w) \/ OpSteps(w)
           \/ LeaveAfterOp(w) \/ AfterOp(w) \/ AllMeasured(w) \/ Released(w)
    PROVE  PreparedInv'
<1>1. CASE BeginRun(w)
  BY <1>1, BeginRunStep DEF BeginRun, At
<1>2. CASE PopContext(w)
  BY <1>2, PopContextStep DEF PopContext, At
<1>3. CASE EnterForOp(w)
  BY <1>3, EnterForOpStep, FailStep DEF EnterForOp, At, Failing
<1>4. CASE OpSteps(w)
  BY <1>4, OpStepsStep, OpFailsStep DEF OpSteps, At
<1>5. CASE LeaveAfterOp(w)
  BY <1>5, LeaveOkStep, LeaveErrStep DEF LeaveAfterOp, At
<1>6. CASE AfterOp(w)
  <2>0. thr[w].at = "after"
    BY <1>6 DEF AfterOp, At
  <2>1. CASE thr[w].err
    <3>1. Local(w, Fail(w))
      BY <1>6, <2>1 DEF AfterOp
    <3> QED
      BY <2>0, <3>1, FailStep DEF Failing
  <2>2. CASE ~thr[w].err /\ OpTable[op].keeps
    <3>1. Local(w, [at |-> "next", ctx |-> NoContext,
                    completed |-> Append(thr[w].completed, thr[w].ctx)])
      BY <1>6, <2>2 DEF AfterOp
    <3> QED
      BY <2>0, <2>2, <3>1, KeepContextStep
  <2>3. CASE ~thr[w].err /\ ~OpTable[op].keeps
    <3>1. Local(w, [at |-> "drop", idx |-> 0, ctx |-> NoContext,
                    doomed |-> Doomed(<<thr[w].ctx>>)])
      BY <1>6, <2>3 DEF AfterOp
    <3> QED
      BY <2>0, <2>3, <3>1, LetGoStep
  <2> QED
    BY <2>1, <2>2, <2>3
<1>7. CASE AllMeasured(w)
  BY <1>7, AllMeasuredStep DEF AllMeasured, At
<1>8. CASE Released(w)
  BY <1>8, ReleasedStep DEF Released, At
<1> QED
  BY <1>1, <1>2, <1>3, <1>4, <1>5, <1>6, <1>7, <1>8

LEMMA ChildPreserves ==
    ASSUME PreparedInv, NEW w \in Crew,
           \/ Spawn(w) \/ WaitForApiSocket(w) \/ KillChild(w) \/ ReapChild(w)
           \/ ChildListens(w) \/ ChildExits(w)
    PROVE  PreparedInv'
<1>1. CASE Spawn(w)
  BY <1>1, SpawnOkStep, OpFailsStep DEF Spawn, At
<1>2. CASE WaitForApiSocket(w)
  <2>1. /\ thr[w].at = "await"
        /\ \/ Local(w, [at |-> "reap", err |-> TRUE])
           \/ Local(w, [at |-> "reap"])
           \/ Local(w, [idx |-> thr[w].idx + 1])
    BY <1>2 DEF WaitForApiSocket, At
  <2> QED
    BY <2>1, AwaitErrStep, AwaitOkStep, AwaitAgainStep
<1>3. CASE KillChild(w)
  BY <1>3, KillOkStep, KillErrStep DEF KillChild, At
<1>4. CASE ReapChild(w)
  <2>1. /\ thr[w].at \in {"reap", "waitpid"}
        /\ \/ Local(w, [at |-> OpEnds(w), child |-> "none", sock |-> FALSE])
           \/ Local(w, [at |-> OpEnds(w), child |-> "none", err |-> TRUE])
    BY <1>4 DEF ReapChild, At
  <2> QED
    BY <2>1, ReapOkStep, ReapErrStep
<1>5. CASE ChildListens(w)
  BY <1>5, ListensStep DEF ChildListens
<1>6. CASE ChildExits(w)
  BY <1>6, ExitsStep DEF ChildExits
<1> QED
  BY <1>1, <1>2, <1>3, <1>4, <1>5, <1>6

LEMMA DroppingPreserves ==
    ASSUME PreparedInv, NEW w \in Crew,
           DropLeave(w) \/ DropCleanup(w) \/ Dropped(w)
    PROVE  PreparedInv'
<1>1. CASE DropLeave(w)
  BY <1>1, DropLeaveStep, DropLeaveIgnoredStep DEF DropLeave, At
<1>2. CASE DropCleanup(w)
  <2>1. CASE thr[w].idx < Len(Cleanup)
    BY <1>2, <2>1, CleanNextStep DEF DropCleanup, At
  <2>2. CASE ~(thr[w].idx < Len(Cleanup))
    BY <1>2, <2>2, CleanLastStep DEF DropCleanup, At
  <2> QED
    BY <2>1, <2>2
<1>3. CASE Dropped(w)
  <2>0. thr[w].at = "drop" /\ thr[w].doomed = <<>>
    BY <1>3 DEF Dropped, At
  <2>1. CASE phase[w] = "run" /\ ~thr[w].err
    <3>1. Local(w, [at |-> "next"])
      BY <1>3, <2>1 DEF Dropped
    <3> QED
      BY <2>0, <2>1, <3>1, NextStep
  <2>2. CASE ~(phase[w] = "run" /\ ~thr[w].err)
    <3>1. phase[w] \in {"prepare", "gate", "run", "finish"}
      BY <2>0, WorkerFacts DEF PhaseFits
    <3>2. /\ Set(w, [at |-> "ended"]) /\ UNCHANGED <<op, hostVars>>
          /\ PrepareFailed(w) \/ GiveUp(w) \/ OpFailed(w) \/ Leave(w)
      BY <1>3, <2>2, <3>1 DEF Dropped
    <3> QED
      BY <2>0, <2>2, <3>2, EndedStep
  <2> QED
    BY <2>1, <2>2
<1> QED
  BY <1>1, <1>2, <1>3

LEMMA MainPreserves ==
    ASSUME PreparedInv, Main
    PROVE  PreparedInv'
<1> USE DEF PreparedInv
<1>1. GateMain /\ UNCHANGED <<op, next_seq, made, side, ignored, thr>>
  BY DEF Main, hostVars
<1>2. GateInv'
  BY <1>1, GateMainStep
<1>3. phase' = phase /\ (released => released')
  BY <1>1 DEF GateMain, OpenStart, OpenFinish, Join, Report
<1>4. GatesPassed'
  <2>1. CASE OpenStart \/ Report
    BY <2>1 DEF GatesPassed, OpenStart, Report
  <2>2. CASE OpenFinish
    BY <2>2 DEF GatesPassed, OpenFinish
  <2>3. CASE Join
    BY <2>3, CrewIs DEF GatesPassed, Join
  <2> QED
    BY <1>1, <2>1, <2>2, <2>3 DEF GateMain
<1>5. HostOk' /\ Apart' /\ Accounted'
  <2>1. SlotsUsed' = SlotsUsed
    BY <1>1, <1>3 DEF SlotsUsed
  <2> QED
    BY <1>1, <2>1 DEF HostOk, Apart, Accounted
<1>6. ASSUME NEW w \in Crew PROVE WorkerOk(w)'
  <2>1. PhaseFits(thr[w], phase[w], released')
    BY <1>3, WorkerFacts DEF PhaseFits
  <2>2. LocalsFit(iterations(w), OpTable[op], thr[w], phase[w], released')
    BY <2>1, WorkerFacts DEF LocalsFit
  <2> QED
    BY <1>1, <1>3, <2>2, WorkerFacts DEF WorkerOk
<1> QED
  BY <1>1, <1>2, <1>4, <1>5, <1>6

LEMMA StutterPreserves ==
    ASSUME PreparedInv, UNCHANGED vars
    PROVE  PreparedInv'
<1> USE DEF PreparedInv
<1>1. /\ UNCHANGED <<phase, started, failure, released, main, joined>>
      /\ UNCHANGED <<op, next_seq, made, side, ignored, thr>>
  BY DEF vars, gateVars, hostVars
<1>2. GateInv' /\ GatesPassed'
  BY <1>1 DEF GateInv, GateType, StartTogether, FinishAwaited, LeftReleased,
     GatesPassed
<1>3. HostOk' /\ Apart' /\ Accounted'
  <2>1. SlotsUsed' = SlotsUsed
    BY <1>1 DEF SlotsUsed
  <2> QED
    BY <1>1, <2>1 DEF HostOk, Apart, Accounted
<1>4. ASSUME NEW w \in Crew PROVE WorkerOk(w)'
  BY <1>1 DEF WorkerOk
<1> QED
  BY <1>1, <1>2, <1>3, <1>4

LEMMA PreparedInitially == Init => PreparedInv
<1> SUFFICES ASSUME Init PROVE PreparedInv
  OBVIOUS
<1>1. GateInv
  BY GateInitially DEF Init
<1>2. GatesPassed
  BY CrewIs DEF Init, GateInit, GatesPassed
<1> DEFINE t0 == [at |-> "iter", cur |-> Root, ctx |-> NoContext, idx |-> 1,
                  contexts |-> <<>>, completed |-> <<>>, doomed |-> <<>>,
                  err |-> FALSE, child |-> "none", sock |-> FALSE]
<1>3. PICK t : t = t0
  OBVIOUS
<1>4. /\ DOMAIN t = Fields /\ t.at = "iter" /\ t.cur = Root
      /\ t.ctx = NoContext
      /\ t.idx = 1 /\ t.contexts = <<>> /\ t.completed = <<>>
      /\ t.doomed = <<>>
      /\ t.err = FALSE /\ t.child = "none" /\ t.sock = FALSE
  BY <1>3 DEF Fields
<1>5. /\ DOMAIN thr = Crew /\ \A w \in Crew : thr[w] = t /\ phase[w] = "prepare"
      /\ op \in Ops /\ next_seq = 0 /\ ignored = {} /\ released = FALSE
      /\ made = [i \in Instances |-> {}] /\ side = [i \in Instances |-> Root]
  BY <1>3 DEF Init, GateInit
<1>6. Kept(t) = {} /\ Held(t) = {NoContext} /\ Numbers(t) = {}
      /\ Range(t.contexts) = {}
  <2>1. Kept(t) = {} /\ Held(t) = {NoContext} /\ Range(t.contexts) = {}
    BY <1>4, RangeEmpty DEF Kept, Held
  <2> QED
    BY <2>1, NoContextIs DEF Numbers
<1>7. Root \in 0..Total
  BY CrewIs DEF Root
<1>8. ASSUME NEW w \in Crew PROVE WorkerOk(w)
  <2>1. Typed(t)
    <3>1. t.err \in BOOLEAN /\ t.sock \in BOOLEAN /\ t.at \in Places
      BY <1>4 DEF Places, Preparing
    <3>2. t.cur \in 0..Total /\ t.ctx \in Contexts /\ <<>> \in Seq(Contexts)
      BY <1>4, <1>7, NoContextIs
    <3> QED
      BY <1>4, <3>1, <3>2 DEF Typed
  <2>2. PhaseFits(t, "prepare", FALSE)
    BY <1>4 DEF PhaseFits, Preparing, Operating, Waiting
  <2>3. InUse(t, "prepare")
    BY <1>4 DEF InUse, Preparing, Operating, Waiting, Handling
  <2>4. ModeFits(OpTable[op], t)
    BY <1>4, <1>6 DEF ModeFits, Handling, Operating, Waiting
  <2>5. StepsFit(OpTable[op], t)
    BY <1>4, <1>6, NoContextIs DEF StepsFit, Taken, Operating, Waiting
  <2>6. CountFits(iterations(w), OpTable[op], t, "prepare")
    <3>1. Len(t.contexts) = 0 /\ iterations(w) \in Nat
      BY <1>4, CrewIs
    <3> QED
      BY <1>4, <3>1 DEF CountFits, Preparing, Operating, Waiting
  <2>7. Placed(t, next_seq, side, ignored)
    BY <1>4, <1>6, NoContextIs DEF Placed, Within, AtHome, Waiting
  <2>8. CleanFits(OpTable[op], t, made, ignored)
    BY <1>4 DEF CleanFits
  <2> QED
    BY <1>5, <2>1, <2>2, <2>3, <2>4, <2>5, <2>6, <2>7, <2>8 DEF WorkerOk,
       LocalsFit
<1>9. HostOk
  BY <1>5, <1>7, SlotsFinite DEF HostOk
<1>10. Apart /\ Accounted
  BY <1>5, <1>6 DEF Apart, Accounted
<1> QED
  BY <1>1, <1>2, <1>5, <1>8, <1>9, <1>10 DEF PreparedInv

LEMMA NextPreserves ==
    ASSUME PreparedInv, [Next]_vars
    PROVE  PreparedInv'
<1>1. ASSUME NEW w \in Crew, Worker(w) \/ Child(w) PROVE PreparedInv'
  BY <1>1, PreparingPreserves, MeasuringPreserves, ChildPreserves,
     DroppingPreserves DEF Worker, Child
<1>2. CASE Main
  BY <1>2, MainPreserves
<1>3. CASE Stopped \/ UNCHANGED vars
  BY <1>3, StutterPreserves DEF Stopped
<1> QED
  BY <1>1, <1>2, <1>3 DEF Next

\* The inductive invariant holds in every state of a prepared run.
LEMMA PreparedAlways == Spec => []PreparedInv
BY PreparedInitially, NextPreserves, PTL DEF Spec

-----------------------------------------------------------------------------
(***************************************************************************)
(* The theorems.                                                           *)
(***************************************************************************)
(***************************************************************************)
(* create_firecracker (create_firecracker.rs:60-75, 174-202): outside the  *)
(* wait for its API socket and the kill and wait after it no Firecracker   *)
(* process is left, and no socket unless an error says so, for every outcome*)
(* of spawn, connect, kill and wait and any number of attempts.            *)
(***************************************************************************)
THEOREM ChildIsGone == Spec => []ChildGone
<1>1. PreparedInv => ChildGone
  BY WorkerFacts DEF ChildGone, InUse, Waiting
<1> QED
  BY <1>1, PreparedAlways, PTL

(***************************************************************************)
(* Whatever fails, a worker builds and measures inside the namespace of its*)
(* context, and as long as no leave() failed unseen it is back in the root *)
(* namespace between contexts (device_restore.rs:62-67, 80-82 and siblings).*)
(***************************************************************************)
THEOREM NamespaceIsRight == Spec => []InTheRightNamespace
<1>1. PreparedInv => InTheRightNamespace
  <2> SUFFICES ASSUME PreparedInv PROVE InTheRightNamespace
    OBVIOUS
  <2>1. ignored = {} => \A i \in Instances : side[i] = Root
    BY DEF PreparedInv, HostOk
  <2>2. ASSUME NEW w \in Crew
        PROVE  /\ thr[w].at \in Within => thr[w].cur = thr[w].ctx.seq
               /\ ignored = {} /\ thr[w].at \in AtHome => thr[w].cur = Root
    BY WorkerFacts DEF Placed
  <2> QED
    BY <2>1, <2>2 DEF InTheRightNamespace, Within, Waiting, AtHome
<1> QED
  BY <1>1, PreparedAlways, PTL

LEMMA StepsFollow ==
    ASSUME NEW r, OpOk(r), NEW q \in Taken(r)
    PROVE  Follows({}, q)
<1>1. CASE q = <<>>
  BY <1>1 DEF Follows
<1>2. CASE q = r.prepare
  BY <1>2, FollowsPrefix DEF OpOk
<1>3. CASE q = Ready0(r)
  BY <1>3 DEF Ready0, OpOk
<1>4. CASE r.measure # <<"spawn">> /\ q = Ready0(r) \o r.measure
  BY <1>4 DEF Ready0, OpOk
<1> QED
  BY <1>1, <1>2, <1>3, <1>4 DEF Taken

(***************************************************************************)
(* In every run of every operation no VM takes a step of the restore before*)
(* those it builds upon, or twice (restore_common.rs:131-162,              *)
(* resume_vcpus.rs:22).                                                    *)
(***************************************************************************)
THEOREM RestoresInOrder == Spec => []RestoreInOrder
<1>1. PreparedInv => RestoreInOrder
  <2> SUFFICES ASSUME PreparedInv PROVE RestoreInOrder
    OBVIOUS
  <2>1. ASSUME NEW w \in Crew, NEW c \in ContextsOf(w), NEW n \in 1..Len(c.steps)
        PROVE  /\ Before(c.steps[n]) \subseteq {c.steps[m] : m \in 1..(n - 1)}
               /\ c.steps[n] \notin {c.steps[m] : m \in 1..(n - 1)}
    <3>1. c \in Held(thr[w])
      BY DEF ContextsOf, Held, Kept
    <3>2. c.steps \in Taken(OpTable[op])
      BY <3>1, WorkerFacts DEF LocalsFit, StepsFit
    <3>3. Follows({}, c.steps)
      BY <3>2, WorkerFacts, StepsFollow
    <3>4. {} \cup {c.steps[m] : m \in 1..(n - 1)}
            = {c.steps[m] : m \in 1..(n - 1)}
      OBVIOUS
    <3> QED
      BY <3>3, <3>4 DEF Follows
  <2> QED
    BY <2>1 DEF RestoreInOrder
<1> QED
  BY <1>1, PreparedAlways, PTL

(***************************************************************************)
(* What exists on the host has exactly one owner among the workers that have*)
(* not ended, whatever failed before, and no worker gives up a context that*)
(* its operation keeps before the finish gate opens (netns/vm.rs,          *)
(* mod.rs:545-555, 572-580).                                               *)
(***************************************************************************)
THEOREM ContextsAreOwned == Spec => []ContextsOwned
<1>1. PreparedInv => ContextsOwned
  <2> SUFFICES ASSUME PreparedInv PROVE ContextsOwned
    OBVIOUS
  <2>1. ASSUME NEW i \in Instances \ ignored, made[i] # {},
               NEW owners, owners = {w \in Crew : phase[w] \notin {"done", "failed"}
                                       /\ \E c \in ContextsOf(w) : c.seq = i}
        PROVE  Cardinality(owners) = 1 /\ \A w \in owners : w >= joined
    <3>1. PICK w \in Crew : i \in Numbers(thr[w])
      BY <2>1 DEF PreparedInv, Accounted
    <3>2. \A v \in Crew : ContextsOf(v) = Held(thr[v])
      BY DEF ContextsOf, Held, Kept
    <3>3. i # NoNetns
      BY CrewIs DEF Instances, NoNetns
    <3>4. \A v \in Crew : i \in Numbers(thr[v]) <=> \E c \in ContextsOf(v) : c.seq = i
      BY <3>2, <3>3 DEF Numbers
    <3>5. \A v \in Crew : i \in Numbers(thr[v]) => v = w
      BY <3>1 DEF PreparedInv, Apart
    <3>6. phase[w] \notin {"done", "failed"}
      <4>1. thr[w].at = "ended" => Numbers(thr[w]) = {}
        <5>1. ASSUME thr[w].at = "ended" PROVE Numbers(thr[w]) = {}
          <6>1. /\ thr[w].ctx = NoContext /\ thr[w].contexts = <<>>
                /\ thr[w].completed = <<>> /\ thr[w].doomed = <<>>
            BY <5>1, WorkerFacts DEF InUse, Handling, Operating, Waiting
          <6>2. Held(thr[w]) = {NoContext}
            BY <6>1, RangeEmpty DEF Held, Kept
          <6> QED
            BY <6>2, NoContextIs DEF Numbers
        <5> QED
          BY <5>1
      <4>2. thr[w].at # "ended"
        BY <3>1, <4>1
      <4> QED
        BY <4>2, WorkerFacts DEF Typed, Places, PhaseFits, Preparing,
           Operating, Waiting
    <3>7. owners = {w}
      BY <2>1, <3>1, <3>4, <3>5, <3>6
    <3>8. Cardinality(owners) = 1
      BY <3>7, FS_Singleton
    <3>9. w >= joined
      <4>1. w \in Nat /\ joined \in Int
        BY CrewIs DEF PreparedInv, GatesPassed
      <4>2. ASSUME ~(w >= joined) PROVE FALSE
        <5>1. w \in 0..(joined - 1)
          BY <4>1, <4>2
        <5> QED
          BY <3>6, <5>1 DEF PreparedInv, GatesPassed
      <4> QED
        BY <4>2
    <3> QED
      BY <3>7, <3>8, <3>9
  <2>2. ASSUME NEW w \in Crew, phase[w] = "finish", ~released, OpTable[op].keeps
        PROVE  Len(thr[w].completed) = iterations(w)
    <3>1. thr[w].at = "finish"
      BY <2>2, WorkerFacts DEF Typed, Places, PhaseFits, Preparing, Operating,
         Waiting
    <3> QED
      BY <2>2, <3>1, WorkerFacts DEF LocalsFit, CountFits
  <2> QED
    BY <2>1, <2>2 DEF ContextsOwned
<1> QED
  BY <1>1, PreparedAlways, PTL

\* A worker's step is one of the gates' or none of their business.
LEMMA WorkerAtGates ==
    ASSUME NEW w \in Crew, PreparedInv, Worker(w) \/ Child(w)
    PROVE  GateWorker(w) \/ UNCHANGED gateVars
<1>1. CASE Prepared(w) \/ BeginRun(w) \/ AllMeasured(w)
  BY <1>1 DEF Prepared, BeginRun, AllMeasured, GateWorker
<1>2. CASE Dropped(w)
  <2>1. phase[w] \in {"prepare", "gate", "run", "finish"}
    BY <1>2, WorkerFacts DEF Dropped, At, PhaseFits
  <2> QED
    BY <1>2, <2>1 DEF Dropped, GateWorker, Local
<1>3. CASE ~(Prepared(w) \/ BeginRun(w) \/ AllMeasured(w) \/ Dropped(w))
  BY <1>3 DEF Worker, Child, NewContext, NewContextFails, StageOk, SetupFails,
     Undo, KeepNetns, Enter, Build, BuildFails, LeaveAfterBuild, Push,
     SendHome, PopContext, EnterForOp, OpSteps, LeaveAfterOp, AfterOp,
     Released, Spawn, WaitForApiSocket, KillChild, ReapChild, DropLeave,
     DropCleanup, ChildListens, ChildExits, Local
<1> QED
  BY <1>1, <1>2, <1>3

(***************************************************************************)
(* The operations behind the gates use them as WorkerGate says: every step *)
(* of a prepared run is a step of the gates of mod.rs:342-370 and 478-521 or*)
(* leaves them alone, so GateSafe holds of prepared runs too.              *)
(***************************************************************************)
THEOREM RunsKeepGates == Spec => GateSpec
<1>1. Init => GateInit
  BY DEF Init
<1>2. PreparedInv /\ [Next]_vars =>
         [GateMain \/ \E w \in Crew : GateWorker(w)]_gateVars
  <2> SUFFICES ASSUME PreparedInv, [Next]_vars
               PROVE  [GateMain \/ \E w \in Crew : GateWorker(w)]_gateVars
    OBVIOUS
  <2>1. ASSUME NEW w \in Crew, Worker(w) \/ Child(w)
        PROVE  [GateMain \/ \E v \in Crew : GateWorker(v)]_gateVars
    BY <2>1, WorkerAtGates
  <2>2. CASE Main
    BY <2>2 DEF Main
  <2>3. CASE Stopped \/ UNCHANGED vars
    BY <2>3 DEF Stopped, vars
  <2> QED
    BY <2>1, <2>2, <2>3 DEF Next
<1> QED
  BY <1>1, <1>2, PreparedAlways, PTL DEF Spec, GateSpec
=============================================================================
