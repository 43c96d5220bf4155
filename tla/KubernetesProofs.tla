-------------------------- MODULE KubernetesProofs --------------------------
(***************************************************************************)
(* Proofs about KubernetesHandler, for any finite set of pods.  The        *)
(* inductive invariant DrainInv has one part per question: what the phase  *)
(* says of the node and of the goroutines, what an accepted eviction says  *)
(* of its pod, and the books kept by the two counters and the WaitGroup.   *)
(***************************************************************************)
EXTENDS KubernetesHandler, FiniteSetTheorems, TLAPS

Failed    == {p \in counted : eviction[p] = "failed"}
Succeeded == counted \ Failed

\* What the phase of the handler says.
DrainPhases ==
  /\ phase \in Calling => podsToEvict = {} /\ counted = {}
  /\ phase \in {"list", "evicting", "ok"} => unschedulable
  /\ phase = "evicting" => podsToEvict # {}
  /\ phase \in Returned => wg = 0
  /\ phase \in Returned /\ podsToEvict # {} => (phase = "error" <=> MajorityFailed)

\* There is a goroutine for every listed pod; a pod whose eviction was accepted
\* does not run on the node any more.
Goroutines ==
  \A p \in Pods :
    /\ eviction[p] # "none" <=> p \in podsToEvict
    /\ eviction[p] \notin {"none", "evict", "failed"} => pod[p] \notin {"absent", "running"}

\* The counters count the goroutines that have ended, the WaitGroup the others.
DrainBooks ==
  /\ counted \subseteq podsToEvict
  /\ \A p \in counted : eviction[p] \in Results
  /\ evictionErrors = Cardinality(Failed)
  /\ successCount = Cardinality(Succeeded)
  /\ wg = Cardinality(podsToEvict \ counted)

DrainInv ==
  /\ DrainTypeOK
  /\ DrainPhases
  /\ Goroutines
  /\ DrainBooks
  /\ NothingSlipsIn
-----------------------------------------------------------------------------
\* Every part of the pods is finite.
LEMMA FinitePods ==
  ASSUME NEW S, S \subseteq Pods
  PROVE  IsFiniteSet(S) /\ Cardinality(S) \in Nat
  BY PodsAssumption, FS_Subset, FS_CardinalityType

\* What no step changes.
LEMMA ConfigFixed ==
  [Next]_drainVars =>
    kind' = kind /\ skipDaemonSets' = skipDaemonSets /\ deleteEmptyDirData' = deleteEmptyDirData
  BY DEF Next, HandlerCall, EvictPod, drainVars, config, GetNode, Cordon, ListPods, Finish,
         Expire, Evict, TakeTick, Poll, SeeTimeout, SeeDone, Tally, Place, Age

\* The steps by what they change: the handler's phase, one pod's goroutine, the
\* books, or the cluster.
LEMMA StepCases ==
  ASSUME [Next]_drainVars
  PROVE  \/ GetNode \/ Cordon \/ ListPods \/ Finish \/ Expire \/ UNCHANGED drainVars
         \/ \E p \in Pods : \/ Evict(p) \/ TakeTick(p) \/ Poll(p) \/ SeeTimeout(p)
                            \/ SeeDone(p) \/ Tally(p) \/ Place(p) \/ Age(p)
  BY DEF Next, HandlerCall, EvictPod

LEMMA InitInv == DrainInit => DrainInv
<1> SUFFICES ASSUME DrainInit PROVE DrainInv
  OBVIOUS
<1> USE DEF DrainInit
<1>1. DrainTypeOK
  BY DEF DrainTypeOK, Calling, Left, PodState
<1>2. DrainPhases /\ Goroutines
  BY DEF DrainPhases, Goroutines, Calling, Returned
<1>3. DrainBooks
  <2>1. Failed = {} /\ Succeeded = {} /\ podsToEvict \ counted = {}
    BY DEF Failed, Succeeded
  <2> QED
    BY <2>1, FS_EmptySet DEF DrainBooks
<1>4. NothingSlipsIn
  BY DEF NothingSlipsIn
<1> QED
  BY <1>1, <1>2, <1>3, <1>4 DEF DrainInv
-----------------------------------------------------------------------------
\* The counters follow the set of goroutines that have ended.
LEMMA StepBooks ==
  ASSUME DrainInv, [Next]_drainVars
  PROVE  DrainBooks'
<1> USE DEF DrainInv, DrainTypeOK, DrainBooks
<1>1. CASE ListPods
  <2>1. CASE phase' = "error" /\ UNCHANGED <<podsToEvict, eviction, wg>>
    BY <1>1, <2>1 DEF ListPods, Failed, Succeeded
  <2>2. CASE podsToEvict' = {p \in Pods : Eligible(p)} /\ wg' = Cardinality(podsToEvict')
    <3>1. counted' = {} /\ Failed' = Failed /\ Succeeded' = Succeeded
      BY <1>1 DEF ListPods, DrainPhases, Calling, Failed, Succeeded
    <3>2. podsToEvict' \ counted' = podsToEvict'
      BY <3>1
    <3>3. evictionErrors' = evictionErrors /\ successCount' = successCount
      BY <1>1 DEF ListPods
    <3> QED
      BY <2>2, <3>1, <3>2, <3>3
  <2> QED
    BY <1>1, <2>1, <2>2 DEF ListPods
<1>2. ASSUME NEW p \in Pods, Tally(p) PROVE DrainBooks'
  <2>0. counted' = counted \cup {p} /\ p \notin counted /\ eviction' = eviction
        /\ podsToEvict' = podsToEvict /\ wg' = wg - 1 /\ eviction[p] \in Results
    BY <1>2 DEF Tally
  <2>1. p \in podsToEvict
    BY <2>0 DEF Goroutines, Results
  <2>2. wg' = Cardinality(podsToEvict' \ counted')
    <3>1. podsToEvict' \ counted' = (podsToEvict \ counted) \ {p} /\ p \in podsToEvict \ counted
      BY <2>0, <2>1
    <3>2. IsFiniteSet(podsToEvict \ counted)
      BY FinitePods
    <3>3. Cardinality((podsToEvict \ counted) \ {p}) = Cardinality(podsToEvict \ counted) - 1
      BY <3>1, <3>2, FS_RemoveElement
    <3> QED
      BY <2>0, <3>1, <3>3
  <2>3. evictionErrors' = Cardinality(Failed') /\ successCount' = Cardinality(Succeeded')
    <3>0. IsFiniteSet(Failed) /\ IsFiniteSet(Succeeded) /\ p \notin Failed /\ p \notin Succeeded
      BY <2>0, FinitePods DEF Failed, Succeeded
    <3>1. CASE eviction[p] = "failed"
      <4>1. Failed' = Failed \cup {p} /\ Succeeded' = Succeeded
        BY <2>0, <3>1 DEF Failed, Succeeded
      <4>2. evictionErrors' = evictionErrors + 1 /\ successCount' = successCount
        BY <1>2, <3>1 DEF Tally
      <4> QED
        BY <3>0, <4>1, <4>2, FS_AddElement
    <3>2. CASE eviction[p] # "failed"
      <4>1. Failed' = Failed /\ Succeeded' = Succeeded \cup {p}
        BY <2>0, <3>2 DEF Failed, Succeeded
      <4>2. evictionErrors' = evictionErrors /\ successCount' = successCount + 1
        BY <1>2, <3>2 DEF Tally
      <4> QED
        BY <3>0, <4>1, <4>2, FS_AddElement
    <3> QED
      BY <3>1, <3>2
  <2> QED
    BY <2>0, <2>1, <2>2, <2>3
<1>3. ASSUME UNCHANGED <<podsToEvict, tally>>, \A p \in counted : eviction'[p] = eviction[p]
      PROVE  DrainBooks'
  <2>1. Failed' = Failed /\ Succeeded' = Succeeded
    BY <1>3 DEF Failed, Succeeded, tally
  <2> QED
    BY <1>3, <2>1 DEF tally
<1>4. ASSUME NEW p \in Pods, Evict(p) \/ TakeTick(p) \/ Poll(p) \/ SeeTimeout(p) \/ SeeDone(p)
      PROVE  DrainBooks'
  <2>1. eviction[p] \in Working /\ UNCHANGED <<podsToEvict, tally>>
    BY <1>4 DEF Evict, TakeTick, Poll, SeeTimeout, SeeDone, Working
  <2>2. \A q \in Pods \ {p} : eviction'[q] = eviction[q]
    BY <1>4 DEF Evict, TakeTick, Poll, SeeTimeout, SeeDone
  <2>3. p \notin counted
    BY <2>1 DEF Working, Results
  <2> QED
    BY <1>3, <2>1, <2>2, <2>3
<1>5. CASE \/ GetNode \/ Cordon \/ Finish \/ Expire \/ UNCHANGED drainVars
           \/ \E p \in Pods : Place(p) \/ Age(p)
  BY <1>3, <1>5 DEF GetNode, Cordon, Finish, Expire, drainVars, Place, Age
<1> QED
  BY StepCases, <1>1, <1>2, <1>4, <1>5
-----------------------------------------------------------------------------
\* The types.
LEMMA StepType ==
  ASSUME DrainInv, [Next]_drainVars
  PROVE  DrainTypeOK'
<1> USE DEF DrainInv, DrainTypeOK
<1>1. evictionErrors' \in Nat /\ successCount' \in Nat /\ wg' \in Nat
  <2>1. DrainBooks' /\ counted' \subseteq Pods /\ podsToEvict' \subseteq Pods
    <3>1. counted' \subseteq Pods
      BY StepCases DEF GetNode, Cordon, ListPods, Finish, Expire, drainVars, tally, Evict, TakeTick,
           Poll, SeeTimeout, SeeDone, Tally, Place, Age
    <3>2. podsToEvict' \subseteq Pods
      BY StepCases DEF GetNode, Cordon, ListPods, Finish, Expire, drainVars, tally, Evict, TakeTick,
           Poll, SeeTimeout, SeeDone, Tally, Place, Age
    <3> QED
      BY <3>1, <3>2, StepBooks
  <2>2. /\ Cardinality(Failed') \in Nat /\ Cardinality(Succeeded') \in Nat
        /\ Cardinality(podsToEvict' \ counted') \in Nat
    <3>1. Failed' \subseteq Pods /\ Succeeded' \subseteq Pods /\ podsToEvict' \ counted' \subseteq Pods
      BY <2>1 DEF Failed, Succeeded
    <3> QED
      BY <3>1, FinitePods
  <2> QED
    BY <2>1, <2>2 DEF DrainBooks
<1>2. kind' \in [Pods -> Kinds] /\ skipDaemonSets' \in BOOLEAN /\ deleteEmptyDirData' \in BOOLEAN
  BY ConfigFixed
<1>3. unschedulable' \in BOOLEAN /\ ctxDone' \in BOOLEAN
  BY StepCases DEF GetNode, Cordon, ListPods, Finish, Expire, drainVars, cluster, Evict, TakeTick,
       Poll, SeeTimeout, SeeDone, Tally, Place, Age
<1>4. pod' \in [Pods -> PodState]
  <2>1. UNCHANGED pod \/ \E p \in Pods : AcceptEviction(p) \/ Place(p) \/ Age(p)
    BY StepCases DEF GetNode, Cordon, ListPods, Finish, Expire, drainVars, cluster, Evict, TakeTick,
         Poll, SeeTimeout, SeeDone, Tally
  <2> QED
    BY <2>1 DEF AcceptEviction, Place, Age, PodState
<1>5. phase' \in Calling \cup {"evicting"} \cup Returned
  BY StepCases DEF GetNode, Cordon, ListPods, Finish, Expire, drainVars, Evict, TakeTick,
       Poll, SeeTimeout, SeeDone, Tally, Place, Age, Calling, Returned
<1>6. eviction' \in [Pods -> {"none"} \cup Working \cup Results]
  <2>1. CASE \/ GetNode \/ Cordon \/ ListPods \/ Finish \/ Expire \/ UNCHANGED drainVars
             \/ \E p \in Pods : Tally(p) \/ Place(p) \/ Age(p)
    BY <2>1 DEF GetNode, Cordon, ListPods, Finish, Expire, drainVars, Tally, Place, Age, Working
  <2>2. ASSUME NEW p \in Pods, Evict(p) \/ TakeTick(p) \/ Poll(p) \/ SeeTimeout(p) \/ SeeDone(p)
        PROVE  eviction' \in [Pods -> {"none"} \cup Working \cup Results]
    BY <2>2 DEF Evict, TakeTick, Poll, SeeTimeout, SeeDone, Working, Results
  <2> QED
    BY StepCases, <2>1, <2>2
<1>7. counted' \subseteq Pods /\ podsToEvict' \subseteq Pods
  BY StepCases DEF GetNode, Cordon, ListPods, Finish, Expire, drainVars, tally, Evict, TakeTick,
       Poll, SeeTimeout, SeeDone, Tally, Place, Age
<1> QED
  BY <1>1, <1>2, <1>3, <1>4, <1>5, <1>6, <1>7
-----------------------------------------------------------------------------
\* The phase moves on only with what it stands for: the cordon before the list,
\* the WaitGroup at zero before the verdict.
LEMMA StepPhases ==
  ASSUME DrainInv, [Next]_drainVars
  PROVE  DrainPhases'
<1> USE DEF DrainInv, DrainPhases, DrainTypeOK
<1>0. phase \in Calling => wg = 0
  <2>1. phase \in Calling => podsToEvict \ counted = {}
    OBVIOUS
  <2> QED
    BY <2>1, FS_EmptySet DEF DrainBooks
<1>1. CASE GetNode \/ Cordon
  BY <1>0, <1>1 DEF GetNode, Cordon, cluster, tally, Calling, Returned
<1>2. CASE ListPods
  <2>0. wg = 0
    BY <1>0, <1>2 DEF ListPods, Calling
  <2>1. CASE phase' = "error" /\ UNCHANGED <<podsToEvict, eviction, wg>>
    BY <1>2, <2>0, <2>1 DEF ListPods, cluster, Calling, Returned
  <2>2. CASE /\ podsToEvict' = {p \in Pods : Eligible(p)}
             /\ phase' = IF podsToEvict' = {} THEN "ok" ELSE "evicting"
             /\ wg' = Cardinality(podsToEvict')
    BY <1>2, <2>2, FS_EmptySet DEF ListPods, cluster, Calling, Returned
  <2> QED
    BY <1>2, <2>1, <2>2 DEF ListPods
<1>3. CASE Finish
  <2>1. MajorityFailed' = MajorityFailed
    BY <1>3 DEF Finish, MajorityFailed, tally
  <2> QED
    BY <1>3, <2>1 DEF Finish, cluster, tally, Calling, Returned
<1>4. ASSUME NEW p \in Pods, Tally(p) PROVE DrainPhases'
  <2>1. wg # 0
    <3>1. p \in podsToEvict \ counted
      BY <1>4 DEF Tally, Goroutines, Results
    <3>2. IsFiniteSet(podsToEvict \ counted)
      BY FinitePods
    <3> QED
      BY <3>1, <3>2, FS_EmptySet DEF DrainBooks
  <2>2. phase = "evicting"
    BY <1>4, <2>1 DEF Tally, Goroutines, Results, Calling
  <2> QED
    BY <1>4, <2>2 DEF Tally, cluster, Calling, Returned
<1>5. ASSUME UNCHANGED <<phase, podsToEvict, tally, unschedulable>> PROVE DrainPhases'
  <2>1. MajorityFailed' = MajorityFailed
    BY <1>5 DEF MajorityFailed, tally
  <2> QED
    BY <1>5, <2>1 DEF tally
<1>6. ASSUME \/ Expire \/ UNCHANGED drainVars
             \/ \E p \in Pods : \/ Evict(p) \/ TakeTick(p) \/ Poll(p) \/ SeeTimeout(p)
                                \/ SeeDone(p) \/ Place(p) \/ Age(p)
      PROVE  DrainPhases'
  BY <1>5, <1>6 DEF Expire, drainVars, cluster, Evict, TakeTick, Poll, SeeTimeout, SeeDone, Place, Age
<1> QED
  BY StepCases, <1>1, <1>2, <1>3, <1>4, <1>6

\* A goroutine per listed pod, and no running pod behind an accepted eviction.
LEMMA StepGoroutines ==
  ASSUME DrainInv, [Next]_drainVars
  PROVE  Goroutines'
<1> USE DEF DrainInv, Goroutines, DrainTypeOK
<1>1. CASE ListPods
  BY <1>1 DEF ListPods, DrainPhases, Calling, cluster
<1>2. ASSUME NEW p \in Pods, Evict(p) PROVE Goroutines'
  BY <1>2 DEF Evict, AcceptEviction
<1>3. ASSUME NEW p \in Pods, TakeTick(p) \/ Poll(p) \/ SeeTimeout(p) \/ SeeDone(p) PROVE Goroutines'
  BY <1>3 DEF TakeTick, Poll, SeeTimeout, SeeDone, cluster
<1>4. ASSUME NEW p \in Pods, Place(p) \/ Age(p) PROVE Goroutines'
  BY <1>4 DEF Place, Age
<1>5. CASE \/ GetNode \/ Cordon \/ Finish \/ Expire \/ UNCHANGED drainVars
           \/ \E p \in Pods : Tally(p)
  BY <1>5 DEF GetNode, Cordon, Finish, Expire, drainVars, Tally, cluster
<1> QED
  BY StepCases, <1>1, <1>2, <1>3, <1>4, <1>5

\* From the listing on the node is cordoned, and what the scheduler may not place
\* cannot become eligible.
LEMMA StepNothingSlipsIn ==
  ASSUME DrainInv, [Next]_drainVars
  PROVE  NothingSlipsIn'
<1> USE ConfigFixed DEF DrainInv, NothingSlipsIn, DrainTypeOK
<1>1. CASE ListPods
  BY <1>1 DEF ListPods, Eligible, isDaemonSetPod, isStaticPod, hasEmptyDirVolumes, cluster
<1>2. CASE GetNode \/ Cordon
  BY <1>2 DEF GetNode, Cordon
<1>3. ASSUME \A p \in Pods : pod'[p] = "running" => pod[p] = "running",
             phase' \in {"evicting", "ok"} => phase \in {"evicting", "ok"},
             podsToEvict' = podsToEvict
      PROVE  NothingSlipsIn'
  BY <1>3 DEF Eligible, isDaemonSetPod, isStaticPod, hasEmptyDirVolumes
<1>4. CASE \/ Finish \/ Expire \/ UNCHANGED drainVars
           \/ \E p \in Pods : \/ TakeTick(p) \/ Poll(p) \/ SeeTimeout(p) \/ SeeDone(p) \/ Tally(p)
  BY <1>3, <1>4 DEF Finish, Expire, drainVars, TakeTick, Poll, SeeTimeout, SeeDone, Tally, cluster
<1>5. ASSUME NEW p \in Pods, Evict(p) \/ Age(p) PROVE NothingSlipsIn'
  BY <1>3, <1>5 DEF Evict, AcceptEviction, Age
<1>6. ASSUME NEW p \in Pods, Place(p) PROVE NothingSlipsIn'
  BY <1>6 DEF Place, DrainPhases, Eligible, isDaemonSetPod, isStaticPod, hasEmptyDirVolumes
<1> QED
  BY StepCases, <1>1, <1>2, <1>4, <1>5, <1>6

-----------------------------------------------------------------------------
\* Every reachable state of the drain satisfies the invariant.
THEOREM DrainInvariant == Spec => []DrainInv
<1>1. DrainInv /\ [Next]_drainVars => DrainInv'
  BY StepType, StepPhases, StepGoroutines, StepBooks, StepNothingSlipsIn DEF DrainInv
<1> QED
  BY InitInv, <1>1, PTL DEF Spec

\* Type correctness of the Kubernetes handler.
THEOREM DrainTypeCorrect == Spec => []DrainTypeOK
  BY DrainInvariant, PTL DEF DrainInv

\* However many pods the scheduler places while the handler works, none is
\* missed: the cordon comes before the list.
THEOREM NoPodSlipsIn == Spec => []NothingSlipsIn
  BY DrainInvariant, PTL DEF DrainInv

\* The integer division of the code draws the line exactly at one half.
LEMMA MajorityRule ==
  ASSUME DrainInv
  PROVE  MajorityFailed <=> 2 * evictionErrors > Cardinality(podsToEvict)
<1>1. Cardinality(podsToEvict) \in Nat /\ evictionErrors \in Nat
  BY FinitePods DEF DrainInv, DrainTypeOK
<1>2. \A n, m \in Nat : m > n \div 2 <=> 2 * m > n
  OBVIOUS
<1> QED
  BY <1>1, <1>2 DEF MajorityFailed

\* Once a drain is over every goroutine has ended.
LEMMA OverMeansCounted ==
  ASSUME DrainInv, phase \in Returned
  PROVE  counted = podsToEvict
<1>1. Cardinality(podsToEvict \ counted) = 0
  BY DEF DrainInv, DrainPhases, DrainBooks
<1>2. IsFiniteSet(podsToEvict \ counted)
  BY FinitePods DEF DrainInv, DrainTypeOK
<1> QED
  BY <1>1, <1>2, FS_EmptySet DEF DrainInv, DrainBooks

\* The verdict of a drain is exactly the majority rule over its evictions, each
\* counted once.
THEOREM DrainVerdictExact == Spec => []VerdictExact
<1>1. DrainInv => VerdictExact
  <2> SUFFICES ASSUME DrainInv, phase \in Returned, podsToEvict # {}
               PROVE  LET failed == {p \in podsToEvict : eviction[p] = "failed"} IN
                        /\ counted = podsToEvict
                        /\ evictionErrors = Cardinality(failed)
                        /\ successCount = Cardinality(podsToEvict \ failed)
                        /\ phase = "error" <=> 2 * Cardinality(failed) > Cardinality(podsToEvict)
    BY DEF VerdictExact
  <2>1. counted = podsToEvict
    BY OverMeansCounted
  <2>2. Failed = {p \in podsToEvict : eviction[p] = "failed"}
    BY <2>1 DEF Failed
  <2>3. evictionErrors = Cardinality(Failed) /\ successCount = Cardinality(podsToEvict \ Failed)
    BY <2>1 DEF DrainInv, DrainBooks, Succeeded
  <2>4. phase = "error" <=> 2 * evictionErrors > Cardinality(podsToEvict)
    BY MajorityRule DEF DrainInv, DrainPhases
  <2> QED
    BY <2>1, <2>2, <2>3, <2>4
<1> QED
  BY <1>1, DrainInvariant, PTL

\* A drain that succeeds leaves at most half of what it set out to evict.
THEOREM SuccessIsMajority == Spec => []SuccessLeavesAtMostHalf
<1>1. DrainInv => SuccessLeavesAtMostHalf
  <2> DEFINE rest == {p \in Pods : Eligible(p) /\ ~isDaemonSetPod(p)}
  <2> SUFFICES ASSUME DrainInv, phase = "ok"
               PROVE  2 * Cardinality(rest) <= Cardinality(podsToEvict)
    BY DEF SuccessLeavesAtMostHalf
  <2>1. counted = podsToEvict
    BY OverMeansCounted DEF Returned
  <2>2. rest \subseteq podsToEvict
    BY DEF DrainInv, NothingSlipsIn
  <2>3. \A p \in podsToEvict : eviction[p] \in Results
    BY <2>1 DEF DrainInv, DrainBooks
  <2>4. rest \subseteq Failed
    <3> SUFFICES ASSUME NEW p \in rest PROVE p \in counted /\ eviction[p] = "failed"
      BY DEF Failed
    <3>1. pod[p] = "running" /\ p \in Pods
      BY DEF Eligible
    <3>2. eviction[p] \in {"none", "evict", "failed"}
      BY <3>1 DEF DrainInv, Goroutines
    <3> QED
      BY <2>1, <2>2, <2>3, <3>2 DEF Results
  <2>5. /\ IsFiniteSet(Failed) /\ Cardinality(Failed) \in Nat
        /\ Cardinality(rest) \in Nat /\ Cardinality(podsToEvict) \in Nat
    BY FinitePods DEF Failed, DrainInv, DrainTypeOK
  <2>6. Cardinality(rest) <= Cardinality(Failed)
    BY <2>4, <2>5, FS_Subset
  <2>7. 2 * Cardinality(Failed) <= Cardinality(podsToEvict)
    <3>1. CASE podsToEvict = {}
      BY <2>1, <3>1, FS_EmptySet DEF Failed
    <3>2. CASE podsToEvict # {}
      <4>1. ~(2 * evictionErrors > Cardinality(podsToEvict))
        BY <3>2, MajorityRule DEF DrainInv, DrainPhases, Returned
      <4> QED
        BY <2>5, <4>1 DEF DrainInv, DrainBooks
    <3> QED
      BY <3>1, <3>2
  <2> QED
    BY <2>5, <2>6, <2>7
<1> QED
  BY <1>1, DrainInvariant, PTL
-----------------------------------------------------------------------------
(* Why a drain ends.  As for a round of Broadcaster, two facts need no       *)
(* fairness: wg.Wait() waits for pods that are being evicted and for nothing *)
(* else (WaitIsExact), and all that can go on for ever is polling            *)
(* (OnlyPollingRepeats), which the five seconds of evictPod end.             *)

\* No pod is asked to leave a node the scheduler still fills, and the wait ends
\* with the last of the goroutines, neither before nor after.
WaitIsExact ==
  /\ (\E p \in Pods : eviction[p] # "none") => unschedulable
  /\ phase = "evicting" => (wg = 0 <=> \A p \in podsToEvict : p \in counted)

\* What is ahead of a pod, of its goroutine, and of the handler.
PodAhead(p, step) ==
  \/ step = "place" /\ pod[p] = "absent"
  \/ step = "run" /\ pod[p] \in {"absent", "running"}
  \/ step = "leave" /\ pod[p] \notin {"gone", "replaced"}
  \/ step = "return" /\ pod[p] # "replaced"
  \/ step = "evict" /\ (phase \in Calling \/ eviction[p] = "evict")
  \/ step = "watch" /\ (phase \in Calling \/ eviction[p] \in Working)
  \/ step = "tally" /\ (phase \in Calling \/ p \in podsToEvict \ counted)

TurnAhead(turn) ==
  \/ turn = "get" /\ phase = "get"
  \/ turn = "cordon" /\ phase \in {"get", "cordon"}
  \/ turn = "list" /\ phase \in Calling
  \/ turn = "finish" /\ phase \notin Returned
  \/ turn = "expire" /\ ~ctxDone

PodSteps == {"place", "run", "leave", "return", "evict", "watch", "tally"}
Turns    == {"get", "cordon", "list", "finish", "expire"}

PodsAhead  == {x \in Pods \X PodSteps : PodAhead(x[1], x[2])}
TurnsAhead == {t \in Turns : TurnAhead(t)}

StepsLeft == Cardinality(PodsAhead) + Cardinality(TurnsAhead)

OnlyPollingRepeats ==
  /\ [](StepsLeft \in Nat)
  /\ [][(\E p \in Pods : TakeTick(p) \/ Poll(p)) \/ StepsLeft' < StepsLeft]_drainVars

\* What is evicted was listed, and listing comes after the cordon.
Cordoned == podsToEvict # {} => unschedulable

LEMMA StepCordoned ==
  ASSUME DrainInv, Cordoned, [Next]_drainVars
  PROVE  Cordoned'
<1> USE DEF Cordoned, DrainInv, DrainPhases
<1>1. CASE ListPods
  BY <1>1 DEF ListPods, cluster
<1>2. CASE Cordon
  BY <1>2 DEF Cordon, Calling
<1>3. CASE \/ GetNode \/ Finish \/ Expire \/ UNCHANGED drainVars
           \/ \E p \in Pods : \/ Evict(p) \/ TakeTick(p) \/ Poll(p) \/ SeeTimeout(p)
                              \/ SeeDone(p) \/ Tally(p) \/ Place(p) \/ Age(p)
  BY <1>3 DEF GetNode, Finish, Expire, drainVars, cluster, Evict, TakeTick, Poll, SeeTimeout,
     SeeDone, Tally, Place, Age
<1> QED
  BY StepCases, <1>1, <1>2, <1>3

\* evictPodsInParallel waits for its goroutines, for all of them and for nothing
\* else, and they run on a cordoned node only (handler_kubernetes.go:182-202).
THEOREM DrainWaitIsExact == Spec => []WaitIsExact
<1>1. DrainInit => Cordoned
  BY DEF DrainInit, Cordoned
<1>2. DrainInv /\ Cordoned /\ [Next]_drainVars => Cordoned'
  BY StepCordoned
<1>3. ASSUME DrainInv, Cordoned PROVE WaitIsExact
  <2>1. (\E p \in Pods : eviction[p] # "none") => unschedulable
    BY <1>3 DEF Cordoned, DrainInv, Goroutines
  <2>2. IsFiniteSet(podsToEvict \ counted)
    BY <1>3, FinitePods DEF DrainInv, DrainTypeOK
  <2>3. wg = 0 <=> podsToEvict \ counted = {}
    BY <1>3, <2>2, FS_EmptySet DEF DrainInv, DrainBooks
  <2> QED
    BY <2>1, <2>3 DEF WaitIsExact
<1> QED
  BY <1>1, <1>2, <1>3, DrainInvariant, PTL DEF Spec

\* When HandleTermination returns, its goroutines are over: wg.Wait() sees to it
\* (handler_kubernetes.go:185-202).
THEOREM DrainLeavesNothingBehind == Spec => NothingAfterReturn
<1>1. ASSUME DrainInv, [Next]_drainVars, phase \in Returned
      PROVE  UNCHANGED <<phase, podsToEvict, eviction, tally>>
  <2>1. counted = podsToEvict
    BY <1>1, OverMeansCounted
  <2>2. \A p \in Pods : eviction[p] \in Results \cup {"none"}
    BY <1>1, <2>1 DEF DrainInv, DrainBooks, Goroutines
  <2>3. \A p \in Pods : ~Evict(p) /\ ~TakeTick(p) /\ ~Poll(p) /\ ~SeeTimeout(p) /\ ~SeeDone(p)
    BY <2>2 DEF Evict, TakeTick, Poll, SeeTimeout, SeeDone, Results
  <2>4. \A p \in Pods : ~Tally(p)
    <3> SUFFICES ASSUME NEW p \in Pods, Tally(p) PROVE FALSE
      OBVIOUS
    <3>1. eviction[p] # "none" /\ p \notin counted
      BY DEF Tally, Results
    <3> QED
      BY <1>1, <2>1, <3>1 DEF DrainInv, Goroutines
  <2>5. ~GetNode /\ ~Cordon /\ ~ListPods /\ ~Finish
    BY <1>1 DEF GetNode, Cordon, ListPods, Finish, Returned
  <2>6. CASE Expire \/ UNCHANGED drainVars \/ \E p \in Pods : Place(p) \/ Age(p)
    BY <2>6 DEF Expire, drainVars, Place, Age
  <2> QED
    BY <1>1, <2>3, <2>4, <2>5, <2>6, StepCases
<1> QED
  BY <1>1, DrainInvariant, PTL DEF Spec, NothingAfterReturn
-----------------------------------------------------------------------------
\* No more is ahead than was before, and something less.
Nearer ==
  /\ PodsAhead' \subseteq PodsAhead
  /\ TurnsAhead' \subseteq TurnsAhead
  /\ PodsAhead' # PodsAhead \/ TurnsAhead' # TurnsAhead

\* The steps ahead are finitely many.
LEMMA FiniteAhead ==
  /\ IsFiniteSet(PodsAhead) /\ Cardinality(PodsAhead) \in Nat
  /\ IsFiniteSet(TurnsAhead) /\ Cardinality(TurnsAhead) \in Nat
<1>1. ASSUME NEW S, IsFiniteSet(S), NEW x PROVE IsFiniteSet(S \cup {x})
  BY <1>1, FS_AddElement
<1>2. IsFiniteSet({})
  BY FS_EmptySet
<1>3. IsFiniteSet(PodSteps)
  <2>1. IsFiniteSet((({} \cup {"place"}) \cup {"run"}) \cup {"leave"})
    BY <1>1, <1>2
  <2>2. IsFiniteSet((((({} \cup {"place"}) \cup {"run"}) \cup {"leave"}) \cup {"return"}) \cup {"evict"})
    BY <1>1, <2>1
  <2>3. IsFiniteSet((((((({} \cup {"place"}) \cup {"run"}) \cup {"leave"}) \cup {"return"}) \cup {"evict"})
                     \cup {"watch"}) \cup {"tally"})
    BY <1>1, <2>2
  <2>4. PodSteps = (((((({} \cup {"place"}) \cup {"run"}) \cup {"leave"}) \cup {"return"}) \cup {"evict"})
                     \cup {"watch"}) \cup {"tally"}
    BY DEF PodSteps
  <2> QED
    BY <2>3, <2>4
<1>4. IsFiniteSet(Turns)
  <2>1. IsFiniteSet((({} \cup {"get"}) \cup {"cordon"}) \cup {"list"})
    BY <1>1, <1>2
  <2>2. IsFiniteSet((((({} \cup {"get"}) \cup {"cordon"}) \cup {"list"}) \cup {"finish"}) \cup {"expire"})
    BY <1>1, <2>1
  <2>3. Turns = (((({} \cup {"get"}) \cup {"cordon"}) \cup {"list"}) \cup {"finish"}) \cup {"expire"}
    BY DEF Turns
  <2> QED
    BY <2>2, <2>3
<1>5. IsFiniteSet(Pods \X PodSteps)
  BY <1>3, PodsAssumption, FS_Product
<1>6. PodsAhead \subseteq Pods \X PodSteps /\ TurnsAhead \subseteq Turns
  BY DEF PodsAhead, TurnsAhead
<1> QED
  BY <1>4, <1>5, <1>6, FS_Subset, FS_CardinalityType

\* Less ahead is fewer steps left.
LEMMA FewerLeft ==
  ASSUME Nearer
  PROVE  StepsLeft' < StepsLeft
<1>1. ASSUME NEW S, IsFiniteSet(S), NEW T, T \subseteq S
      PROVE  /\ Cardinality(T) \in Nat /\ Cardinality(S) \in Nat
             /\ Cardinality(T) <= Cardinality(S)
             /\ T # S => Cardinality(T) # Cardinality(S)
  BY <1>1, FS_Subset, FS_CardinalityType
<1>2. /\ Cardinality(PodsAhead') \in Nat /\ Cardinality(PodsAhead) \in Nat
      /\ Cardinality(PodsAhead') <= Cardinality(PodsAhead)
      /\ PodsAhead' # PodsAhead => Cardinality(PodsAhead') # Cardinality(PodsAhead)
  BY <1>1, FiniteAhead DEF Nearer
<1>3. /\ Cardinality(TurnsAhead') \in Nat /\ Cardinality(TurnsAhead) \in Nat
      /\ Cardinality(TurnsAhead') <= Cardinality(TurnsAhead)
      /\ TurnsAhead' # TurnsAhead => Cardinality(TurnsAhead') # Cardinality(TurnsAhead)
  BY <1>1, FiniteAhead DEF Nearer
<1>4. PodsAhead' # PodsAhead \/ TurnsAhead' # TurnsAhead
  BY DEF Nearer
<1> HIDE DEF PodsAhead, TurnsAhead
<1> QED
  BY <1>2, <1>3, <1>4 DEF StepsLeft

\* The sets of what is ahead, member by member.
LEMMA Shrinking ==
  ASSUME \A p \in Pods, s \in PodSteps : PodAhead(p, s)' => PodAhead(p, s),
         \A t \in Turns : TurnAhead(t)' => TurnAhead(t),
         \/ \E p \in Pods, s \in PodSteps : PodAhead(p, s) /\ ~PodAhead(p, s)'
         \/ \E t \in Turns : TurnAhead(t) /\ ~TurnAhead(t)'
  PROVE  Nearer
<1>1. PodsAhead' \subseteq PodsAhead
  BY DEF PodsAhead
<1>2. TurnsAhead' \subseteq TurnsAhead
  BY DEF TurnsAhead
<1>3. ASSUME NEW p \in Pods, NEW s \in PodSteps, PodAhead(p, s), ~PodAhead(p, s)'
      PROVE  PodsAhead' # PodsAhead
  <2>1. <<p, s>> \in PodsAhead /\ <<p, s>> \notin PodsAhead'
    BY <1>3 DEF PodsAhead
  <2> QED
    BY <2>1
<1>4. ASSUME NEW t \in Turns, TurnAhead(t), ~TurnAhead(t)'
      PROVE  TurnsAhead' # TurnsAhead
  BY <1>4 DEF TurnsAhead
<1>5. PodsAhead' # PodsAhead \/ TurnsAhead' # TurnsAhead
  BY <1>3, <1>4
<1> QED
  BY <1>1, <1>2, <1>5 DEF Nearer

\* Every step but those of the polling loop leaves less ahead.
LEMMA StepNearer ==
  ASSUME DrainInv, Next, \A p \in Pods : ~TakeTick(p) /\ ~Poll(p)
  PROVE  Nearer
<1> USE DEF DrainInv, DrainTypeOK, PodSteps, Turns, PodAhead, TurnAhead, Calling, Returned
<1>1. CASE GetNode
  <2>1. UNCHANGED <<pod, podsToEvict, eviction, counted, ctxDone>>
    BY <1>1 DEF GetNode, cluster, tally
  <2>2. phase = "get" /\ phase' \in {"cordon", "error"}
    BY <1>1 DEF GetNode
  <2>3. TurnAhead("get") /\ ~TurnAhead("get")'
    BY <2>2
  <2>4. podsToEvict = {} /\ \A p \in Pods : eviction[p] = "none"
    BY <2>2 DEF DrainPhases, Goroutines
  <2> QED
    BY <2>1, <2>2, <2>3, <2>4, Shrinking
<1>2. CASE Cordon
  <2>1. UNCHANGED <<pod, podsToEvict, eviction, counted, ctxDone>>
    BY <1>2 DEF Cordon, tally
  <2>2. phase = "cordon" /\ phase' \in {"list", "error"}
    BY <1>2 DEF Cordon
  <2>3. TurnAhead("cordon") /\ ~TurnAhead("cordon")'
    BY <2>2
  <2>4. podsToEvict = {} /\ \A p \in Pods : eviction[p] = "none"
    BY <2>2 DEF DrainPhases, Goroutines
  <2> QED
    BY <2>1, <2>2, <2>3, <2>4, Shrinking
<1>3. CASE ListPods
  <2>1. UNCHANGED <<pod, counted, ctxDone>>
    BY <1>3 DEF ListPods, cluster
  <2>2. phase = "list" /\ phase' \in {"error", "ok", "evicting"}
    BY <1>3 DEF ListPods
  <2>3. TurnAhead("list") /\ ~TurnAhead("list")'
    BY <2>2
  <2> QED
    BY <2>1, <2>2, <2>3, Shrinking
<1>4. CASE Finish
  <2>1. UNCHANGED <<pod, podsToEvict, eviction, counted, ctxDone>>
    BY <1>4 DEF Finish, cluster, tally
  <2>2. phase = "evicting" /\ phase' \in {"error", "ok"}
    BY <1>4 DEF Finish
  <2>3. TurnAhead("finish") /\ ~TurnAhead("finish")'
    BY <2>2
  <2> QED
    BY <2>1, <2>2, <2>3, Shrinking
<1>5. CASE Expire
  <2>1. UNCHANGED <<pod, podsToEvict, eviction, counted, phase>> /\ ~ctxDone /\ ctxDone'
    BY <1>5 DEF Expire, cluster, tally
  <2>2. TurnAhead("expire") /\ ~TurnAhead("expire")'
    BY <2>1
  <2> QED
    BY <2>1, <2>2, Shrinking
<1>6. ASSUME NEW p \in Pods, Evict(p) PROVE Nearer
  <2>1. UNCHANGED <<podsToEvict, counted, ctxDone, phase>>
    BY <1>6 DEF Evict, tally
  <2>2. eviction[p] = "evict" /\ \E s \in {"select", "failed"} : eviction' = [eviction EXCEPT ![p] = s]
    BY <1>6 DEF Evict
  <2>3. phase \notin Calling
    BY <2>2 DEF DrainPhases, Goroutines
  <2>4. \/ pod' = pod
        \/ /\ pod[p] # "gone"
           /\ pod' = [pod EXCEPT ![p] = IF pod[p] = "replaced" THEN pod[p] ELSE "terminating"]
    BY <1>6 DEF Evict, AcceptEviction
  <2>5. PodAhead(p, "evict") /\ ~PodAhead(p, "evict")'
    BY <2>1, <2>2, <2>3
  <2> QED
    BY <2>1, <2>2, <2>3, <2>4, <2>5, Shrinking DEF Working, PodState
<1>7. ASSUME NEW p \in Pods, SeeTimeout(p) \/ SeeDone(p) PROVE Nearer
  <2>1. UNCHANGED <<pod, podsToEvict, counted, ctxDone, phase>>
    BY <1>7 DEF SeeTimeout, SeeDone, tally, cluster
  <2>2. eviction[p] = "select" /\ \E s \in {"timeout", "failed"} : eviction' = [eviction EXCEPT ![p] = s]
    BY <1>7 DEF SeeTimeout, SeeDone
  <2>3. phase \notin Calling
    BY <2>2 DEF DrainPhases, Goroutines
  <2>4. PodAhead(p, "watch") /\ ~PodAhead(p, "watch")'
    BY <2>1, <2>2, <2>3 DEF Working
  <2> QED
    BY <2>1, <2>2, <2>3, <2>4, Shrinking DEF Working
<1>8. ASSUME NEW p \in Pods, Tally(p) PROVE Nearer
  <2>1. UNCHANGED <<pod, podsToEvict, eviction, ctxDone, phase>>
    BY <1>8 DEF Tally, cluster
  <2>2. eviction[p] \in Results /\ p \notin counted /\ counted' = counted \cup {p}
    BY <1>8 DEF Tally
  <2>3. p \in podsToEvict /\ phase \notin Calling
    BY <2>2 DEF DrainPhases, Goroutines, Results
  <2>4. PodAhead(p, "tally") /\ ~PodAhead(p, "tally")'
    BY <2>1, <2>2, <2>3
  <2> QED
    BY <2>1, <2>2, <2>3, <2>4, Shrinking
<1>9. ASSUME NEW p \in Pods, Place(p) \/ Age(p) PROVE Nearer
  <2>1. UNCHANGED <<podsToEvict, eviction, counted, ctxDone, phase>>
    BY <1>9 DEF Place, Age, tally
  <2>2. \/ pod[p] = "absent" /\ pod' = [pod EXCEPT ![p] = "running"]
        \/ pod[p] = "running" /\ \E s \in {"completed", "terminating"} : pod' = [pod EXCEPT ![p] = s]
        \/ pod[p] \in {"completed", "terminating"} /\ pod' = [pod EXCEPT ![p] = "gone"]
        \/ pod[p] = "gone" /\ pod' = [pod EXCEPT ![p] = "replaced"]
    BY <1>9 DEF Place, Age
  <2>3. \E s \in PodSteps : PodAhead(p, s) /\ ~PodAhead(p, s)'
    BY <2>1, <2>2
  <2>4. \A q \in Pods, s \in PodSteps : PodAhead(q, s)' => PodAhead(q, s)
    BY <2>1, <2>2
  <2> QED
    BY <2>1, <2>3, <2>4, Shrinking
<1> QED
  BY <1>1, <1>2, <1>3, <1>4, <1>5, <1>6, <1>7, <1>8, <1>9 DEF Next, HandlerCall, EvictPod

\* A drain of any number of pods is over after a bounded number of steps and of
\* polls, whatever the API server answers and the cluster does meanwhile.
THEOREM DrainStepsRunOut == Spec => OnlyPollingRepeats
<1>1. DrainInv /\ [Next]_drainVars
      => [(\E p \in Pods : TakeTick(p) \/ Poll(p)) \/ StepsLeft' < StepsLeft]_drainVars
  BY StepNearer, FewerLeft
<1>2. StepsLeft \in Nat
  BY FiniteAhead DEF StepsLeft
<1> QED
  BY <1>1, <1>2, DrainInvariant, PTL DEF Spec, OnlyPollingRepeats
-----------------------------------------------------------------------------
(***************************************************************************)
(* Liveness.  tlapm does not know when an action is enabled: that the      *)
(* guards below enable the actions the fairness is about is a hypothesis   *)
(* of the theorems.  It is a state predicate, which TLC evaluates.  All    *)
(* else is proved, for one pod whichever it is: that all of finitely many  *)
(* pods have something in the end when each of them has is an induction    *)
(* over temporal formulas, and stays with TLC.                             *)
(***************************************************************************)
HandlerGuards ==
  /\ ctxDone /\ phase \in Calling => ENABLED <<ctxDone /\ HandlerCall>>_drainVars
  /\ phase = "evicting" /\ wg = 0 => ENABLED <<Finish>>_drainVars

PodGuards(p) ==
  /\ eviction[p] = "select" => ENABLED <<SeeTimeout(p)>>_drainVars
  /\ eviction[p] = "select" /\ ctxDone => ENABLED <<SeeDone(p)>>_drainVars
  /\ eviction[p] \in Results /\ p \notin counted => ENABLED <<Tally(p)>>_drainVars
  /\ eviction[p] \in {"evict", "poll"} => ENABLED <<Evict(p) \/ Poll(p)>>_drainVars
  /\ eviction[p] \in {"evict", "poll"} /\ ctxDone =>
       ENABLED <<ctxDone /\ (Evict(p) \/ Poll(p))>>_drainVars

InCall   == phase \in Calling
Evicting == phase = "evicting"
Over     == phase \in Returned

\* Where a listed pod's goroutine is: in an API call, in the select, about to
\* be counted, counted.
Asking(p)   == p \in podsToEvict /\ eviction[p] \in {"evict", "poll"}
Watching(p) == p \in podsToEvict /\ eviction[p] = "select"
Decided(p)  == p \in podsToEvict /\ eviction[p] \in Results /\ p \notin counted
Counted(p)  == p \in counted

Listed(p) == p \in podsToEvict

AllCounted == counted = podsToEvict

\* How the handler moves on.
LEMMA HandlerMoves ==
  ASSUME DrainInv, [Next]_drainVars
  PROVE  /\ InCall \/ Evicting \/ Over
         /\ ctxDone => ctxDone'
         /\ Evicting => Evicting' \/ Over'
         /\ Over => Over'
         /\ InCall => InCall' \/ Evicting' \/ Over'
<1>1. InCall \/ Evicting \/ Over
  BY DEF DrainInv, DrainTypeOK, InCall, Evicting, Over
<1>2. DrainTypeOK'
  BY StepType
<1>3. ctxDone => ctxDone'
  BY StepCases DEF GetNode, Cordon, ListPods, Finish, Expire, drainVars, Evict, TakeTick, Poll,
     SeeTimeout, SeeDone, Tally, Place, Age
<1>4. (Evicting => Evicting' \/ Over') /\ (Over => Over')
  BY StepCases DEF GetNode, Cordon, ListPods, Finish, Expire, drainVars, Evict, TakeTick, Poll,
     SeeTimeout, SeeDone, Tally, Place, Age, Evicting, Over, Returned
<1> QED
  BY <1>1, <1>2, <1>3, <1>4 DEF DrainTypeOK, InCall, Evicting, Over

\* How the goroutine of a listed pod moves on: from the first call to the count.
LEMMA PodMoves ==
  ASSUME DrainInv, NEW p \in Pods, [Next]_drainVars
  PROVE  /\ Listed(p) => Asking(p) \/ Watching(p) \/ Decided(p) \/ Counted(p)
         /\ Listed(p) => ~InCall /\ Listed(p)'
         /\ Asking(p) => Asking(p)' \/ Watching(p)' \/ Decided(p)'
         /\ Asking(p) /\ ctxDone => Asking(p)' \/ Decided(p)'
         /\ Watching(p) => Watching(p)' \/ Asking(p)' \/ Decided(p)'
         /\ Decided(p) => Decided(p)' \/ Counted(p)'
         /\ Counted(p) => Counted(p)'
<1>1. /\ podsToEvict \subseteq Pods /\ counted \subseteq podsToEvict
      /\ eviction \in [Pods -> {"none"} \cup Working \cup Results]
      /\ eviction[p] # "none" <=> p \in podsToEvict
      /\ InCall => podsToEvict = {}
      /\ p \in counted => eviction[p] \in Results
  BY DEF DrainInv, DrainTypeOK, DrainBooks, DrainPhases, Goroutines, InCall
<1> DEFINE Onward == /\ Asking(p) => Asking(p)' \/ Watching(p)' \/ Decided(p)'
                     /\ Asking(p) /\ ctxDone => Asking(p)' \/ Decided(p)'
                     /\ Watching(p) => Watching(p)' \/ Asking(p)' \/ Decided(p)'
                     /\ Decided(p) => Decided(p)' \/ Counted(p)'
                     /\ Counted(p) => Counted(p)'
<1> USE DEF Asking, Watching, Decided, Counted, Working, Results
<1>2. Listed(p) => Asking(p) \/ Watching(p) \/ Decided(p) \/ Counted(p)
  BY <1>1 DEF Listed
<1>3. Listed(p) => ~InCall /\ Listed(p)'
  BY <1>1, StepCases DEF Listed, InCall, Calling, GetNode, Cordon, ListPods, Finish, Expire,
     drainVars, Evict, TakeTick, Poll, SeeTimeout, SeeDone, Tally, Place, Age
<1> SUFFICES Onward
  BY <1>2, <1>3
<1>4. ASSUME UNCHANGED <<podsToEvict, counted>>, eviction'[p] = eviction[p] PROVE Onward
  BY <1>4
<1>5. CASE GetNode \/ Cordon \/ Finish \/ Expire \/ UNCHANGED drainVars
  BY <1>4, <1>5 DEF GetNode, Cordon, Finish, Expire, drainVars, tally
<1>6. CASE ListPods
  BY <1>1, <1>6 DEF ListPods, InCall, Calling
<1>7. ASSUME NEW q \in Pods,
             \/ Evict(q) \/ TakeTick(q) \/ Poll(q) \/ SeeTimeout(q) \/ SeeDone(q)
             \/ Tally(q) \/ Place(q) \/ Age(q)
      PROVE  Onward
  <2>1. podsToEvict' = podsToEvict
    BY <1>7 DEF Evict, TakeTick, Poll, SeeTimeout, SeeDone, Tally, Place, Age
  <2>2. CASE q # p /\ ~Tally(q)
    BY <1>1, <1>4, <1>7, <2>1, <2>2 DEF Evict, TakeTick, Poll, SeeTimeout, SeeDone, Place, Age, tally
  <2>3. CASE Tally(q)
    BY <1>1, <2>1, <2>3 DEF Tally
  <2>4. CASE q = p /\ ~Tally(q)
    BY <1>1, <1>7, <2>1, <2>4 DEF Evict, TakeTick, Poll, SeeTimeout, SeeDone, Place, Age, tally
  <2> QED
    BY <2>2, <2>3, <2>4
<1> HIDE DEF Onward
<1> QED
  BY <1>5, <1>6, <1>7, StepCases

\* What the fair actions achieve.
LEMMA PodActions ==
  ASSUME DrainInv, NEW p \in Pods
  PROVE  /\ <<SeeTimeout(p)>>_drainVars => Decided(p)'
         /\ <<SeeDone(p)>>_drainVars => Decided(p)'
         /\ <<Tally(p)>>_drainVars => Counted(p)'
         /\ <<Evict(p) \/ Poll(p)>>_drainVars => ~Asking(p)'
         /\ <<ctxDone /\ (Evict(p) \/ Poll(p))>>_drainVars => Decided(p)'
<1>1. /\ eviction \in [Pods -> {"none"} \cup Working \cup Results]
      /\ eviction[p] # "none" <=> p \in podsToEvict
      /\ p \in counted => eviction[p] \in Results
  BY DEF DrainInv, DrainTypeOK, DrainBooks, Goroutines
<1> QED
  BY <1>1 DEF SeeTimeout, SeeDone, Tally, Evict, Poll, Asking, Decided, Counted, Working, Results,
              tally

\* A done context is the end of each eviction, whatever the API server and the
\* pod do: the handler returns, or it is left with pods other than this one
\* (the case <-ctx.Done() of handler_kubernetes.go:302, and the client's own).
THEOREM ContextEndsEachEviction ==
  ASSUME NEW p \in Pods
  PROVE  FairSpec /\ []HandlerGuards /\ []PodGuards(p) =>
           (ctxDone ~> Over \/ (Evicting /\ (Listed(p) => Counted(p))))
<1>1. DrainInv /\ [Next]_drainVars =>
        /\ InCall \/ Evicting \/ Over
        /\ ctxDone => ctxDone'
        /\ Evicting => Evicting' \/ Over'
  BY HandlerMoves
<1>2. DrainInv /\ [Next]_drainVars =>
        /\ Listed(p) => Asking(p) \/ Watching(p) \/ Decided(p) \/ Counted(p)
        /\ Listed(p) => ~InCall /\ Listed(p)'
        /\ Asking(p) /\ ctxDone => Asking(p)' \/ Decided(p)'
        /\ Watching(p) => Watching(p)' \/ Asking(p)' \/ Decided(p)'
        /\ Decided(p) => Decided(p)' \/ Counted(p)'
        /\ Counted(p) => Counted(p)'
  BY PodMoves
<1>3. DrainInv =>
        /\ <<SeeDone(p)>>_drainVars => Decided(p)'
        /\ <<Tally(p)>>_drainVars => Counted(p)'
        /\ <<ctxDone /\ (Evict(p) \/ Poll(p))>>_drainVars => Decided(p)'
  BY PodActions
<1>4. HandlerGuards /\ InCall /\ ctxDone => ENABLED <<ctxDone /\ HandlerCall>>_drainVars
  BY DEF HandlerGuards, InCall
<1>5. PodGuards(p) =>
        /\ Watching(p) /\ ctxDone => ENABLED <<SeeDone(p)>>_drainVars
        /\ Decided(p) => ENABLED <<Tally(p)>>_drainVars
        /\ Asking(p) /\ ctxDone => ENABLED <<ctxDone /\ (Evict(p) \/ Poll(p))>>_drainVars
  BY DEF PodGuards, Watching, Decided, Asking
<1>6. <<ctxDone /\ HandlerCall>>_drainVars => Over'
  BY DEF HandlerCall, GetNode, Cordon, ListPods, Over, Returned
<1>7. FairSpec => /\ []DrainInv /\ [][Next]_drainVars
                  /\ WF_drainVars(ctxDone /\ HandlerCall)
                  /\ SF_drainVars(SeeDone(p)) /\ WF_drainVars(Tally(p))
                  /\ WF_drainVars(ctxDone /\ (Evict(p) \/ Poll(p)))
  <2>1. FairSpec => PodRuns(p) /\ GivesUp(p)
    <3>1. PodsRun => PodRuns(p)
      BY DEF PodsRun
    <3>2. PodsGivenUp => GivesUp(p)
      BY DEF PodsGivenUp
    <3> QED
      BY <3>1, <3>2, PTL DEF FairSpec
  <2> QED
    BY <2>1, DrainInvariant, PTL DEF FairSpec, Spec, PodRuns, GivesUp
<1>8. FairSpec /\ []HandlerGuards => (ctxDone ~> Over \/ Evicting)
  BY <1>1, <1>4, <1>6, <1>7, PTL
<1>9. FairSpec /\ []PodGuards(p) => (ctxDone /\ Listed(p) ~> Counted(p))
  BY <1>1, <1>2, <1>3, <1>5, <1>7, PTL
<1> QED
  BY <1>1, <1>2, <1>7, <1>8, <1>9, PTL

\* A pod that does not terminate is given up after its five seconds, and counted:
\* as long as the API server answers, the ticks in between do not put that off
\* for ever (handler_kubernetes.go:287-327).
THEOREM StuckPodIsGivenUp ==
  ASSUME NEW p \in Pods
  PROVE  FairSpec /\ []PodGuards(p) => (Answering => (Listed(p) ~> Counted(p)))
<1>1. DrainInv /\ [Next]_drainVars =>
        /\ Listed(p) => Asking(p) \/ Watching(p) \/ Decided(p) \/ Counted(p)
        /\ Listed(p) => Listed(p)'
        /\ Asking(p) => Asking(p)' \/ Watching(p)' \/ Decided(p)'
        /\ Watching(p) => Watching(p)' \/ Asking(p)' \/ Decided(p)'
        /\ Decided(p) => Decided(p)' \/ Counted(p)'
        /\ Counted(p) => Counted(p)'
  BY PodMoves
<1>2. DrainInv =>
        /\ <<SeeTimeout(p)>>_drainVars => Decided(p)'
        /\ <<Tally(p)>>_drainVars => Counted(p)'
        /\ <<Evict(p) \/ Poll(p)>>_drainVars => ~Asking(p)'
  BY PodActions
<1>3. PodGuards(p) =>
        /\ Watching(p) => ENABLED <<SeeTimeout(p)>>_drainVars
        /\ Decided(p) => ENABLED <<Tally(p)>>_drainVars
        /\ Asking(p) => ENABLED <<Evict(p) \/ Poll(p)>>_drainVars
  BY DEF PodGuards, Watching, Decided, Asking
<1>4. FairSpec => /\ []DrainInv /\ [][Next]_drainVars
                  /\ SF_drainVars(SeeTimeout(p)) /\ WF_drainVars(Tally(p))
  <2>1. PodsRun => PodRuns(p)
    BY DEF PodsRun
  <2> QED
    BY <2>1, DrainInvariant, PTL DEF FairSpec, Spec, PodRuns
<1>5. Answering => WF_drainVars(Evict(p) \/ Poll(p))
  <2>1. Answering => Answers(p)
    BY DEF Answering
  <2> QED
    BY <2>1, PTL DEF Answers
<1> QED
  BY <1>1, <1>2, <1>3, <1>4, <1>5, PTL

\* The last pod counted ends the drain (wg.Wait(), handler_kubernetes.go:202).
THEOREM LastCountEndsDrain ==
  FairSpec /\ []HandlerGuards => (Evicting /\ AllCounted ~> Over)
<1>1. DrainInv /\ [Next]_drainVars /\ Evicting => Evicting' \/ Over'
  BY HandlerMoves
<1>2. DrainInv /\ [Next]_drainVars /\ Evicting /\ AllCounted => AllCounted'
  <2> SUFFICES ASSUME DrainInv, [Next]_drainVars, Evicting, AllCounted PROVE AllCounted'
    OBVIOUS
  <2>1. \A p \in Pods : ~Tally(p)
    BY DEF Tally, AllCounted, DrainInv, Goroutines, Results
  <2> QED
    BY <2>1, StepCases DEF Evicting, AllCounted, Calling, GetNode, Cordon, ListPods, Finish, Expire,
       drainVars, Evict, TakeTick, Poll, SeeTimeout, SeeDone, Place, Age, tally
<1>3. WaitIsExact /\ HandlerGuards /\ Evicting /\ AllCounted => ENABLED <<Finish>>_drainVars
  BY DEF WaitIsExact, HandlerGuards, Evicting, AllCounted
<1>4. <<Finish>>_drainVars => Over'
  BY DEF Finish, Over, Returned
<1>5. FairSpec => []DrainInv /\ []WaitIsExact /\ [][Next]_drainVars /\ WF_drainVars(Finish)
  BY DrainInvariant, DrainWaitIsExact, PTL DEF FairSpec, Spec
<1> QED
  BY <1>1, <1>2, <1>3, <1>4, <1>5, PTL

=============================================================================
