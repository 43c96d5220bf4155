-------------------------- MODULE KubernetesHandler --------------------------
(***************************************************************************)
(* The Kubernetes handler: find the node, cordon it, list its pods, evict  *)
(* the eligible ones in parallel, and fail only when more than half of the *)
(* evictions failed.  Around it the API server, whose answers fail or get  *)
(* lost, the scheduler, which keeps placing pods until the node is         *)
(* cordoned, and whoever else completes or deletes pods.                   *)
(***************************************************************************)
EXTENDS Naturals, FiniteSets

CONSTANT Pods   \* the pods that may come to the node

ASSUME PodsAssumption == IsFiniteSet(Pods)

VARIABLES
  kind,                 \* what a pod is, as far as the filter cares; never changes
  skipDaemonSets, deleteEmptyDirData,   \* the handler's configuration; never changes
  pod,                  \* the pods as the API server knows them
  unschedulable,        \* node.spec.unschedulable
  ctxDone,              \* the context of the call is done
  phase,                \* HandleTermination
  podsToEvict,          \* the pods listed and not skipped
  eviction,             \* each pod's evictPod goroutine, or what it returned
  counted,              \* evictions entered in the two counters
  evictionErrors, successCount, wg      \* lengths and counters of evictPodsInParallel

config   == <<kind, skipDaemonSets, deleteEmptyDirData>>
cluster  == <<pod, unschedulable>>
tally    == <<counted, evictionErrors, successCount, wg>>
drainVars == <<config, cluster, ctxDone, phase, podsToEvict, eviction, tally>>

\* What the filter can tell apart: "agent" is a DaemonSet pod with an emptyDir.
Kinds    == {"plain", "daemonset", "static", "emptydir", "agent"}
\* Pods are known by name: "replaced" is a new pod of the same name (as of a
\* StatefulSet) on another node.
PodState == {"absent", "running", "completed", "terminating", "gone", "replaced"}
Left     == {"gone", "replaced"}                    \* no longer on the node
Calling  == {"get", "cordon", "list"}               \* waiting for an API call
Returned == {"ok", "error"}
\* The goroutine of evictPod: the eviction call, the select, the call after a
\* tick; then its result, a nil error for "deleted" and "timeout".
Working  == {"evict", "select", "poll"}
Results  == {"deleted", "timeout", "failed"}

DrainTypeOK ==
  /\ kind \in [Pods -> Kinds]
  /\ skipDaemonSets \in BOOLEAN /\ deleteEmptyDirData \in BOOLEAN
  /\ pod \in [Pods -> PodState]
  /\ unschedulable \in BOOLEAN
  /\ ctxDone \in BOOLEAN
  /\ phase \in Calling \cup {"evicting"} \cup Returned
  /\ podsToEvict \subseteq Pods
  /\ eviction \in [Pods -> {"none"} \cup Working \cup Results]
  /\ counted \subseteq Pods
  /\ evictionErrors \in Nat /\ successCount \in Nat /\ wg \in Nat

DrainInit ==
  /\ kind \in [Pods -> Kinds]
  /\ skipDaemonSets \in BOOLEAN /\ deleteEmptyDirData \in BOOLEAN
  /\ pod \in [Pods -> PodState \ Left]
  /\ unschedulable \in BOOLEAN
  /\ ctxDone = FALSE
  /\ phase = "get"
  /\ podsToEvict = {}
  /\ eviction = [p \in Pods |-> "none"]
  /\ counted = {}
  /\ evictionErrors = 0 /\ successCount = 0 /\ wg = 0
-----------------------------------------------------------------------------
isDaemonSetPod(p)     == kind[p] \in {"daemonset", "agent"}
isStaticPod(p)        == kind[p] = "static"
hasEmptyDirVolumes(p) == kind[p] \in {"emptydir", "agent"}

\* drainNode's filter, on a pod of the list.
Eligible(p) ==
  /\ pod[p] = "running"
  /\ ~(skipDaemonSets /\ isDaemonSetPod(p))
  /\ ~isStaticPod(p)
  /\ deleteEmptyDirData \/ ~hasEmptyDirVolumes(p)

\* Nodes().Get: any error, the node's absence included, ends the handler.
GetNode ==
  /\ phase = "get"
  /\ \/ ~ctxDone /\ phase' = "cordon"
     \/ phase' = "error"
  /\ UNCHANGED <<config, cluster, ctxDone, podsToEvict, eviction, tally>>

\* Seeded fault: the patch is never sent.
CordonForgotten ==
  /\ phase = "cordon"
  /\ phase' = "list"
  /\ UNCHANGED <<config, cluster, ctxDone, podsToEvict, eviction, tally>>

\* Nodes().Patch: an error may come back although the patch was applied.
Cordon ==
  /\ phase = "cordon"
  /\ \/ ~ctxDone /\ unschedulable' = TRUE /\ phase' = "list"
     \/ unschedulable' \in {unschedulable, TRUE} /\ phase' = "error"
  /\ UNCHANGED <<config, pod, ctxDone, podsToEvict, eviction, tally>>

\* Pods().List, the filter, and evictPodsInParallel's loop; no pod to evict is
\* success.
ListPods ==
  /\ phase = "list"
  /\ \/ /\ phase' = "error"
        /\ UNCHANGED <<podsToEvict, eviction, wg>>
     \/ /\ ~ctxDone
        /\ podsToEvict' = {p \in Pods : Eligible(p)}
        /\ phase' = IF podsToEvict' = {} THEN "ok" ELSE "evicting"
        /\ eviction' = [p \in Pods |-> IF p \in podsToEvict' THEN "evict" ELSE "none"]
        /\ wg' = Cardinality(podsToEvict')
  /\ UNCHANGED <<config, cluster, ctxDone, counted, evictionErrors, successCount>>
-----------------------------------------------------------------------------
\* The API server takes an eviction.  It names a pod but no UID: a replacement
\* is evicted too, from its own node.
AcceptEviction(p) ==
  /\ pod[p] # "gone"
  /\ pod' = [pod EXCEPT ![p] = IF @ = "replaced" THEN @ ELSE "terminating"]

\* Evictions().Evict: accepted, or an error (a disruption budget, a pod that is
\* gone, a context that is done), possibly after the server had accepted it.
Evict(p) ==
  /\ eviction[p] = "evict"
  /\ \/ /\ ~ctxDone
        /\ AcceptEviction(p)
        /\ eviction' = [eviction EXCEPT ![p] = "select"]
     \/ /\ UNCHANGED pod \/ AcceptEviction(p)
        /\ eviction' = [eviction EXCEPT ![p] = "failed"]
  /\ UNCHANGED <<config, unschedulable, ctxDone, phase, podsToEvict, tally>>

\* case <-ticker.C: the tick is there every 500ms, that is, at any time.
TakeTick(p) ==
  /\ eviction[p] = "select"
  /\ eviction' = [eviction EXCEPT ![p] = "poll"]
  /\ UNCHANGED <<config, cluster, ctxDone, phase, podsToEvict, tally>>

\* Pods().Get by name: whatever the error, the pod counts as deleted; a new pod
\* of that name counts as the old one.
Poll(p) ==
  /\ eviction[p] = "poll"
  /\ \/ ~ctxDone /\ pod[p] # "gone" /\ eviction' = [eviction EXCEPT ![p] = "select"]
     \/ eviction' = [eviction EXCEPT ![p] = "deleted"]
  /\ UNCHANGED <<config, cluster, ctxDone, phase, podsToEvict, tally>>

\* Seeded fault: evictPod's select has no timeout case.
SeeTimeoutNever(p) == FALSE /\ UNCHANGED drainVars

\* case <-timeout.C: the 5s are over, at any time; not an error.
SeeTimeout(p) ==
  /\ eviction[p] = "select"
  /\ eviction' = [eviction EXCEPT ![p] = "timeout"]
  /\ UNCHANGED <<config, cluster, ctxDone, phase, podsToEvict, tally>>

\* case <-ctx.Done().
SeeDone(p) ==
  /\ eviction[p] = "select"
  /\ ctxDone
  /\ eviction' = [eviction EXCEPT ![p] = "failed"]
  /\ UNCHANGED <<config, cluster, ctxDone, phase, podsToEvict, tally>>

\* Seeded fault: a failed eviction is not entered, and returns before wg.Done.
TallySuccess(p) ==
  /\ eviction[p] \in Results \ {"failed"}
  /\ p \notin counted
  /\ counted' = counted \cup {p}
  /\ successCount' = successCount + 1
  /\ wg' = wg - 1
  /\ UNCHANGED <<config, cluster, ctxDone, phase, podsToEvict, eviction, evictionErrors>>

\* Seeded fault: wg.Done is called and deferred as well.
TallyDoneTwice(p) ==
  /\ eviction[p] \in Results
  /\ p \notin counted
  /\ counted' = counted \cup {p}
  /\ IF eviction[p] = "failed"
     THEN evictionErrors' = evictionErrors + 1 /\ UNCHANGED successCount
     ELSE successCount' = successCount + 1 /\ UNCHANGED evictionErrors
  /\ wg' = wg - 2
  /\ UNCHANGED <<config, cluster, ctxDone, phase, podsToEvict, eviction>>

\* The two counters, under mu, and the deferred wg.Done().
Tally(p) ==
  /\ eviction[p] \in Results
  /\ p \notin counted
  /\ counted' = counted \cup {p}
  /\ IF eviction[p] = "failed"
     THEN evictionErrors' = evictionErrors + 1 /\ UNCHANGED successCount
     ELSE successCount' = successCount + 1 /\ UNCHANGED evictionErrors
  /\ wg' = wg - 1
  /\ UNCHANGED <<config, cluster, ctxDone, phase, podsToEvict, eviction>>

\* Seeded fault: one failure more than half is tolerated.
MajorityFailedLate == evictionErrors > Cardinality(podsToEvict) \div 2 + 1

\* len(evictionErrors) > len(podsToEvict)/2, in integers.
MajorityFailed == evictionErrors > Cardinality(podsToEvict) \div 2

\* Seeded fault: a done context is the end of the wait for the goroutines.
FinishAtDone ==
  /\ phase = "evicting"
  /\ wg = 0 \/ ctxDone
  /\ phase' = IF MajorityFailed \/ ctxDone THEN "error" ELSE "ok"
  /\ UNCHANGED <<config, cluster, ctxDone, podsToEvict, eviction, tally>>

\* wg.Wait() returns; the failures decide.
Finish ==
  /\ phase = "evicting"
  /\ wg = 0
  /\ phase' = IF MajorityFailed THEN "error" ELSE "ok"
  /\ UNCHANGED <<config, cluster, ctxDone, podsToEvict, eviction, tally>>
-----------------------------------------------------------------------------
\* The cluster around the handler.  The scheduler leaves a cordoned node alone;
\* DaemonSet and static pods do not pass through it.
Place(p) ==
  /\ pod[p] = "absent"
  /\ ~unschedulable \/ isDaemonSetPod(p) \/ isStaticPod(p)
  /\ pod' = [pod EXCEPT ![p] = "running"]
  /\ UNCHANGED <<config, unschedulable, ctxDone, phase, podsToEvict, eviction, tally>>

\* A pod completes, is deleted by somebody else, is gone at last, or comes back
\* under its name elsewhere.
Age(p) ==
  /\ \/ pod[p] = "running" /\ \E s \in {"completed", "terminating"} : pod' = [pod EXCEPT ![p] = s]
     \/ pod[p] \in {"completed", "terminating"} /\ pod' = [pod EXCEPT ![p] = "gone"]
     \/ /\ pod[p] = "gone" /\ unschedulable
        /\ kind[p] \in {"plain", "emptydir"}
        /\ pod' = [pod EXCEPT ![p] = "replaced"]
  /\ UNCHANGED <<config, unschedulable, ctxDone, phase, podsToEvict, eviction, tally>>

\* The processing timeout passes, or main cancels the root context.
Expire ==
  /\ ~ctxDone
  /\ ctxDone' = TRUE
  /\ UNCHANGED <<config, cluster, phase, podsToEvict, eviction, tally>>
-----------------------------------------------------------------------------
HandlerCall == GetNode \/ Cordon \/ ListPods

EvictPod(p) == Evict(p) \/ TakeTick(p) \/ Poll(p) \/ SeeTimeout(p) \/ SeeDone(p) \/ Tally(p)

Next ==
  \/ HandlerCall \/ Finish \/ Expire
  \/ \E p \in Pods : EvictPod(p) \/ Place(p) \/ Age(p)

Spec == DrainInit /\ [][Next]_drainVars

\* Goroutines run (WF).  The five seconds pass, and a select does not pass over a
\* case that is ready for ever (SF).  Nothing here makes an API call come back.
PodRuns(p) == /\ SF_drainVars(SeeTimeout(p))
              /\ SF_drainVars(SeeDone(p))
              /\ WF_drainVars(Tally(p))
PodsRun    == \A p \in Pods : PodRuns(p)

\* The client gives up on a call whose context is done.
GivesUp(p)  == WF_drainVars(ctxDone /\ (Evict(p) \/ Poll(p)))
PodsGivenUp == \A p \in Pods : GivesUp(p)

FairSpec ==
  /\ Spec
  /\ WF_drainVars(Finish)
  /\ PodsRun
  /\ WF_drainVars(ctxDone /\ HandlerCall)
  /\ PodsGivenUp

\* The API server answers every eviction and every Get.
Answers(p) == WF_drainVars(Evict(p) \/ Poll(p))
Answering  == \A p \in Pods : Answers(p)
-----------------------------------------------------------------------------
\* Cordoning before listing misses nothing: from the listing on, every pod the
\* handler should evict is among those it evicts.  DaemonSet pods are the
\* exception, as their controller ignores the cordon.
NothingSlipsIn ==
  phase \in {"evicting", "ok"} =>
    \A p \in Pods : Eligible(p) /\ ~isDaemonSetPod(p) => p \in podsToEvict

\* A drain that succeeds leaves at most half of the pods it set out to evict
\* undisturbed on the node.
SuccessLeavesAtMostHalf ==
  phase = "ok" =>
    2 * Cardinality({p \in Pods : Eligible(p) /\ ~isDaemonSetPod(p)})
      <= Cardinality(podsToEvict)

\* Once a drain is over every eviction was entered once, and it failed exactly
\* when more than half of the evictions did.
VerdictExact ==
  phase \in Returned /\ podsToEvict # {} =>
    LET failed == {p \in podsToEvict : eviction[p] = "failed"} IN
    /\ counted = podsToEvict
    /\ evictionErrors = Cardinality(failed)
    /\ successCount = Cardinality(podsToEvict \ failed)
    /\ phase = "error" <=> 2 * Cardinality(failed) > Cardinality(podsToEvict)

\* HandleTermination leaves no goroutine behind: after it has returned nothing
\* is evicted, asked or counted, and the verdict stands (wg.Wait(),
\* handler_kubernetes.go:202; one eviction's failure, or the context's end, is
\* no reason to go before the others).
NothingAfterReturn ==
  [][(phase \in Returned) => UNCHANGED <<phase, podsToEvict, eviction, tally>>]_drainVars

\* "pod successfully evicted and deleted" (handler_kubernetes.go:315) is only
\* said of a pod that is gone.
DeletedMeansGone == \A p \in Pods : eviction[p] = "deleted" => pod[p] \in Left

\* The handler honours its context: done, it returns, whatever the API server
\* and the pods do.
ContextEndsDrain == ctxDone ~> phase \in Returned

\* As long as the API server answers, pods that do not terminate do not hold the
\* drain until the context ends.
StuckPodsDoNotHoldDrain == Answering => (phase = "evicting" ~> phase \in Returned)

=============================================================================
