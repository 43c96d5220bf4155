--------------------------- MODULE MonitorProofs ---------------------------
(***************************************************************************)
(* Proofs about Monitor: one inductive invariant, MonitorInv, from which   *)
(* the type invariant, the ownership of the mutex, the single alarm and    *)
(* the absence of false alarms (for every provider but GCP) follow, for    *)
(* any set of providers and runs of any length.                            *)
(***************************************************************************)
EXTENDS Monitor, TLAPS

\* Where the loop and the sender can be at the same time.
Phases ==
  /\ loop = "unstarted" => sender = "none"
  /\ sender # "none" => loop = "done"
  /\ provider = "dummy" => /\ loop \in {"unstarted", "done"}
                           /\ sender \in {"none", "sleep", "send", "sent"}
  /\ provider # "dummy" => sender # "sleep"

MonitorInv == MonitorTypeOK /\ Phases /\ MutexOwnership

\* What all the steps have in common: the provider stays what it is.
LEMMA ProviderFixed == [Next]_monitorVars => provider' = provider
  BY DEF Next, MonitorStep, monitorVars, Announce, Tick, StartMonitoring, TakeTick,
         SeeDone, CheckFails, CheckDetects, ReadField, Wake, SendEvent, Cancel

\* The initial states satisfy the invariant.
LEMMA InitInv == MonitorInit => MonitorInv
  BY DEF MonitorInit, MonitorInv, MonitorTypeOK, Phases, MutexOwnership, NoEvent,
         Fields, FieldValue, Loop, Sender, Holding, Reading

\* Every step keeps the type invariant; only the field reader needs to know
\* where getInstanceMetadatas goes next.
LEMMA StepType == MonitorTypeOK /\ [Next]_monitorVars => MonitorTypeOK'
<1> SUFFICES ASSUME MonitorTypeOK, [Next]_monitorVars PROVE MonitorTypeOK'
  OBVIOUS
<1> USE DEF MonitorTypeOK, Loop, Sender, Holding, Reading, Fields
<1>1. CASE StartMonitoring
  BY <1>1 DEF StartMonitoring, FieldValue
<1>2. CASE TakeTick
  BY <1>2 DEF TakeTick
<1>3. CASE SeeDone
  BY <1>3 DEF SeeDone
<1>4. CASE CheckFails
  BY <1>4 DEF CheckFails
<1>5. CASE CheckDetects
  BY <1>5 DEF CheckDetects
<1>6. CASE Wake
  BY <1>6 DEF Wake
<1>7. ASSUME NEW f \in Fields, ReadField(f) PROVE MonitorTypeOK'
  <2>1. sender' \in Sender
    BY <1>7 DEF ReadField, After
  <2>2. draft' \in [Fields -> FieldValue]
    BY <1>7 DEF ReadField, FieldValue
  <2> QED
    BY <1>7, <2>1, <2>2 DEF ReadField
<1>8. CASE SendEvent
  BY <1>8 DEF SendEvent
<1>9. CASE Announce
  BY <1>9 DEF Announce
<1>10. CASE Tick
  BY <1>10 DEF Tick
<1>11. CASE Cancel
  BY <1>11 DEF Cancel
<1>12. CASE UNCHANGED monitorVars
  BY <1>12 DEF monitorVars
<1> QED
  BY <1>1, <1>2, <1>3, <1>4, <1>5, <1>6, <1>7, <1>8, <1>9, <1>10, <1>11, <1>12
     DEF Next, MonitorStep

\* Every step keeps the phases and hands the mutex over without a gap.
LEMMA StepInv == MonitorInv /\ [Next]_monitorVars => MonitorInv'
<1> SUFFICES ASSUME MonitorInv, [Next]_monitorVars
             PROVE  Phases' /\ MutexOwnership'
  BY StepType DEF MonitorInv
<1> USE DEF MonitorInv, MonitorTypeOK, Phases, MutexOwnership, Loop, Sender, Holding,
            Reading, Fields
<1>1. CASE StartMonitoring
  BY <1>1 DEF StartMonitoring
<1>2. CASE TakeTick
  BY <1>2 DEF TakeTick
<1>3. CASE SeeDone
  BY <1>3 DEF SeeDone
<1>4. CASE CheckFails
  BY <1>4 DEF CheckFails
<1>5. CASE CheckDetects
  BY <1>5 DEF CheckDetects
<1>6. CASE Wake
  BY <1>6 DEF Wake
<1>7. ASSUME NEW f \in Fields, ReadField(f) PROVE Phases' /\ MutexOwnership'
  <2>1. sender' \in Holding
    BY <1>7 DEF ReadField, After
  <2> QED
    BY <1>7, <2>1 DEF ReadField
<1>8. CASE SendEvent
  BY <1>8 DEF SendEvent
<1>9. CASE Announce
  BY <1>9 DEF Announce
<1>10. CASE Tick
  BY <1>10 DEF Tick
<1>11. CASE Cancel
  BY <1>11 DEF Cancel
<1>12. CASE UNCHANGED monitorVars
  BY <1>12 DEF monitorVars
<1> QED
  BY <1>1, <1>2, <1>3, <1>4, <1>5, <1>6, <1>7, <1>8, <1>9, <1>10, <1>11, <1>12
     DEF Next, MonitorStep

\* Monitor's inductive invariant holds of every behaviour.
THEOREM MonitorInvariant == Spec => []MonitorInv
  BY InitInv, StepInv, PTL DEF Spec

\* Type correctness (startMonitoring and getInstanceMetadatas of every provider).
THEOREM MonitorTypeCorrect == Spec => []MonitorTypeOK
  BY MonitorInvariant, PTL DEF MonitorInv

\* The mutex that startMonitoring takes is locked exactly while a check runs or
\* an alarm is on its way, across the goroutine that locks it and the one that
\* unlocks it.
THEOREM MutexOwned == Spec => []MutexOwnership
  BY MonitorInvariant, PTL DEF MonitorInv
-----------------------------------------------------------------------------
\* The alarm is final: the loop has ended when the sender exists, and no action
\* takes the sender back.
LEMMA StepAlarm ==
  MonitorInv /\ [Next]_monitorVars =>
    [sender # "none" => /\ loop' = "done"
                        /\ sender' # "none"
                        /\ sender = "sent" => sender' = "sent"]_monitorVars
<1> SUFFICES ASSUME MonitorInv, Next, sender # "none"
             PROVE  loop' = "done" /\ sender' # "none" /\ (sender = "sent" => sender' = "sent")
  OBVIOUS
<1>1. loop = "done"
  BY DEF MonitorInv, Phases
<1>2. ~StartMonitoring /\ ~TakeTick /\ ~SeeDone /\ ~CheckFails /\ ~CheckDetects /\ ~Tick
  BY <1>1 DEF StartMonitoring, TakeTick, SeeDone, CheckFails, CheckDetects, Tick
<1>3. CASE \E f \in Fields : ReadField(f)
  <2> PICK f \in Fields : ReadField(f)
    BY <1>3
  <2> QED
    BY <1>1 DEF ReadField, After, Fields
<1>4. CASE Wake \/ SendEvent \/ Announce \/ Cancel
  BY <1>1, <1>4 DEF Wake, SendEvent, Announce, Cancel
<1> QED
  BY <1>2, <1>3, <1>4 DEF Next, MonitorStep

\* startMonitoring raises one alarm at most, and its event is sent once.
THEOREM AlarmOnce == Spec => OneAlarmPerRun
<1>1. MonitorInv /\ [Next]_monitorVars =>
        [sender # "none" => /\ loop' = "done"
                            /\ sender' # "none"
                            /\ sender = "sent" => sender' = "sent"]_monitorVars
  BY StepAlarm
<1> QED
  BY <1>1, MonitorInvariant, PTL DEF Spec, OneAlarmPerRun
-----------------------------------------------------------------------------
\* A check of a provider other than GCP comes out positive only under an
\* announcement the provider undertakes to report.
LEMMA DetectedOnlyIfAnnounced ==
  ASSUME provider \in CloudProviders \ {"gcp"},
         notice \in {"none"} \cup Announcements(provider),
         "detected" \in Verdicts
  PROVE  notice \in Reportable
<1>1. provider \in {"aws", "alicloud", "tencent", "huawei"}
  BY DEF CloudProviders, Profile
<1>2. PICK t, a :
        /\ a \in {"unreachable"} \cup Failures \cup SpotAnswers(provider, notice)
        /\ isSpotTerminationDetected(provider, doMetadataRequest(provider, t, a)) = "detected"
  BY DEF Verdicts
<1>3. doMetadataRequest(provider, t, a) \in Profile[provider].alarms
  BY <1>2 DEF isSpotTerminationDetected
<1>4. "error" \notin Profile[provider].alarms
  BY <1>1 DEF Profile, Aws, Alicloud, Tencent, Huawei, Bodies
<1>5. doMetadataRequest(provider, t, a) = a /\ a \notin Failures
  BY <1>3, <1>4 DEF doMetadataRequest
<1>6. a \in SpotAnswers(provider, notice) /\ a # "denied"
  BY <1>2, <1>5 DEF Failures
<1>7. CASE provider = "aws"
  <2>1. a \in {"stop", "terminate"}
    BY <1>3, <1>5, <1>7 DEF Profile, Aws
  <2>2. notice # "none" /\ a \in {notice, "garbled"}
    BY <1>6, <1>7 DEF SpotAnswers
  <2> QED
    BY <2>1, <2>2 DEF Reportable
<1>8. CASE provider # "aws"
  <2>1. notice # "none"
    BY <1>1, <1>6, <1>8 DEF SpotAnswers
  <2> QED
    BY <1>8, <2>1 DEF Announcements, Reportable
<1> QED
  BY <1>7, <1>8

\* No alarm without a reportable announcement, step by step.
LEMMA StepNoFalseAlarm ==
  ASSUME "gcp" \notin Monitored, MonitorInv, NoFalseAlarm, [Next]_monitorVars
  PROVE  NoFalseAlarm'
<1> SUFFICES ASSUME provider' # "dummy", sender' # "none" PROVE notice' \in Reportable
  BY DEF NoFalseAlarm
<1>1. provider' = provider /\ provider \in CloudProviders \ {"gcp"}
  BY ProviderFixed, MonitoredAssumption DEF MonitorInv, MonitorTypeOK, ProviderNames
<1>2. CASE CheckDetects
  BY <1>1, <1>2, DetectedOnlyIfAnnounced DEF CheckDetects, MonitorInv, MonitorTypeOK
<1>3. CASE Announce
  <2>1. notice = "none" /\ sender # "none"
    BY <1>3 DEF Announce
  <2> QED
    BY <1>1, <2>1 DEF NoFalseAlarm, Reportable
<1>4. CASE ~CheckDetects /\ ~Announce
  <2>1. notice' = notice /\ sender # "none"
    BY <1>1, <1>4 DEF Next, MonitorStep, monitorVars, Tick, StartMonitoring, TakeTick,
       SeeDone, CheckFails, ReadField, Wake, SendEvent, Cancel, Fields
  <2> QED
    BY <1>1, <2>1 DEF NoFalseAlarm
<1> QED
  BY <1>2, <1>3, <1>4

\* isSpotTerminationDetected of every provider but GCP raises no false alarm.
THEOREM NoAlarmWithoutAnnouncement == "gcp" \notin Monitored => (Spec => []NoFalseAlarm)
<1> SUFFICES ASSUME "gcp" \notin Monitored PROVE Spec => []NoFalseAlarm
  OBVIOUS
<1>1. MonitorInit => NoFalseAlarm
  BY DEF MonitorInit, NoFalseAlarm
<1>2. MonitorInv /\ NoFalseAlarm /\ [Next]_monitorVars => NoFalseAlarm'
  BY StepNoFalseAlarm
<1> QED
  BY <1>1, <1>2, MonitorInvariant, PTL DEF Spec

-----------------------------------------------------------------------------
(***************************************************************************)
(* Liveness.  tlapm does not know when an action is enabled: that the      *)
(* guards below enable the actions that MonitorFairness is about is a      *)
(* hypothesis of the two theorems.  It is a state predicate, which TLC     *)
(* evaluates.  All else is proved.                                         *)
(***************************************************************************)
GuardsEnable ==
  /\ loop = "unstarted" => ENABLED <<StartMonitoring>>_monitorVars
  /\ loop \in {"select", "check"} /\ ~tick => ENABLED <<Tick>>_monitorVars
  /\ loop = "select" /\ tick => ENABLED <<TakeTick>>_monitorVars
  /\ loop = "check" => ENABLED <<CheckFails \/ CheckDetects>>_monitorVars
  /\ loop = "check" /\ "detected" \in Verdicts => ENABLED <<CheckDetects>>_monitorVars
  /\ loop = "select" /\ cancelled => ENABLED <<SeeDone>>_monitorVars
  /\ sender \in Reading => ENABLED <<\E f \in Fields : ReadField(f)>>_monitorVars

Started   == ~(loop = "unstarted")
Selecting == loop = "select"
Checking  == loop = "check"
Ended     == loop = "done"

\* How the loop moves, and what stays once it is so.
LEMMA LoopMoves ==
  ASSUME MonitorInv, [Next]_monitorVars
  PROVE  /\ ~Started \/ Selecting \/ Checking \/ Ended
         /\ Selecting \/ Checking \/ Ended => Started
         /\ cancelled => cancelled'
         /\ Started => Started'
         /\ Ended => Ended'
<1>1. /\ ~Started \/ Selecting \/ Checking \/ Ended
      /\ Selecting \/ Checking \/ Ended => Started
  BY DEF MonitorInv, MonitorTypeOK, Loop, Started, Selecting, Checking, Ended
<1>2. cancelled => cancelled'
  BY DEF Next, MonitorStep, monitorVars, Announce, Tick, StartMonitoring, TakeTick,
         SeeDone, CheckFails, CheckDetects, ReadField, Wake, SendEvent, Cancel
<1>3. (Started => Started') /\ (Ended => Ended')
  BY DEF Next, MonitorStep, monitorVars, Announce, Tick, StartMonitoring, TakeTick,
         SeeDone, CheckFails, CheckDetects, ReadField, Wake, SendEvent, Cancel,
         Started, Ended
<1> QED
  BY <1>1, <1>2, <1>3

\* Cancelling the root context ends the loop (the case <-ctx.Done() of every
\* startMonitoring): a check comes back, and no select avoids it for ever.
THEOREM CancelEndsLoop == FairSpec /\ []GuardsEnable => LoopStops
<1>1. GuardsEnable => /\ ~Started => ENABLED <<StartMonitoring>>_monitorVars
                      /\ Checking => ENABLED <<CheckFails \/ CheckDetects>>_monitorVars
                      /\ Selecting /\ cancelled => ENABLED <<SeeDone>>_monitorVars
  BY DEF GuardsEnable, Started, Checking, Selecting
<1>2. <<StartMonitoring>>_monitorVars => Started'
  BY DEF StartMonitoring, Started
<1>3. <<CheckFails \/ CheckDetects>>_monitorVars => ~Checking'
  BY DEF CheckFails, CheckDetects, Checking
<1>4. <<SeeDone>>_monitorVars => Ended'
  BY DEF SeeDone, Ended
<1>5. FairSpec => /\ []MonitorInv /\ [][Next]_monitorVars
                  /\ WF_monitorVars(StartMonitoring)
                  /\ WF_monitorVars(CheckFails \/ CheckDetects)
                  /\ SF_monitorVars(SeeDone)
  BY MonitorInvariant, PTL DEF FairSpec, Spec, MonitorFairness
<1>6. FairSpec /\ []GuardsEnable => (cancelled ~> Ended)
  BY <1>1, <1>2, <1>3, <1>4, <1>5, LoopMoves, PTL
<1> QED
  BY <1>6, PTL DEF LoopStops, Ended
-----------------------------------------------------------------------------
\* A loop that is over without an alarm was cancelled.
OverOnlyIf == loop = "done" /\ sender = "none" => cancelled

LEMMA OverOnlyIfHolds == Spec => []OverOnlyIf
<1>1. MonitorInit => OverOnlyIf
  BY DEF MonitorInit, OverOnlyIf
<1>2. ASSUME MonitorInv, OverOnlyIf, [Next]_monitorVars PROVE OverOnlyIf'
  <2> USE DEF OverOnlyIf
  <2>1. CASE \E f \in Fields : ReadField(f)
    BY <1>2, <2>1 DEF ReadField, After, Fields, MonitorInv, Phases
  <2>2. CASE ~\E f \in Fields : ReadField(f)
    BY <1>2, <2>2 DEF Next, MonitorStep, monitorVars, Announce, Tick, StartMonitoring,
       TakeTick, SeeDone, CheckFails, CheckDetects, Wake, SendEvent, Cancel
  <2> QED
    BY <2>1, <2>2
<1> QED
  BY <1>1, <1>2, MonitorInvariant, PTL DEF Spec

\* There is something to report, and nobody has stopped the program.
Due == provider # "dummy" /\ notice \in Reportable

\* Under an announcement a check can find it, whatever the provider.
LEMMA AnnouncedCanBeDetected ==
  ASSUME MonitorTypeOK, Due, ~cancelled
  PROVE  "detected" \in Verdicts
<1>1. provider \in CloudProviders /\ notice \in Announcements(provider)
  BY MonitoredAssumption DEF MonitorTypeOK, Due, Reportable, ProviderNames
<1> DEFINE verdict(t, a) == isSpotTerminationDetected(provider, doMetadataRequest(provider, t, a))
<1>2. \E a \in SpotAnswers(provider, notice) :
        a \in Profile[provider].alarms /\ a \notin Failures
  BY <1>1 DEF SpotAnswers, Due, Reportable, Failures, Announcements, CloudProviders, Profile,
              Aws, Alicloud, Tencent, Gcp, Huawei, Bodies
<1>3. PICK a \in SpotAnswers(provider, notice) :
        a \in Profile[provider].alarms /\ a \notin Failures
  BY <1>2
<1>4. verdict("answered", a) = "detected"
  BY <1>3 DEF isSpotTerminationDetected, doMetadataRequest
<1> HIDE DEF verdict
<1>5. Verdicts = {verdict(t, x) : t \in {"unreachable", "answered"},
                                  x \in Failures \cup SpotAnswers(provider, notice)}
  BY DEF Verdicts, verdict
<1> QED
  BY <1>3, <1>4, <1>5

Reporting(f) == sender = f
AllSet == sender \in {"send", "sent"}

\* How a reportable announcement makes its way, while the program runs on.
LEMMA DueMoves ==
  ASSUME MonitorInv, OverOnlyIf, Due, ~cancelled, [Next]_monitorVars
  PROVE  /\ Due'
         /\ Ended => \/ Reporting("Hostname") \/ Reporting("PrivateIP")
                     \/ Reporting("InstanceID") \/ AllSet
         /\ Selecting => Selecting' \/ Checking' \/ cancelled'
         /\ Selecting /\ tick => tick' \/ Checking'
         /\ Reporting("Hostname") => Reporting("Hostname")' \/ Reporting("PrivateIP")'
         /\ Reporting("PrivateIP") =>
              Reporting("PrivateIP")' \/ Reporting("InstanceID")' \/ AllSet'
         /\ Reporting("InstanceID") => Reporting("InstanceID")' \/ AllSet'
<1>1. Due'
  BY ProviderFixed DEF Due, Next, MonitorStep, monitorVars, Announce, Tick, StartMonitoring,
     TakeTick, SeeDone, CheckFails, CheckDetects, ReadField, Wake, SendEvent, Cancel, Reportable
<1>2. Ended => \/ Reporting("Hostname") \/ Reporting("PrivateIP")
               \/ Reporting("InstanceID") \/ AllSet
  BY DEF Ended, Reporting, AllSet, OverOnlyIf, MonitorInv, MonitorTypeOK, Phases, Sender,
         Holding, Reading, Fields, Due
<1>3. (Selecting => Selecting' \/ Checking' \/ cancelled') /\ (Selecting /\ tick => tick' \/ Checking')
  <2>1. CASE TakeTick
    BY <2>1 DEF Selecting, Checking, TakeTick, MonitorInv, MutexOwnership, Phases, Due, Holding,
                Reading, Fields
  <2>2. ASSUME ~TakeTick, Selecting PROVE Selecting' \/ Checking' \/ cancelled'
    BY <2>2 DEF Next, MonitorStep, monitorVars, Announce, Tick, StartMonitoring, SeeDone,
       CheckFails, CheckDetects, ReadField, Wake, SendEvent, Cancel, Selecting
  <2>3. ASSUME ~TakeTick, Selecting, tick PROVE tick'
    BY <2>3 DEF Next, MonitorStep, monitorVars, Announce, Tick, StartMonitoring, SeeDone,
       CheckFails, CheckDetects, ReadField, Wake, SendEvent, Cancel, Selecting
  <2> QED
    BY <2>1, <2>2, <2>3
<1>4. ASSUME NEW f \in Fields, Reporting(f)
      PROVE  Reporting(f)' \/ sender' = After(f)
  <2>1. loop = "done"
    BY <1>4 DEF MonitorInv, Phases, Reporting, Fields
  <2>2. CASE \E g \in Fields : ReadField(g)
    BY <1>4, <2>2 DEF ReadField, Reporting
  <2>3. CASE ~\E g \in Fields : ReadField(g)
    BY <1>4, <2>1, <2>3 DEF Next, MonitorStep, monitorVars, Announce, Tick, StartMonitoring,
       TakeTick, SeeDone, CheckFails, CheckDetects, Wake, SendEvent, Cancel, Reporting, Fields
  <2> QED
    BY <2>2, <2>3
<1> QED
  BY <1>1, <1>2, <1>3, <1>4 DEF Reporting, AllSet, After, Fields

\* A reportable announcement becomes an event ready to be sent, whatever single
\* requests fail on the way, unless the program is shut down first (the path
\* from startMonitoring's ticker to `e <- t`).
THEOREM AnnouncementGetsThrough == FairSpec /\ []GuardsEnable => AnnouncementBecomesEvent
<1>1. MonitorInv /\ Due /\ ~cancelled /\ GuardsEnable =>
        /\ ~Started => ENABLED <<StartMonitoring>>_monitorVars
        /\ Selecting /\ ~tick => ENABLED <<Tick>>_monitorVars
        /\ Selecting /\ tick => ENABLED <<TakeTick>>_monitorVars
        /\ Checking => ENABLED <<CheckFails \/ CheckDetects>>_monitorVars
        /\ Checking => ENABLED <<CheckDetects>>_monitorVars
        /\ Reporting("Hostname") => ENABLED <<\E f \in Fields : ReadField(f)>>_monitorVars
        /\ Reporting("PrivateIP") => ENABLED <<\E f \in Fields : ReadField(f)>>_monitorVars
        /\ Reporting("InstanceID") => ENABLED <<\E f \in Fields : ReadField(f)>>_monitorVars
  <2>1. MonitorInv /\ Due /\ ~cancelled => "detected" \in Verdicts
    BY AnnouncedCanBeDetected DEF MonitorInv
  <2> QED
    BY <2>1 DEF GuardsEnable, Started, Checking, Selecting, Reporting, Reading, Fields
<1>2. /\ <<StartMonitoring>>_monitorVars => Started'
      /\ <<Tick>>_monitorVars => tick'
      /\ <<CheckDetects>>_monitorVars => Reporting("Hostname")'
  BY DEF StartMonitoring, Started, Tick, CheckDetects, Reporting
<1>3. MonitorInv /\ Due /\ <<TakeTick>>_monitorVars => Checking'
  BY DEF TakeTick, Checking, MonitorInv, MutexOwnership, Phases, Due, Holding, Reading, Fields
<1>4. <<\E f \in Fields : ReadField(f)>>_monitorVars =>
        /\ Reporting("Hostname") => Reporting("PrivateIP")'
        /\ Reporting("PrivateIP") => Reporting("InstanceID")' \/ AllSet'
        /\ Reporting("InstanceID") => AllSet'
  BY DEF ReadField, Reporting, AllSet, After, Fields
<1>5. FairSpec => /\ []MonitorInv /\ []OverOnlyIf /\ [][Next]_monitorVars
                  /\ WF_monitorVars(StartMonitoring)
                  /\ WF_monitorVars(Tick)
                  /\ WF_monitorVars(TakeTick)
                  /\ WF_monitorVars(CheckFails \/ CheckDetects)
                  /\ WF_monitorVars(\E f \in Fields : ReadField(f))
                  /\ SF_monitorVars(CheckDetects)
  BY MonitorInvariant, OverOnlyIfHolds, PTL DEF FairSpec, Spec, MonitorFairness
<1>6. FairSpec /\ []GuardsEnable => (Due ~> AllSet \/ cancelled)
  BY <1>1, <1>2, <1>3, <1>4, <1>5, LoopMoves, DueMoves, PTL
<1> QED
  BY <1>6, PTL DEF AnnouncementBecomesEvent, Due, AllSet

=============================================================================
