-------------------------- MODULE EvacuatorProofs --------------------------
(***************************************************************************)
(* Proofs about the whole process: the inductive invariants of Monitor and *)
(* Broadcaster hold in the composition, and with what ties them to main    *)
(* they give the graceful exit its meaning and every step its counterpart  *)
(* in Delivery, for any set of handlers and of providers.                  *)
(***************************************************************************)
EXTENDS Evacuator, TLAPS

BP == INSTANCE BroadcasterProofs
MP == INSTANCE MonitorProofs

\* The assumptions of the components are those of the process.
LEMMA Assumptions == BP!HandlersAssumption /\ MP!MonitoredAssumption
<1>1. BP!HandlersAssumption
  BY ProcessAssumption DEF BP!HandlersAssumption, IsFiniteSet, BP!IsFiniteSet
<1>2. MP!ProviderNames = M!ProviderNames
  BY DEF MP!ProviderNames, M!ProviderNames, MP!CloudProviders, M!CloudProviders,
         MP!Profile, M!Profile, MP!Aws, M!Aws, MP!Alicloud, M!Alicloud, MP!Tencent,
         M!Tencent, MP!Gcp, M!Gcp, MP!Huawei, M!Huawei, MP!Bodies, M!Bodies
<1>3. MP!MonitoredAssumption
  BY <1>2, ProcessAssumption DEF MP!MonitoredAssumption
<1> QED
  BY <1>1, <1>3

\* The steps of the process, one by one.
LEMMA StepCases ==
  ASSUME Next
  PROVE  \/ Alive /\ \/ GoMonitor \/ Notify \/ GoBroadcaster \/ Shutdown \/ ExitGraceful
                     \/ ExitTimeout \/ RunStarter \/ Signal \/ HandOver \/ StopBroadcaster
                     \/ Poll \/ Broadcast
         \/ UNCHANGED vars
  BY DEF Next, MainStep, Gone

\* Seen from the broadcaster, every step of the process is one of its own.
LEMMA BroadcasterMoves ==
  ASSUME [Next]_vars
  PROVE  BP!Moves
<1> USE DEF B!paramVars, BP!paramVars, B!raceVars, BP!raceVars, B!resultVars, BP!resultVars
<1>1. ASSUME UNCHANGED <<cancelled, broadcasterOnly>> PROVE BP!Moves
  BY <1>1 DEF BP!Moves, BP!broadcasterVars, broadcasterOnly
<1>2. CASE GoMonitor \/ Notify \/ GoBroadcaster \/ ExitGraceful \/ ExitTimeout \/ Signal
           \/ UNCHANGED vars
  BY <1>1, <1>2 DEF GoMonitor, Notify, GoBroadcaster, ExitGraceful, ExitTimeout, Signal, vars
<1>3. CASE RunStarter \/ Poll
  <2>1. UNCHANGED <<cancelled, broadcasterOnly>>
    BY <1>3 DEF RunStarter, Poll, M!StartMonitoring, M!TakeTick, M!SeeDone, M!CheckFails,
                M!CheckDetects, M!Wake, M!ReadField, M!Tick, M!Announce
  <2> QED
    BY <1>1, <2>1
<1>4. CASE Shutdown
  <2>1. CASE cancelled
    BY <1>1, <1>4, <2>1 DEF Shutdown
  <2>2. CASE ~cancelled
    BY <1>4, <2>2 DEF Shutdown, broadcasterOnly, BP!Moves, BP!Cancel
  <2> QED
    BY <2>1, <2>2
<1>5. CASE HandOver
  BY <1>5 DEF HandOver, B!ReceiveEvent, BP!ReceiveEvent, BP!Moves, B!Words, BP!Words,
              B!NoView, BP!NoView
<1>6. CASE StopBroadcaster
  BY <1>6 DEF StopBroadcaster, B!StopBroadcasting, BP!StopBroadcasting, BP!Moves,
              BP!BroadcasterStep
<1>7. CASE Broadcast
  <2>1. CASE B!CollectorStep
    BY <2>1 DEF B!CollectorStep, B!StartCollecting, B!CloseResults, B!Collect, B!FinishRound,
                BP!CollectorStep, BP!StartCollecting, BP!CloseResults, BP!Collect,
                BP!FinishRound, BP!Moves, BP!BroadcasterStep
  <2>2. ASSUME NEW h \in Handlers, B!Spawn(h) \/ B!Expire(h)
        PROVE  BP!Moves
    BY <2>2 DEF B!Spawn, B!Expire, BP!Spawn, BP!Expire, BP!Moves, BP!BroadcasterStep
  <2>3. ASSUME NEW h \in Handlers, B!HandlerStep(h)
        PROVE  BP!Moves
    <3>1. BP!HandlerStep(h)
      BY <2>3 DEF B!HandlerStep, B!CopyWord, B!StoreWord, B!LoadWord, B!Return, B!Panic, B!Report, B!Exit,
                  BP!HandlerStep, BP!CopyWord, BP!StoreWord, BP!LoadWord, BP!Return, BP!Panic, BP!Report,
                  BP!Exit, B!Words, BP!Words, B!Capacity, BP!Capacity, B!Cardinality, BP!Cardinality
    <3> QED
      BY <3>1 DEF BP!Moves, BP!BroadcasterStep
  <2> QED
    BY <1>7, <2>1, <2>2, <2>3 DEF Broadcast
<1> QED
  BY <1>2, <1>3, <1>4, <1>5, <1>6, <1>7, StepCases

\* Seen from the monitor, too.
LEMMA MonitorMoves ==
  ASSUME [Next]_vars
  PROVE  [MP!Next]_MP!monitorVars
<1>1. ASSUME UNCHANGED <<cancelled, monitorOnly>> PROVE UNCHANGED MP!monitorVars
  BY <1>1 DEF MP!monitorVars, monitorOnly
<1>2. CASE GoMonitor \/ Notify \/ GoBroadcaster \/ ExitGraceful \/ ExitTimeout \/ Signal
           \/ UNCHANGED vars
  BY <1>1, <1>2 DEF GoMonitor, Notify, GoBroadcaster, ExitGraceful, ExitTimeout, Signal, vars
<1>3. CASE StopBroadcaster \/ Broadcast
  <2>1. UNCHANGED <<cancelled, monitorOnly>>
    BY <1>3 DEF StopBroadcaster, Broadcast, B!StopBroadcasting, B!CollectorStep,
                B!StartCollecting, B!CloseResults, B!Collect, B!FinishRound, B!Spawn, B!Expire,
                B!HandlerStep, B!CopyWord, B!StoreWord, B!LoadWord, B!Return, B!Panic, B!Report, B!Exit
  <2> QED
    BY <1>1, <2>1
<1>4. CASE Shutdown
  <2>1. CASE cancelled
    BY <1>1, <1>4, <2>1 DEF Shutdown
  <2>2. CASE ~cancelled
    BY <1>4, <2>2 DEF Shutdown, monitorOnly, MP!Next, MP!Cancel
  <2> QED
    BY <2>1, <2>2
<1>5. CASE HandOver
  BY <1>5 DEF HandOver, M!SendEvent, MP!SendEvent, MP!Next
<1>6. CASE RunStarter
  BY <1>6 DEF RunStarter, M!StartMonitoring, MP!StartMonitoring, MP!Next, MP!MonitorStep,
              M!Fields, MP!Fields
<1>7. CASE Poll
  <2> USE DEF MP!Next, MP!MonitorStep
  <2>1. CASE M!TakeTick \/ M!SeeDone \/ M!Wake \/ M!Tick
    BY <2>1 DEF M!TakeTick, M!SeeDone, M!Wake, M!Tick, MP!TakeTick, MP!SeeDone, MP!Wake, MP!Tick
  <2>2. CASE M!CheckFails \/ M!CheckDetects
    <3>1. MP!Verdicts = M!Verdicts
      BY DEF MP!Verdicts, M!Verdicts, MP!Failures, M!Failures, MP!SpotAnswers, M!SpotAnswers,
             MP!isSpotTerminationDetected, M!isSpotTerminationDetected, MP!doMetadataRequest,
             M!doMetadataRequest, MP!Profile, M!Profile, MP!Aws, M!Aws, MP!Alicloud, M!Alicloud,
             MP!Tencent, M!Tencent, MP!Gcp, M!Gcp, MP!Huawei, M!Huawei, MP!Bodies, M!Bodies
    <3> QED
      BY <2>2, <3>1 DEF M!CheckFails, M!CheckDetects, MP!CheckFails, MP!CheckDetects
  <2>3. ASSUME NEW f \in M!Fields, M!ReadField(f) PROVE MP!Next
    <3>1. MP!ReadField(f)
      BY <2>3 DEF M!ReadField, MP!ReadField, M!Fields, MP!Fields, M!After, MP!After,
             MP!Profile, M!Profile, MP!Aws, M!Aws, MP!Alicloud, M!Alicloud,
             MP!Tencent, M!Tencent, MP!Gcp, M!Gcp, MP!Huawei, M!Huawei, MP!Bodies, M!Bodies
    <3> QED
      BY <3>1 DEF M!Fields, MP!Fields
  <2>4. CASE M!Announce
    BY <2>4 DEF M!Announce, MP!Announce, M!Announcements, MP!Announcements
  <2> QED
    BY <1>7, <2>1, <2>2, <2>3, <2>4 DEF Poll
<1> QED
  BY <1>2, <1>3, <1>4, <1>5, <1>6, <1>7, StepCases

-----------------------------------------------------------------------------
\* The components' invariants hold in the process.
LEMMA PartsInit == Init => BP!BroadcasterInv /\ MP!MonitorInv
<1>1. BP!BroadcasterInit => BP!BroadcasterInv
  BY BP!InitInv, Assumptions
<1>2. MP!MonitorInit => MP!MonitorInv
  BY MP!InitInv, Assumptions
<1>3. Init => BP!BroadcasterInit
  BY DEF Init, B!BroadcasterInit, BP!BroadcasterInit, B!Words, BP!Words, B!NoView, BP!NoView
<1>4. Init => MP!MonitorInit
  BY DEF Init, M!MonitorInit, MP!MonitorInit, M!NoEvent, MP!NoEvent, M!Fields, MP!Fields
<1> QED
  BY <1>1, <1>2, <1>3, <1>4

LEMMA PartsStep ==
  ASSUME BP!BroadcasterInv, MP!MonitorInv, [Next]_vars
  PROVE  BP!BroadcasterInv' /\ MP!MonitorInv'
<1>1. BP!BroadcasterInv'
  BY BroadcasterMoves, BP!StepInv, Assumptions
<1>2. MP!MonitorInv'
  BY MonitorMoves, MP!StepInv, Assumptions
<1> QED
  BY <1>1, <1>2

\* The WaitGroup counts the goroutine that starts the monitoring, until it has,
\* and the broadcaster, until it returns.
Starter == IF main # "start" /\ loop = "unstarted" THEN 1 ELSE 0
Caster  == IF main \notin Starting /\ bc # "done" THEN 1 ELSE 0

MainInv ==
  /\ main \in Starting \cup {"await", "waiting"} \cup Ended
  /\ sig \in BOOLEAN
  /\ wg \in Nat
  /\ main = "start" => loop = "unstarted"
  /\ main \in Starting => bc = "select"
  /\ main # "killed" => wg = Starter + Caster
  /\ main = "graceful" => wg = 0

\* One event at most, and before it the broadcaster is as it began.
Fresh ==
  /\ received = (IF sender = "sent" THEN 1 ELSE 0)
  /\ received = 0 => /\ bc \in {"select", "done"}
                     /\ ~closed /\ ~crashed
                     /\ \A h \in Handlers : pc[h] = "unspawned"

\* A handler that has not returned has no outcome.
Pending ==
  \A h \in Handlers : pc[h] \in {"unspawned", "store", "load", "running"} => outcome[h] = "none"

ProcessInv == BP!BroadcasterInv /\ MP!MonitorInv /\ MainInv /\ Fresh /\ Pending

\* What the two invariants say that is needed below, of variables alone.
LEMMA PartsFacts ==
  ASSUME BP!BroadcasterInv, MP!MonitorInv
  PROVE  /\ bc \in {"select", "spawn", "collect", "done"}
         /\ received \in Nat /\ crashed \in BOOLEAN /\ successCount \in Nat
         /\ pc \in [Handlers -> B!Stages]
         /\ outcome \in [Handlers -> {"none", "ok", "error"}]
         /\ loop \in {"unstarted", "select", "check", "done"}
         /\ loop = "unstarted" => sender = "none"
         /\ sender # "none" => loop = "done"
  BY DEF BP!BroadcasterInv, BP!BroadcasterTypeOK, BP!Stages, B!Stages, MP!MonitorInv,
         MP!MonitorTypeOK, MP!Loop, MP!Phases

LEMMA StepMain ==
  ASSUME ProcessInv, [Next]_vars
  PROVE  MainInv'
<1>1. /\ bc \in {"select", "spawn", "collect", "done"}
      /\ loop = "unstarted" => sender = "none"
  BY PartsFacts DEF ProcessInv
<1> USE DEF ProcessInv, MainInv, Starter, Caster, Starting, Ended, Alive
<1>2. CASE Alive /\ (GoMonitor \/ Notify \/ GoBroadcaster \/ Shutdown \/ ExitGraceful \/ ExitTimeout)
  <2>1. CASE GoMonitor
    BY <1>2, <2>1 DEF GoMonitor, monitorOnly, broadcasterOnly
  <2>2. CASE Notify
    BY <1>2, <2>2 DEF Notify, monitorOnly, broadcasterOnly
  <2>3. CASE GoBroadcaster
    BY <1>2, <2>3 DEF GoBroadcaster, monitorOnly, broadcasterOnly
  <2>4. CASE Shutdown \/ ExitTimeout
    BY <1>2, <2>4 DEF Shutdown, ExitTimeout, monitorOnly, broadcasterOnly
  <2>5. CASE ExitGraceful
    BY <1>2, <2>5 DEF ExitGraceful, monitorOnly, broadcasterOnly
  <2> QED
    BY <1>2, <2>1, <2>2, <2>3, <2>4, <2>5
<1>3. CASE Alive /\ RunStarter
  BY <1>1, <1>3 DEF RunStarter, M!StartMonitoring, broadcasterOnly
<1>4. CASE Alive /\ Signal
  BY <1>1, <1>4 DEF Signal, monitorOnly, broadcasterOnly
<1>5. CASE Alive /\ HandOver
  BY <1>1, <1>5 DEF HandOver, M!SendEvent, B!ReceiveEvent, mainVars
<1>6. CASE Alive /\ StopBroadcaster
  BY <1>1, <1>6 DEF StopBroadcaster, B!StopBroadcasting, monitorOnly
<1>7. CASE Alive /\ Poll
  <2>1. loop' = "unstarted" <=> loop = "unstarted"
    BY <1>7 DEF Poll, M!TakeTick, M!SeeDone, M!CheckFails, M!CheckDetects, M!Wake, M!ReadField,
                M!Tick, M!Announce
  <2> QED
    BY <1>1, <1>7, <2>1 DEF Poll, mainVars, broadcasterOnly
<1>8. CASE Alive /\ Broadcast
  <2>1. bc' = bc \/ (main \notin Starting /\ bc # "done" /\ bc' # "done")
    BY <1>1, <1>8 DEF Broadcast, B!CollectorStep, B!StartCollecting, B!CloseResults, B!Collect,
                B!FinishRound, B!Spawn, B!Expire, B!HandlerStep, B!CopyWord, B!StoreWord, B!LoadWord,
                B!Return, B!Panic, B!Report, B!Exit
  <2> QED
    BY <1>1, <1>8, <2>1 DEF Broadcast, mainVars, monitorOnly
<1>9. CASE UNCHANGED vars
  BY <1>9 DEF vars, mainVars, monitorOnly, broadcasterOnly
<1> QED
  BY <1>2, <1>3, <1>4, <1>5, <1>6, <1>7, <1>8, <1>9, StepCases

\* A round begins once, with the one event, and nothing of it exists before.
LEMMA StepFresh ==
  ASSUME ProcessInv, [Next]_vars
  PROVE  Fresh'
<1>1. /\ received \in Nat /\ crashed \in BOOLEAN
      /\ loop = "unstarted" => sender = "none"
      /\ sender # "none" => loop = "done"
  BY PartsFacts DEF ProcessInv
<1> USE DEF ProcessInv, Fresh
<1>2. ASSUME UNCHANGED broadcasterOnly, sender' = "sent" <=> sender = "sent" PROVE Fresh'
  BY <1>2 DEF broadcasterOnly
<1>3. CASE GoMonitor \/ Notify \/ GoBroadcaster \/ Shutdown \/ ExitGraceful \/ ExitTimeout
           \/ Signal \/ UNCHANGED vars
  BY <1>2, <1>3 DEF GoMonitor, Notify, GoBroadcaster, Shutdown, ExitGraceful, ExitTimeout,
                    Signal, vars, monitorOnly
<1>4. CASE RunStarter \/ Poll
  <2>1. sender' = "sent" <=> sender = "sent"
    BY <1>1, <1>4 DEF RunStarter, Poll, M!StartMonitoring, M!TakeTick, M!SeeDone, M!CheckFails,
                M!CheckDetects, M!Wake, M!ReadField, M!After, M!Tick, M!Announce, M!Fields
  <2> QED
    BY <1>2, <1>4, <2>1 DEF RunStarter, Poll
<1>5. CASE HandOver
  BY <1>1, <1>5 DEF HandOver, M!SendEvent, B!ReceiveEvent
<1>6. CASE StopBroadcaster
  BY <1>1, <1>6 DEF StopBroadcaster, B!StopBroadcasting, monitorOnly, B!resultVars
<1>7. CASE Broadcast
  <2>1. received # 0
    BY <1>7 DEF Broadcast, B!CollectorStep, B!StartCollecting, B!CloseResults, B!Collect,
                B!FinishRound, B!Spawn, B!Expire, B!HandlerStep, B!CopyWord, B!StoreWord, B!LoadWord,
                B!Return, B!Panic, B!Report, B!Exit
  <2>2. received' = received
    BY <1>7 DEF Broadcast, B!CollectorStep, B!StartCollecting, B!CloseResults, B!Collect,
                B!FinishRound, B!Spawn, B!Expire, B!HandlerStep, B!CopyWord, B!StoreWord, B!LoadWord,
                B!Return, B!Panic, B!Report, B!Exit
  <2> QED
    BY <1>7, <2>1, <2>2 DEF Broadcast, monitorOnly
<1> QED
  BY <1>3, <1>4, <1>5, <1>6, <1>7, StepCases

LEMMA StepPending ==
  ASSUME ProcessInv, [Next]_vars
  PROVE  Pending'
<1>1. pc \in [Handlers -> B!Stages] /\ outcome \in [Handlers -> {"none", "ok", "error"}]
  BY PartsFacts DEF ProcessInv
<1> USE DEF ProcessInv, Pending
<1>2. ASSUME UNCHANGED <<pc, outcome>> PROVE Pending'
  BY <1>2
<1>3. CASE GoMonitor \/ Notify \/ GoBroadcaster \/ Shutdown \/ ExitGraceful \/ ExitTimeout
           \/ Signal \/ RunStarter \/ Poll \/ UNCHANGED vars
  BY <1>2, <1>3 DEF GoMonitor, Notify, GoBroadcaster, Shutdown, ExitGraceful, ExitTimeout,
                    Signal, RunStarter, Poll, vars, broadcasterOnly
<1>4. CASE HandOver
  BY <1>4 DEF HandOver, B!ReceiveEvent
<1>5. CASE StopBroadcaster
  BY <1>2, <1>5 DEF StopBroadcaster, B!StopBroadcasting
<1>6. CASE Broadcast
  <2>1. CASE B!CollectorStep
    BY <1>2, <2>1 DEF B!CollectorStep, B!StartCollecting, B!CloseResults, B!Collect, B!FinishRound
  <2>2. ASSUME NEW h \in Handlers,
               \/ B!Spawn(h) \/ B!Expire(h) \/ B!Panic(h) \/ B!Report(h) \/ B!Exit(h)
               \/ \E w \in B!Words : B!StoreWord(h, w) \/ B!LoadWord(h, w)
        PROVE  Pending'
    <3>1. outcome' = outcome
      BY <2>2 DEF B!Spawn, B!Expire, B!Panic, B!Report, B!Exit, B!StoreWord, B!LoadWord
    <3>2. \A g \in Handlers : pc'[g] \in {"unspawned", "store", "load", "running"} =>
                               pc[g] \in {"unspawned", "store", "load", "running"}
      BY <1>1, <2>2 DEF B!Spawn, B!Expire, B!Panic, B!Report, B!Exit, B!StoreWord, B!LoadWord
    <3> QED
      BY <3>1, <3>2
  <2>3. ASSUME NEW h \in Handlers, B!Return(h) PROVE Pending'
    BY <1>1, <2>3 DEF B!Return
  <2> QED
    BY <1>6, <2>1, <2>2, <2>3 DEF Broadcast, B!HandlerStep, B!CopyWord
<1> QED
  BY <1>3, <1>4, <1>5, <1>6, StepCases

\* The invariant of the process.
THEOREM ProcessInvariant == Spec => []ProcessInv
<1>1. Init => ProcessInv
  <2> SUFFICES ASSUME Init PROVE MainInv /\ Fresh /\ Pending
    BY PartsInit DEF ProcessInv
  <2>1. MainInv
    <3>1. main = "start" /\ wg = 0 /\ loop = "unstarted" /\ bc = "select"
      BY DEF Init, B!BroadcasterInit, M!MonitorInit
    <3>2. sig \in BOOLEAN
      BY Zenon DEF Init
    <3> QED
      BY <3>1, <3>2 DEF MainInv, Starter, Caster, Starting, Ended
  <2>2. Fresh
    BY DEF Fresh, Init, B!BroadcasterInit, M!MonitorInit
  <2>3. Pending
    BY DEF Pending, Init, B!BroadcasterInit
  <2> QED
    BY <2>1, <2>2, <2>3
<1>2. ProcessInv /\ [Next]_vars => ProcessInv'
  BY PartsStep, StepMain, StepFresh, StepPending DEF ProcessInv
<1> QED
  BY <1>1, <1>2, PTL DEF Spec

\* The whole process stays within its types.
THEOREM ProcessTypeCorrect == Spec => []TypeOK
<1>1. ProcessInv => TypeOK
  <2> SUFFICES ASSUME ProcessInv PROVE TypeOK
    OBVIOUS
  <2>1. B!BroadcasterTypeOK
    BY DEF ProcessInv, BP!BroadcasterInv, BP!BroadcasterTypeOK, B!BroadcasterTypeOK, BP!Stages,
           B!Stages, BP!Words, B!Words, BP!Whose, B!Whose, BP!Result, B!Result
  <2>2. M!MonitorTypeOK
    BY DEF ProcessInv, MP!MonitorInv, MP!MonitorTypeOK, M!MonitorTypeOK, MP!Announcements,
           M!Announcements, MP!Loop, M!Loop, MP!Sender, M!Sender, MP!Holding, M!Holding,
           MP!Reading, M!Reading, MP!Fields, M!Fields, MP!FieldValue, M!FieldValue
  <2> QED
    BY <2>1, <2>2 DEF TypeOK, ProcessInv, MainInv
<1> QED
  BY <1>1, ProcessInvariant, PTL

\* main.go:147-150: when main's WaitGroup is down to zero the broadcaster has
\* returned, and no handler is at work.
THEOREM GracefulAbandonsNobody == Spec => []GracefulMeansHandled
<1>1. ProcessInv => GracefulMeansHandled
  <2> SUFFICES ASSUME ProcessInv, main = "graceful"
               PROVE  bc = "done" /\ \A h \in Handlers : pc[h] \in {"unspawned", "done"}
    BY DEF GracefulMeansHandled
  <2>1. bc = "done"
    BY DEF ProcessInv, MainInv, Starter, Caster, Starting
  <2> QED
    BY <2>1 DEF ProcessInv, BP!BroadcasterInv, BP!Phases
<1> QED
  BY <1>1, ProcessInvariant, PTL

-----------------------------------------------------------------------------
\* What the variables of Delivery depend on.
LEMMA Frame ==
  /\ UNCHANGED <<provider, notice>> => announced' = announced
  /\ UNCHANGED <<pc, outcome>> => answer' = answer
  /\ UNCHANGED <<pc, view>> => heard' = heard
  /\ UNCHANGED <<received, bc, successCount>> => summary' = summary
  /\ UNCHANGED <<crashed, main>> => stopped' = stopped
<1>1. UNCHANGED <<provider, notice>> => announced' = announced
  BY DEF announced, M!Reportable
<1>2. UNCHANGED <<pc, outcome>> => answer' = answer
  BY DEF answer, Called
<1>3. UNCHANGED <<pc, view>> => heard' = heard
  BY DEF heard, Called, Name, B!Words
<1>4. UNCHANGED <<received, bc, successCount>> => summary' = summary
  BY DEF summary
<1>5. UNCHANGED <<crashed, main>> => stopped' = stopped
  BY DEF stopped, Alive, Ended
<1> QED
  BY <1>1, <1>2, <1>3, <1>4, <1>5

\* The initial states are initial states of Delivery.
LEMMA DeliveryInit == Init => D!Init
<1> SUFFICES ASSUME Init PROVE D!Init
  OBVIOUS
<1>1. /\ pc = [h \in Handlers |-> "unspawned"] /\ received = 0
      /\ crashed = FALSE /\ main = "start"
  BY DEF Init, B!BroadcasterInit
<1>2. announced \in BOOLEAN
  BY Zenon DEF announced
<1>3. answer = [h \in Handlers |-> "uncalled"]
  BY <1>1 DEF answer, Called
<1>4. heard = [h \in Handlers |-> "nothing"]
  BY <1>1 DEF heard, Called
<1>5. summary = -1
  BY <1>1 DEF summary
<1>6. stopped = FALSE
  BY <1>1 DEF stopped, Alive, Ended
<1> QED
  BY <1>2, <1>3, <1>4, <1>5, <1>6 DEF D!Init

\* The steps of main are hidden, or end the process.
LEMMA MainDelivers ==
  ASSUME ProcessInv,
         \/ GoMonitor \/ Notify \/ GoBroadcaster \/ Shutdown \/ ExitGraceful \/ ExitTimeout
         \/ Signal \/ UNCHANGED vars
  PROVE  [D!Next]_D!deliveryVars
<1>1. UNCHANGED <<monitorOnly, broadcasterOnly>>
  BY DEF GoMonitor, Notify, GoBroadcaster, Shutdown, ExitGraceful, ExitTimeout, Signal, vars
<1>2. UNCHANGED <<announced, answer, heard, summary>>
  BY <1>1, Frame DEF monitorOnly, broadcasterOnly
<1>3. stopped' = stopped \/ stopped' = TRUE
  <2>1. CASE main' \in Ended
    BY <2>1 DEF stopped, Alive
  <2>2. CASE main' \notin Ended
    <3>1. main \notin Ended
      BY <2>2 DEF GoMonitor, Notify, GoBroadcaster, Shutdown, ExitGraceful, ExitTimeout, Signal,
                  vars, mainVars, Ended
    <3> QED
      BY <1>1, <2>2, <3>1 DEF stopped, Alive, broadcasterOnly
  <2> QED
    BY <2>1, <2>2
<1> QED
  BY <1>2, <1>3 DEF D!Next, D!Stop, D!deliveryVars

\* Of the monitor's steps, the announcement alone shows.
LEMMA MonitorDelivers ==
  ASSUME ProcessInv, Alive, RunStarter \/ Poll
  PROVE  [D!Next]_D!deliveryVars
<1>1. UNCHANGED <<broadcasterOnly, main>>
  BY DEF RunStarter, Poll, mainVars
<1>2. UNCHANGED <<answer, heard, summary, stopped>>
  BY <1>1, Frame DEF broadcasterOnly
<1>3. announced' = announced \/ announced' = TRUE
  <2>1. CASE M!Announce
    <3>1. provider' = provider /\ notice = "none"
      BY <2>1 DEF M!Announce
    <3>2. "none" \notin M!Reportable
      BY DEF M!Reportable
    <3> QED
      BY <3>1, <3>2 DEF announced, M!Reportable
  <2>2. CASE ~M!Announce
    <3>1. UNCHANGED <<provider, notice>>
      BY <2>2 DEF RunStarter, Poll, M!StartMonitoring, M!TakeTick, M!SeeDone, M!CheckFails,
                  M!CheckDetects, M!Wake, M!ReadField, M!Tick
    <3> QED
      BY <3>1, Frame
  <2> QED
    BY <2>1, <2>2
<1>4. ~stopped
  BY DEF stopped
<1> QED
  BY <1>2, <1>3, <1>4 DEF D!Next, D!Announce, D!deliveryVars

\* Handing over the event and stopping the broadcaster do not show.
LEMMA RendezvousDelivers ==
  ASSUME ProcessInv, HandOver \/ StopBroadcaster
  PROVE  UNCHANGED D!deliveryVars
<1>1. CASE HandOver
  <2>1. UNCHANGED <<provider, notice, crashed, main>> /\ sender = "send" /\ bc = "select"
    BY <1>1 DEF HandOver, M!SendEvent, B!ReceiveEvent, mainVars
  <2>2. received = 0 /\ \A h \in Handlers : pc[h] = "unspawned"
    BY <2>1 DEF ProcessInv, Fresh
  <2>3. bc' = "spawn" /\ \A h \in Handlers : pc'[h] = "unspawned"
    BY <1>1 DEF HandOver, B!ReceiveEvent
  <2>4. summary' = summary
    BY <2>2, <2>3 DEF summary
  <2>5. answer' = answer /\ heard' = heard
    BY <2>2, <2>3 DEF answer, heard, Called
  <2> QED
    BY <2>1, <2>4, <2>5, Frame DEF D!deliveryVars
<1>2. CASE StopBroadcaster
  <2>1. /\ UNCHANGED <<provider, notice, main, crashed, received, pc, view, outcome, successCount>>
        /\ bc = "select" /\ bc' = "done"
    BY <1>2 DEF StopBroadcaster, B!StopBroadcasting, monitorOnly, B!raceVars, B!resultVars
  <2>2. summary' = summary
    BY <2>1 DEF summary
  <2> QED
    BY <2>1, <2>2, Frame DEF D!deliveryVars
<1> QED
  BY <1>1, <1>2

\* When a round is over every handler has answered, and the count is exact.
LEMMA RoundOver ==
  ASSUME ProcessInv, B!FinishRound
  PROVE  /\ \A h \in Handlers : pc[h] = "done" /\ outcome[h] # "none"
         /\ successCount = D!Cardinality({h \in Handlers : outcome[h] = "ok"})
<1>1. closed /\ results = <<>>
  BY DEF B!FinishRound
<1>2. \A h \in Handlers : pc[h] = "done" /\ outcome[h] # "none"
  BY <1>1 DEF ProcessInv, BP!BroadcasterInv, BP!Phases, BP!Outcomes
<1>3. BP!Pending = {}
  BY <1>1 DEF BP!Pending
<1>4. BP!Tallied = {h \in Handlers : outcome[h] = "ok"}
  BY <1>2, <1>3 DEF BP!Tallied, BP!Reported
<1>5. successCount = BP!Cardinality(BP!Tallied)
  BY DEF ProcessInv, BP!BroadcasterInv, BP!Books
<1>6. \A S : BP!Cardinality(S) = D!Cardinality(S)
  BY DEF BP!Cardinality, D!Cardinality
<1> QED
  BY <1>2, <1>4, <1>5, <1>6

\* Of the collecting, the end of the round shows.
LEMMA CollectorDelivers ==
  ASSUME ProcessInv, Alive, B!CollectorStep, UNCHANGED <<monitorOnly, mainVars>>
  PROVE  [D!Next]_D!deliveryVars
<1>1. UNCHANGED <<provider, notice, main, crashed, received, pc, view, outcome>>
  BY DEF B!CollectorStep, B!StartCollecting, B!CloseResults, B!Collect, B!FinishRound,
         B!raceVars, monitorOnly, mainVars
<1>2. UNCHANGED <<announced, answer, heard, stopped>>
  BY <1>1, Frame
<1>3. CASE ~B!FinishRound
  <2>1. bc \notin {"select", "done"} /\ bc' \notin {"select", "done"}
    BY <1>3 DEF B!CollectorStep, B!StartCollecting, B!CloseResults, B!Collect
  <2>2. summary' = summary
    BY <2>1 DEF summary
  <2> QED
    BY <1>2, <2>2 DEF D!deliveryVars
<1>4. CASE B!FinishRound
  <2>1. bc = "collect" /\ bc' = "select" /\ successCount' = successCount
    BY <1>4 DEF B!FinishRound, B!resultVars
  <2>2. received > 0
    BY <2>1, PartsFacts DEF ProcessInv, Fresh
  <2>3. summary = -1 /\ summary' = successCount
    BY <1>1, <2>1, <2>2 DEF summary
  <2>4. outcome \in [Handlers -> {"none", "ok", "error"}]
    BY PartsFacts DEF ProcessInv
  <2>5. \A h \in Handlers : answer[h] = outcome[h]
    BY <1>4, RoundOver DEF answer, Called
  <2>6. \A h \in Handlers : answer[h] \in {"ok", "error"}
    BY <1>4, <2>4, <2>5, RoundOver
  <2>7. {h \in Handlers : answer[h] = "ok"} = {h \in Handlers : outcome[h] = "ok"}
    BY <2>5
  <2>8. summary' = D!Cardinality({h \in Handlers : answer[h] = "ok"})
    BY <1>4, <2>3, <2>7, RoundOver
  <2>9. ~stopped
    BY DEF stopped
  <2> QED
    BY <1>2, <2>3, <2>6, <2>8, <2>9 DEF D!Next, D!Summarise
<1> QED
  BY <1>3, <1>4

\* All handlers that were called heard the same, whole name.
Right == IF nodeName THEN "node" ELSE "meta"

LEMMA WholeName ==
  ASSUME BP!BroadcasterInv, NEW h \in Handlers, Called(h)
  PROVE  Name(view[h]) = Right
  BY DEF Called, BP!BroadcasterInv, BP!Names, BP!Right, Right, Name, B!Words, BP!Words

\* The copy of a handler's event complete, the handler is called: Delivery's
\* Call, since there is an event only after an announcement.
LEMMA LoadDelivers ==
  ASSUME ProcessInv, MP!NoFalseAlarm, BP!BroadcasterInv', Alive,
         NEW h \in Handlers, NEW w \in B!Words, B!LoadWord(h, w),
         UNCHANGED <<monitorOnly, mainVars>>
  PROVE  [D!Next]_D!deliveryVars
<1>1. /\ pc \in [Handlers -> B!Stages] /\ view \in [Handlers -> [B!Words -> {"meta", "node", "none"}]]
      /\ pc[h] = "load" /\ outcome[h] = "none"
  BY DEF ProcessInv, Pending, BP!BroadcasterInv, BP!BroadcasterTypeOK, BP!Stages, B!Stages,
         BP!Words, B!Words, BP!Whose, B!LoadWord
<1>2. UNCHANGED <<provider, notice, main, crashed, received, bc, outcome, successCount, nodeName>>
  BY DEF B!LoadWord, B!resultVars, B!paramVars, monitorOnly, mainVars
<1>3. UNCHANGED <<announced, summary, stopped>> /\ ~stopped
  BY <1>2, Frame DEF stopped
<1>4. \A g \in Handlers : g # h => pc'[g] = pc[g] /\ view'[g] = view[g]
  BY <1>1 DEF B!LoadWord
<1>5. CASE pc'[h] # "running"
  <2>1. pc' = pc
    BY <1>1, <1>5 DEF B!LoadWord
  <2>2. answer' = answer
    BY <1>2, <2>1, Frame
  <2>3. heard' = heard
    BY <1>1, <1>4, <2>1 DEF heard, Called, Name, B!Words
  <2> QED
    BY <1>3, <2>2, <2>3 DEF D!deliveryVars
<1>6. CASE pc'[h] = "running"
  <2>1. answer' = [answer EXCEPT ![h] = "called"]
    BY <1>1, <1>2, <1>4, <1>6 DEF answer, Called
  <2>2. Name(view'[h]) = Right
    BY <1>2, <1>6 DEF BP!BroadcasterInv, BP!Names, BP!Right, Right, Name, B!Words, BP!Words
  <2>3. \A g \in Handlers : g # h => (Called(g)' <=> Called(g)) /\ Name(view'[g]) = Name(view[g])
    BY <1>4 DEF Called
  <2>4. heard' = [heard EXCEPT ![h] = Right]
    <3>1. Called(h)' /\ heard' = [g \in Handlers |-> IF Called(g)' THEN Name(view'[g]) ELSE "nothing"]
      BY <1>6 DEF Called, heard, Name, B!Words
    <3>2. \A g \in Handlers : heard'[g] = IF g = h THEN Right ELSE heard[g]
      BY <2>2, <2>3, <3>1 DEF heard
    <3> QED
      BY <3>1, <3>2 DEF heard
  <2>5. \A g \in Handlers : heard[g] \in {"nothing", Right}
    BY WholeName DEF heard, ProcessInv
  <2>6. announced
    <3>1. sender = "sent"
      BY <1>1, PartsFacts DEF ProcessInv, Fresh
    <3>2. provider # "dummy" => notice \in MP!Reportable
      BY <3>1 DEF MP!NoFalseAlarm
    <3> QED
      BY <3>2 DEF announced, MP!Reportable, M!Reportable
  <2>7. answer[h] = "uncalled"
    BY <1>1 DEF answer, Called
  <2>8. D!Call(h, Right)
    BY <1>3, <2>1, <2>4, <2>5, <2>6, <2>7 DEF D!Call
  <2> QED
    BY <2>8 DEF D!Next, Right
<1> QED
  BY <1>5, <1>6

\* A handler's return is Delivery's Answer, a panic its Stop.
LEMMA HandlerDelivers ==
  ASSUME ProcessInv, Alive, NEW h \in Handlers,
         \/ B!Spawn(h) \/ B!Expire(h) \/ B!Return(h) \/ B!Panic(h) \/ B!Report(h) \/ B!Exit(h)
         \/ \E w \in B!Words : B!StoreWord(h, w),
         UNCHANGED <<monitorOnly, mainVars>>
  PROVE  [D!Next]_D!deliveryVars
<1>1. pc \in [Handlers -> B!Stages] /\ outcome \in [Handlers -> {"none", "ok", "error"}]
  BY PartsFacts DEF ProcessInv
<1>2. UNCHANGED <<provider, notice, main, received, bc, successCount, view>>
  BY DEF B!Spawn, B!Expire, B!Return, B!Panic, B!Report, B!Exit, B!StoreWord, B!raceVars,
         B!resultVars, monitorOnly, mainVars
<1>3. UNCHANGED <<announced, summary>>
  BY <1>2, Frame
<1>4. \A g \in Handlers : Called(g)' <=> Called(g)
  BY <1>1 DEF Called, B!Spawn, B!Expire, B!Return, B!Panic, B!Report, B!Exit, B!StoreWord
<1>5. heard' = heard
  BY <1>2, <1>4 DEF heard, Name, B!Words
<1>6. ~stopped
  BY DEF stopped
<1>7. CASE B!Return(h)
  <2>1. PICK r \in {"ok", "error"} : outcome' = [outcome EXCEPT ![h] = r]
    BY <1>7 DEF B!Return
  <2>2. pc[h] = "running" /\ crashed' = crashed /\ outcome[h] = "none"
    BY <1>7 DEF B!Return, ProcessInv, Pending
  <2>3. Called(h) /\ answer[h] = "called"
    BY <2>2 DEF answer, Called
  <2>4. answer' = [g \in Handlers |-> IF ~Called(g)' THEN "uncalled"
                     ELSE IF outcome'[g] = "none" THEN "called" ELSE outcome'[g]]
    BY DEF answer, Called
  <2>5. answer' = [answer EXCEPT ![h] = r]
    BY <1>1, <1>4, <2>1, <2>3, <2>4 DEF answer
  <2>6. D!Answer(h, r)
    BY <1>2, <1>3, <1>5, <1>6, <2>2, <2>3, <2>5, Frame DEF D!Answer
  <2> QED
    BY <2>6 DEF D!Next
<1>8. CASE ~B!Return(h)
  <2>1. outcome' = outcome
    BY <1>8 DEF B!Spawn, B!Expire, B!Panic, B!Report, B!Exit, B!StoreWord
  <2>2. answer' = answer
    BY <1>4, <2>1 DEF answer
  <2>3. stopped' = stopped \/ stopped' = TRUE
    BY <1>2 DEF stopped, Alive, Ended
  <2> QED
    BY <1>3, <1>5, <2>2, <2>3 DEF D!Next, D!Stop, D!deliveryVars
<1> QED
  BY <1>7, <1>8

\* Every step of the process is a step of Delivery, or does not show.
LEMMA StepDelivers ==
  ASSUME ProcessInv, BP!BroadcasterInv', MP!NoFalseAlarm, [Next]_vars
  PROVE  [D!Next]_D!deliveryVars
<1>1. CASE HandOver \/ StopBroadcaster
  BY <1>1, RendezvousDelivers
<1>2. CASE Alive /\ (RunStarter \/ Poll)
  BY <1>2, MonitorDelivers
<1>3. CASE Alive /\ Broadcast
  <2>1. UNCHANGED <<monitorOnly, mainVars>>
    BY <1>3 DEF Broadcast
  <2>2. CASE B!CollectorStep
    BY <1>3, <2>1, <2>2, CollectorDelivers
  <2>3. ASSUME NEW h \in Handlers, NEW w \in B!Words, B!LoadWord(h, w)
        PROVE  [D!Next]_D!deliveryVars
    BY <1>3, <2>1, <2>3, LoadDelivers
  <2>4. ASSUME NEW h \in Handlers,
               \/ B!Spawn(h) \/ B!Expire(h) \/ B!Return(h) \/ B!Panic(h) \/ B!Report(h) \/ B!Exit(h)
               \/ \E w \in B!Words : B!StoreWord(h, w)
        PROVE  [D!Next]_D!deliveryVars
    BY <1>3, <2>1, <2>4, HandlerDelivers
  <2> QED
    BY <1>3, <2>2, <2>3, <2>4 DEF Broadcast, B!HandlerStep, B!CopyWord
<1>4. CASE GoMonitor \/ Notify \/ GoBroadcaster \/ Shutdown \/ ExitGraceful \/ ExitTimeout
           \/ Signal \/ UNCHANGED vars
  BY <1>4, MainDelivers
<1> QED
  BY <1>1, <1>2, <1>3, <1>4, StepCases

\* main.go:36-271 with the monitor of any provider but GCP implements Delivery,
\* for any set of handlers: each is called at most once and after an
\* announcement, all under one whole name, and the summary is exact.
THEOREM DeliveryImplemented == "gcp" \notin Monitored => (Spec => ImplementsDelivery)
<1> SUFFICES ASSUME "gcp" \notin Monitored PROVE Spec => ImplementsDelivery
  OBVIOUS
<1>1. Init => D!Init /\ MP!NoFalseAlarm
  <2>1. Init => MP!NoFalseAlarm
    BY DEF Init, M!MonitorInit, MP!NoFalseAlarm
  <2> QED
    BY <2>1, DeliveryInit
<1>2. ProcessInv /\ MP!NoFalseAlarm /\ [Next]_vars => MP!NoFalseAlarm'
  BY MonitorMoves, MP!StepNoFalseAlarm, Assumptions DEF ProcessInv
<1>3. ProcessInv /\ ProcessInv' /\ MP!NoFalseAlarm /\ [Next]_vars => [D!Next]_D!deliveryVars
  BY StepDelivers DEF ProcessInv
<1> QED
  BY <1>1, <1>2, <1>3, ProcessInvariant, PTL DEF Spec, ImplementsDelivery, D!Spec

-----------------------------------------------------------------------------
(* What is proved of a component alone holds of it as a part of the process. *)

\* main, the signals and the broadcaster do nothing to the monitor that its own
\* specification does not allow.
THEOREM ProcessKeepsMonitor == Spec => MP!Spec
<1>1. Init => MP!MonitorInit
  BY DEF Init, M!MonitorInit, MP!MonitorInit, M!NoEvent, MP!NoEvent, M!Fields, MP!Fields
<1>2. [Next]_vars => [MP!Next]_MP!monitorVars
  BY MonitorMoves
<1> QED
  BY <1>1, <1>2, PTL DEF Spec, MP!Spec

\* And the monitor sends the broadcaster no more than its specification allows:
\* one event.
THEOREM ProcessKeepsBroadcaster == MaxEvents > 0 => (Spec => BP!Spec)
<1> SUFFICES ASSUME MaxEvents > 0 PROVE Spec => BP!Spec
  OBVIOUS
<1>1. Init => BP!BroadcasterInit
  BY DEF Init, B!BroadcasterInit, BP!BroadcasterInit, B!Words, BP!Words, B!NoView, BP!NoView
<1>2. ASSUME ProcessInv, ProcessInv', [Next]_vars
      PROVE  [BP!Next]_BP!broadcasterVars
  <2>1. CASE BP!ReceiveEvent
    <3>1. received' = received + 1 /\ received \in Nat
      BY <1>2, <2>1, PartsFacts DEF BP!ReceiveEvent, ProcessInv
    <3>2. received' \in {0, 1}
      BY <1>2 DEF ProcessInv, Fresh
    <3>3. received < MaxEvents
      BY <3>1, <3>2, ProcessAssumption
    <3> QED
      BY <2>1, <3>3 DEF BP!Next
  <2>2. CASE ~BP!ReceiveEvent
    BY <1>2, <2>2, BroadcasterMoves DEF BP!Moves, BP!Next
  <2> QED
    BY <2>1, <2>2
<1> QED
  BY <1>1, <1>2, ProcessInvariant, PTL DEF Spec, BP!Spec

\* Hence in the process, too, a handler is called with one whole name, nobody
\* but a nil handler panics, nobody in a round waits in vain, the round is over
\* after a bounded number of steps, and its summary is exact.
THEOREM RoundsInProcess ==
  MaxEvents > 0 =>
    (Spec => /\ [](/\ BP!HostnameWhole /\ BP!CrashOnlyFromBroken /\ BP!NeverStuck
                   /\ BP!RoundsDoNotOverlap /\ BP!SummaryExact)
             /\ BP!StepsRunOut)
<1> SUFFICES ASSUME MaxEvents > 0
             PROVE  Spec => /\ [](/\ BP!HostnameWhole /\ BP!CrashOnlyFromBroken /\ BP!NeverStuck
                                  /\ BP!RoundsDoNotOverlap /\ BP!SummaryExact)
                            /\ BP!StepsRunOut
  OBVIOUS
<1>1. Spec => BP!Spec
  BY ProcessKeepsBroadcaster
<1>2. /\ BP!Spec => []BP!HostnameWhole
      /\ BP!Spec => []BP!CrashOnlyFromBroken
      /\ BP!Spec => []BP!NeverStuck
      /\ BP!Spec => []BP!RoundsDoNotOverlap
      /\ BP!Spec => []BP!SummaryExact
      /\ BP!Spec => BP!StepsRunOut
  BY BP!HostnameNeverTorn, BP!OnlyNilPanics, BP!NobodyWaitsInVain, BP!NoOverlap,
     BP!SummaryIsExact, BP!RoundStepsRunOut, Assumptions
<1> QED
  BY <1>1, <1>2, PTL

\* And the monitor raises one alarm, and the mutex has one owner at a time.
THEOREM AlarmInProcess == Spec => MP!OneAlarmPerRun /\ []MP!MutexOwnership
<1>1. /\ MP!Spec => MP!OneAlarmPerRun
      /\ MP!Spec => []MP!MutexOwnership
  BY MP!AlarmOnce, MP!MutexOwned, Assumptions
<1> QED
  BY <1>1, ProcessKeepsMonitor, PTL
-----------------------------------------------------------------------------
\* The unbuffered channel: until the signal is there the broadcaster is ready
\* for an event that has not been taken, so the sender's `e <- t` (provider_aws.go:102),
\* which looks at no context, waits for main's start at most.
EventFindsBroadcaster ==
  sender # "sent" /\ bc # "select" => main \in {"waiting"} \cup Ended /\ cancelled

\* The broadcaster is gone only when told to, and only main tells it.
ToldToStop ==
  /\ bc = "done" => cancelled
  /\ cancelled => main \in {"waiting"} \cup Ended

LEMMA StepTold ==
  ASSUME ToldToStop, [Next]_vars
  PROVE  ToldToStop'
<1> USE DEF ToldToStop, Starting, Ended
<1>1. CASE GoMonitor \/ Notify \/ GoBroadcaster \/ Shutdown \/ ExitGraceful \/ ExitTimeout
           \/ Signal \/ UNCHANGED vars
  BY <1>1 DEF GoMonitor, Notify, GoBroadcaster, Shutdown, ExitGraceful, ExitTimeout,
              Signal, vars, broadcasterOnly, mainVars
<1>2. CASE RunStarter \/ Poll
  <2>1. UNCHANGED <<cancelled, bc, main>>
    BY <1>2 DEF RunStarter, Poll, M!StartMonitoring, M!TakeTick, M!SeeDone, M!CheckFails,
                M!CheckDetects, M!Wake, M!ReadField, M!Tick, M!Announce, broadcasterOnly, mainVars
  <2> QED
    BY <2>1
<1>3. CASE HandOver \/ StopBroadcaster
  BY <1>3 DEF HandOver, StopBroadcaster, B!ReceiveEvent, B!StopBroadcasting, mainVars
<1>4. CASE Broadcast
  <2>1. UNCHANGED <<cancelled, main>> /\ (bc' = "done" => bc = "done")
    BY <1>4 DEF Broadcast, B!CollectorStep, B!StartCollecting, B!CloseResults, B!Collect,
                B!FinishRound, B!Spawn, B!Expire, B!HandlerStep, B!CopyWord, B!StoreWord, B!LoadWord,
                B!Return, B!Panic, B!Report, B!Exit, mainVars
  <2> QED
    BY <2>1
<1> QED
  BY <1>1, <1>2, <1>3, <1>4, StepCases

\* An event is never lost but to the shutdown: before it, it finds the
\* broadcaster at its select.
THEOREM EventLostToShutdownOnly == Spec => []EventFindsBroadcaster
<1>1. Init => ToldToStop
  BY DEF Init, B!BroadcasterInit, ToldToStop
<1>2. ToldToStop /\ [Next]_vars => ToldToStop'
  BY StepTold
<1>3. ProcessInv /\ ToldToStop => EventFindsBroadcaster
  BY PartsFacts DEF ProcessInv, Fresh, ToldToStop, EventFindsBroadcaster
<1> QED
  BY <1>1, <1>2, <1>3, ProcessInvariant, PTL DEF Spec

-----------------------------------------------------------------------------
(***************************************************************************)
(* Liveness.  As in MonitorProofs, that the guards of the fair actions     *)
(* enable them is a hypothesis, for tlapm does not know ENABLED; it is a   *)
(* state predicate that TLC evaluates.                                     *)
(***************************************************************************)
MainGuards ==
  Alive =>
    /\ main \in Starting \/ (main = "await" /\ sig) =>
         ENABLED <<Alive /\ (GoMonitor \/ Notify \/ GoBroadcaster \/ Shutdown)>>_vars
    /\ main = "waiting" => ENABLED <<Alive /\ ExitTimeout>>_vars

At(phase) == Alive /\ main = phase

\* Only a process that has asked for signals has one in its channel.
QueuedOnlyIf == sig => main \notin {"start", "notify"}

\* The steps of main, with a signal in the channel until it is read.
LEMMA MainMoves ==
  ASSUME MainInv, QueuedOnlyIf, [Next]_vars
  PROVE  /\ QueuedOnlyIf'
         /\ sig => At("broadcast") \/ At("await") \/ At("waiting") \/ ~Alive
         /\ sig /\ At("broadcast") => (sig' /\ (At("broadcast")' \/ At("await")')) \/ ~Alive'
         /\ sig /\ At("await") => (sig' /\ At("await")') \/ At("waiting")' \/ ~Alive'
         /\ At("waiting") => At("waiting")' \/ ~Alive'
<1> USE DEF At, QueuedOnlyIf, MainInv, Starting, Ended, Alive
<1>1. sig => At("broadcast") \/ At("await") \/ At("waiting") \/ ~Alive
  OBVIOUS
<1>2. CASE ~Alive
  BY <1>2, StepCases DEF vars, mainVars, broadcasterOnly
<1>3. CASE GoMonitor \/ Notify \/ GoBroadcaster \/ Shutdown
  BY <1>3 DEF GoMonitor, Notify, GoBroadcaster, Shutdown
<1>4. CASE ExitGraceful \/ ExitTimeout
  BY <1>4 DEF ExitGraceful, ExitTimeout
<1>5. CASE Signal
  BY <1>5 DEF Signal
<1>6. CASE RunStarter \/ HandOver \/ StopBroadcaster \/ Poll \/ Broadcast \/ UNCHANGED vars
  <2>1. UNCHANGED <<main, sig>>
    BY <1>6 DEF RunStarter, HandOver, StopBroadcaster, Poll, Broadcast, vars, mainVars
  <2> QED
    BY <2>1
<1> QED
  BY <1>1, <1>2, <1>3, <1>4, <1>5, <1>6, StepCases

\* A signal ends the process whatever the handlers and the broadcaster do
\* (main.go:119-155): main reads it, cancels, and waits ten seconds at most.
THEOREM SignalEnds == FairSpec /\ []MainGuards => SignalEndsProcess
<1>1. MainGuards =>
        /\ At("broadcast") \/ (At("await") /\ sig) =>
             ENABLED <<Alive /\ (GoMonitor \/ Notify \/ GoBroadcaster \/ Shutdown)>>_vars
        /\ At("waiting") => ENABLED <<Alive /\ ExitTimeout>>_vars
  BY DEF MainGuards, At, Starting
<1>2. <<Alive /\ (GoMonitor \/ Notify \/ GoBroadcaster \/ Shutdown)>>_vars =>
        /\ At("broadcast") => ~At("broadcast")'
        /\ At("await") => ~At("await")'
  BY DEF At, GoMonitor, Notify, GoBroadcaster, Shutdown
<1>3. <<Alive /\ ExitTimeout>>_vars => ~Alive'
  BY DEF ExitTimeout, Alive, Ended
<1>4. Init => QueuedOnlyIf
  BY DEF Init, QueuedOnlyIf
<1>5. ProcessInv => MainInv
  BY DEF ProcessInv
<1>6. FairSpec => /\ []MainInv /\ []QueuedOnlyIf /\ [][Next]_vars
                  /\ WF_vars(Alive /\ (GoMonitor \/ Notify \/ GoBroadcaster \/ Shutdown))
                  /\ WF_vars(Alive /\ ExitTimeout)
  BY <1>4, <1>5, MainMoves, ProcessInvariant, PTL DEF FairSpec, Fairness, Spec
<1>7. FairSpec /\ []MainGuards => (sig ~> ~Alive)
  BY <1>1, <1>2, <1>3, <1>6, MainMoves, PTL
<1> QED
  BY <1>7, PTL DEF SignalEndsProcess

-----------------------------------------------------------------------------
\* The guards on the way from an announcement to the call of handler h.
DeliveryGuards(h) ==
  Alive =>
    /\ main # "start" /\ loop = "unstarted" => ENABLED <<Alive /\ RunStarter>>_vars
    /\ loop = "select" /\ ~tick => ENABLED <<Monitors(M!Tick)>>_vars
    /\ loop = "select" /\ tick => ENABLED <<Monitors(M!TakeTick)>>_vars
    /\ loop = "check" => ENABLED <<Monitors(M!CheckFails \/ M!CheckDetects)>>_vars
    /\ loop = "check" /\ "detected" \in MP!Verdicts => ENABLED <<Monitors(M!CheckDetects)>>_vars
    /\ sender \in MP!Fields =>
         ENABLED <<Monitors(M!Wake \/ \E f \in M!Fields : M!ReadField(f))>>_vars
    /\ main \notin Starting /\ sender = "send" /\ bc = "select" => ENABLED <<Alive /\ HandOver>>_vars
    /\ bc = "spawn" /\ pc[h] = "unspawned" => ENABLED <<Broadcasts(Proceed(h))>>_vars
    /\ pc[h] \in {"store", "load"} /\ touched[h] # B!Words => ENABLED <<Broadcasts(Proceed(h))>>_vars

\* Where handler h is on its way to being called.
Unspawned(h) == bc = "spawn" /\ pc[h] = "unspawned"
Storing(h)   == pc[h] = "store" /\ touched[h] = {}
Stored(h)    == pc[h] = "store" /\ touched[h] # {}
Loading(h)   == pc[h] = "load" /\ touched[h] = {}
Loaded(h)    == pc[h] = "load" /\ touched[h] # {}
Sent         == sender = "sent"

\* Once the event is sent the handler is somewhere on that way, or called, and
\* it goes one way only.
LEMMA HandlerMoves ==
  ASSUME ProcessInv, BP!Copying, NEW h \in Handlers, Sent, [Next]_vars
  PROVE  /\ Sent'
         /\ Unspawned(h) \/ Storing(h) \/ Stored(h) \/ Loading(h) \/ Loaded(h) \/ Called(h)
         /\ Called(h) => Called(h)'
         /\ Unspawned(h) => Unspawned(h)' \/ Storing(h)' \/ Loading(h)'
         /\ Storing(h) => Storing(h)' \/ Stored(h)'
         /\ Stored(h) => Stored(h)' \/ Loading(h)'
         /\ Loading(h) => Loading(h)' \/ Loaded(h)'
         /\ Loaded(h) => Loaded(h)' \/ Called(h)'
<1> DEFINE Ahead == /\ Called(h) => Called(h)'
                    /\ Unspawned(h) => Unspawned(h)' \/ Storing(h)' \/ Loading(h)'
                    /\ Storing(h) => Storing(h)' \/ Stored(h)'
                    /\ Stored(h) => Stored(h)' \/ Loading(h)'
                    /\ Loading(h) => Loading(h)' \/ Loaded(h)'
                    /\ Loaded(h) => Loaded(h)' \/ Called(h)'
<1>1. /\ pc \in [Handlers -> B!Stages] /\ touched \in [Handlers -> SUBSET B!Words]
      /\ received = 1 /\ loop = "done"
      /\ bc \in {"select", "spawn", "collect", "done"}
      /\ pc[h] = "unspawned" => bc = "spawn" /\ touched[h] = {}
      /\ pc[h] \in {"store", "load"} => touched[h] # B!Words
  BY PartsFacts DEF ProcessInv, Fresh, Sent, BP!BroadcasterInv, BP!BroadcasterTypeOK, BP!Phases,
     BP!Names, BP!Words, B!Words, BP!Copying, BP!Stages, B!Stages
<1>2. Unspawned(h) \/ Storing(h) \/ Stored(h) \/ Loading(h) \/ Loaded(h) \/ Called(h)
  BY <1>1 DEF Unspawned, Storing, Stored, Loading, Loaded, Called, B!Stages
<1>3. Sent'
  BY MonitorMoves, MP!StepAlarm, Assumptions DEF Sent, ProcessInv, MP!monitorVars
<1> SUFFICES Ahead
  BY <1>2, <1>3
<1>4. ASSUME pc'[h] = pc[h], touched'[h] = touched[h], Unspawned(h) => bc' = "spawn"
      PROVE  Ahead
  BY <1>4 DEF Unspawned, Storing, Stored, Loading, Loaded, Called
<1>5. CASE GoMonitor \/ Notify \/ GoBroadcaster \/ Shutdown \/ ExitGraceful \/ ExitTimeout
           \/ Signal \/ RunStarter \/ Poll \/ UNCHANGED vars
  <2>1. UNCHANGED <<pc, touched, bc>>
    BY <1>5 DEF GoMonitor, Notify, GoBroadcaster, Shutdown, ExitGraceful, ExitTimeout,
                Signal, RunStarter, Poll, vars, broadcasterOnly
  <2> QED
    BY <1>4, <2>1 DEF Unspawned
<1>6. CASE HandOver
  BY <1>6 DEF HandOver, M!SendEvent, Sent
<1>7. CASE StopBroadcaster \/ B!CollectorStep
  <2>1. UNCHANGED <<pc, touched>> /\ ~Unspawned(h)
    BY <1>7 DEF StopBroadcaster, B!StopBroadcasting, B!CollectorStep, B!StartCollecting,
                B!CloseResults, B!Collect, B!FinishRound, B!raceVars, Unspawned
  <2> QED
    BY <1>4, <2>1
<1>8. ASSUME NEW g \in Handlers,
             \/ B!Spawn(g) \/ B!Expire(g) \/ B!Return(g) \/ B!Panic(g) \/ B!Report(g) \/ B!Exit(g)
             \/ \E w \in B!Words : B!StoreWord(g, w) \/ B!LoadWord(g, w)
      PROVE  Ahead
  <2>1. bc' = bc
    BY <1>8 DEF B!Spawn, B!Expire, B!Return, B!Panic, B!Report, B!Exit, B!StoreWord, B!LoadWord
  <2>2. CASE g # h
    <3>1. pc'[h] = pc[h]
      BY <1>1, <1>8, <2>2 DEF B!Spawn, B!Expire, B!Return, B!Panic, B!Report, B!Exit,
                              B!StoreWord, B!LoadWord
    <3>2. touched'[h] = touched[h]
      BY <1>1, <1>8, <2>2 DEF B!Spawn, B!Expire, B!Return, B!Panic, B!Report, B!Exit,
                              B!StoreWord, B!LoadWord, B!raceVars
    <3> QED
      BY <1>4, <2>1, <3>1, <3>2 DEF Unspawned
  <2>3. CASE g = h /\ B!Spawn(h)
    BY <1>1, <2>3 DEF B!Spawn, B!raceVars, Unspawned, Storing, Stored, Loading, Loaded, Called,
                      B!Stages
  <2>4. CASE g = h /\ (B!Expire(h) \/ B!Return(h) \/ B!Panic(h) \/ B!Report(h) \/ B!Exit(h))
    <3>1. Called(h) /\ Called(h)'
      BY <1>1, <2>4 DEF B!Expire, B!Return, B!Panic, B!Report, B!Exit, Called, B!Stages
    <3> QED
      BY <3>1 DEF Unspawned, Storing, Stored, Loading, Loaded, Called
  <2>5. ASSUME NEW w \in B!Words, g = h, B!StoreWord(h, w) PROVE Ahead
    BY <1>1, <2>5 DEF B!StoreWord, B!Words, Unspawned, Storing, Stored, Loading, Loaded, Called
  <2>6. ASSUME NEW w \in B!Words, g = h, B!LoadWord(h, w) PROVE Ahead
    BY <1>1, <2>6 DEF B!LoadWord, B!Words, Unspawned, Storing, Stored, Loading, Loaded, Called
  <2> QED
    BY <1>8, <2>2, <2>3, <2>4, <2>5, <2>6
<1> HIDE DEF Ahead
<1> QED
  BY <1>5, <1>6, <1>7, <1>8, StepCases DEF Broadcast, B!HandlerStep, B!CopyWord

\* Each turn of its goroutine brings the handler on.
LEMMA HandlerTurns ==
  ASSUME ProcessInv, BP!Copying, NEW h \in Handlers, Sent, <<Broadcasts(Proceed(h))>>_vars
  PROVE  /\ Unspawned(h) => ~Unspawned(h)'
         /\ Storing(h) => ~Storing(h)'
         /\ Stored(h) => ~Stored(h)'
         /\ Loading(h) => ~Loading(h)'
         /\ Loaded(h) => ~Loaded(h)'
<1>1. /\ pc \in [Handlers -> B!Stages] /\ touched \in [Handlers -> SUBSET B!Words]
      /\ pc[h] \in {"store", "load"} => touched[h] # B!Words
  BY PartsFacts DEF ProcessInv, BP!BroadcasterInv, BP!BroadcasterTypeOK, BP!Words, B!Words, BP!Copying
<1> USE <1>1 DEF Unspawned, Storing, Stored, Loading, Loaded
<1>2. CASE B!Spawn(h)
  BY <1>2 DEF B!Spawn
<1>3. ASSUME NEW w \in B!Words, B!StoreWord(h, w) PROVE (Storing(h) => ~Storing(h)') /\ (Stored(h) => ~Stored(h)')
  BY <1>3 DEF B!StoreWord, B!Words
<1>4. ASSUME NEW w \in B!Words, B!LoadWord(h, w) PROVE (Loading(h) => ~Loading(h)') /\ (Loaded(h) => ~Loaded(h)')
  BY <1>4 DEF B!LoadWord, B!Words
<1>5. /\ \A w \in B!Words : B!StoreWord(h, w) => pc[h] = "store"
      /\ \A w \in B!Words : B!LoadWord(h, w) => pc[h] = "load"
  BY DEF B!StoreWord, B!LoadWord
<1> QED
  BY <1>2, <1>3, <1>4, <1>5 DEF Broadcasts, Proceed

\* The way of the process as a whole: main is past its start for good, and
\* unless it is stopped an event that is ready meets the broadcaster.
Ready == sender = "send"
Begun == main # "start"
Up    == main \notin Starting

LEMMA ProcessMoves ==
  ASSUME ProcessInv, EventFindsBroadcaster, Alive, ~cancelled, [Next]_vars
  PROVE  /\ ~Begun => At("start")
         /\ ~Up => At("start") \/ At("notify") \/ At("broadcast")
         /\ Begun => Begun'
         /\ Up => Up'
         /\ At("start") => At("start")' \/ At("notify")' \/ ~Alive'
         /\ At("notify") => At("notify")' \/ At("broadcast")' \/ ~Alive'
         /\ At("broadcast") => At("broadcast")' \/ Up' \/ ~Alive'
         /\ Ready => bc = "select" /\ (Ready' \/ Sent')
         /\ MP!AllSet => Ready \/ Sent
<1> USE DEF At, Begun, Up, Starting, Ended, Alive
<1>1. /\ ~Begun => At("start")
      /\ ~Up => At("start") \/ At("notify") \/ At("broadcast")
      /\ MP!AllSet => Ready \/ Sent
  BY DEF MP!AllSet, Ready, Sent
<1>2. /\ Begun => Begun'
      /\ Up => Up'
      /\ At("start") => At("start")' \/ At("notify")' \/ ~Alive'
      /\ At("notify") => At("notify")' \/ At("broadcast")' \/ ~Alive'
      /\ At("broadcast") => At("broadcast")' \/ Up' \/ ~Alive'
  <2>1. CASE GoMonitor \/ Notify \/ GoBroadcaster \/ Shutdown \/ ExitGraceful \/ ExitTimeout
    BY <2>1 DEF GoMonitor, Notify, GoBroadcaster, Shutdown, ExitGraceful, ExitTimeout,
                broadcasterOnly
  <2>2. CASE Signal
    BY <2>2 DEF Signal, broadcasterOnly
  <2>3. CASE RunStarter \/ HandOver \/ StopBroadcaster \/ Poll \/ Broadcast \/ UNCHANGED vars
    <3>1. main' = main
      BY <2>3 DEF RunStarter, HandOver, StopBroadcaster, Poll, Broadcast, vars, mainVars
    <3> QED
      BY <3>1
  <2> QED
    BY <2>1, <2>2, <2>3, StepCases
<1>3. ASSUME Ready PROVE bc = "select" /\ (Ready' \/ Sent')
  <2>1. bc = "select" /\ sender \notin MP!Fields /\ sender # "sleep" /\ loop = "done"
    BY <1>3, PartsFacts DEF Ready, EventFindsBroadcaster, MP!Fields, ProcessInv
  <2>2. [MP!Next]_MP!monitorVars
    BY MonitorMoves
  <2>3. sender' \in {"send", "sent"}
    BY <1>3, <2>1, <2>2 DEF Ready, MP!Next, MP!MonitorStep, MP!monitorVars, MP!Announce, MP!Tick,
       MP!StartMonitoring, MP!TakeTick, MP!SeeDone, MP!CheckFails, MP!CheckDetects, MP!ReadField,
       MP!Wake, MP!SendEvent, MP!Cancel
  <2> QED
    BY <2>1, <2>3 DEF Ready, Sent
<1> QED
  BY <1>1, <1>2, <1>3

\* The invariants the liveness proof rests on, all at once.
PathInv == ProcessInv /\ BP!Copying /\ MP!OverOnlyIf /\ EventFindsBroadcaster

LEMMA PathInvHolds == Spec => []PathInv
<1>1. Init => BP!Copying
  BY DEF Init, B!BroadcasterInit, BP!Copying
<1>2. ProcessInv /\ BP!Copying /\ [Next]_vars => BP!Copying'
  BY BroadcasterMoves, BP!StepCopying, Assumptions DEF ProcessInv
<1>3. MP!Spec => []MP!OverOnlyIf
  BY MP!OverOnlyIfHolds, Assumptions
<1> QED
  BY <1>1, <1>2, <1>3, ProcessInvariant, ProcessKeepsMonitor, EventLostToShutdownOnly, PTL
     DEF Spec, PathInv

\* What the fair actions achieve.
LEMMA FairActions ==
  /\ <<Alive /\ (GoMonitor \/ Notify \/ GoBroadcaster \/ Shutdown)>>_vars =>
       /\ At("start") => ~At("start")'
       /\ At("notify") => ~At("notify")'
       /\ At("broadcast") => ~At("broadcast")'
  /\ <<Alive /\ RunStarter>>_vars => MP!Started'
  /\ <<Alive /\ HandOver>>_vars => Sent'
  /\ <<Monitors(M!Tick)>>_vars => tick'
  /\ PathInv /\ MP!Due /\ <<Monitors(M!TakeTick)>>_vars => MP!Checking'
  /\ <<Monitors(M!CheckDetects)>>_vars => MP!Reporting("Hostname")'
  /\ <<Monitors(M!Wake \/ \E f \in M!Fields : M!ReadField(f))>>_vars =>
       /\ MP!Reporting("Hostname") => ~MP!Reporting("Hostname")'
       /\ MP!Reporting("PrivateIP") => ~MP!Reporting("PrivateIP")'
       /\ MP!Reporting("InstanceID") => ~MP!Reporting("InstanceID")'
<1>1. <<Alive /\ (GoMonitor \/ Notify \/ GoBroadcaster \/ Shutdown)>>_vars =>
        /\ At("start") => ~At("start")'
        /\ At("notify") => ~At("notify")'
        /\ At("broadcast") => ~At("broadcast")'
  BY DEF At, GoMonitor, Notify, GoBroadcaster, Shutdown
<1>2. /\ <<Alive /\ RunStarter>>_vars => MP!Started'
      /\ <<Alive /\ HandOver>>_vars => Sent'
      /\ <<Monitors(M!Tick)>>_vars => tick'
      /\ <<Monitors(M!CheckDetects)>>_vars => MP!Reporting("Hostname")'
  BY DEF RunStarter, M!StartMonitoring, MP!Started, HandOver, M!SendEvent, Sent, Monitors,
         M!Tick, M!CheckDetects, MP!Reporting
<1>3. PathInv /\ MP!Due /\ <<Monitors(M!TakeTick)>>_vars => MP!Checking'
  BY DEF PathInv, ProcessInv, MP!MonitorInv, MP!MutexOwnership, MP!Phases, MP!Due, MP!Holding,
         MP!Reading, MP!Fields, Monitors, M!TakeTick, MP!Checking
<1>4. <<Monitors(M!Wake \/ \E f \in M!Fields : M!ReadField(f))>>_vars =>
        /\ MP!Reporting("Hostname") => ~MP!Reporting("Hostname")'
        /\ MP!Reporting("PrivateIP") => ~MP!Reporting("PrivateIP")'
        /\ MP!Reporting("InstanceID") => ~MP!Reporting("InstanceID")'
  BY DEF Monitors, M!Wake, M!ReadField, M!After, M!Fields, MP!Reporting
<1> QED
  BY <1>1, <1>2, <1>3, <1>4

\* Up to the event: the announcement is found, and the metadata is read.
LEMMA AnnouncementReady ==
  ASSUME NEW h \in Handlers
  PROVE  FairSpec /\ []MainGuards /\ []DeliveryGuards(h) =>
           (MP!Due ~> (Up /\ MP!AllSet) \/ cancelled \/ ~Alive)
<1>1. PathInv /\ MP!Due /\ ~cancelled /\ Alive /\ MainGuards /\ DeliveryGuards(h) =>
        /\ At("start") \/ At("notify") \/ At("broadcast") =>
             ENABLED <<Alive /\ (GoMonitor \/ Notify \/ GoBroadcaster \/ Shutdown)>>_vars
        /\ Begun /\ ~MP!Started => ENABLED <<Alive /\ RunStarter>>_vars
        /\ MP!Selecting /\ ~tick => ENABLED <<Monitors(M!Tick)>>_vars
        /\ MP!Selecting /\ tick => ENABLED <<Monitors(M!TakeTick)>>_vars
        /\ MP!Checking => ENABLED <<Monitors(M!CheckFails \/ M!CheckDetects)>>_vars
        /\ MP!Checking => ENABLED <<Monitors(M!CheckDetects)>>_vars
        /\ MP!Reporting("Hostname") \/ MP!Reporting("PrivateIP") \/ MP!Reporting("InstanceID") =>
             ENABLED <<Monitors(M!Wake \/ \E f \in M!Fields : M!ReadField(f))>>_vars
  <2>1. PathInv /\ MP!Due /\ ~cancelled => "detected" \in MP!Verdicts
    BY MP!AnnouncedCanBeDetected, Assumptions DEF PathInv, ProcessInv, MP!MonitorInv
  <2> QED
    BY <2>1 DEF MainGuards, DeliveryGuards, At, Starting, Begun, MP!Started, MP!Selecting,
                MP!Checking, MP!Reporting, MP!Fields
<1>2. PathInv /\ MP!Due /\ ~cancelled /\ Alive /\ [Next]_vars =>
        /\ MP!Due'
        /\ ~MP!Started \/ MP!Selecting \/ MP!Checking \/ MP!Ended
        /\ MP!Selecting \/ MP!Checking \/ MP!Ended => MP!Started
        /\ MP!Started => MP!Started'
        /\ MP!Ended => MP!Ended'
        /\ MP!Ended => \/ MP!Reporting("Hostname") \/ MP!Reporting("PrivateIP")
                       \/ MP!Reporting("InstanceID") \/ MP!AllSet
        /\ MP!Selecting => MP!Selecting' \/ MP!Checking' \/ cancelled'
        /\ MP!Selecting /\ tick => tick' \/ MP!Checking'
        /\ MP!Reporting("Hostname") => MP!Reporting("Hostname")' \/ MP!Reporting("PrivateIP")'
        /\ MP!Reporting("PrivateIP") =>
             MP!Reporting("PrivateIP")' \/ MP!Reporting("InstanceID")' \/ MP!AllSet'
        /\ MP!Reporting("InstanceID") => MP!Reporting("InstanceID")' \/ MP!AllSet'
        /\ MP!AllSet => MP!AllSet'
  <2>1. ASSUME PathInv, MP!Due, ~cancelled, [Next]_vars
        PROVE  MP!MonitorInv /\ MP!OverOnlyIf /\ [MP!Next]_MP!monitorVars
    BY <2>1, MonitorMoves DEF PathInv, ProcessInv
  <2>2. ASSUME PathInv, Alive, ~cancelled, [Next]_vars, MP!AllSet PROVE MP!AllSet'
    BY <2>2, ProcessMoves, MonitorMoves, MP!StepAlarm, Assumptions DEF PathInv, ProcessInv, MP!monitorVars, MP!AllSet, Ready, Sent
  <2> QED
    BY <2>1, <2>2, MP!LoopMoves, MP!DueMoves, Assumptions
<1>3. PathInv /\ ~cancelled /\ Alive /\ [Next]_vars =>
        /\ ~Begun => At("start")
        /\ ~Up => At("start") \/ At("notify") \/ At("broadcast")
        /\ Begun => Begun'
        /\ Up => Up'
        /\ At("start") => At("start")' \/ At("notify")' \/ ~Alive'
        /\ At("notify") => At("notify")' \/ At("broadcast")' \/ ~Alive'
        /\ At("broadcast") => At("broadcast")' \/ Up' \/ ~Alive'
  BY ProcessMoves DEF PathInv
<1>4. FairSpec => /\ []PathInv /\ [][Next]_vars
                  /\ WF_vars(Alive /\ (GoMonitor \/ Notify \/ GoBroadcaster \/ Shutdown))
                  /\ WF_vars(Alive /\ RunStarter)
                  /\ WF_vars(Monitors(M!Tick))
                  /\ WF_vars(Monitors(M!TakeTick))
                  /\ WF_vars(Monitors(M!CheckFails \/ M!CheckDetects))
                  /\ WF_vars(Monitors(M!Wake \/ \E f \in M!Fields : M!ReadField(f)))
                  /\ SF_vars(Monitors(M!CheckDetects))
  BY PathInvHolds, PTL DEF FairSpec, Fairness, Spec
<1> DEFINE Guarded == []MainGuards /\ []DeliveryGuards(h)
           Runs    == MP!Due /\ ~cancelled /\ Alive
<1>5. FairSpec /\ Guarded => []([]Runs => <>[]Up)
  BY <1>1, <1>3, <1>4, FairActions, PTL
<1>6. FairSpec /\ Guarded => []([]Runs => <>[]Begun)
  BY <1>1, <1>3, <1>4, FairActions, PTL
<1>7. FairSpec /\ Guarded => []([]Runs => <>[]MP!Started)
  BY <1>1, <1>2, <1>4, <1>6, FairActions, PTL
<1>8. FairSpec /\ Guarded => []([]Runs => <>(MP!Ended \/ MP!Reporting("Hostname")))
  BY <1>1, <1>2, <1>4, <1>7, FairActions, PTL
<1>9. FairSpec /\ Guarded => []([]Runs => <>[]MP!AllSet)
  BY <1>1, <1>2, <1>4, <1>8, FairActions, PTL
<1> QED
  BY <1>2, <1>4, <1>5, <1>9, PTL

LEMMA FairToEach ==
  ASSUME NEW h \in Handlers
  PROVE  FairSpec => FairTo(h)
<1>1. Fairness => HandlersFair
  BY PTL DEF Fairness
<1>2. HandlersFair => FairTo(h)
  BY DEF HandlersFair
<1> QED
  BY <1>1, <1>2, PTL DEF FairSpec

\* A reportable announcement reaches every handler, whichever it is and however
\* many there are, unless the process is told to stop, or ends, before: from
\* the poll that finds it (provider_aws.go:71-118) over the channel to the call of
\* HandleTermination (main.go:217-230), with the race on the name in between.
THEOREM AnnouncementReachesEach ==
  ASSUME NEW h \in Handlers
  PROVE  FairSpec /\ []MainGuards /\ []DeliveryGuards(h) =>
           (MP!Due ~> Called(h) \/ cancelled \/ ~Alive)
<1>1. PathInv /\ ~cancelled /\ Alive /\ DeliveryGuards(h) =>
        /\ Up /\ Ready => ENABLED <<Alive /\ HandOver>>_vars
        /\ Sent /\ (Unspawned(h) \/ Storing(h) \/ Stored(h) \/ Loading(h) \/ Loaded(h)) =>
             ENABLED <<Broadcasts(Proceed(h))>>_vars
  BY DEF DeliveryGuards, PathInv, EventFindsBroadcaster, BP!Copying, BP!Words, B!Words, Up, Ready,
         Sent, Unspawned, Storing, Stored, Loading, Loaded
<1>2. PathInv /\ ~cancelled /\ Alive /\ [Next]_vars =>
        /\ Up => Up'
        /\ MP!AllSet => Ready \/ Sent
        /\ Ready => Ready' \/ Sent'
  BY ProcessMoves DEF PathInv
<1>3. PathInv /\ Sent /\ [Next]_vars =>
        /\ Sent'
        /\ Unspawned(h) \/ Storing(h) \/ Stored(h) \/ Loading(h) \/ Loaded(h) \/ Called(h)
        /\ Unspawned(h) => Unspawned(h)' \/ Storing(h)' \/ Loading(h)'
        /\ Storing(h) => Storing(h)' \/ Stored(h)'
        /\ Stored(h) => Stored(h)' \/ Loading(h)'
        /\ Loading(h) => Loading(h)' \/ Loaded(h)'
        /\ Loaded(h) => Loaded(h)' \/ Called(h)'
  BY HandlerMoves DEF PathInv
<1>4. PathInv /\ Sent /\ <<Broadcasts(Proceed(h))>>_vars =>
        /\ Unspawned(h) => ~Unspawned(h)'
        /\ Storing(h) => ~Storing(h)'
        /\ Stored(h) => ~Stored(h)'
        /\ Loading(h) => ~Loading(h)'
        /\ Loaded(h) => ~Loaded(h)'
  BY HandlerTurns DEF PathInv
<1>5. <<Alive /\ HandOver>>_vars => Sent'
  BY FairActions
<1>6. FairSpec => /\ []PathInv /\ [][Next]_vars
                  /\ WF_vars(Alive /\ HandOver)
                  /\ WF_vars(Broadcasts(Proceed(h)))
  <2>1. FairSpec => FairTo(h)
    BY FairToEach
  <2> QED
    BY <2>1, PathInvHolds, PTL DEF FairSpec, Fairness, Spec, FairTo
<1>7. FairSpec /\ []DeliveryGuards(h) => (Up /\ MP!AllSet ~> Sent \/ cancelled \/ ~Alive)
  BY <1>1, <1>2, <1>5, <1>6, PTL
<1>8. FairSpec /\ []DeliveryGuards(h) => (Sent ~> Called(h) \/ cancelled \/ ~Alive)
  BY <1>1, <1>3, <1>4, <1>6, PTL
<1>9. FairSpec /\ []MainGuards /\ []DeliveryGuards(h) =>
        (MP!Due ~> (Up /\ MP!AllSet) \/ cancelled \/ ~Alive)
  BY AnnouncementReady
<1> QED
  BY <1>7, <1>8, <1>9, PTL

=============================================================================
