----------------------------- MODULE Evacuator -----------------------------
(***************************************************************************)
(* The process: main starts a provider's monitoring and the broadcaster,   *)
(* joined by the unbuffered channel terminationEvent, waits for a signal,  *)
(* cancels the root context and waits for its WaitGroup, ten seconds at    *)
(* most.  The WaitGroup counts the goroutine that calls StartMonitoring,   *)
(* which returns at once, and the broadcaster; the polling loop and the    *)
(* sender are not counted.                                                 *)
(***************************************************************************)
EXTENDS Integers, Sequences, FiniteSets

CONSTANTS Monitored, Handlers, HonoursCtx, Fallible, MaxEvents

VARIABLES
  cancelled,                                         \* shared: rootCtx
  provider, notice, tick, mu, loop, sender, draft,   \* Monitor
  nodeName, broken, crashed, bc, received, pc, host, touched, view, expired,
  outcome, results, closed, handlerWg, successCount, \* Broadcaster
  main,   \* the main goroutine, or how the process ended
  sig,    \* shutdownSignal holds a signal
  wg      \* the WaitGroup counter

M == INSTANCE Monitor
B == INSTANCE Broadcaster

\* The assumptions of the two components.
ASSUME ProcessAssumption ==
  /\ Monitored \subseteq M!ProviderNames
  /\ IsFiniteSet(Handlers)
  /\ Handlers # {}
  /\ HonoursCtx \subseteq Handlers
  /\ Fallible \subseteq Handlers
  /\ MaxEvents \in Nat

monitorOnly     == <<provider, notice, tick, mu, loop, sender, draft>>
broadcasterOnly == <<nodeName, broken, crashed, bc, received, pc, host, touched,
                     view, expired, outcome, results, closed, handlerWg, successCount>>
mainVars        == <<main, sig, wg>>
vars            == <<cancelled, monitorOnly, broadcasterOnly, mainVars>>

Starting == {"start", "notify", "broadcast"}
Ended    == {"graceful", "timeout", "killed"}
Alive    == ~crashed /\ main \notin Ended

TypeOK ==
  /\ M!MonitorTypeOK
  /\ B!BroadcasterTypeOK
  /\ main \in Starting \cup {"await", "waiting"} \cup Ended
  /\ sig \in BOOLEAN
  /\ wg \in Nat

Init ==
  /\ M!MonitorInit
  /\ B!BroadcasterInit
  /\ main = "start"
  /\ sig = FALSE
  /\ wg = 0
-----------------------------------------------------------------------------
\* wg.Add(1) and the goroutine that will call provider.StartMonitoring.
GoMonitor ==
  /\ main = "start"
  /\ main' = "notify"
  /\ wg' = wg + 1
  /\ UNCHANGED <<cancelled, monitorOnly, broadcasterOnly, sig>>

\* That goroutine: StartMonitoring returns at once, and so does wg.Done.
RunStarter ==
  /\ main # "start"
  /\ M!StartMonitoring
  /\ wg' = wg - 1
  /\ UNCHANGED <<broadcasterOnly, main, sig>>

\* signal.Notify: from here on a signal is queued instead of being fatal.
Notify ==
  /\ main = "notify"
  /\ main' = "broadcast"
  /\ UNCHANGED <<cancelled, monitorOnly, broadcasterOnly, sig, wg>>
\* Seeded fault: wg.Add(1) is forgotten for the broadcaster.
GoBroadcasterWithoutAdd ==
  /\ main = "broadcast"
  /\ main' = "await"
  /\ UNCHANGED <<cancelled, monitorOnly, broadcasterOnly, sig, wg>>

GoBroadcaster ==
  /\ main = "broadcast"
  /\ main' = "await"
  /\ wg' = wg + 1
  /\ UNCHANGED <<cancelled, monitorOnly, broadcasterOnly, sig>>

\* Environment: SIGINT or SIGTERM.  The channel holds one; more are dropped.
Signal ==
  /\ IF main \in {"start", "notify"} THEN main' = "killed" /\ UNCHANGED sig
                                     ELSE sig' = TRUE /\ UNCHANGED main
  /\ UNCHANGED <<cancelled, monitorOnly, broadcasterOnly, wg>>

\* <-shutdownSignal, rootCancel(), and the goroutine waiting for wg.
Shutdown ==
  /\ main = "await"
  /\ sig
  /\ sig' = FALSE
  /\ cancelled' = TRUE
  /\ main' = "waiting"
  /\ UNCHANGED <<monitorOnly, broadcasterOnly, wg>>

\* case <-done and case <-time.After(GracefulShutdownTimeout).
ExitGraceful ==
  /\ main = "waiting"
  /\ wg = 0
  /\ main' = "graceful"
  /\ UNCHANGED <<cancelled, monitorOnly, broadcasterOnly, sig, wg>>
\* Seeded fault: main waits for the WaitGroup without a timeout.
ExitNever == FALSE /\ UNCHANGED vars

ExitTimeout ==
  /\ main = "waiting"
  /\ main' = "timeout"
  /\ UNCHANGED <<cancelled, monitorOnly, broadcasterOnly, sig, wg>>
-----------------------------------------------------------------------------
\* The rendezvous on terminationEvent, once the broadcaster runs.
HandOver ==
  /\ main \notin Starting
  /\ M!SendEvent
  /\ B!ReceiveEvent
  /\ UNCHANGED mainVars

\* The broadcaster returns, and with it its goroutine calls wg.Done.
StopBroadcaster ==
  /\ main \notin Starting
  /\ B!StopBroadcasting
  /\ wg' = wg - 1
  /\ UNCHANGED <<monitorOnly, main, sig>>

Poll ==
  /\ \/ M!TakeTick \/ M!SeeDone \/ M!CheckFails \/ M!CheckDetects \/ M!Wake
     \/ \E f \in M!Fields : M!ReadField(f)
     \/ M!Tick \/ M!Announce
  /\ UNCHANGED <<broadcasterOnly, mainVars>>

Broadcast ==
  /\ \/ B!CollectorStep
     \/ \E h \in Handlers : B!Spawn(h) \/ B!Expire(h) \/ B!HandlerStep(h)
  /\ UNCHANGED <<monitorOnly, mainVars>>

MainStep == GoMonitor \/ Notify \/ GoBroadcaster \/ Shutdown \/ ExitGraceful \/ ExitTimeout

\* The process has ended: the one place where nothing more happens.
Gone == ~Alive /\ UNCHANGED vars

Next ==
  \/ Alive /\ (MainStep \/ RunStarter \/ Signal \/ HandOver \/ StopBroadcaster
               \/ Poll \/ Broadcast)
  \/ Gone

Spec == Init /\ [][Next]_vars

\* The steps of one component, within the living process.
Monitors(A)   == Alive /\ A /\ UNCHANGED <<broadcasterOnly, mainVars>>
Broadcasts(A) == Alive /\ A /\ UNCHANGED <<monitorOnly, mainVars>>

\* A handler's goroutine is started, or copies the event.
Proceed(h) == B!Spawn(h) \/ \E w \in B!Words : B!StoreWord(h, w) \/ B!LoadWord(h, w)
FairTo(h)  == WF_vars(Broadcasts(Proceed(h)))

HandlersFair == \A h \in Handlers : FairTo(h)

\* The fairness of the parts, lifted to the process, and WF for main: the ten
\* seconds of time.After pass.
Fairness ==
  /\ WF_vars(Alive /\ (GoMonitor \/ Notify \/ GoBroadcaster \/ Shutdown))
  /\ WF_vars(Alive /\ ExitTimeout)
  /\ WF_vars(Alive /\ RunStarter)
  /\ WF_vars(Alive /\ HandOver)
  /\ WF_vars(Monitors(M!Tick))
  /\ WF_vars(Monitors(M!TakeTick))
  /\ WF_vars(Monitors(M!CheckFails \/ M!CheckDetects))
  /\ WF_vars(Monitors(M!Wake \/ \E f \in M!Fields : M!ReadField(f)))
  /\ SF_vars(Monitors(M!CheckDetects))
  /\ HandlersFair

FairSpec == Spec /\ Fairness
-----------------------------------------------------------------------------
\* A graceful exit abandons no handler: `done` is only closed after the
\* broadcaster has returned, and it only returns between rounds.
GracefulMeansHandled ==
  main = "graceful" =>
    /\ bc = "done"
    /\ \A h \in Handlers : pc[h] \in {"unspawned", "done"}

\* A signal ends the process, whatever the handlers do.
SignalEndsProcess == sig ~> ~Alive

\* A reportable announcement gets every handler called, unless the process is
\* told to stop, or ends, before.
AnnouncementReachesHandlers ==
  /\ provider # "dummy"
  /\ notice \in M!Reportable
  ~> \/ \A h \in Handlers : pc[h] \in {"running", "report", "exiting", "done"}
     \/ cancelled
     \/ ~Alive
-----------------------------------------------------------------------------
\* The process implements Delivery, whose variables are these.
Called(h) == pc[h] \in {"running", "report", "exiting", "done"}

Name(v) == IF \A w \in B!Words : v[w] = "node" THEN "node"
           ELSE IF \A w \in B!Words : v[w] = "meta" THEN "meta" ELSE "torn"

announced == provider = "dummy" \/ notice \in M!Reportable
answer    == [h \in Handlers |-> IF ~Called(h) THEN "uncalled"
                                 ELSE IF outcome[h] = "none" THEN "called" ELSE outcome[h]]
heard     == [h \in Handlers |-> IF Called(h) THEN Name(view[h]) ELSE "nothing"]
summary   == IF received > 0 /\ bc \in {"select", "done"} THEN successCount ELSE -1
stopped   == ~Alive

D == INSTANCE Delivery

\* Every behaviour of the process is one of Delivery: a handler is called once
\* in the life of the process, after an announcement, under one whole name, and
\* the summary is exact.
ImplementsDelivery == D!Spec

=============================================================================
