------------------------------ MODULE Monitor ------------------------------
(***************************************************************************)
(* One provider's monitoring: StartMonitoring, the polling loop it starts, *)
(* and the goroutine the loop starts when a termination is detected.  The  *)
(* loop polls on a ticker whose channel holds one tick; the provider's     *)
(* mutex is taken by the loop for a check and, when the check detects a    *)
(* termination, released by the sender only after the event was taken.     *)
(***************************************************************************)
EXTENDS Providers

CONSTANT Monitored   \* the providers a run considers

ASSUME MonitoredAssumption == Monitored \subseteq ProviderNames

VARIABLES
  provider,   \* what DetectProvider returned; never changes
  cancelled,  \* rootCtx is done
  notice,     \* what the cloud has announced for this instance, or "none"
  tick,       \* ticker.C holds a tick
  mu,         \* the provider's mutex is locked
  loop,       \* the startMonitoring goroutine
  sender,     \* the goroutine that reads the metadata and sends the event
  draft       \* the TerminationEvent the sender is filling in

monitorVars == <<provider, cancelled, notice, tick, mu, loop, sender, draft>>

Fields     == {"Hostname", "PrivateIP", "InstanceID"}
FieldValue == {"", "unknown", "real"}
Reading    == Fields                             \* sender: fetching that field
Holding    == Reading \cup {"send"}              \* sender: before `e <- t` is over
Sender     == {"none", "sleep", "sent"} \cup Holding
Loop       == {"unstarted", "select", "check", "done"}

MonitorTypeOK ==
  /\ provider \in Monitored
  /\ cancelled \in BOOLEAN
  /\ notice \in {"none"} \cup Announcements(provider)
  /\ tick \in BOOLEAN
  /\ mu \in BOOLEAN
  /\ loop \in Loop
  /\ sender \in Sender
  /\ draft \in [Fields -> FieldValue]

NoEvent == [f \in Fields |-> ""]

MonitorInit ==
  /\ provider \in Monitored
  /\ cancelled = FALSE
  /\ notice = "none"
  /\ tick = FALSE
  /\ mu = FALSE
  /\ loop = "unstarted"
  /\ sender = "none"
  /\ draft = NoEvent
-----------------------------------------------------------------------------
\* Environment: the cloud announces a termination, once and for good.
Announce ==
  /\ notice = "none"
  /\ notice' \in Announcements(provider)
  /\ UNCHANGED <<provider, cancelled, tick, mu, loop, sender, draft>>

\* Environment: the ticker fires; a tick finding the channel full is dropped.
Tick ==
  /\ loop \in {"select", "check"}
  /\ ~tick
  /\ tick' = TRUE
  /\ UNCHANGED <<provider, cancelled, notice, mu, loop, sender, draft>>

\* StartMonitoring only starts a goroutine.  The dummy provider has no loop:
\* its goroutine sleeps and sends a fixed event.
StartMonitoring ==
  /\ loop = "unstarted"
  /\ IF provider = "dummy"
     THEN /\ loop' = "done"
          /\ sender' = "sleep"
          /\ draft' = [f \in Fields |-> "real"]
     ELSE /\ loop' = "select"
          /\ UNCHANGED <<sender, draft>>
  /\ UNCHANGED <<provider, cancelled, notice, tick, mu>>

\* case <-ticker.C: a check that finds the mutex taken is skipped.
TakeTick ==
  /\ loop = "select"
  /\ tick
  /\ tick' = FALSE
  /\ IF mu THEN UNCHANGED <<mu, loop>>
           ELSE mu' = TRUE /\ loop' = "check"
  /\ UNCHANGED <<provider, cancelled, notice, sender, draft>>
\* Seeded fault: the loop has no case for ctx.Done().
SeeDoneNever == FALSE /\ UNCHANGED monitorVars

\* case <-ctx.Done(): select chooses at random when a tick is there as well.
SeeDone ==
  /\ loop = "select"
  /\ cancelled
  /\ loop' = "done"
  /\ UNCHANGED <<provider, cancelled, notice, tick, mu, sender, draft>>

\* Every verdict a check can reach now.  A request under a cancelled context
\* fails; otherwise any exchange can fail, or bring what the service answers.
Verdicts ==
  LET tokens  == {"unreachable"} \cup (IF cancelled THEN {} ELSE {"answered"})
      answers == IF cancelled THEN {"unreachable"}
                 ELSE Failures \cup SpotAnswers(provider, notice)
  IN  {isSpotTerminationDetected(provider, doMetadataRequest(provider, t, a)) :
         t \in tokens, a \in answers}
\* Seeded fault: the error path forgets to unlock.
CheckFailsLocked ==
  /\ loop = "check"
  /\ "error" \in Verdicts
  /\ loop' = "select"
  /\ UNCHANGED <<provider, cancelled, notice, tick, mu, sender, draft>>

\* Seeded fault: a failed check ends the loop (return for continue).
CheckFailsReturns ==
  /\ loop = "check"
  /\ "error" \in Verdicts
  /\ mu' = FALSE
  /\ loop' = "done"
  /\ UNCHANGED <<provider, cancelled, notice, tick, sender, draft>>

CheckFails ==
  /\ loop = "check"
  /\ "error" \in Verdicts
  /\ mu' = FALSE
  /\ loop' = "select"
  /\ UNCHANGED <<provider, cancelled, notice, tick, sender, draft>>
\* Seeded fault: the return after the alarm is missing.
CheckDetectsAgain ==
  /\ loop = "check"
  /\ "detected" \in Verdicts
  /\ mu' = FALSE
  /\ loop' = "select"
  /\ sender' = "Hostname"
  /\ UNCHANGED <<provider, cancelled, notice, tick, draft>>

\* The mutex stays locked, the sender starts, and the loop is over.
CheckDetects ==
  /\ loop = "check"
  /\ "detected" \in Verdicts
  /\ loop' = "done"
  /\ sender' = "Hostname"
  /\ UNCHANGED <<provider, cancelled, notice, tick, mu, draft>>
-----------------------------------------------------------------------------
\* Seeded fault: the last field is followed by a field that does not exist.
AfterNothing(f) ==
  IF f = "Hostname" THEN "PrivateIP" ELSE IF f = "PrivateIP" THEN "InstanceID" ELSE ""

\* What getInstanceMetadatas does after field f.
After(f) ==
  CASE f = "Hostname"  -> "PrivateIP"
    [] f = "PrivateIP" -> IF Profile[provider].readsId THEN "InstanceID" ELSE "send"
    [] OTHER           -> "send"

\* One field is read; a failed read leaves "unknown" and goes on.  A provider
\* that does not read the instance id sets it to "unknown" on the way out.
ReadField(f) ==
  /\ sender = f
  /\ \E value \in {"unknown"} \cup (IF cancelled THEN {} ELSE {"real"}) :
       draft' = [x \in Fields |->
                   IF x = f THEN value
                   ELSE IF x = "InstanceID" /\ After(f) = "send" THEN "unknown"
                   ELSE draft[x]]
  /\ sender' = After(f)
  /\ UNCHANGED <<provider, cancelled, notice, tick, mu, loop>>

\* The dummy provider's sleep is over.
Wake ==
  /\ sender = "sleep"
  /\ sender' = "send"
  /\ UNCHANGED <<provider, cancelled, notice, tick, mu, loop, draft>>

\* `e <- t` on the unbuffered channel: a step of the receiver too, and the only
\* way out.  The deferred unlock belongs to the cloud providers' goroutine.
SendEvent ==
  /\ sender = "send"
  /\ sender' = "sent"
  /\ mu' = (IF provider = "dummy" THEN mu ELSE FALSE)
  /\ UNCHANGED <<provider, cancelled, notice, tick, loop, draft>>

\* Environment: main cancels the root context.
Cancel ==
  /\ ~cancelled
  /\ cancelled' = TRUE
  /\ UNCHANGED <<provider, notice, tick, mu, loop, sender, draft>>
-----------------------------------------------------------------------------
MonitorStep ==
  \/ StartMonitoring \/ TakeTick \/ SeeDone \/ CheckFails \/ CheckDetects
  \/ Wake \/ \E f \in Fields : ReadField(f)

\* On its own, the monitor's peer may take the event, and main may cancel, at
\* any time; the clock and the cloud move as they like.
Next == MonitorStep \/ SendEvent \/ Announce \/ Tick \/ Cancel

Spec == MonitorInit /\ [][Next]_monitorVars

\* Goroutines run when they can and time passes (WF).  A select with both cases
\* ready does not avoid ctx.Done forever (SF: Go picks uniformly), and the
\* metadata service does not fail every one of infinitely many requests (SF).
MonitorFairness ==
  /\ WF_monitorVars(StartMonitoring)
  /\ WF_monitorVars(Tick)
  /\ WF_monitorVars(TakeTick)
  /\ WF_monitorVars(CheckFails \/ CheckDetects)
  /\ WF_monitorVars(Wake)
  /\ WF_monitorVars(\E f \in Fields : ReadField(f))
  /\ SF_monitorVars(SeeDone)
  /\ SF_monitorVars(CheckDetects)

FairSpec == Spec /\ MonitorFairness
-----------------------------------------------------------------------------
\* The mutex is locked exactly while a check runs or an alarm is on its way:
\* it crosses from the loop to the sender without a gap, so a tick never finds
\* it taken and no failed check leaves it locked.
MutexOwnership ==
  provider # "dummy" => (mu <=> loop = "check" \/ sender \in Holding)

\* A run raises at most one alarm: once the sender exists the loop is over for
\* good, and an event that was sent is never prepared again.
OneAlarmPerRun ==
  [][sender # "none" => /\ loop' = "done"
                        /\ sender' # "none"
                        /\ sender = "sent" => sender' = "sent"]_monitorVars

\* An alarm is only raised when the cloud announced a termination.
NoFalseAlarm ==
  provider # "dummy" /\ sender # "none" => notice \in Reportable

\* A reportable announcement becomes an event ready to be sent, whatever single
\* requests fail on the way, unless the program is shut down first.
AnnouncementBecomesEvent ==
  /\ provider # "dummy"
  /\ notice \in Reportable
  ~> sender \in {"send", "sent"} \/ cancelled

\* Cancelling the root context ends the polling loop.
LoopStops == cancelled ~> loop = "done"

=============================================================================
