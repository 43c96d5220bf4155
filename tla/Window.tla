------------------------------- MODULE Window -------------------------------
(***************************************************************************)
(* How long it takes: one provider that reads a token before every request *)
(* (the slowest), from the poll that misses the notice by a moment to the  *)
(* end of the handlers, with the clock.  Time passes in seconds and only   *)
(* when no goroutine can go on; a request takes any time up to its         *)
(* timeout and can fail after any of it, the handlers any time up to       *)
(* theirs, and beyond it where one looks at no context.  The steps are     *)
(* those of Monitor, which this module implements.                         *)
(***************************************************************************)
EXTENDS Integers

CONSTANTS
  Configs,    \* the configurations considered, durations in seconds
  MaxMissed   \* how many checks may fail with the notice there; a bound

\* What validateConfig accepts: no lower bound for processing, and nothing
\* that relates the three.  The Nomad handler is enabled or not.
ASSUME ConfigsAssumption ==
  /\ Configs \subseteq [poll : 3..10, request : 1..5,
                        processing : {d \in Int : d <= 75}, nomad : BOOLEAN]
  /\ MaxMissed \in Nat

VARIABLES
  config,   \* the configuration; never changes
  at,       \* what the loop, and after it the sender, is doing
  req,      \* which request of the current check it waits for, or 0
  left,     \* time until that request, or the handlers, time out
  tickIn,   \* time until the ticker fires
  tick,     \* ticker.C holds a tick
  noticed,  \* the cloud has announced the termination
  seen,     \* it had when the check's last request was sent
  missed,   \* checks that failed although it had
  unknown,  \* the fields that could not be read
  elapsed   \* time since the notice

windowVars == <<config, at, req, left, tickIn, tick, noticed, seen, missed, unknown, elapsed>>

\* Token and spot answer, then token and answer for each of three fields.
TokenRequests == {1, 3, 5, 7}
SpotRequest   == 2
LastRequest   == 8

\* The field a request after the check is for.
Field(r) == IF r \in {3, 4} THEN "Hostname" ELSE IF r \in {5, 6} THEN "PrivateIP" ELSE "InstanceID"

WindowTypeOK ==
  /\ config \in Configs
  /\ at \in {"off", "idle", "request", "send", "handlers", "done", "late"}
  /\ req \in 0..LastRequest
  /\ left \in Nat
  /\ tickIn \in Nat
  /\ tick \in BOOLEAN
  /\ noticed \in BOOLEAN
  /\ seen \in BOOLEAN
  /\ missed \in 0..MaxMissed
  /\ unknown \subseteq {"Hostname", "PrivateIP", "InstanceID"}
  /\ elapsed \in Nat

WindowInit ==
  /\ config \in Configs
  /\ at = "off"
  /\ req = 0
  /\ left = 0
  /\ tickIn = 0
  /\ tick = FALSE
  /\ noticed = FALSE
  /\ seen = FALSE
  /\ missed = 0
  /\ unknown = {}
  /\ elapsed = 0

Polling == at = "idle" \/ (at = "request" /\ req <= SpotRequest)
-----------------------------------------------------------------------------
\* NewTicker(PollInterval), in the goroutine that StartMonitoring starts.
Start ==
  /\ at = "off"
  /\ at' = "idle"
  /\ tickIn' = config.poll
  /\ UNCHANGED <<config, req, left, tick, noticed, seen, missed, unknown, elapsed>>

Announce ==
  /\ ~noticed
  /\ noticed' = TRUE
  /\ UNCHANGED <<config, at, req, left, tickIn, tick, seen, missed, unknown, elapsed>>
\* Seeded fault: a tick is lost if nobody is waiting for it.
TickUnbuffered ==
  /\ Polling
  /\ tickIn = 0
  /\ tickIn' = config.poll
  /\ tick' = (tick \/ at = "idle")
  /\ UNCHANGED <<config, at, req, left, noticed, seen, missed, unknown, elapsed>>

\* The ticker fires; the channel keeps one tick.
Tick ==
  /\ Polling
  /\ tickIn = 0
  /\ tickIn' = config.poll
  /\ tick' = TRUE
  /\ UNCHANGED <<config, at, req, left, noticed, seen, missed, unknown, elapsed>>

\* The loop takes the tick and sends the first request of the check.
TakeTick ==
  /\ at = "idle"
  /\ tick
  /\ tick' = FALSE
  /\ at' = "request"
  /\ req' = 1
  /\ left' = config.request
  /\ seen' = noticed
  /\ UNCHANGED <<config, tickIn, noticed, missed, unknown, elapsed>>

\* A token request is answered, and the request it is for is sent.
ReadToken ==
  /\ at = "request"
  /\ req \in TokenRequests
  /\ req' = req + 1
  /\ left' = config.request
  /\ seen' = (IF req' = SpotRequest THEN noticed ELSE seen)
  /\ UNCHANGED <<config, at, tickIn, tick, noticed, missed, unknown, elapsed>>

\* The check ends with an error: there is no notice yet, or either request
\* failed or timed out.  The loop waits for the next tick.
CheckFails ==
  /\ at = "request"
  /\ req <= SpotRequest
  /\ seen => missed < MaxMissed
  /\ missed' = (IF seen THEN missed + 1 ELSE missed)
  /\ at' = "idle"
  /\ req' = 0
  /\ left' = 0
  /\ UNCHANGED <<config, tickIn, tick, noticed, seen, unknown, elapsed>>
\* Seeded fault: a spot request that is answered is taken for a notice.
CheckDetectsAnyway ==
  /\ at = "request"
  /\ req = SpotRequest
  /\ req' = req + 1
  /\ left' = config.request
  /\ tickIn' = 0
  /\ UNCHANGED <<config, at, tick, noticed, seen, missed, unknown, elapsed>>

\* The spot request finds the notice, which may have crossed it: the loop ends,
\* with its ticker, and the sender asks for the token of the first field.
CheckDetects ==
  /\ at = "request"
  /\ req = SpotRequest
  /\ noticed
  /\ req' = req + 1
  /\ left' = config.request
  /\ tickIn' = 0
  /\ UNCHANGED <<config, at, tick, noticed, seen, missed, unknown, elapsed>>
\* Seeded fault: the sender reads one field more than there is.
ReadFieldBeyond ==
  /\ at = "request"
  /\ req > SpotRequest
  /\ unknown' \in {unknown \cup {Field(req)}}
                  \cup (IF req \in TokenRequests THEN {} ELSE {unknown})
  /\ LET next == IF req \in TokenRequests THEN req + 2 ELSE req + 1 IN
       IF next <= LastRequest + 1
       THEN at' = at /\ req' = next /\ left' = config.request
       ELSE at' = "send" /\ req' = 0 /\ left' = 0
  /\ UNCHANGED <<config, tickIn, tick, noticed, seen, missed, elapsed>>

\* A field is read, or it is unknown: its token or its own request failed or
\* timed out.  The next one is asked for, or the event is complete.
ReadField ==
  /\ at = "request"
  /\ req > SpotRequest
  /\ unknown' \in {unknown \cup {Field(req)}}
                  \cup (IF req \in TokenRequests THEN {} ELSE {unknown})
  /\ LET next == IF req \in TokenRequests THEN req + 2 ELSE req + 1 IN
       IF next <= LastRequest
       THEN at' = at /\ req' = next /\ left' = config.request
       ELSE at' = "send" /\ req' = 0 /\ left' = 0
  /\ UNCHANGED <<config, tickIn, tick, noticed, seen, missed, elapsed>>

\* context.WithTimeout: a timeout of zero or less is done at once.
Positive(n) == IF n > 0 THEN n ELSE 0

\* The broadcaster is waiting, and the handlers' contexts get the processing
\* timeout.
Send ==
  /\ at = "send"
  /\ at' = "handlers"
  /\ left' = Positive(config.processing)
  /\ UNCHANGED <<config, req, tickIn, tick, noticed, seen, missed, unknown, elapsed>>

HandlersReturn ==
  /\ at = "handlers"
  /\ at' = "done"
  /\ left' = 0
  /\ UNCHANGED <<config, req, tickIn, tick, noticed, seen, missed, unknown, elapsed>>

\* The timeout is over, and the Nomad handler, which looks at no context, is
\* still in a call.  How much longer it takes is not followed.
Overrun ==
  /\ at = "handlers"
  /\ left = 0
  /\ config.nomad
  /\ at' = "late"
  /\ UNCHANGED <<config, req, left, tickIn, tick, noticed, seen, missed, unknown, elapsed>>

\* A second passes: nobody can go on, and no timer is due.
Pass ==
  /\ at \in {"idle", "request", "handlers"}
  /\ at = "idle" => ~tick
  /\ at # "idle" => left > 0
  /\ Polling => tickIn > 0
  /\ left' = (IF at = "idle" THEN left ELSE left - 1)
  /\ tickIn' = (IF Polling THEN tickIn - 1 ELSE tickIn)
  /\ elapsed' = (IF noticed THEN elapsed + 1 ELSE elapsed)
  /\ UNCHANGED <<config, at, req, tick, noticed, seen, missed, unknown>>

Next == \/ Start \/ Announce \/ Tick \/ TakeTick \/ ReadToken \/ CheckFails \/ CheckDetects
        \/ ReadField \/ Send \/ HandlersReturn \/ Overrun \/ Pass

Spec == WindowInit /\ [][Next]_windowVars
-----------------------------------------------------------------------------
Larger(m, n) == IF m > n THEN m ELSE n

\* The latest moment for the handlers to be called.  A notice is looked for
\* within the poll interval or, should it cross a longer spot request, within
\* that one's timeout (a timeout above the interval is accepted, though advised
\* against, config-example.yaml:44).  A check that fails puts this off by the
\* interval, or by its own two requests if they take longer.
CallBy == Larger(config.poll, config.request)
            + missed * Larger(config.poll, 2 * config.request) + 8 * config.request

Deadline == CallBy + Positive(config.processing)

\* From the notice on: the handlers are called by CallBy, and by the deadline
\* all have returned but the Nomad handler, which need not.
DeadlineKept ==
  /\ elapsed <= (IF at \in {"handlers", "done", "late"} THEN Deadline ELSE CallBy)
  /\ at = "late" => config.nomad

\* The 75 seconds are for "AWS 2-minute termination window" (README.md:18).  That
\* is kept as long as no handler overruns: without a failed check if request
\* timeouts are four seconds or less, with the defaults for up to six of them.
TwoMinutesKept ==
  /\ at # "late"
  /\ \/ config.request <= 4 /\ missed = 0
     \/ config.poll = 3 /\ config.request = 2 /\ missed <= 6
  => elapsed < 120

\* Seen without the clock, this is Monitor's AWS provider.
notice == IF noticed THEN "terminate" ELSE "none"
mu     == at \in {"request", "send"}
loop   == IF at = "off" THEN "unstarted" ELSE IF at = "idle" THEN "select"
          ELSE IF Polling THEN "check" ELSE "done"
sender == IF at = "request" /\ req > SpotRequest THEN Field(req)
          ELSE IF at = "send" THEN "send"
          ELSE IF at \in {"handlers", "done", "late"} THEN "sent" ELSE "none"
Read(f) == \/ at \in {"send", "handlers", "done", "late"}
           \/ f = "Hostname" /\ req > 4
           \/ f = "PrivateIP" /\ req > 6
draft  == [f \in {"Hostname", "PrivateIP", "InstanceID"} |->
             IF ~Read(f) THEN "" ELSE IF f \in unknown THEN "unknown" ELSE "real"]

M == INSTANCE Monitor WITH Monitored <- {"aws"}, provider <- "aws", cancelled <- FALSE

ImplementsMonitor == M!Spec

=============================================================================
