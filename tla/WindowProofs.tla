---------------------------- MODULE WindowProofs ----------------------------
(***************************************************************************)
(* The bound of Window for every accepted configuration and any number of  *)
(* failed checks.  The invariant is a budget: at each request, the time    *)
(* since the notice and what the request may still take fit into what has  *)
(* been allowed for so far.                                                *)
(***************************************************************************)
EXTENDS Window, TLAPS

P == config.poll
T == config.request
X == Larger(P, T)
C == Larger(P, 2 * T)

\* The start of the check that finds the notice, after m failed ones.
StartBy(m) == X + m * C

\* Where the loop is, and how far its timers can be from firing.
Timers ==
  /\ at = "request" => req \in 1..LastRequest /\ left <= T
  /\ at # "request" => req = 0
  /\ at \in {"off", "idle", "send", "late"} => left = 0
  /\ Polling => tickIn <= P
  /\ at = "off" => ~tick
  /\ at = "off" \/ ~noticed => elapsed = 0
  /\ seen => noticed
  /\ req > SpotRequest => noticed
  /\ at \in {"off", "idle"} \/ (at = "request" /\ req <= SpotRequest) => unknown = {}
  /\ at = "late" => config.nomad

\* A notice that crossed the spot request waits for the rest of it and for the
\* next tick, which is there already or at most one interval away; so does one
\* whose check failed.
Budget ==
  /\ at = "idle" => IF tick THEN elapsed <= StartBy(missed)
                    ELSE elapsed + tickIn <= StartBy(missed)
  /\ req \in 1..2 /\ ~seen => elapsed + left <= T /\ (tick \/ elapsed + tickIn <= X)
  /\ req \in 1..2 /\ seen  => tick \/ elapsed + tickIn <= StartBy(missed) + P
  /\ req = 1 => elapsed + left <= StartBy(missed) + T
  /\ req = 2 => elapsed + left <= StartBy(missed) + 2 * T
  /\ req = 3 => elapsed + left <= StartBy(missed) + 3 * T
  /\ req = 4 => elapsed + left <= StartBy(missed) + 4 * T
  /\ req = 5 => elapsed + left <= StartBy(missed) + 5 * T
  /\ req = 6 => elapsed + left <= StartBy(missed) + 6 * T
  /\ req = 7 => elapsed + left <= StartBy(missed) + 7 * T
  /\ req = 8 => elapsed + left <= StartBy(missed) + 8 * T
  /\ at = "send" => elapsed <= CallBy
  /\ at = "handlers" => elapsed + left <= Deadline
  /\ at \in {"done", "late"} => elapsed <= Deadline

WindowInv == WindowTypeOK /\ Timers /\ Budget

\* The durations are numbers in the ranges validateConfig accepts.
LEMMA Durations ==
  ASSUME config \in Configs
  PROVE  /\ P \in 3..10 /\ T \in 1..5 /\ X \in Nat /\ P <= X /\ T <= X /\ X <= 10
         /\ C \in Nat /\ P <= C /\ 2 * T <= C
         /\ config.processing \in Int /\ config.processing <= 75
BY ConfigsAssumption DEF P, T, X, C, Larger

\* One more failed check costs one interval, or two requests.
LEMMA OneMore ==
  ASSUME config \in Configs, NEW m \in Nat
  PROVE  /\ StartBy(m) \in Nat /\ X <= StartBy(m)
         /\ StartBy(m + 1) = StartBy(m) + C
<1>1. X \in Nat /\ C \in Nat
  BY Durations
<1> HIDE DEF X, C
<1>2. (m + 1) * C = m * C + C /\ m * C \in Nat
  BY <1>1
<1>3. QED
  BY <1>1, <1>2 DEF StartBy

\* The types are inductive together with the ranges of the timers.
LEMMA TypesStep ==
  ASSUME WindowTypeOK, Timers, [Next]_windowVars
  PROVE  WindowTypeOK'
<1>1. /\ P \in 3..10 /\ T \in 1..5 /\ config.processing \in Int
  BY Durations DEF WindowTypeOK
<1>2. MaxMissed \in Nat
  BY ConfigsAssumption
<1> USE DEF WindowTypeOK, SpotRequest, LastRequest
<1>3. CASE Start
  BY <1>1, <1>3 DEF Start, P
<1>4. CASE Announce
  BY <1>4 DEF Announce
<1>5. CASE Tick
  BY <1>1, <1>5 DEF Tick, P
<1>6. CASE TakeTick
  <2>1. left' \in Nat /\ req' \in 0..8
    BY <1>1, <1>6 DEF TakeTick, T
  <2>2. QED
    BY <1>6, <2>1 DEF TakeTick
<1>7. CASE ReadToken
  <2>1. left' \in Nat /\ req' \in 0..8 /\ seen' \in BOOLEAN
    BY <1>1, <1>7 DEF ReadToken, T, TokenRequests
  <2>2. QED
    BY <1>7, <2>1 DEF ReadToken
<1>8. CASE CheckFails
  <2>1. missed' \in 0..MaxMissed
    BY <1>2, <1>8 DEF CheckFails
  <2>2. QED
    BY <1>8, <2>1 DEF CheckFails
<1>9. CASE CheckDetects
  <2>1. left' \in Nat /\ req' \in 0..8
    BY <1>1, <1>9 DEF CheckDetects, T
  <2>2. QED
    BY <1>9, <2>1 DEF CheckDetects
<1>10. CASE ReadField
  <2>1. left' \in Nat /\ req' \in 0..8 /\ at' \in {"request", "send"}
    BY <1>1, <1>10 DEF ReadField, T
  <2>2. unknown' \subseteq {"Hostname", "PrivateIP", "InstanceID"}
    BY <1>10 DEF ReadField, Field
  <2>3. QED
    BY <1>10, <2>1, <2>2 DEF ReadField
<1>11. CASE Send
  BY <1>1, <1>11 DEF Send, Positive
<1>12. CASE HandlersReturn
  BY <1>12 DEF HandlersReturn
<1>13. CASE Overrun
  BY <1>13 DEF Overrun
<1>14. CASE Pass
  BY <1>14 DEF Pass, Polling
<1>15. CASE UNCHANGED windowVars
  BY <1>15 DEF windowVars
<1>16. QED
  BY <1>3, <1>4, <1>5, <1>6, <1>7, <1>8, <1>9, <1>10, <1>11, <1>12, <1>13, <1>14, <1>15 DEF Next

LEMMA TimersStep ==
  ASSUME WindowTypeOK, Timers, [Next]_windowVars
  PROVE  Timers'
<1>1. /\ P \in 3..10 /\ T \in 1..5
  BY Durations DEF WindowTypeOK
<1> USE DEF WindowTypeOK, Timers, Polling, P, T, SpotRequest, LastRequest, TokenRequests
<1>2. CASE Start
  BY <1>1, <1>2 DEF Start
<1>3. CASE Announce
  BY <1>3 DEF Announce
<1>4. CASE Tick
  BY <1>1, <1>4 DEF Tick
<1>5. CASE TakeTick
  BY <1>1, <1>5 DEF TakeTick
<1>6. CASE ReadToken
  BY <1>1, <1>6 DEF ReadToken
<1>7. CASE CheckFails
  BY <1>7 DEF CheckFails
<1>8. CASE CheckDetects
  BY <1>1, <1>8 DEF CheckDetects
<1>9. CASE ReadField
  BY <1>1, <1>9 DEF ReadField
<1>10. CASE Send
  BY <1>10 DEF Send
<1>11. CASE HandlersReturn
  BY <1>11 DEF HandlersReturn
<1>12. CASE Overrun
  BY <1>12 DEF Overrun
<1>13. CASE Pass
  BY <1>1, <1>13 DEF Pass
<1>14. CASE UNCHANGED windowVars
  BY <1>14 DEF windowVars
<1>15. QED
  BY <1>2, <1>3, <1>4, <1>5, <1>6, <1>7, <1>8, <1>9, <1>10, <1>11, <1>12, <1>13, <1>14 DEF Next

\* Each step stays within the budget of the step it leads to.
LEMMA BudgetStep ==
  ASSUME WindowInv, [Next]_windowVars
  PROVE  Budget'
<1>1. /\ P \in 3..10 /\ T \in 1..5 /\ X \in Nat /\ P <= X /\ T <= X
      /\ C \in Nat /\ P <= C /\ 2 * T <= C /\ config.processing \in Int
  BY Durations DEF WindowInv, WindowTypeOK
<1>2. config' = config /\ X' = X /\ T' = T /\ P' = P /\ C' = C
  BY DEF Next, Start, Announce, Tick, TakeTick, ReadToken, CheckFails, CheckDetects, ReadField,
         Send, HandlersReturn, Overrun, Pass, windowVars, X, T, P, C
<1>3. missed \in Nat
  BY ConfigsAssumption DEF WindowInv, WindowTypeOK
<1>4. /\ StartBy(missed) \in Nat /\ X <= StartBy(missed)
      /\ StartBy(missed + 1) = StartBy(missed) + C
  BY <1>3, OneMore DEF WindowInv, WindowTypeOK
<1>5. CallBy = StartBy(missed) + 8 * T /\ Deadline = CallBy + Positive(config.processing)
  BY DEF CallBy, Deadline, StartBy, X, C, P, T
<1>6. Positive(config.processing) \in Nat
  BY <1>1 DEF Positive
<1>7. missed' = missed => /\ StartBy(missed)' = StartBy(missed)
                          /\ CallBy' = CallBy /\ Deadline' = Deadline
  BY <1>2 DEF StartBy, CallBy, Deadline
<1> HIDE DEF X, C, StartBy, CallBy, Deadline
<1> USE DEF WindowInv, WindowTypeOK, Timers, Budget, Polling, P, T, SpotRequest, LastRequest,
            TokenRequests
<1>8. CASE Start
  BY <1>1, <1>2, <1>4, <1>7, <1>8 DEF Start
<1>9. CASE Announce
  BY <1>1, <1>2, <1>4, <1>5, <1>6, <1>7, <1>9 DEF Announce
<1>10. CASE Tick
  BY <1>1, <1>2, <1>4, <1>7, <1>10 DEF Tick
<1>11. CASE TakeTick
  BY <1>1, <1>2, <1>4, <1>7, <1>11 DEF TakeTick
<1>12. CASE ReadToken
  BY <1>1, <1>2, <1>4, <1>7, <1>12 DEF ReadToken
<1>13. CASE CheckFails
  <2>1. at' = "idle" /\ req' = 0 /\ elapsed' = elapsed /\ tick' = tick /\ tickIn' = tickIn
        /\ req \in 1..2
    BY <1>13 DEF CheckFails
  <2>2. CASE seen
    <3>1. missed' = missed + 1
      BY <1>13, <2>2 DEF CheckFails
    <3>2. StartBy(missed)' = StartBy(missed) + C
      BY <1>2, <1>4, <3>1 DEF StartBy
    <3>3. elapsed <= StartBy(missed) + C /\ (tick \/ elapsed + tickIn <= StartBy(missed) + C)
      BY <1>1, <1>4, <2>1, <2>2
    <3>4. QED
      BY <2>1, <3>2, <3>3
  <2>3. CASE ~seen
    <3>1. missed' = missed
      BY <1>13, <2>3 DEF CheckFails
    <3>2. QED
      BY <1>1, <1>4, <1>7, <2>1, <2>3, <3>1
  <2>4. QED
    BY <2>2, <2>3
<1>14. CASE CheckDetects
  BY <1>1, <1>2, <1>4, <1>7, <1>14 DEF CheckDetects
<1>15. CASE ReadField
  BY <1>1, <1>2, <1>4, <1>5, <1>7, <1>15 DEF ReadField
<1>16. CASE Send
  BY <1>1, <1>2, <1>5, <1>6, <1>4, <1>7, <1>16 DEF Send
<1>17. CASE HandlersReturn
  BY <1>1, <1>2, <1>4, <1>5, <1>6, <1>7, <1>17 DEF HandlersReturn
<1>18. CASE Overrun
  BY <1>1, <1>2, <1>4, <1>5, <1>6, <1>7, <1>18 DEF Overrun
<1>19. CASE Pass
  BY <1>1, <1>2, <1>4, <1>5, <1>6, <1>7, <1>19 DEF Pass
<1>20. CASE UNCHANGED windowVars
  BY <1>2, <1>7, <1>20 DEF windowVars
<1>21. QED
  BY <1>8, <1>9, <1>10, <1>11, <1>12, <1>13, <1>14, <1>15, <1>16, <1>17, <1>18, <1>19, <1>20 DEF Next

LEMMA WindowInvHolds == Spec => []WindowInv
<1>1. WindowInit => WindowInv
  <2>1. WindowInit => WindowTypeOK
    <3>1. 0 \in 0..LastRequest /\ 0 \in Nat /\ 0 \in 0..MaxMissed
      BY ConfigsAssumption DEF LastRequest
    <3>2. QED
      BY <3>1, Zenon DEF WindowInit, WindowTypeOK
  <2>2. WindowInit => Timers
    BY DEF WindowInit, Timers, Polling, SpotRequest
  <2>3. WindowInit => Budget
    BY DEF WindowInit, Budget
  <2>4. QED
    BY <2>1, <2>2, <2>3 DEF WindowInv
<1>2. WindowInv /\ [Next]_windowVars => WindowInv'
  BY TypesStep, TimersStep, BudgetStep DEF WindowInv
<1>3. QED
  BY <1>1, <1>2, PTL DEF Spec

\* The clock, the timers and the program counters stay within their types.
THEOREM WindowTypeCorrect == Spec => []WindowTypeOK
<1>1. WindowInv => WindowTypeOK
  BY DEF WindowInv
<1>2. QED
  BY <1>1, WindowInvHolds, PTL

\* From the notice on (provider_aws.go:71-118, main.go:220-230), whatever checks
\* and requests fail and whatever configuration is accepted: the handlers are
\* called within the larger of poll interval and request timeout, eight request
\* timeouts, and for each check that failed with the notice there one interval,
\* or two request timeouts; and after one processing timeout more all but the
\* Nomad handler have returned.
THEOREM DeadlineAlwaysKept == Spec => []DeadlineKept
<1>1. WindowInv => DeadlineKept
  <2>1. SUFFICES ASSUME WindowInv PROVE DeadlineKept
    OBVIOUS
  <2>2. /\ T \in 1..5 /\ X \in Nat /\ T <= X /\ config.processing \in Int
    BY <2>1, Durations DEF WindowInv, WindowTypeOK
  <2>3. missed \in Nat /\ StartBy(missed) \in Nat /\ X <= StartBy(missed)
    BY <2>1, ConfigsAssumption, OneMore DEF WindowInv, WindowTypeOK
  <2>4. CallBy = StartBy(missed) + 8 * T /\ Deadline = CallBy + Positive(config.processing)
    BY DEF CallBy, Deadline, StartBy, X, C, P, T
  <2>5. Positive(config.processing) \in Nat
    BY <2>2 DEF Positive
  <2> HIDE DEF X, StartBy, CallBy, Deadline
  <2>6. at = "request" => elapsed <= CallBy
    BY <2>1, <2>2, <2>3, <2>4 DEF WindowInv, WindowTypeOK, Timers, Budget, LastRequest, T
  <2>7. at \in {"off", "idle", "send"} => elapsed <= CallBy
    BY <2>1, <2>2, <2>3, <2>4 DEF WindowInv, WindowTypeOK, Timers, Budget, T
  <2>8. at \in {"handlers", "done", "late"} => elapsed <= Deadline
    BY <2>1, <2>2, <2>3, <2>4, <2>5 DEF WindowInv, WindowTypeOK, Timers, Budget, T
  <2>9. at = "late" => config.nomad
    BY <2>1 DEF WindowInv, Timers
  <2>10. QED
    BY <2>1, <2>6, <2>7, <2>8, <2>9 DEF DeadlineKept, WindowInv, WindowTypeOK
<1>2. QED
  BY <1>1, WindowInvHolds, PTL

\* The two minutes that AWS gives (README.md:18, config-example.yaml:64) are kept
\* by all handlers that return when told to: with request timeouts of four
\* seconds or less if no check fails, and with the default interval and timeout
\* through six failed ones.
THEOREM TwoMinutesAlwaysKept == Spec => []TwoMinutesKept
<1>1. WindowInv /\ DeadlineKept => TwoMinutesKept
  <2>1. SUFFICES ASSUME WindowInv, DeadlineKept,
                        \/ config.request <= 4 /\ missed = 0
                        \/ config.poll = 3 /\ config.request = 2 /\ missed <= 6
                 PROVE  elapsed < 120
    BY DEF TwoMinutesKept
  <2>2. config \in Configs /\ elapsed \in Nat /\ missed \in Nat
    BY <2>1, ConfigsAssumption DEF WindowInv, WindowTypeOK
  <2>3. P \in 3..10 /\ T \in 1..5 /\ X \in Nat /\ X <= 10 /\ C \in Nat
        /\ config.processing \in Int /\ config.processing <= 75
    BY <2>2, Durations
  <2>4. Positive(config.processing) \in 0..75
    BY <2>3 DEF Positive
  <2>5. CallBy = X + missed * C + 8 * T /\ Deadline = CallBy + Positive(config.processing)
    BY DEF CallBy, Deadline, X, C, P, T
  <2>6. CASE T <= 4 /\ missed = 0
    <3>1. CallBy \in 0..42
      <4> HIDE DEF X, C
      <4> QED
        BY <2>3, <2>5, <2>6
    <3>2. QED
      BY <2>2, <2>4, <2>5, <3>1, <2>1 DEF DeadlineKept
  <2>7. CASE P = 3 /\ T = 2 /\ missed <= 6
    <3>1. X = 3 /\ C = 4
      BY <2>7 DEF X, C, Larger
    <3>2. CallBy \in 0..43
      BY <2>2, <2>5, <2>7, <3>1
    <3>3. QED
      BY <2>2, <2>4, <2>5, <3>2, <2>1 DEF DeadlineKept
  <2>8. QED
    BY <2>1, <2>6, <2>7 DEF P, T
<1>2. QED
  BY <1>1, WindowInvHolds, DeadlineAlwaysKept, PTL

\* A check can find nothing, and a notice once there is one.
LEMMA AwsVerdicts ==
  /\ "error" \in M!Verdicts
  /\ noticed => "detected" \in M!Verdicts
<1> DEFINE verdict(t, a) ==
      M!isSpotTerminationDetected("aws", M!doMetadataRequest("aws", t, a))
<1> USE DEF M!isSpotTerminationDetected, M!doMetadataRequest, M!Profile, M!Aws, M!Failures
<1>1. verdict("unreachable", "unreachable") = "error"
  OBVIOUS
<1>2. verdict("answered", "terminate") = "detected"
  OBVIOUS
<1>3. noticed => "terminate" \in M!SpotAnswers("aws", notice)
  BY DEF M!SpotAnswers, notice
<1> HIDE DEF verdict, M!isSpotTerminationDetected, M!doMetadataRequest
<1>4. M!Verdicts = {verdict(t, a) : t \in {"unreachable", "answered"},
                                   a \in M!Failures \cup M!SpotAnswers("aws", notice)}
  BY DEF M!Verdicts, verdict
<1>5. QED
  BY <1>1, <1>2, <1>3, <1>4

\* A field is read as Monitor reads it: its token and its own request are one
\* step there.
LEMMA StepOfSender ==
  ASSUME WindowTypeOK, Timers, ReadField
  PROVE  M!ReadField(sender) /\ sender \in M!Fields
<1> USE DEF WindowTypeOK, Timers, Polling, SpotRequest, LastRequest, TokenRequests
<1> DEFINE F    == Field(req)
           last == req \in {7, 8}
<1>1. at = "request" /\ req \in 3..8 /\ sender = F /\ F \in M!Fields
  BY DEF ReadField, sender, Field, M!Fields
<1>2. sender' = M!After(F)
  BY <1>1 DEF ReadField, sender, Field, M!After, M!Profile, M!Aws
<1>3. notice' = notice /\ tick' = tick /\ mu' = mu /\ loop' = loop
  BY <1>1 DEF ReadField, notice, mu, loop
<1>4. \A x \in M!Fields : Read(x)' <=> x = F \/ Read(x)
  BY <1>1 DEF ReadField, Read, Field, M!Fields
<1>5. \A x \in M!Fields : x # F => (x \in unknown' <=> x \in unknown)
  BY DEF ReadField
<1>6. ~(F \in {"Hostname", "PrivateIP"} /\ M!After(F) = "send")
  BY DEF M!After, M!Profile, M!Aws
<1>7. PICK value \in {"unknown", "real"} : value = "unknown" <=> F \in unknown'
  OBVIOUS
<1>8. draft' = [x \in M!Fields |-> IF x = F THEN value
                                  ELSE IF x = "InstanceID" /\ M!After(F) = "send"
                                  THEN "unknown" ELSE draft[x]]
  <2>1. \A x \in M!Fields : x # F => ~(x = "InstanceID" /\ M!After(F) = "send")
    BY <1>1, <1>6 DEF M!Fields
  <2>2. \A x \in M!Fields :
          draft'[x] = IF x = F THEN value ELSE draft[x]
    BY <1>1, <1>4, <1>5, <1>7 DEF draft, M!Fields
  <2>3. draft' = [x \in M!Fields |-> draft'[x]]
    BY DEF draft, M!Fields
  <2>4. QED
    BY <2>1, <2>2, <2>3
<1> HIDE DEF F
<1>9. M!ReadField(F)
  BY <1>1, <1>2, <1>3, <1>8 DEF M!ReadField
<1>10. QED
  BY <1>1, <1>9

\* The step of Monitor that a step of Window is, if it is one at all.
LEMMA StepOfMonitor ==
  ASSUME WindowTypeOK, Timers, [Next]_windowVars
  PROVE  [M!Next]_(M!monitorVars)
<1> USE DEF WindowTypeOK, Timers, Polling, SpotRequest, LastRequest, TokenRequests, Field
<1> DEFINE Hidden == <<notice, tick, mu, loop, sender, draft>>
<1>1. SUFFICES M!Next \/ UNCHANGED Hidden
  BY DEF M!monitorVars
<1>2. CASE Start
  <2>1. M!StartMonitoring
    BY <1>2 DEF Start, M!StartMonitoring, notice, mu, loop, sender, draft, Read
  <2>2. QED
    BY <2>1 DEF M!Next, M!MonitorStep
<1>3. CASE Announce
  <2>1. M!Announce
    BY <1>3 DEF Announce, M!Announce, M!Announcements, notice, mu, loop, sender, draft, Read
  <2>2. QED
    BY <2>1 DEF M!Next
<1>4. CASE Tick
  <2>1. ~tick => M!Tick
    BY <1>4 DEF Tick, M!Tick, notice, mu, loop, sender, draft, Read
  <2>2. tick => UNCHANGED Hidden
    BY <1>4 DEF Tick, notice, mu, loop, sender, draft, Read
  <2>3. QED
    BY <2>1, <2>2 DEF M!Next
<1>5. CASE TakeTick
  <2>1. M!TakeTick
    BY <1>5 DEF TakeTick, M!TakeTick, notice, mu, loop, sender, draft, Read
  <2>2. QED
    BY <2>1 DEF M!Next, M!MonitorStep
<1>6. CASE ReadToken
  <2>1. notice' = notice /\ tick' = tick /\ mu' = mu
    BY <1>6 DEF ReadToken, notice, mu
  <2>2. loop' = loop /\ sender' = sender
    BY <1>6 DEF ReadToken, loop, sender
  <2>3. \A f \in M!Fields : Read(f)' <=> Read(f)
    BY <1>6 DEF ReadToken, Read
  <2>4. unknown' = unknown
    BY <1>6 DEF ReadToken
  <2>5. draft' = draft
    BY <2>3, <2>4 DEF draft, M!Fields
  <2>6. QED
    BY <2>1, <2>2, <2>5
<1>7. CASE CheckFails
  <2>1. M!CheckFails
    BY <1>7, AwsVerdicts DEF CheckFails, M!CheckFails, notice, mu, loop, sender, draft, Read
  <2>2. QED
    BY <2>1 DEF M!Next, M!MonitorStep
<1>8. CASE CheckDetects
  <2>1. M!CheckDetects
    BY <1>8, AwsVerdicts DEF CheckDetects, M!CheckDetects, notice, mu, loop, sender, draft, Read
  <2>2. QED
    BY <2>1 DEF M!Next, M!MonitorStep
<1>9. CASE ReadField
  BY <1>9, StepOfSender DEF M!Next, M!MonitorStep
<1>10. CASE Send
  <2>1. notice' = notice /\ tick' = tick /\ loop' = loop /\ mu' = FALSE
    BY <1>10 DEF Send, notice, loop, mu
  <2>2. sender = "send" /\ sender' = "sent" /\ draft' = draft
    BY <1>10 DEF Send, sender, draft, Read
  <2>3. M!SendEvent
    BY <2>1, <2>2 DEF M!SendEvent
  <2>4. QED
    BY <2>3 DEF M!Next
<1>11. CASE HandlersReturn
  BY <1>11 DEF HandlersReturn, notice, mu, loop, sender, draft, Read
<1>12. CASE Overrun
  BY <1>12 DEF Overrun, notice, mu, loop, sender, draft, Read
<1>13. CASE Pass
  BY <1>13 DEF Pass, notice, mu, loop, sender, draft, Read
<1>14. CASE UNCHANGED windowVars
  BY <1>14 DEF windowVars, notice, mu, loop, sender, draft, Read
<1>15. QED
  BY <1>2, <1>3, <1>4, <1>5, <1>6, <1>7, <1>8, <1>9, <1>10, <1>11, <1>12, <1>13, <1>14 DEF Next

\* With the clock hidden, the steps are those of the polling loop and of the
\* sender as Monitor has them (provider_aws.go:71-118).
THEOREM MonitorImplemented == Spec => ImplementsMonitor
<1>1. WindowInit => M!MonitorInit
  BY DEF WindowInit, M!MonitorInit, M!NoEvent, M!Fields, notice, mu, loop, sender, draft, Read, Polling
<1>2. WindowInv /\ [Next]_windowVars => [M!Next]_(M!monitorVars)
  BY StepOfMonitor DEF WindowInv
<1>3. QED
  BY <1>1, <1>2, WindowInvHolds, PTL DEF Spec, ImplementsMonitor, M!Spec

-----------------------------------------------------------------------------
\* Where a second may not pass, a goroutine can go on or a timer is due.
MayPass ==
  /\ at = "idle" => ~tick
  /\ at # "idle" => left > 0
  /\ Polling => tickIn > 0
MayGoOn ==
  \/ at \in {"off", "send", "handlers"}
  \/ at = "idle" /\ tick
  \/ at = "request" /\ (req = SpotRequest => noticed \/ ~seen)
  \/ Polling /\ tickIn = 0

\* What can still happen within the present second: a check for the tick that
\* is there and one for the tick that is due, the rest of the present one, and
\* the notice.
One(condition, n) == IF condition THEN n ELSE 0
InCheck ==
  IF at = "request" THEN 11 - req
  ELSE IF at = "send" THEN 2 ELSE IF at \in {"off", "handlers"} THEN 1 ELSE 0
StepsInSecond ==
  One(tick, 20) + One(Polling /\ tickIn = 0, 22) + InCheck + One(~noticed, 1)

\* The clock of Window neither stops nor is outrun.
ClockGoesOn ==
  /\ [](at \notin {"done", "late"} => MayPass \/ MayGoOn)
  /\ [](StepsInSecond \in 0..53)
  /\ [][Pass \/ StepsInSecond' < StepsInSecond]_windowVars

\* Each step but the clock's uses up something of the second.
LEMMA StepWithinSecond ==
  ASSUME WindowInv, Next
  PROVE  Pass \/ StepsInSecond' < StepsInSecond
<1>1. P \in 3..10
  BY Durations DEF WindowInv, WindowTypeOK
<1> USE DEF WindowInv, WindowTypeOK, Timers, Polling, P, SpotRequest, LastRequest,
            TokenRequests, One, InCheck, StepsInSecond
<1>2. CASE Start
  BY <1>1, <1>2 DEF Start
<1>3. CASE Announce
  BY <1>1, <1>3 DEF Announce
<1>4. CASE Tick
  BY <1>1, <1>4 DEF Tick
<1>5. CASE TakeTick
  BY <1>1, <1>5 DEF TakeTick
<1>6. CASE ReadToken
  BY <1>1, <1>6 DEF ReadToken
<1>7. CASE CheckFails
  BY <1>1, <1>7 DEF CheckFails
<1>8. CASE CheckDetects
  BY <1>1, <1>8 DEF CheckDetects
<1>9. CASE ReadField
  BY <1>1, <1>9 DEF ReadField
<1>10. CASE Send
  BY <1>1, <1>10 DEF Send
<1>11. CASE HandlersReturn
  BY <1>1, <1>11 DEF HandlersReturn
<1>12. CASE Overrun
  BY <1>1, <1>12 DEF Overrun
<1> QED
  BY <1>2, <1>3, <1>4, <1>5, <1>6, <1>7, <1>8, <1>9, <1>10, <1>11, <1>12 DEF Next

\* DeadlineKept is about a clock that runs: time can always go on or be waited
\* for, and at most 53 steps of the program fit between two seconds, for every
\* accepted configuration (provider_aws.go:71-118).
THEOREM TimeIsNotHeldUp == Spec => ClockGoesOn
<1>1. WindowInv => (at \notin {"done", "late"} => MayPass \/ MayGoOn)
  BY DEF WindowInv, WindowTypeOK, Timers, MayPass, MayGoOn, Polling
<1>2. WindowInv => StepsInSecond \in 0..53
  BY DEF WindowInv, WindowTypeOK, Timers, Polling, StepsInSecond, One, InCheck,
         LastRequest, SpotRequest
<1>3. WindowInv /\ [Next]_windowVars => [Pass \/ StepsInSecond' < StepsInSecond]_windowVars
  BY StepWithinSecond
<1>4. QED
  BY <1>1, <1>2, <1>3, WindowInvHolds, PTL DEF Spec, ClockGoesOn

=============================================================================
