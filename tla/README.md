# Evacuator in TLA+

A verification development for Evacuator: TLA+ modules that
follow its Go code, TLC configurations that check them on small instances, and
proofs, checked by TLAPS, for every value of the constants. File and line numbers below refer to
the repository (`src/` in the tables of `PROJECT.json`, left out here).

Evacuator runs on a cloud instance and polls the cloud's metadata service. When
the service announces that the instance will be taken away, it calls a set of
handlers, all at once: the Kubernetes handler drains the node, the Nomad handler
drains the client, the Telegram handler sends a message. It happens once, in two
minutes or less, and nobody is there to repeat what went wrong.

## 1. The system

| part | code | state | operations |
|---|---|---|---|
| configuration | `config.go` | one global `Config`, written once | load (defaults, file, environment), parse durations, validate |
| handler registry | `handler.go` | none | build the slice of enabled handlers |
| provider detection | `main.go:161-198`, `IsSupported` of each provider | none | the configured provider, or the first whose hostname request succeeds |
| cloud provider | `provider_*.go` | a mutex | `StartMonitoring`, polling loop, spot verdict, metadata reading |
| broadcaster | `main.go:202-271` | per round: the event, a WaitGroup, a results channel, counters | take an event, run the handlers, collect the results, stop |
| handlers | `handler_kubernetes.go`, `handler_nomad.go`, `handler_telegram.go`, `handler_dummy.go` | an API client each | `HandleTermination` |
| main | `main.go:36-156` | root context, WaitGroup, signal channel | start everything, wait for a signal, shut down |

How they interact:

- The provider's sender goroutine hands one `TerminationEvent` to the broadcaster
  over the unbuffered channel `terminationEvent`.
- The broadcaster starts one goroutine per handler. They share the variable
  `event` (and write its `Hostname`, without a lock), and report through a
  buffered channel that another goroutine closes when a WaitGroup reaches zero.
- main's root context is seen by the polling loop (a `select`), by every metadata
  request, by the broadcaster (a `select`, between rounds only) and, through a
  timeout context, by the handlers. main waits for its own WaitGroup, ten seconds
  at most.
- The Kubernetes handler starts one goroutine per pod; they share two counters
  under a mutex, and a WaitGroup.
- Outside: the metadata service, the Kubernetes API server, scheduler and
  controllers, the Nomad API, Telegram, the operating system's signals.

What is hard about it: goroutines of three layers joined by channels, WaitGroups
and a mutex that one goroutine locks and another unlocks; `select`s with several
cases ready; failing requests and lost answers; a shutdown at any moment; a
cluster that changes while it is being drained. The full list, each at its line,
is under `hazards` in `PROJECT.json`.

What makes each part correct:

| part | properties |
|---|---|
| monitor | every announcement becomes an event, once, and nothing else does; the mutex never gets lost; cancellation ends the loop |
| broadcaster | each handler is called once per event under one whole name; nobody blocks or panics on the results channel; rounds do not overlap; the summary is exact; a round ends |
| main | a signal ends the process; a graceful exit abandons nobody |
| Kubernetes handler | nothing eligible is missed; the verdict is the majority rule, and comes after the last goroutine; the context, and a stuck pod's timer, end it |
| configuration, registry, detection | what main goes on with is what the rest assumes of it; a provider that is named is never replaced; the provider monitored is the cloud's own |
| Nomad, Telegram | they act on one and the same node, the one named; the message shows what the event says |
| all, against the clock | from the notice to the last handler takes no longer than a bound, which each failed check puts off by a known time, unless the Nomad handler overruns its timeout |

## 2. The modules

| module | models | extends / instantiates |
|---|---|---|
| `Providers` | what differs between the five cloud providers, and what their metadata services answer | |
| `Monitor` | `StartMonitoring`, the polling loop, the sender; the dummy provider | `Providers` |
| `Broadcaster` | `broadcastTerminationEvents` and its goroutines | |
| `Evacuator` | main, composed of `Monitor` and `Broadcaster` | INSTANCE of both, and of `Delivery` |
| `Delivery` | abstract: what the program promises | |
| `KubernetesHandler` | the handler's cordon and drain, with the cluster around it | |
| `NomadHandler` | the two calls of the Nomad handler, with Nomad's nodes | |
| `TelegramHandler` | validation, escaping and sending of the message | |
| `Round` | a round of the broadcaster with these two in place | INSTANCE of `Broadcaster`, `NomadHandler`, `TelegramHandler` |
| `Startup` | main up to its first goroutine: configuration, handlers, detection | `Providers` |
| `Window` | polling, reading and handling with a clock | INSTANCE of `Monitor` |
| `MC...` | instances for TLC | the module they are about |
| `MonitorProofs`, `BroadcasterProofs`, `KubernetesProofs`, `TelegramProofs`, `EvacuatorProofs`, `RoundProofs`, `StartupProofs`, `WindowProofs` | theorems | the module they are about; the proofs of a composition also INSTANCE those of its parts |

### Monitor and Providers

The five cloud providers are five copies of one text: the same `select` on a
ticker and `ctx.Done()`, the same mutex, the same sender goroutine.
`Profile[p]` says what differs: `usesToken` (a token request first; only a failed
exchange stops there, its status is never looked at), `alarms` (the bodies of the
spot endpoint that count as a termination), `readsId` (Huawei sets the instance
id to "unknown" without asking). `doMetadataRequest` and
`isSpotTerminationDetected` are operators on the outcome of an HTTP exchange.

A variable is a local of the code: `tick` is the one slot of `ticker.C`, `mu` the
mutex, `loop` and `sender` the program counters of the two goroutines, `draft`
the event being filled in. A check is two steps, `TakeTick` and one of
`CheckFails`/`CheckDetects`, so that a tick, an announcement or a cancellation
can come in between. `SendEvent` is the rendezvous on the channel; on its own the
module lets the peer take the event at any time, `Evacuator` joins it with the
broadcaster's `ReceiveEvent`.

`Announcements` and `SpotAnswers` are the environment: what a cloud can announce
and what its endpoint says then. They are taken from the answers the code is
written to tell apart.

### Broadcaster

One action per statement that another goroutine can notice. `event.Hostname =
config.NodeName` is a data race when there are several handlers: a Go string is
two words, so the model stores and copies it word by word (`StoreWord`,
`LoadWord`, in either order). A goroutine may have stored one word of the name
while another copies both. `expired` is the handler's own timeout; only
`HandleTermination` looks at the context, so an earlier expiry shows when that
starts. A handler is abstract here: it returns an error or not (`Return`), it
honours its context or not (`HonoursCtx`), it is possibly a nil pointer
(`broken`, chosen among `Fallible`), whose call panics and ends the process.
`results`, `closed` and `handlerWg` are the channel, its closing and the
WaitGroup's counter.

### Evacuator and Delivery

`Evacuator` shares `cancelled` (the root context) between the two components and
adds main: `GoMonitor`, `Notify`, `GoBroadcaster` in the order of the code, so
that a signal can arrive before `signal.Notify` and kill the process, then
`Shutdown`, `ExitGraceful` and `ExitTimeout`. Its WaitGroup counts what the
code's counts: the goroutine that *calls* `StartMonitoring`, and the broadcaster.

`Delivery` hides all of that. It knows whether there is a termination to report,
each handler's answer, the name it was called with, the summary, and whether the
process still lives: a handler is called at most once, only after an
announcement, all under the same name, and a summary is given only when all have
answered, with the exact number of successes. The refinement mapping is at the
end of `Evacuator`. A name that is neither wholly the metadata's nor wholly
`config.NodeName` is mapped to "torn", which `Delivery` never allows.

### KubernetesHandler

`GetNode`, `Cordon`, `ListPods` and `Finish` are `HandleTermination`, `drainNode`
and `evictPodsInParallel`; `Evict`, `TakeTick`, `Poll`, `SeeTimeout`, `SeeDone`
are one pod's `evictPod` goroutine, `Tally` its update of the counters under the
mutex and its `wg.Done`, in one step: what the mutex guards is not taken apart,
so an unlocked counter is not something this model would notice. Each API call is a step of its own, with the outcomes the
caller can see: an answer, or an error, which may also follow a call that took
effect (the answer was lost). `Poll` keeps the code's reading of an error: any
error of the `Get` means the pod is deleted.

Around it, `Place` is an ideal scheduler (it leaves a cordoned node alone, with no
binding under way when the cordon lands; DaemonSet and static pods do not pass
through it, and no other pod tolerates the cordon), and `Age` is everything else that
happens to a pod: it completes, is deleted by others, goes away, comes back under
its name on another node. `kind` abstracts a pod to what the filter can tell
apart; all five classes are there ("agent" is a DaemonSet pod with an emptyDir;
a static pod is skipped whatever else it is).

### NomadHandler, TelegramHandler and Round

`ListNodes` is the listing with its filter and the loop that compares the names
again; `UpdateDrain` is the second call. Neither passes the context on, so
nothing in the model makes them come back. Nomad is the environment: several
nodes may bear one name (a replaced instance leaves its own behind), the order of
the list is Nomad's, and the answer to an `UpdateDrain` that took effect can be
lost. A name that Nomad does not know makes the handler return the nil error of
the listing, and the model says so.

`SendMessage` is `HandleTermination` of the Telegram handler in one step: the
validation that makes it refuse an event with an empty hostname, instance id or
reason, `escapeMarkdown` as the sequence of replacements it is, and the call. A
text is a sequence of characters here, because the order of the replacements
matters. `Rendered` is Telegram's reading of the result. Both are recursive
functions over a text, so that they can be proved about.

`Round` puts the two in the place of `Broadcaster`'s abstract handlers. Each is
called with what the race on `event.Hostname` left in its own copy (`Heard`), and
its goroutine passes on what it returned.

### Startup

`LoadConfig`, `setupLogger`, `ParseDetectionWait`, `RegisterHandlers` and the
three ways of `DetectProvider`, in the order of main. `Merged` is viper's
precedence: environment, file, defaults, with an empty environment variable
counting as unset. A text that does not parse is the value `Malformed`.
`NewKubernetesHandler`, `NewNomadHandler` and `NewTelegramHandler` say which
constructors can fail: the API clients of Kubernetes and Nomad depend on the
machine, the Telegram bot on its two settings. A
constructor that fails leaves a nil pointer in `handlers`, which is what
`Fallible` stands for in `Broadcaster`. `HostnameUrl` is what `IsSupported` asks:
AWS and Huawei ask one and the same URL.

### Window

The polling loop, the sender and the handlers once more, with time in seconds.
It is about the slowest provider, one that reads a token before every request.
Time passes (`Pass`) only when no goroutine can go on and no timer is due, so
every timeout is met exactly. A request can be answered, or fail, at any moment up
to its timeout. When either request of a check fails the loop goes back to its
`select` (`CheckFails`), whether or not the notice was out: `missed` counts the
checks that failed although it was. A field whose token or own request fails is
"unknown" (`ReadField`). The handlers return within the processing timeout, but for
the Nomad handler, which passes no context on: when it is enabled (`nomad`) it may
`Overrun`, and how long it then takes is not followed. With the clock and the
counters hidden, the steps are `Monitor`'s (`ImplementsMonitor`).

## 3. The runs

States are distinct states; times are on two workers.

| run | instance | result |
|---|---|---|
| `startup` | settings at and beyond every bound, from file, environment and defaults; four clouds or none; 127,262 states | types, `RunsAsAssumed`, `DummyTogether`, `ConfiguredNotReplaced`, `OnlyServedProviders` hold |
| `startup_detect` | the same on Huawei Cloud | `DetectedIsHere` fails |
| `monitor` | all providers but GCP, with the dummy; 548 states | types, `MutexOwnership`, `NoFalseAlarm`, `OneAlarmPerRun`, `AnnouncementBecomesEvent`, `LoopStops` hold |
| `monitor_gcp` | GCP alone | `NoFalseAlarm` fails |
| `broadcaster` | 3 handlers that honour their context, one possibly nil, 2 rounds; 350,616 states, 100 s | types, `HostnameWhole`, `CrashOnlyFromBroken`, `ReportNeverBlocks`, `RoundsDoNotOverlap`, `SummaryExact`, `RoundEnds`, `BroadcasterStops` hold |
| `broadcaster_nil` | 2 handlers, either may be nil | `AllResultsCollected` fails |
| `evacuator` | Tencent or dummy, 2 handlers that need never return, one possibly nil; 372,752 states, 100 s | types, `GracefulMeansHandled`, `ImplementsDelivery`, `SignalEndsProcess`, `AnnouncementReachesHandlers` hold, and there is no deadlock |
| `kubernetes` | 2 pods of any kind, any configuration; 128,212 states, 60 s | types, `NothingSlipsIn`, `SuccessLeavesAtMostHalf`, `VerdictExact`, `NothingAfterReturn`, `ContextEndsDrain`, `StuckPodsDoNotHoldDrain` hold |
| `kubernetes_claim` | 2 pods | `DeletedMeansGone` fails |
| `round` | 2 nodes; names and ids with markup characters, or empty; 178,920 states, 55 s | types, `OnlyNamedNodeDrained`, `AlertNamesDrainedNode`, `MessageFaithful`, `RoundEndsIfAnswered` hold |
| `round_nomad` | the same with a Nomad API that need not answer | `RoundEnds` fails |
| `window` | 12 pairs of poll interval and request timeout, with and without Nomad; 3,686,396 states, 60 s | types, `DeadlineKept`, `TwoMinutesKept`, `ImplementsMonitor` hold |

Every property of a passing run has a mutant in `PROJECT.json`: a definition
changed the way a plausible bug would change it (next to the original, marked
"Seeded fault"), under which the property fails.

### What the failing runs show

- `startup_detect`: `main.go:189-193` takes the first provider whose hostname
  request succeeds. AWS is asked first, at the URL that Huawei serves too
  (`provider_aws.go:23`, `provider_huawei.go:22`), and the status of its token
  request is never looked at: on Huawei Cloud it is AWS that is detected.
- `monitor_gcp`: `provider_gcp.go:116-120` logs "no spot termination detected" on
  the answer FALSE and then returns `true` like for any other answer. The first
  successful poll drains the node.
- `broadcaster_nil`: `handler.go:73-78` appends a handler although its
  constructor failed. Its nil pointer panics on the event, which ends the process
  while the other handlers are at work.
- `round_nomad`: the Nomad handler passes its context to neither call, so the
  processing timeout (`config-example.yaml:63`) does not end its round.
- `kubernetes_claim`: `handler_kubernetes.go:313-315` takes any error of the
  polling `Get` for the pod's deletion.

Smaller disagreements were met and have no run:

- `config.go:159-160` complains that token and chat "must be set", and only when
  neither is: with one of them the Telegram handler is a nil pointer
  (`NilHandlersKnown`), and ends the process like the one of `broadcaster_nil`;
- the comment at `main.go:201` calls the handlers sequential; they are concurrent;
- the comment at `example/config-example.yaml:69` lists "Wait for graceful
  shutdown", and `evictPod` waits five seconds and reports success;
- main logs "all goroutines stopped successfully" (`main.go:140-150`) with the
  polling loop, or a sender with an undelivered event, possibly still there: its
  WaitGroup counts neither;
- `handler_nomad.go:62-65` logs "failed to find nomad node" and returns the nil
  error of the listing, which `main.go:247-259` counts as a success;
- `handler_nomad.go:78` logs "nomad node successfully drained" when the drain has
  only been begun, and `example/config-example.yaml:90` says "Wait for allocations
  to be rescheduled": nothing waits. `UpdateDrain` is the handler's last step, and
  the summary follows it;
- `README.md:18` speaks of the "AWS 2-minute termination window" and
  `example/config-example.yaml:64-65` of a "33 seconds safety buffer" in it. With the
  defaults (3, 2 and 75 seconds) the bound of `DeadlineKept` is 3 + 16 + 75 = 94
  seconds, hence 26 are left, and four fewer with each check that fails after the
  notice. A poll interval of 10 and a request timeout of 5, which `validateConfig`
  accepts, allow 125 seconds without a single failed check, and a Nomad handler whose API
  does not answer has no bound at all. `TwoMinutesKept` is what is left of the
  promise.

### Bounds

- Handlers: 3 in `broadcaster` (two race on the hostname while a third reports;
  one of them may be nil), 2 in `evacuator`, the two real ones in `round`. The
  proofs cover any number, and any of them nil.
- `MaxEvents`, the events the broadcaster is sent when it runs alone: 2, so that a
  round can follow a round. In `Evacuator` the bound is not used: a monitor sends
  one event at most (`OneAlarmPerRun`).
- Pods: 2, of any of the five kinds. Integer division first rounds at three (one
  failure of three is success, two are not); that case is left to the proof of
  `VerdictExact`, which covers any number.
- Providers: all in `monitor`; in `evacuator` one with an instance id, and the
  dummy.
- `round`: two nodes, so that a name can have none, one or two, and Nomad's list a
  wrong first entry; hostnames and ids that are empty, or hold a backslash, an
  escaped character and a plain one.
- `startup`: `poll` and `request` at, below and above both of their bounds,
  `processing` at and above its upper one and below zero; every handler with
  every setting its constructor reads; seven provider names, in the wrong case and
  unknown included; clouds: both that share a URL, one that does not, none.
- `window`: the poll intervals 3, 6 and 10 with the request timeouts 1, 2, 4 and 5,
  the ends of both ranges and the defaults among them, so that a check can be
  shorter than the interval, longer, and twice as long; the largest processing
  timeout, with the Nomad handler and without, and one that is over at once.
  `MaxMissed`, the checks that may fail with the notice there, is 2: one to lose
  the time the next tick takes, another to see whether losses add up. The proofs
  cover every accepted configuration and any `MaxMissed`.
- Nothing else is bounded: no counter grows without a bound of its own.

Symmetry is used only in `kubernetes_claim`, a run without liveness, over its pods.

`CHECK_DEADLOCK FALSE` is set where the component really ends: a monitor whose
loop and sender are gone, a broadcaster that has returned, a crashed process, a
drain that is over with its pods gone, a round whose handlers have returned, a
start-up that has led to a running process or to its exit, handlers that are done. `Evacuator` has one explicit step for the
ended process (`Gone`), and its deadlock check is on.

### Fairness

- Weak fairness for every goroutine's steps, each goroutine's on its own
  (`HandlersFair`, `PodsRun`, `GoroutinesGoOn`): Go's scheduler runs what can run.
- Weak fairness for timers: the ticker, the dummy's sleep, the processing timeout,
  main's ten seconds.
- Strong fairness where a `select` may find several cases ready (`SeeDone`,
  `StopBroadcasting`, `SeeTimeout`): Go picks uniformly at random, so a case that
  is ready again and again is taken in the end.
- Strong fairness for `CheckDetects`: of infinitely many requests the metadata
  service does not fail every single one. Without this no polling program can
  promise anything.
- Handlers return only if they honour their context and it is done (`HonoursCtx`);
  `evacuator` gives no handler even that.
- Kubernetes API calls need only come back when the context is done (client-go
  passes it to the HTTP request). That the API server answers at all is assumed by
  one property only, and in its statement (`Answering`).
- `round`: the Telegram client gives up once its context is done; that Nomad
  answers is assumed by `RoundEndsIfAnswered` only, again in its statement.
- `Window` and `Startup` have safety properties only and state no fairness.

`HonoursCtx` is an assumption of `Broadcaster`, and `ContextEndsDrain` is what
discharges it for the Kubernetes handler. Telegram passes its context to the one
call it makes. For the Nomad handler it is false, which is `round_nomad`.

## 4. The proofs

All theorems are about the specifications TLC runs, with the constants arbitrary.
Assumed are only the named assumptions on constants: `MonitoredAssumption` (the
providers are providers), `HandlersAssumption` (a finite, non-empty set of
handlers), `PodsAssumption` (a finite set of pods), `ProcessAssumption` (both of
the first two), `ConfigsAssumption` (durations in the ranges `validateConfig`
accepts, and a natural number for `MaxMissed`), `CloudsAssumption` (clouds are clouds), `SettingsAssumption` (a setting
that is a boolean or a duration has a text that parses to one, or does not
parse), `TextAssumption` (names and ids are finite sequences of characters).
`RunsAsAssumed` is what discharges `HandlersAssumption` and
`ConfigsAssumption` for a process that gets past its start.

Every invariant and every safety action property of the passing runs has its
theorem. Besides, some theorems say what no run asks; they are named below.

**Monitor** (`MonitorProofs`). `MonitorInv` is the type invariant, the ownership of
the mutex, and `Phases`: where the loop and the sender can be at the same time. The
ownership alone is not inductive; it needs that the loop is over once there is a
sender, so that no check can unlock what the sender holds.
`MutexOwned`, `AlarmOnce` (an action property), and `NoAlarmWithoutAnnouncement`
for any set of providers without GCP: that hypothesis is exactly what
`monitor_gcp` refutes.

**Broadcaster** (`BroadcasterProofs`). `BroadcasterInv` has one part per mechanism:

- `WgExact`: the WaitGroup is the number of live handler goroutines. Hence
  `close(results)` comes after the last send (`OnlyNilPanics`), and no goroutine
  outlives its round (`NoOverlap`).
- `Names`: who has stored and who has loaded which word. Every goroutine stores
  both words before it loads, and all store the same name, so by the time anyone
  loads, both words are of the right name, and stay so (`HostnameNeverTorn`).
- `Books`: the results in the channel are from distinct handlers that have
  reported and are not tallied, and `successCount` counts the tallied ones. Hence
  the buffer always has a slot (`BufferSuffices`), and at the end, with the
  channel empty and all handlers done, the count is exact (`SummaryIsExact`).

That a round ends TLC checks for three handlers (`RoundEnds`); what of it can be
proved for any number is below, under "Liveness", and two theorems say what it
takes. `NobodyWaitsInVain`:
whoever reports finds the channel open and with room, and once no handler's
goroutine is left the collector has a result, a closed channel, or a WaitGroup at
zero. `RoundStepsRunOut`: `StepsLeft` counts the words and steps that are still
ahead of each goroutine; it is at most ten per handler and five, and every step
but the next event and the cancellation lowers it. What is left to fairness is
that a goroutine that can go on does, and that handlers return.

**Kubernetes handler** (`KubernetesProofs`). `DrainInv` says what the phase implies
(`DrainPhases`: from the listing on the node is cordoned; a verdict only with the
WaitGroup at zero), what an accepted eviction implies (`Goroutines`: the pod does
not run on the node any more), and that the counters count what they should
(`DrainBooks`). `NoPodSlipsIn` is part of it.
`DrainVerdictExact` adds that integer division draws the line exactly at one half
(`MajorityRule`), and `SuccessIsMajority` that a pod still running after a
successful drain must be one whose eviction failed.

`DrainLeavesNothingBehind` is `NothingAfterReturn`: after `HandleTermination` has
returned, on whichever path, none of its goroutines calls the API server or counts.

Asked by no run: `DrainWaitIsExact` (nothing is evicted before the cordon, and
`wg.Wait()` ends with the last goroutine counted, neither before nor after) and
`DrainStepsRunOut`: only the tick and the poll of a pod that stays can repeat, so
that the drain's end depends on the five seconds and on the answers to its calls
alone, which is what `ContextEndsDrain` and `StuckPodsDoNotHoldDrain` check on
two pods, under fairness.

**Process** (`EvacuatorProofs`). The invariants of `Monitor` and `Broadcaster` are
proved once, over everything that can happen to the component (`Moves` and
`Next` there), and carried over by showing that each step of the process is one
of theirs or a stutter (`BroadcasterMoves`, `MonitorMoves`). Three parts are added:
`MainInv` (main's WaitGroup is the number of its two goroutines that have not
returned), `Fresh` (one event at most, and before it the broadcaster is as it
began) and `Pending` (a handler that is still at work has no outcome).
`GracefulAbandonsNobody` follows from the first: main leaves its wait gracefully
only with the broadcaster gone, and the broadcaster goes only between two rounds.
`DeliveryImplemented` is the refinement, step by step, for any providers without
GCP; the name handlers heard is never "torn" by the broadcaster's part `Names`.

The process also implements the two components' specifications as they stand
(`ProcessKeepsMonitor`; `ProcessKeepsBroadcaster`, for any bound on the events
but zero), and `RoundsInProcess` and `AlarmInProcess` collect what follows: what
was proved of a part alone holds in the process. `EventLostToShutdownOnly`
is about the sender's `e <- t`, which looks at no context: as long as the event
is not sent, the broadcaster is at its `select`, unless main has told it to stop.
It needs that only main cancels and that it does so on its way out (`ToldToStop`).

**Telegram handler** (`TelegramProofs`). `EscapingRoundTrips`: whatever the text,
Telegram shows what `escapeMarkdown` was given. One pass over a text for one
character, then one more, "encodes" the text with a set of characters escaped
(`Encodes`). The first pass escapes the backslash; a pass for a character
other than the backslash that is not in the set yet adds it to the set
(`OneMore`), since it meets that character only where the text itself has it:
this is where a backslash escaped last would fail. Reading an encoded text
consumes an escape, or a plain character, for each character of the text, and
`Places` says where each begins. The induction is over positions: the library's
induction theorems cannot be instantiated here, so `Induction` states it as a
fact about a set of numbers and derives it from the well-foundedness of the
strict subset ordering on finite sets, and `Recursion` gives the functions that
repeating a step defines.

**Round** (`RoundProofs`). Again the broadcaster's invariant is carried over
(`RoundKeepsBroadcaster` states the refinement).
`HeardKept` says that a handler keeps its copy of the event from the call on;
hence the names that Nomad's nodes are compared with are all the same right one
(`NamedNodeOnly`). `Chat` says that what was posted is the escaped copy of
the one event; with `EscapingRoundTrips` the fields are shown as given
(`FieldsShownAsGiven`), and the host in the alert is the node that is drained
(`AlertAndDrainAgree`). `EachActsOnce`, asked by no run: one node at most is
drained, one message at most is sent, and nothing after the summary.

**Start-up** (`StartupProofs`). `StartupInv` says that the settings are of their
kinds and validated (`Configured`), that the handlers are those they enable, one
each (`Listed`), and that the provider is one that was offered and whose hostname
was served (`Chosen`). The five properties of `startup` follow; `ProviderServed` needs
besides which clouds serve whose hostname URL (`WhoIsServed`): a provider of another
cloud can only be AWS's on Huawei's or Huawei's on AWS's. Three more theorems
draw the line around what fails: `DetectionRightElsewhere` (auto-detection is right
on every cloud but those that share a hostname URL, and there it finds one of the
two), `NilHandlersKnown` (which handlers can be the nil pointers of
`broadcaster_nil`: never the dummy; Telegram exactly if its token or its chat is
missing, and `validateConfig` asks for one of the two only) and `StartupRunsOut`
(main is past its start, or has ended, within eleven steps).

**Window** (`WindowProofs`). `StartBy` bounds the time at which the first check
that cannot overlook the notice takes its tick, and `Budget` bounds, for each request, the
time since the notice plus what the request may still take. The one delicate case
is a notice that crosses the spot request: the loop then waits for the rest of the
request and for the next tick, which is there already or at most an interval away,
so the two overlap and only the larger counts; a check that fails with the notice
there costs another interval, or its own two requests if those take longer.
`DeadlineAlwaysKept` holds for all accepted durations of whole seconds, the unit of
the model's clock, and for any number of failed checks. `TwoMinutesAlwaysKept`
compares the bound with AWS's two minutes. `TimeIsNotHeldUp` says that the bound is
about a clock that runs: wherever no second may pass a goroutine can go on or a
timer is due, and at most 53 steps fit between two seconds.
`MonitorImplemented` is the refinement of `Monitor`.

**Liveness.** Fairness is about actions that are ENABLED, and TLAPS cannot look
into ENABLED. The theorems below leave it closed and take as their one
hypothesis, besides `FairSpec`, that the guards of the fair actions enable them:
`GuardsEnable` (Monitor), `MainGuards` and `DeliveryGuards` (process),
`HandlerGuards` and `StopGuards` (Broadcaster), `HandlerGuards` and `PodGuards`
(Kubernetes), `RoundGuards`. These are state predicates of the form "guard =>
ENABLED action"; TLC evaluated each as an invariant of the instance of the run of
its component (`monitor` with all six providers) and found it true in every state.
Everything else is proved: which steps lead on, which can come in between
without leading back, that the strongly fair ones are enabled again and again,
and the temporal argument.

- `CancelEndsLoop` and `AnnouncementGetsThrough` are `LoopStops` and
  `AnnouncementBecomesEvent` for any set of providers.
- `SignalEnds` is `SignalEndsProcess` for any providers and handlers: it uses
  nothing of the broadcaster or of the handlers, only main's own steps.
- `RoundEndsWithAnswers` is `RoundEndsIfAnswered` for any nodes, names and ids. The
  two handlers, and the two results they leave in the channel, are counted out.
- `StopsIfRoundsEnd` is `BroadcasterStops` from `RoundEnds`, for any number of
  handlers and events.
- For each handler, of any number: it is called after the event (`EachHandlerIsCalled`),
  and over in the end if it honours its context (`EachHandlerIsOver`), unless the
  program crashes; in the whole process, an announcement that counts leads to its
  call, unless the program is shut down before (`AnnouncementReachesEach`).
- For each pod, of any number: once the context is done its eviction is counted
  or the handler has returned (`ContextEndsEachEviction`), and while the API server
  answers, five seconds end the wait for it (`StuckPodIsGivenUp`). Once all are
  counted the drain ends (`LastCountEndsDrain`).

Model-checked only are the properties about all handlers, or all pods, at once:
`RoundEnds`, `AnnouncementReachesHandlers`, `ContextEndsDrain` and
`StuckPodsDoNotHoldDrain`. That finitely many have all got somewhere when each of
them does, and stays there, is an induction over the set with a temporal formula
in it, and so is a channel emptied result by result. The provers here have
no rule for that. `StepsLeft` with `RoundStepsRunOut`, and `DrainStepsRunOut`, are
the safe half: the number of steps such an induction would go down by.
`BroadcasterStops` itself is proved only from `RoundEnds`.

## 5. Not modelled, and what is left

Not modelled: the manifests under `example/`, the loggers and what they print,
URLs but for the hostname's, headers, JSON layout, the fixed words of the Telegram
message. They hold no state the properties depend on. `Force` of the Nomad
handler and the two drain options are not among the settings of `Startup`: nothing
looks at them before a handler runs (`KubernetesHandler` has its own two).

Left for later:

1. `Evacuator` with `KubernetesHandler` in the place of one abstract handler: the
   drain implements "a handler that honours its context". Each is checked on its
   own now; the product is too large for TLC at the present bounds, a refinement
   of the abstract `Return` would do.
2. `KubernetesHandler` with a clock, as `Window` is for the monitor: the limit on
   client-go's request rate against the processing timeout.
3. A second round in `Round`: a monitor sends one event, so only the first can
   happen in the program as it is.

## 6. Running it

    tlc -workers 2 -config Kubernetes.cfg MCKubernetesHandler.tla
    tlapm EvacuatorProofs.tla

A guards predicate of section 4 is checked by a module that extends the proofs'
module in the place of the specification's and a configuration with the same
constants and the predicate (for all handlers or pods) as its only invariant.

`PROJECT.json` lists for every run its module and configuration, for every
definition the lines of code it stands for, and the mutants, findings, hazards and
theorems.
