---------------------------- MODULE Broadcaster ----------------------------
(***************************************************************************)
(* broadcastTerminationEvents: the goroutine that takes an event off the   *)
(* channel, runs every handler in a goroutine of its own, and collects one *)
(* result per handler through a buffered channel that a further goroutine  *)
(* closes once the WaitGroup is down to zero.  The handler goroutines of a *)
(* round share the variable `event` without a lock: each may overwrite its *)
(* Hostname, a string of two machine words, while others copy it.          *)
(***************************************************************************)
EXTENDS Naturals, Sequences, FiniteSets

CONSTANTS
  Handlers,    \* the registered handlers
  HonoursCtx,  \* those that return once their context is done
  Fallible,    \* those whose constructor may have failed
  MaxEvents    \* bound on the events a run on its own sends

ASSUME HandlersAssumption ==
  /\ IsFiniteSet(Handlers)
  /\ Handlers # {}              \* RegisterHandlers fails on an empty slice
  /\ HonoursCtx \subseteq Handlers
  /\ Fallible \subseteq Handlers
  /\ MaxEvents \in Nat

VARIABLES
  nodeName,      \* config.NodeName is set; never changes
  broken,        \* handlers that are nil pointers in the slice; never changes
  cancelled,     \* rootCtx is done
  crashed,       \* a goroutine panicked: the process is gone
  bc,            \* the broadcaster goroutine
  received,      \* events taken off the channel
  pc,            \* each handler's goroutine in the current round
  host,          \* event.Hostname, word by word: whose word it is
  touched,       \* words a handler has stored, or loaded, so far
  view,          \* the Hostname in a handler's own copy of the event
  expired,       \* a handler's processing timeout has passed
  outcome,       \* what a handler's HandleTermination returned
  results,       \* the buffered channel of HandlerResult
  closed,        \* results is closed
  handlerWg,     \* the WaitGroup counter
  successCount   \* results without an error collected so far

paramVars       == <<nodeName, broken>>
raceVars        == <<host, touched, view>>
resultVars      == <<results, closed, handlerWg, successCount>>
broadcasterVars == <<paramVars, cancelled, crashed, bc, received, pc, raceVars,
                     expired, outcome, resultVars>>

Words    == {"ptr", "len"}
Whose    == {"meta", "node"}     \* from the metadata service, from config.NodeName
\* Seeded fault: the buffer is one result short.
ShortCapacity == Cardinality(Handlers) - 1

Capacity == Cardinality(Handlers)

\* A handler goroutine: not started this round, storing config.NodeName into
\* event.Hostname, copying event for the call, inside HandleTermination, about
\* to send its result, about to call handlerWg.Done, gone.
Stages == {"unspawned", "store", "load", "running", "report", "exiting", "done"}
Live   == Stages \ {"unspawned", "done"}

Result == [handler : Handlers, ok : BOOLEAN]

BroadcasterTypeOK ==
  /\ nodeName \in BOOLEAN
  /\ broken \in SUBSET Fallible
  /\ cancelled \in BOOLEAN
  /\ crashed \in BOOLEAN
  /\ bc \in {"select", "spawn", "collect", "done"}
  /\ received \in Nat
  /\ pc \in [Handlers -> Stages]
  /\ host \in [Words -> Whose]
  /\ touched \in [Handlers -> SUBSET Words]
  /\ view \in [Handlers -> [Words -> Whose \cup {"none"}]]
  /\ expired \in [Handlers -> BOOLEAN]
  /\ outcome \in [Handlers -> {"none", "ok", "error"}]
  /\ results \in Seq(Result)
  /\ closed \in BOOLEAN
  /\ handlerWg \in Nat
  /\ successCount \in Nat

NoView == [w \in Words |-> "none"]

BroadcasterInit ==
  /\ nodeName \in BOOLEAN
  /\ broken \in SUBSET Fallible
  /\ cancelled = FALSE
  /\ crashed = FALSE
  /\ bc = "select"
  /\ received = 0
  /\ pc = [h \in Handlers |-> "unspawned"]
  /\ host = [w \in Words |-> "meta"]
  /\ touched = [h \in Handlers |-> {}]
  /\ view = [h \in Handlers |-> NoView]
  /\ expired = [h \in Handlers |-> FALSE]
  /\ outcome = [h \in Handlers |-> "none"]
  /\ results = <<>>
  /\ closed = FALSE
  /\ handlerWg = 0
  /\ successCount = 0
-----------------------------------------------------------------------------
\* case event := <-terminationEvent, a step of the sender too: a new event, a
\* new WaitGroup and a new results channel.
ReceiveEvent ==
  /\ ~crashed
  /\ bc = "select"
  /\ bc' = "spawn"
  /\ received' = received + 1
  /\ pc' = [h \in Handlers |-> "unspawned"]
  /\ host' = [w \in Words |-> "meta"]
  /\ touched' = [h \in Handlers |-> {}]
  /\ view' = [h \in Handlers |-> NoView]
  /\ expired' = [h \in Handlers |-> FALSE]
  /\ outcome' = [h \in Handlers |-> "none"]
  /\ results' = <<>>
  /\ closed' = FALSE
  /\ handlerWg' = 0
  /\ successCount' = 0
  /\ UNCHANGED <<paramVars, cancelled, crashed>>

\* case <-ctx.Done(), only looked at between two rounds.
StopBroadcasting ==
  /\ ~crashed
  /\ bc = "select"
  /\ cancelled
  /\ bc' = "done"
  /\ UNCHANGED <<paramVars, cancelled, crashed, received, pc, raceVars,
                 expired, outcome, resultVars>>
\* Seeded fault: handlerWg.Add(1) is forgotten.
SpawnWithoutAdd(h) ==
  /\ ~crashed
  /\ bc = "spawn"
  /\ pc[h] = "unspawned"
  /\ pc' = [pc EXCEPT ![h] = IF nodeName THEN "store" ELSE "load"]
  /\ UNCHANGED <<paramVars, cancelled, crashed, bc, received, raceVars,
                 expired, outcome, resultVars>>

\* Seeded fault: the assignment is skipped when event.Hostname looks set.
SpawnIfUnset(h) ==
  /\ ~crashed
  /\ bc = "spawn"
  /\ pc[h] = "unspawned"
  /\ pc' = [pc EXCEPT ![h] = IF nodeName /\ host["ptr"] = "meta" THEN "store" ELSE "load"]
  /\ handlerWg' = handlerWg + 1
  /\ UNCHANGED <<paramVars, cancelled, crashed, bc, received, raceVars,
                 expired, outcome, results, closed, successCount>>

\* handlerWg.Add(1) and go func(h).
Spawn(h) ==
  /\ ~crashed
  /\ bc = "spawn"
  /\ pc[h] = "unspawned"
  /\ pc' = [pc EXCEPT ![h] = IF nodeName THEN "store" ELSE "load"]
  /\ handlerWg' = handlerWg + 1
  /\ UNCHANGED <<paramVars, cancelled, crashed, bc, received, raceVars,
                 expired, outcome, results, closed, successCount>>

\* After the last handler the closing goroutine starts, and `range results`.
StartCollecting ==
  /\ ~crashed
  /\ bc = "spawn"
  /\ \A h \in Handlers : pc[h] # "unspawned"
  /\ bc' = "collect"
  /\ UNCHANGED <<paramVars, cancelled, crashed, received, pc, raceVars,
                 expired, outcome, resultVars>>
-----------------------------------------------------------------------------
\* event.Hostname = config.NodeName stores two words, in either order, that
\* any other goroutine of the round may store or load in between.
StoreWord(h, w) ==
  /\ ~crashed
  /\ pc[h] = "store"
  /\ w \notin touched[h]
  /\ host' = [host EXCEPT ![w] = "node"]
  /\ LET stored == touched[h] \cup {w} IN
       IF stored = Words
       THEN /\ touched' = [touched EXCEPT ![h] = {}]
            /\ pc' = [pc EXCEPT ![h] = "load"]
       ELSE /\ touched' = [touched EXCEPT ![h] = stored]
            /\ UNCHANGED pc
  /\ UNCHANGED <<paramVars, cancelled, crashed, bc, received, view,
                 expired, outcome, resultVars>>

\* h.HandleTermination(handlerCtx, event) passes a copy, taken word by word.
LoadWord(h, w) ==
  /\ ~crashed
  /\ pc[h] = "load"
  /\ w \notin touched[h]
  /\ view' = [view EXCEPT ![h][w] = host[w]]
  /\ touched' = [touched EXCEPT ![h] = @ \cup {w}]
  /\ pc' = (IF touched[h] \cup {w} = Words THEN [pc EXCEPT ![h] = "running"] ELSE pc)
  /\ UNCHANGED <<paramVars, cancelled, crashed, bc, received, host,
                 expired, outcome, resultVars>>

\* The deadline of context.WithTimeout(ctx, ProcessingTimeout) passes.  Before
\* HandleTermination nothing looks at it: an early one shows at its start.
Expire(h) ==
  /\ ~crashed
  /\ pc[h] = "running"
  /\ ~expired[h]
  /\ expired' = [expired EXCEPT ![h] = TRUE]
  /\ UNCHANGED <<paramVars, cancelled, crashed, bc, received, pc, raceVars,
                 outcome, resultVars>>

\* The handler returns, with or without an error, of its own accord.
Return(h) ==
  /\ ~crashed
  /\ pc[h] = "running"
  /\ h \notin broken
  /\ \E r \in {"ok", "error"} : outcome' = [outcome EXCEPT ![h] = r]
  /\ pc' = [pc EXCEPT ![h] = "report"]
  /\ UNCHANGED <<paramVars, cancelled, crashed, bc, received, raceVars,
                 expired, resultVars>>

\* HandleTermination on a nil pointer: nothing recovers the panic.
Panic(h) ==
  /\ ~crashed
  /\ pc[h] = "running"
  /\ h \in broken
  /\ crashed' = TRUE
  /\ UNCHANGED <<paramVars, cancelled, bc, received, pc, raceVars,
                 expired, outcome, resultVars>>

\* results <- HandlerResult: waits while the buffer is full, panics when the
\* channel is closed.
Report(h) ==
  /\ ~crashed
  /\ pc[h] = "report"
  /\ closed \/ Len(results) < Capacity
  /\ IF closed
     THEN /\ crashed' = TRUE
          /\ UNCHANGED <<pc, results>>
     ELSE /\ results' = Append(results, [handler |-> h, ok |-> outcome[h] = "ok"])
          /\ pc' = [pc EXCEPT ![h] = "exiting"]
          /\ UNCHANGED crashed
  /\ UNCHANGED <<paramVars, cancelled, bc, received, raceVars,
                 expired, outcome, closed, handlerWg, successCount>>
\* Seeded fault: handlerWg.Done() is not deferred and gets lost.
ExitWithoutDone(h) ==
  /\ ~crashed
  /\ pc[h] = "exiting"
  /\ pc' = [pc EXCEPT ![h] = "done"]
  /\ UNCHANGED <<paramVars, cancelled, crashed, bc, received, raceVars,
                 expired, outcome, resultVars>>

\* The deferred cancel() and handlerWg.Done().
Exit(h) ==
  /\ ~crashed
  /\ pc[h] = "exiting"
  /\ pc' = [pc EXCEPT ![h] = "done"]
  /\ handlerWg' = handlerWg - 1
  /\ UNCHANGED <<paramVars, cancelled, crashed, bc, received, raceVars,
                 expired, outcome, results, closed, successCount>>
-----------------------------------------------------------------------------
\* Seeded fault: results is closed without waiting for the handlers.
CloseResultsEarly ==
  /\ ~crashed
  /\ bc = "collect"
  /\ ~closed
  /\ closed' = TRUE
  /\ UNCHANGED <<paramVars, cancelled, crashed, bc, received, pc, raceVars,
                 expired, outcome, results, handlerWg, successCount>>

\* The closing goroutine: handlerWg.Wait(), close(results).
CloseResults ==
  /\ ~crashed
  /\ bc = "collect"
  /\ ~closed
  /\ handlerWg = 0
  /\ closed' = TRUE
  /\ UNCHANGED <<paramVars, cancelled, crashed, bc, received, pc, raceVars,
                 expired, outcome, results, handlerWg, successCount>>
\* Seeded fault: every result counts as a success.
CollectAll ==
  /\ ~crashed
  /\ bc = "collect"
  /\ results # <<>>
  /\ results' = Tail(results)
  /\ successCount' = successCount + 1
  /\ UNCHANGED <<paramVars, cancelled, crashed, bc, received, pc, raceVars,
                 expired, outcome, closed, handlerWg>>

\* One turn of `for result := range results`.
Collect ==
  /\ ~crashed
  /\ bc = "collect"
  /\ results # <<>>
  /\ results' = Tail(results)
  /\ successCount' = (IF Head(results).ok THEN successCount + 1 ELSE successCount)
  /\ UNCHANGED <<paramVars, cancelled, crashed, bc, received, pc, raceVars,
                 expired, outcome, closed, handlerWg>>

\* The range ends: the channel is closed and empty.  The summary is logged and
\* the goroutine selects again.
FinishRound ==
  /\ ~crashed
  /\ bc = "collect"
  /\ closed
  /\ results = <<>>
  /\ bc' = "select"
  /\ UNCHANGED <<paramVars, cancelled, crashed, received, pc, raceVars,
                 expired, outcome, resultVars>>

\* Environment: main cancels the root context.
Cancel ==
  /\ ~cancelled
  /\ cancelled' = TRUE
  /\ UNCHANGED <<paramVars, crashed, bc, received, pc, raceVars,
                 expired, outcome, resultVars>>
-----------------------------------------------------------------------------
CopyWord(h) == \E w \in Words : StoreWord(h, w) \/ LoadWord(h, w)

HandlerStep(h) ==
  \/ CopyWord(h)
  \/ Return(h) \/ Panic(h) \/ Report(h) \/ Exit(h)

CollectorStep == StartCollecting \/ CloseResults \/ Collect \/ FinishRound

BroadcasterStep ==
  \/ StopBroadcasting
  \/ CollectorStep
  \/ \E h \in Handlers : Spawn(h) \/ Expire(h) \/ HandlerStep(h)

\* On its own, the broadcaster is sent events, and may be cancelled, at any time.
Next ==
  \/ BroadcasterStep
  \/ received < MaxEvents /\ ReceiveEvent
  \/ Cancel

Spec == BroadcasterInit /\ [][Next]_broadcasterVars

\* Goroutines run when they can (WF).  A handler returns when its context is
\* done only if it looks at it; no other return is promised.  The select does
\* not avoid ctx.Done forever (SF, as in Monitor).
CtxDone(h) == cancelled \/ expired[h]

HandlerFairness(h) ==
  /\ WF_broadcasterVars(Spawn(h))
  /\ WF_broadcasterVars(Expire(h))
  /\ WF_broadcasterVars(CopyWord(h))
  /\ WF_broadcasterVars(Panic(h) \/ Report(h) \/ Exit(h))
HandlersFair == \A h \in Handlers : HandlerFairness(h)

ReturnsInTime(h) == WF_broadcasterVars(CtxDone(h) /\ Return(h))
ContextsHonoured == \A h \in HonoursCtx : ReturnsInTime(h)

BroadcasterFairness ==
  /\ WF_broadcasterVars(CollectorStep)
  /\ SF_broadcasterVars(StopBroadcasting)
  /\ HandlersFair
  /\ ContextsHonoured

FairSpec == Spec /\ BroadcasterFairness
-----------------------------------------------------------------------------
\* The race on event.Hostname is harmless: every handler is called with one
\* whole name, config.NodeName if it is set and the metadata's name otherwise,
\* never with the pointer of one and the length of the other.
HostnameWhole ==
  \A h \in Handlers :
    pc[h] \in {"running", "report", "exiting", "done"} =>
      view[h] = [w \in Words |-> IF nodeName THEN "node" ELSE "meta"]

\* No goroutine sends on the closed results channel: the only panic there can
\* be is the call of a handler that is a nil pointer.
CrashOnlyFromBroken == crashed => \E h \in broken : pc[h] = "running"

\* The buffer has room for every result, so reporting never blocks a handler
\* goroutine, whatever the collector does.
ReportNeverBlocks ==
  \A h \in Handlers : pc[h] = "report" => Len(results) < Capacity

\* A round leaves nothing behind: whenever the broadcaster is back at its
\* select, or has stopped, no handler goroutine is alive.
RoundsDoNotOverlap ==
  bc \in {"select", "done"} =>
    \A h \in Handlers : pc[h] \in {"unspawned", "done"}

\* The summary is exact: once a round is over every handler has returned and
\* successCount is the number of those that returned no error.
SummaryExact ==
  bc \in {"select", "done"} /\ received > 0 =>
    /\ \A h \in Handlers : outcome[h] # "none"
    /\ successCount = Cardinality({h \in Handlers : outcome[h] = "ok"})

\* A round ends, within the processing timeout of its handlers, unless the
\* process is gone.
RoundEnds == bc = "spawn" ~> bc \in {"select", "done"} \/ crashed

\* "Wait for all handlers to complete and collect results" (main.go:239): a
\* round ends with the results of all its handlers, also when one of them is a
\* nil pointer that RegisterHandlers appended after its constructor failed.
AllResultsCollected == bc = "spawn" ~> bc \in {"select", "done"}

\* Cancelling the root context ends the broadcaster.
BroadcasterStops == cancelled ~> bc = "done" \/ crashed

=============================================================================
