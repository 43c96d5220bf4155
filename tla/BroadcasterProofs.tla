------------------------- MODULE BroadcasterProofs -------------------------
(***************************************************************************)
(* Proofs about Broadcaster, for any finite set of handlers, any of them   *)
(* nil, and any number of events.  The inductive invariant BroadcasterInv  *)
(* is a conjunction of one part per mechanism of the round: the WaitGroup  *)
(* counter, the phases of the round, the words of event.Hostname, and the  *)
(* books kept by the results channel and successCount.                     *)
(***************************************************************************)
EXTENDS Broadcaster, FiniteSetTheorems, SequenceTheorems, TLAPS

LiveHandlers == {h \in Handlers : pc[h] \in Live}
Reported     == {h \in Handlers : pc[h] \in {"exiting", "done"}}
Pending      == {results[i].handler : i \in 1..Len(results)}
Tallied      == {h \in Reported \ Pending : outcome[h] = "ok"}

\* The WaitGroup counts the live handler goroutines.
WgExact == handlerWg = Cardinality(LiveHandlers)

\* Where the handlers and the channel can be in each phase of a round.
Phases ==
  /\ bc = "spawn" => ~closed
  /\ bc = "collect" => \A h \in Handlers : pc[h] # "unspawned"
  /\ closed => \A h \in Handlers : pc[h] = "done"
  /\ bc \in {"select", "done"} =>
       results = <<>> /\ (closed \/ (received = 0 /\ \A h \in Handlers : pc[h] = "unspawned"))

Right == IF nodeName THEN "node" ELSE "meta"

\* Who has stored, and who has loaded, which word of event.Hostname.
Names ==
  /\ ~nodeName => \A w \in Words : host[w] = "meta"
  /\ \A h \in Handlers :
       /\ pc[h] = "unspawned" => touched[h] = {}
       /\ pc[h] = "store" => nodeName /\ \A w \in touched[h] : host[w] = "node"
       /\ pc[h] \notin {"unspawned", "store"} => \A w \in Words : host[w] = Right
       /\ pc[h] = "load" => \A w \in touched[h] : view[h][w] = Right
       /\ pc[h] \in {"running", "report", "exiting", "done"} =>
            \A w \in Words : view[h][w] = Right

Outcomes ==
  \A h \in Handlers : pc[h] \in {"report", "exiting", "done"} => outcome[h] # "none"

\* The results in the channel are those of handlers that have reported and are
\* not tallied yet, one each.
Books ==
  /\ Pending \subseteq Reported
  /\ Len(results) = Cardinality(Pending)
  /\ \A i, j \in 1..Len(results) : results[i].handler = results[j].handler => i = j
  /\ \A i \in 1..Len(results) : results[i].ok = (outcome[results[i].handler] = "ok")
  /\ successCount = Cardinality(Tallied)

BroadcasterInv ==
  /\ BroadcasterTypeOK
  /\ WgExact
  /\ Phases
  /\ Names
  /\ Outcomes
  /\ Books
  /\ CrashOnlyFromBroken
\* What can happen to the broadcaster, on its own or as a part of the process.
Moves == BroadcasterStep \/ ReceiveEvent \/ Cancel \/ UNCHANGED broadcasterVars
-----------------------------------------------------------------------------
\* The steps of the broadcaster, one by one.
LEMMA StepCases ==
  ASSUME Moves
  PROVE  \/ StopBroadcasting \/ StartCollecting \/ CloseResults \/ Collect \/ FinishRound
         \/ ReceiveEvent \/ Cancel \/ UNCHANGED broadcasterVars
         \/ \E h \in Handlers : \/ Spawn(h) \/ Expire(h) \/ Return(h) \/ Panic(h)
                                \/ Report(h) \/ Exit(h)
                                \/ \E w \in Words : StoreWord(h, w) \/ LoadWord(h, w)
  BY DEF Moves, BroadcasterStep, CollectorStep, HandlerStep, CopyWord

\* The sets the counters count are finite.
LEMMA FiniteParts ==
  /\ IsFiniteSet(LiveHandlers) /\ IsFiniteSet(LiveHandlers')
  /\ IsFiniteSet(Reported) /\ IsFiniteSet(Reported')
  /\ IsFiniteSet(Tallied) /\ IsFiniteSet(Tallied')
  /\ Cardinality(Handlers) \in Nat
<1>1. \A S : S \subseteq Handlers => IsFiniteSet(S)
  BY HandlersAssumption, FS_Subset
<1>2. /\ LiveHandlers \subseteq Handlers /\ LiveHandlers' \subseteq Handlers
      /\ Reported \subseteq Handlers /\ Reported' \subseteq Handlers
      /\ Tallied \subseteq Handlers /\ Tallied' \subseteq Handlers
  BY DEF LiveHandlers, Reported, Tallied
<1> QED
  BY <1>1, <1>2, HandlersAssumption, FS_CardinalityType

\* The initial states satisfy every part of the invariant.
LEMMA InitInv == BroadcasterInit => BroadcasterInv
<1> SUFFICES ASSUME BroadcasterInit PROVE BroadcasterInv
  OBVIOUS
<1> USE DEF BroadcasterInit
<1>1. BroadcasterTypeOK
  <2>1. view \in [Handlers -> [Words -> Whose \cup {"none"}]]
    BY DEF NoView
  <2>2. results \in Seq(Result)
    BY EmptySeq
  <2>3. touched \in [Handlers -> SUBSET Words] /\ host \in [Words -> Whose]
    BY DEF Whose
  <2> QED
    BY <2>1, <2>2, <2>3 DEF BroadcasterTypeOK, Stages
<1>2. WgExact
  <2>1. LiveHandlers = {}
    BY DEF LiveHandlers, Live, Stages
  <2> QED
    BY <2>1, FS_EmptySet DEF WgExact
<1>3. Phases /\ Names /\ Outcomes /\ CrashOnlyFromBroken
  BY DEF Phases, Names, Outcomes, CrashOnlyFromBroken, Right
<1>4. Books
  <2>1. Pending = {} /\ Reported = {} /\ Tallied = {} /\ Len(results) = 0
    BY DEF Pending, Reported, Tallied
  <2> QED
    BY <2>1, FS_EmptySet DEF Books
<1> QED
  BY <1>1, <1>2, <1>3, <1>4 DEF BroadcasterInv
-----------------------------------------------------------------------------
\* handlerWg.Add before the goroutine, handlerWg.Done at its end: the counter
\* follows the number of live handler goroutines.
LEMMA StepWg ==
  ASSUME BroadcasterInv, Moves
  PROVE  WgExact' /\ handlerWg' \in Nat
<1> USE FiniteParts DEF BroadcasterInv, BroadcasterTypeOK, WgExact
<1>0. WgExact' => handlerWg' \in Nat
  BY FS_CardinalityType
<1>1. CASE ReceiveEvent
  <2>1. LiveHandlers' = {}
    BY <1>1 DEF ReceiveEvent, LiveHandlers, Live
  <2> QED
    BY <1>0, <1>1, <2>1, FS_EmptySet DEF ReceiveEvent
<1>2. ASSUME NEW h \in Handlers, Spawn(h) PROVE WgExact'
  <2>1. LiveHandlers' = LiveHandlers \cup {h} /\ h \notin LiveHandlers
    BY <1>2 DEF Spawn, LiveHandlers, Live, Stages
  <2> QED
    BY <1>2, <2>1, FS_AddElement DEF Spawn
<1>3. ASSUME NEW h \in Handlers, Exit(h) PROVE WgExact'
  <2>1. LiveHandlers' = LiveHandlers \ {h} /\ h \in LiveHandlers
    BY <1>3 DEF Exit, LiveHandlers, Live, Stages
  <2> QED
    BY <1>3, <2>1, FS_RemoveElement DEF Exit
<1>4. ASSUME NEW h \in Handlers, Return(h) \/ Report(h) \/ (\E w \in Words : StoreWord(h, w) \/ LoadWord(h, w))
      PROVE WgExact'
  <2>1. handlerWg' = handlerWg
    BY <1>4 DEF Return, Report, StoreWord, LoadWord, resultVars
  <2>2. pc[h] \in Live /\ \E s \in Live : pc' = [pc EXCEPT ![h] = s] \/ pc' = pc
    BY <1>4 DEF Return, Report, StoreWord, LoadWord, Live, Stages
  <2>3. LiveHandlers' = LiveHandlers
    BY <2>2 DEF LiveHandlers
  <2> QED
    BY <2>1, <2>3
<1>5. CASE UNCHANGED <<pc, handlerWg>>
  BY <1>5 DEF LiveHandlers
<1>6. ASSUME NEW h \in Handlers, Expire(h) \/ Panic(h) PROVE UNCHANGED <<pc, handlerWg>>
  BY <1>6 DEF Expire, Panic, resultVars
<1>7. StopBroadcasting \/ StartCollecting \/ CloseResults \/ Collect \/ FinishRound
      \/ Cancel \/ UNCHANGED broadcasterVars => UNCHANGED <<pc, handlerWg>>
  BY DEF StopBroadcasting, StartCollecting, CloseResults, Collect, FinishRound, Cancel,
         broadcasterVars, resultVars
<1> QED
  BY <1>0, <1>1, <1>2, <1>3, <1>4, <1>5, <1>6, <1>7, StepCases

\* Every step keeps the type invariant; the counter's part is StepWg.
LEMMA StepType ==
  ASSUME BroadcasterInv, Moves
  PROVE  BroadcasterTypeOK'
<1>0. handlerWg' \in Nat
  BY StepWg
<1> USE <1>0 DEF BroadcasterInv, BroadcasterTypeOK, paramVars, raceVars, resultVars
<1>1. CASE ReceiveEvent
  <2>1. view' \in [Handlers -> [Words -> Whose \cup {"none"}]]
    BY <1>1 DEF ReceiveEvent, NoView
  <2>2. results' \in Seq(Result)
    BY <1>1, EmptySeq DEF ReceiveEvent
  <2>3. touched' \in [Handlers -> SUBSET Words] /\ host' \in [Words -> Whose]
    BY <1>1 DEF ReceiveEvent, Whose
  <2>4. /\ pc' \in [Handlers -> Stages]
        /\ expired' \in [Handlers -> BOOLEAN]
        /\ outcome' \in [Handlers -> {"none", "ok", "error"}]
    BY <1>1 DEF ReceiveEvent, Stages
  <2>5. /\ nodeName' \in BOOLEAN /\ broken' \in SUBSET Fallible
        /\ cancelled' \in BOOLEAN /\ crashed' \in BOOLEAN /\ closed' \in BOOLEAN
    BY <1>1 DEF ReceiveEvent
  <2>6. bc' = "spawn" /\ received' \in Nat /\ successCount' \in Nat
    BY <1>1 DEF ReceiveEvent
  <2> QED
    BY <2>1, <2>2, <2>3, <2>4, <2>5, <2>6
<1>2. ASSUME NEW h \in Handlers, Spawn(h) PROVE BroadcasterTypeOK'
  BY <1>2 DEF Spawn, Stages
<1>3. ASSUME NEW h \in Handlers, Exit(h) PROVE BroadcasterTypeOK'
  BY <1>3 DEF Exit, Stages
<1>4. ASSUME NEW h \in Handlers, NEW w \in Words, StoreWord(h, w) PROVE BroadcasterTypeOK'
  <2>1. pc' \in [Handlers -> Stages] /\ host' \in [Words -> Whose]
    BY <1>4 DEF StoreWord, Stages, Whose
  <2>2. touched' \in [Handlers -> SUBSET Words]
    BY <1>4 DEF StoreWord
  <2> QED
    BY <1>4, <2>1, <2>2 DEF StoreWord
<1>5. ASSUME NEW h \in Handlers, NEW w \in Words, LoadWord(h, w) PROVE BroadcasterTypeOK'
  <2>1. pc' \in [Handlers -> Stages]
    BY <1>5 DEF LoadWord, Stages
  <2>2. touched' \in [Handlers -> SUBSET Words]
    BY <1>5 DEF LoadWord
  <2>3. view' \in [Handlers -> [Words -> Whose \cup {"none"}]]
    BY <1>5 DEF LoadWord
  <2> QED
    BY <1>5, <2>1, <2>2, <2>3 DEF LoadWord
<1>6. ASSUME NEW h \in Handlers, Expire(h) PROVE BroadcasterTypeOK'
  BY <1>6 DEF Expire
<1>7. ASSUME NEW h \in Handlers, Return(h) PROVE BroadcasterTypeOK'
  BY <1>7 DEF Return, Stages
<1>8. ASSUME NEW h \in Handlers, Panic(h) PROVE BroadcasterTypeOK'
  BY <1>8 DEF Panic
<1>9. ASSUME NEW h \in Handlers, Report(h) PROVE BroadcasterTypeOK'
  <2>1. pc' \in [Handlers -> Stages] /\ crashed' \in BOOLEAN
    BY <1>9 DEF Report, Stages
  <2>2. [handler |-> h, ok |-> outcome[h] = "ok"] \in Result
    BY DEF Result
  <2>3. Append(results, [handler |-> h, ok |-> outcome[h] = "ok"]) \in Seq(Result)
    BY <2>2, AppendProperties
  <2>4. results' \in Seq(Result)
    BY <1>9, <2>3 DEF Report
  <2> QED
    BY <1>9, <2>1, <2>4 DEF Report
<1>10. CASE Collect
  <2>1. results' \in Seq(Result)
    BY <1>10, HeadTailProperties DEF Collect
  <2>2. successCount' \in Nat
    BY <1>10 DEF Collect
  <2> QED
    BY <1>10, <2>1, <2>2 DEF Collect
<1>11. CASE StopBroadcasting \/ StartCollecting \/ CloseResults \/ FinishRound \/ Cancel
  BY <1>11 DEF StopBroadcasting, StartCollecting, CloseResults, FinishRound, Cancel
<1>12. CASE UNCHANGED broadcasterVars
  BY <1>12 DEF broadcasterVars
<1> QED
  BY <1>1, <1>2, <1>3, <1>4, <1>5, <1>6, <1>7, <1>8, <1>9, <1>10, <1>11, <1>12, StepCases
-----------------------------------------------------------------------------
\* While the WaitGroup is not zero results stays open: close(results) finds
\* every handler done.
LEMMA StepPhases ==
  ASSUME BroadcasterInv, Moves
  PROVE  Phases'
<1> USE DEF BroadcasterInv, BroadcasterTypeOK, Phases, Stages, paramVars, raceVars, resultVars
<1>1. CASE ReceiveEvent
  BY <1>1 DEF ReceiveEvent
<1>2. CASE CloseResults
  <2>1. LiveHandlers = {}
    BY <1>2, FiniteParts, FS_EmptySet DEF CloseResults, WgExact
  <2>2. \A h \in Handlers : pc[h] = "done"
    BY <1>2, <2>1 DEF CloseResults, LiveHandlers, Live
  <2> QED
    BY <1>2, <2>2 DEF CloseResults
<1>3. ASSUME NEW h \in Handlers, Spawn(h) PROVE Phases'
  BY <1>3 DEF Spawn
<1>4. ASSUME NEW h \in Handlers,
             Return(h) \/ Exit(h) \/ (\E w \in Words : StoreWord(h, w) \/ LoadWord(h, w))
      PROVE  Phases'
  <2>1. ~closed /\ bc \in {"spawn", "collect"}
    BY <1>4 DEF Return, Exit, StoreWord, LoadWord
  <2>2. UNCHANGED <<bc, closed, received, results>>
    BY <1>4 DEF Return, Exit, StoreWord, LoadWord
  <2>3. \A g \in Handlers : pc[g] # "unspawned" => pc'[g] # "unspawned"
    BY <1>4 DEF Return, Exit, StoreWord, LoadWord
  <2> QED
    BY <2>1, <2>2, <2>3
<1>5. ASSUME NEW h \in Handlers, Report(h) PROVE Phases'
  <2>1. ~closed /\ bc \in {"spawn", "collect"}
    BY <1>5 DEF Report
  <2> QED
    BY <1>5, <2>1 DEF Report
<1>6. CASE StartCollecting
  BY <1>6 DEF StartCollecting
<1>7. CASE Collect
  BY <1>7 DEF Collect
<1>8. CASE FinishRound \/ StopBroadcasting
  BY <1>8 DEF FinishRound, StopBroadcasting
<1>9. ASSUME NEW h \in Handlers, Expire(h) \/ Panic(h) PROVE Phases'
  BY <1>9 DEF Expire, Panic
<1>10. CASE Cancel \/ UNCHANGED broadcasterVars
  BY <1>10 DEF Cancel, broadcasterVars
<1> QED
  BY <1>1, <1>2, <1>3, <1>4, <1>5, <1>6, <1>7, <1>8, <1>9, <1>10, StepCases

\* results is never closed under a handler that has yet to report.
LEMMA StepCrash ==
  ASSUME BroadcasterInv, Moves
  PROVE  CrashOnlyFromBroken'
<1> USE DEF BroadcasterInv, CrashOnlyFromBroken
<1>1. ASSUME crashed PROVE CrashOnlyFromBroken'
  <2>1. UNCHANGED <<broken, pc>>
    BY <1>1, StepCases DEF ReceiveEvent, StopBroadcasting, StartCollecting, CloseResults,
       Collect, FinishRound, Cancel, Spawn, Expire, Return, Panic, Report, Exit, StoreWord,
       LoadWord, broadcasterVars, paramVars
  <2> QED
    BY <1>1, <2>1
<1>2. ASSUME NEW h \in Handlers, Panic(h) PROVE CrashOnlyFromBroken'
  BY <1>2 DEF Panic, paramVars
<1>3. ASSUME NEW h \in Handlers, Report(h) PROVE ~closed /\ crashed' = crashed
  BY <1>3 DEF Report, Phases
<1>4. ASSUME ~crashed, \A h \in Handlers : ~Panic(h) PROVE ~crashed'
  BY <1>3, <1>4, StepCases DEF ReceiveEvent, StopBroadcasting, StartCollecting, CloseResults,
       Collect, FinishRound, Cancel, Spawn, Expire, Return, Exit, StoreWord,
       LoadWord, broadcasterVars
<1> QED
  BY <1>1, <1>2, <1>4

\* A handler that has returned has an outcome.
LEMMA StepOutcomes ==
  ASSUME BroadcasterInv, Moves
  PROVE  Outcomes'
<1> USE DEF BroadcasterInv, BroadcasterTypeOK, Outcomes, Stages
<1>1. ASSUME NEW h \in Handlers, Return(h) PROVE Outcomes'
  BY <1>1 DEF Return
<1>2. CASE ReceiveEvent
  BY <1>2 DEF ReceiveEvent
<1>3. ASSUME NEW h \in Handlers,
             \/ Spawn(h) \/ Report(h) \/ Exit(h)
             \/ \E w \in Words : StoreWord(h, w) \/ LoadWord(h, w)
      PROVE  Outcomes'
  <2>1. outcome' = outcome
    BY <1>3 DEF Spawn, Report, Exit, StoreWord, LoadWord
  <2>2. \A g \in Handlers : pc'[g] \in {"report", "exiting", "done"} =>
                              pc[g] \in {"report", "exiting", "done"}
    BY <1>3 DEF Spawn, Report, Exit, StoreWord, LoadWord
  <2> QED
    BY <2>1, <2>2
<1>4. ASSUME NEW h \in Handlers, Expire(h) \/ Panic(h) PROVE UNCHANGED <<pc, outcome>>
  BY <1>4 DEF Expire, Panic
<1>5. CASE StopBroadcasting \/ StartCollecting \/ CloseResults \/ Collect \/ FinishRound
           \/ Cancel \/ UNCHANGED broadcasterVars
  BY <1>5 DEF StopBroadcasting, StartCollecting, CloseResults, Collect, FinishRound, Cancel,
              broadcasterVars
<1> QED
  BY <1>1, <1>2, <1>3, <1>4, <1>5, StepCases
-----------------------------------------------------------------------------
\* What Names says of one handler.
NamesOf(h) ==
  /\ pc[h] = "unspawned" => touched[h] = {}
  /\ pc[h] = "store" => nodeName /\ \A w \in touched[h] : host[w] = "node"
  /\ pc[h] \notin {"unspawned", "store"} => \A w \in Words : host[w] = Right
  /\ pc[h] = "load" => \A w \in touched[h] : view[h][w] = Right
  /\ pc[h] \in {"running", "report", "exiting", "done"} =>
       \A w \in Words : view[h][w] = Right

\* Every goroutine that stores into event.Hostname stores config.NodeName, and
\* nobody copies the event before having stored both words himself.
LEMMA StepNames ==
  ASSUME BroadcasterInv, Moves
  PROVE  Names'
<1>0. /\ ~nodeName => \A w \in Words : host[w] = "meta"
      /\ \A h \in Handlers : NamesOf(h)
  BY DEF BroadcasterInv, Names, NamesOf
<1>. SUFFICES /\ ~nodeName' => \A w \in Words : host'[w] = "meta"
              /\ \A h \in Handlers : NamesOf(h)'
  BY DEF Names, NamesOf
<1> USE <1>0 DEF BroadcasterInv, BroadcasterTypeOK, Stages, Right, NamesOf, paramVars, raceVars
<1>1. CASE ReceiveEvent
  BY <1>1 DEF ReceiveEvent
<1>2. ASSUME NEW h \in Handlers, NEW w \in Words, StoreWord(h, w)
      PROVE  /\ ~nodeName' => \A x \in Words : host'[x] = "meta"
             /\ \A g \in Handlers : NamesOf(g)'
  <2>1. nodeName /\ nodeName' = nodeName /\ view' = view /\ Right = "node" /\ Right' = "node"
    BY <1>2 DEF StoreWord
  <2>2. host'[w] = "node" /\ \A x \in Words : host[x] = "node" => host'[x] = "node"
    BY <1>2 DEF StoreWord
  <2>3. ASSUME touched[h] \cup {w} = Words
        PROVE  /\ touched'[h] = {} /\ pc'[h] = "load"
               /\ \A x \in Words : host'[x] = "node"
    BY <1>2, <2>2, <2>3 DEF StoreWord
  <2>4. ASSUME touched[h] \cup {w} # Words
        PROVE  /\ touched'[h] = touched[h] \cup {w} /\ pc'[h] = "store"
               /\ \A x \in touched'[h] : host'[x] = "node"
    <3>1. touched'[h] = touched[h] \cup {w} /\ pc'[h] = "store" /\ touched[h] \subseteq Words
      BY <1>2, <2>4 DEF StoreWord
    <3>2. \A x \in touched[h] : host[x] = "node"
      BY <1>2 DEF StoreWord
    <3> QED
      BY <2>2, <3>1, <3>2
  <2>5. NamesOf(h)'
    BY <2>1, <2>3, <2>4
  <2>6. ASSUME NEW g \in Handlers, g # h PROVE NamesOf(g)'
    <3>1. touched'[g] = touched[g] /\ pc'[g] = pc[g] /\ touched[g] \subseteq Words
      BY <1>2, <2>6 DEF StoreWord
    <3> QED
      BY <2>1, <2>2, <3>1
  <2> QED
    BY <2>1, <2>5, <2>6
<1>3. ASSUME NEW h \in Handlers, NEW w \in Words, LoadWord(h, w)
      PROVE  /\ ~nodeName' => \A x \in Words : host'[x] = "meta"
             /\ \A g \in Handlers : NamesOf(g)'
  <2>1. nodeName' = nodeName /\ host' = host /\ Right' = Right
    BY <1>3 DEF LoadWord
  <2>2. \A x \in Words : host[x] = Right
    BY <1>3 DEF LoadWord
  <2>3. /\ touched'[h] = touched[h] \cup {w}
        /\ pc'[h] = IF touched[h] \cup {w} = Words THEN "running" ELSE "load"
    BY <1>3 DEF LoadWord
  <2>4. \A x \in touched'[h] : view'[h][x] = Right
    <3>1. view'[h][w] = Right /\ \A x \in Words \ {w} : view'[h][x] = view[h][x]
      BY <1>3, <2>2 DEF LoadWord
    <3>2. touched[h] \subseteq Words /\ \A x \in touched[h] : view[h][x] = Right
      BY <1>3 DEF LoadWord
    <3> QED
      BY <2>3, <3>1, <3>2
  <2>5. NamesOf(h)'
    BY <2>1, <2>2, <2>3, <2>4
  <2>6. ASSUME NEW g \in Handlers, g # h PROVE NamesOf(g)'
    <3>1. touched'[g] = touched[g] /\ pc'[g] = pc[g] /\ view'[g] = view[g]
      BY <1>3, <2>6 DEF LoadWord
    <3> QED
      BY <2>1, <3>1
  <2>7. ~nodeName' => \A x \in Words : host'[x] = "meta"
    BY <2>1
  <2> HIDE DEF NamesOf
  <2> QED
    BY <2>5, <2>6, <2>7
<1>4. ASSUME NEW h \in Handlers, Spawn(h)
      PROVE  /\ ~nodeName' => \A x \in Words : host'[x] = "meta"
             /\ \A g \in Handlers : NamesOf(g)'
  <2>1. UNCHANGED <<nodeName, host, touched, view>> /\ Right' = Right /\ touched[h] = {}
    BY <1>4 DEF Spawn
  <2>2. pc'[h] = (IF nodeName THEN "store" ELSE "load")
    BY <1>4 DEF Spawn
  <2>3. NamesOf(h)'
    BY <2>1, <2>2
  <2>4. ASSUME NEW g \in Handlers, g # h PROVE NamesOf(g)'
    <3>1. pc'[g] = pc[g]
      BY <1>4, <2>4 DEF Spawn
    <3> QED
      BY <2>1, <3>1
  <2> QED
    BY <2>1, <2>3, <2>4
<1>5. ASSUME NEW h \in Handlers, Return(h) \/ Report(h) \/ Exit(h)
      PROVE  /\ ~nodeName' => \A x \in Words : host'[x] = "meta"
             /\ \A g \in Handlers : NamesOf(g)'
  <2>1. UNCHANGED <<nodeName, host, touched, view>> /\ Right' = Right
    BY <1>5 DEF Return, Report, Exit
  <2>2. \A g \in Handlers : pc'[g] = pc[g] \/ (pc[g] \in {"running", "report", "exiting"} /\
                                                pc'[g] \in {"report", "exiting", "done"})
    BY <1>5 DEF Return, Report, Exit
  <2>3. ASSUME NEW g \in Handlers PROVE NamesOf(g)'
    <3>1. CASE pc'[g] = pc[g]
      BY <2>1, <3>1
    <3>2. CASE pc[g] \in {"running", "report", "exiting"} /\ pc'[g] \in {"report", "exiting", "done"}
      BY <2>1, <3>2
    <3> QED
      BY <2>2, <3>1, <3>2
  <2> HIDE DEF NamesOf
  <2> QED
    BY <2>1, <2>3
<1>6. CASE UNCHANGED <<nodeName, host, touched, view, pc>>
  <2>1. Right' = Right /\ \A g \in Handlers : NamesOf(g)' = NamesOf(g)
    BY <1>6
  <2> QED
    BY <1>6, <2>1
<1>7. ASSUME NEW h \in Handlers, Expire(h) \/ Panic(h)
      PROVE  UNCHANGED <<nodeName, host, touched, view, pc>>
  BY <1>7 DEF Expire, Panic
<1>8. StopBroadcasting \/ StartCollecting \/ CloseResults \/ Collect \/ FinishRound
      \/ Cancel \/ UNCHANGED broadcasterVars => UNCHANGED <<nodeName, host, touched, view, pc>>
  BY DEF StopBroadcasting, StartCollecting, CloseResults, Collect, FinishRound, Cancel,
         broadcasterVars
<1> QED
  BY <1>1, <1>2, <1>3, <1>4, <1>5, <1>6, <1>7, <1>8, StepCases
-----------------------------------------------------------------------------
\* The books do not change while the channel, the tally and what the handlers
\* that have reported returned stay what they are.
LEMMA BooksFrame ==
  ASSUME Books, Reported' = Reported, results' = results, successCount' = successCount,
         \A g \in Reported : outcome'[g] = outcome[g]
  PROVE  Books'
<1>1. Pending' = Pending /\ Pending \subseteq Reported
  <2>1. Pending' = Pending
    BY DEF Pending
  <2> QED
    BY <2>1 DEF Books
<1>2. Tallied' = Tallied
  BY <1>1 DEF Tallied
<1>3. \A i \in 1..Len(results) : results[i].handler \in Reported
  BY <1>1 DEF Pending
<1>4. \A i \in 1..Len(results) : outcome'[results[i].handler] = outcome[results[i].handler]
  BY <1>3
<1> QED
  BY <1>1, <1>2, <1>4 DEF Books

\* A reported result goes to the end of the channel, under its handler's name.
LEMMA ReportPending ==
  ASSUME BroadcasterInv, NEW h \in Handlers, Report(h)
  PROVE  /\ Len(results) \in Nat
         /\ Len(results') = Len(results) + 1
         /\ \A i \in 1..Len(results) : results'[i] = results[i]
         /\ results'[Len(results) + 1] = [handler |-> h, ok |-> outcome[h] = "ok"]
         /\ Pending' = Pending \cup {h}
<1> DEFINE r == [handler |-> h, ok |-> outcome[h] = "ok"]
<1>1. results' = Append(results, r) /\ results \in Seq(Result)
  BY DEF Report, BroadcasterInv, Phases, BroadcasterTypeOK
<1>2. r \in Result
  BY DEF Result
<1>3. /\ Len(results) \in Nat
      /\ Len(results') = Len(results) + 1
      /\ \A i \in 1..Len(results) : results'[i] = results[i]
      /\ results'[Len(results) + 1] = r
  BY <1>1, <1>2, AppendProperties, LenProperties
<1>4. \A i \in 1..Len(results') : i \in 1..Len(results) \/ i = Len(results) + 1
  BY <1>3
<1>5. Pending' = {results'[i].handler : i \in 1..Len(results')}
  BY DEF Pending
<1>6. \A i \in 1..Len(results') : results'[i].handler \in Pending \cup {h}
  BY <1>3, <1>4 DEF Pending
<1>7. 1..Len(results) \subseteq 1..Len(results') /\ Len(results) + 1 \in 1..Len(results')
  BY <1>3
<1>8. \A x \in Pending : \E i \in 1..Len(results') : x = results'[i].handler
  BY <1>3, <1>7 DEF Pending
<1>9. h = results'[Len(results) + 1].handler
  BY <1>3
<1> QED
  BY <1>3, <1>5, <1>6, <1>7, <1>8, <1>9

\* A reported result enters the channel once, under its handler's name.
LEMMA ReportBooks ==
  ASSUME BroadcasterInv, NEW h \in Handlers, Report(h)
  PROVE  Books'
<1> DEFINE r == [handler |-> h, ok |-> outcome[h] = "ok"]
<1> USE DEF BroadcasterInv, BroadcasterTypeOK, Stages
<1>1. /\ results' = Append(results, r) /\ pc' = [pc EXCEPT ![h] = "exiting"]
      /\ outcome' = outcome /\ successCount' = successCount
  BY DEF Report, Phases
<1>2. pc[h] = "report" /\ h \notin Reported
  BY DEF Report, Reported
<1>3. Reported' = Reported \cup {h}
  BY <1>1 DEF Reported
<1>4. /\ Len(results) \in Nat
      /\ Len(results') = Len(results) + 1
      /\ \A i \in 1..Len(results) : results'[i] = results[i]
      /\ results'[Len(results) + 1] = r
  BY ReportPending
<1>5. \A i \in 1..Len(results') : i \in 1..Len(results) \/ i = Len(results) + 1
  BY <1>4
<1>6. Pending \subseteq Reported /\ h \notin Pending
  BY <1>2 DEF Books
<1>7. Pending' = Pending \cup {h}
  BY ReportPending
<1>8. Cardinality(Pending') = Cardinality(Pending) + 1
  <2>1. IsFiniteSet(Pending)
    BY <1>6, FiniteParts, FS_Subset
  <2> QED
    BY <1>6, <1>7, <2>1, FS_AddElement
<1>9. Tallied' = Tallied
  BY <1>1, <1>2, <1>3, <1>6, <1>7 DEF Tallied
<1>10. \A i \in 1..Len(results') : results'[i].ok = (outcome'[results'[i].handler] = "ok")
  <2>1. ASSUME NEW i \in 1..Len(results)
        PROVE  results'[i].ok = (outcome'[results'[i].handler] = "ok")
    <3>1. results'[i] = results[i]
      BY <1>4
    <3>2. results[i].ok = (outcome[results[i].handler] = "ok")
      BY DEF Books
    <3>3. results'[i].ok = results[i].ok
      BY <3>1
    <3>4. outcome'[results'[i].handler] = outcome[results[i].handler]
      BY <1>1, <3>1
    <3> QED
      BY <3>2, <3>3, <3>4
  <2>2. results'[Len(results) + 1].ok = (outcome'[results'[Len(results) + 1].handler] = "ok")
    BY <1>1, <1>4
  <2> QED
    BY <1>5, <2>1, <2>2
<1>11. ASSUME NEW i \in 1..Len(results'), NEW j \in 1..Len(results'),
              results'[i].handler = results'[j].handler
       PROVE  i = j
  <2>1. \A k \in 1..Len(results) : results'[k].handler \in Pending
    BY <1>4 DEF Pending
  <2>2. results'[Len(results) + 1].handler = h
    BY <1>4
  <2>3. CASE i \in 1..Len(results) /\ j \in 1..Len(results)
    BY <1>4, <1>11, <2>3 DEF Books
  <2> QED
    BY <1>5, <1>6, <1>11, <2>1, <2>2, <2>3
<1>12. Len(results') = Cardinality(Pending') /\ successCount' = Cardinality(Tallied')
  BY <1>1, <1>4, <1>8, <1>9 DEF Books
<1> QED
  BY <1>3, <1>6, <1>7, <1>10, <1>11, <1>12 DEF Books

\* One turn of the range takes the first result off the channel.
LEMMA CollectPending ==
  ASSUME BroadcasterInv, Collect
  PROVE  /\ Len(results) \in Nat /\ Len(results) >= 1
         /\ Len(results') = Len(results) - 1
         /\ \A i \in 1..Len(results') : results'[i] = results[i + 1]
         /\ results[1].handler \in Pending
         /\ Pending' = Pending \ {results[1].handler}
<1> DEFINE hd == results[1].handler
<1>1. results # <<>> /\ results' = Tail(results) /\ results \in Seq(Result)
  BY DEF Collect, BroadcasterInv, BroadcasterTypeOK
<1>2. /\ Len(results) \in Nat /\ Len(results) >= 1
      /\ Len(results') = Len(results) - 1
      /\ \A i \in 1..Len(results') : results'[i] = results[i + 1]
  BY <1>1, HeadTailProperties, EmptySeq, LenProperties
<1>3. 1 \in 1..Len(results)
  BY <1>2
<1>4. hd \in Pending
  BY <1>3 DEF Pending
<1>5. Pending' = Pending \ {hd}
  <2>1. Pending' = {results'[i].handler : i \in 1..Len(results')}
    BY DEF Pending
  <2>2. ASSUME NEW i \in 1..Len(results') PROVE results'[i].handler \in Pending \ {hd}
    <3>1. i + 1 \in 1..Len(results) /\ i + 1 # 1 /\ results'[i] = results[i + 1]
      BY <1>2
    <3> QED
      BY <1>3, <3>1 DEF BroadcasterInv, Books, Pending
  <2>3. ASSUME NEW x \in Pending \ {hd} PROVE \E i \in 1..Len(results') : x = results'[i].handler
    <3>1. PICK j \in 1..Len(results) : x = results[j].handler
      BY DEF Pending
    <3>2. j # 1
      BY <2>3, <3>1
    <3>3. j - 1 \in 1..Len(results') /\ results'[j - 1] = results[(j - 1) + 1] /\ (j - 1) + 1 = j
      BY <1>2, <3>2
    <3> QED
      BY <3>1, <3>3
  <2> QED
    BY <2>1, <2>2, <2>3
<1> QED
  BY <1>2, <1>4, <1>5

\* One turn of the range moves one handler from the channel to the tally.
LEMMA CollectBooks ==
  ASSUME BroadcasterInv, Collect
  PROVE  Books'
<1> DEFINE hd == results[1].handler
<1> USE DEF BroadcasterInv, BroadcasterTypeOK
<1>1. /\ results # <<>> /\ results' = Tail(results)
      /\ successCount' = IF Head(results).ok THEN successCount + 1 ELSE successCount
      /\ pc' = pc /\ outcome' = outcome
  BY DEF Collect
<1>2. /\ Len(results) \in Nat /\ Len(results) >= 1
      /\ Len(results') = Len(results) - 1
      /\ \A i \in 1..Len(results') : results'[i] = results[i + 1]
  BY CollectPending
<1>3. Head(results) = results[1] /\ 1 \in 1..Len(results)
  BY <1>1, <1>2
<1>4. hd \in Pending /\ Pending \subseteq Reported /\ Reported' = Reported
  BY <1>1, <1>3 DEF Books, Pending, Reported
<1>5. Pending' = Pending \ {hd}
  BY CollectPending
<1>6. Cardinality(Pending') = Cardinality(Pending) - 1
  <2>1. IsFiniteSet(Pending)
    BY <1>4, FiniteParts, FS_Subset
  <2>2. ASSUME NEW x \in Pending PROVE Cardinality(Pending \ {x}) = Cardinality(Pending) - 1
    BY <2>1, FS_RemoveElement
  <2> QED
    BY <1>4, <1>5, <2>2
<1>7. hd \notin Tallied /\ (Head(results).ok <=> outcome[hd] = "ok")
  BY <1>3, <1>4 DEF Tallied, Books
<1>8. Tallied' = IF outcome[hd] = "ok" THEN Tallied \cup {hd} ELSE Tallied
  BY <1>1, <1>4, <1>5 DEF Tallied
<1>9. successCount' = Cardinality(Tallied')
  <2>1. IsFiniteSet(Tallied) /\ successCount = Cardinality(Tallied)
    BY FiniteParts DEF Books
  <2>2. CASE outcome[hd] = "ok"
    BY <1>1, <1>7, <1>8, <2>1, <2>2, FS_AddElement
  <2>3. CASE outcome[hd] # "ok"
    BY <1>1, <1>7, <1>8, <2>1, <2>3
  <2> QED
    BY <2>2, <2>3
<1>10. \A i \in 1..Len(results') : results'[i].ok = (outcome'[results'[i].handler] = "ok")
  <2> TAKE i \in 1..Len(results')
  <2>1. i + 1 \in 1..Len(results) /\ results'[i] = results[i + 1]
    BY <1>2
  <2> QED
    BY <1>1, <2>1 DEF Books
<1>11. ASSUME NEW i \in 1..Len(results'), NEW j \in 1..Len(results'),
              results'[i].handler = results'[j].handler
       PROVE  i = j
  <2>1. /\ i + 1 \in 1..Len(results) /\ results'[i] = results[i + 1]
        /\ j + 1 \in 1..Len(results) /\ results'[j] = results[j + 1]
    BY <1>2
  <2>2. i + 1 = j + 1
    BY <1>11, <2>1 DEF Books
  <2> QED
    BY <2>2
<1>12. Len(results') = Cardinality(Pending')
  BY <1>2, <1>6 DEF Books
<1> QED
  BY <1>4, <1>5, <1>9, <1>10, <1>11, <1>12 DEF Books

\* The results channel and the tally together hold each reported result once.
LEMMA StepBooks ==
  ASSUME BroadcasterInv, Moves
  PROVE  Books'
<1> USE DEF BroadcasterInv, BroadcasterTypeOK, Stages, resultVars
<1>1. CASE ReceiveEvent
  <2>1. results' = <<>> /\ successCount' = 0 /\ Len(results') = 0
    BY <1>1 DEF ReceiveEvent
  <2>2. Pending' = {} /\ Reported' = {}
    BY <1>1, <2>1 DEF ReceiveEvent, Pending, Reported
  <2>3. Tallied' = {}
    BY <2>2 DEF Tallied
  <2> QED
    BY <2>1, <2>2, <2>3, FS_EmptySet DEF Books
<1>2. ASSUME NEW h \in Handlers, Report(h) PROVE Books'
  BY <1>2, ReportBooks
<1>3. CASE Collect
  BY <1>3, CollectBooks
<1>4. ASSUME NEW h \in Handlers,
             \/ Spawn(h) \/ Return(h) \/ Exit(h)
             \/ \E w \in Words : StoreWord(h, w) \/ LoadWord(h, w)
      PROVE  Books'
  <2>1. results' = results /\ successCount' = successCount
    BY <1>4 DEF Spawn, Return, Exit, StoreWord, LoadWord
  <2>2. \A g \in Handlers : pc'[g] \in {"exiting", "done"} <=> pc[g] \in {"exiting", "done"}
    BY <1>4 DEF Spawn, Return, Exit, StoreWord, LoadWord
  <2>3. Reported' = Reported
    BY <2>2 DEF Reported
  <2>4. \A g \in Reported : outcome'[g] = outcome[g]
    BY <1>4 DEF Spawn, Return, Exit, StoreWord, LoadWord, Reported
  <2> QED
    BY <2>1, <2>3, <2>4, BooksFrame
<1>5. ASSUME UNCHANGED <<pc, outcome, results, successCount>> PROVE Books'
  BY <1>5, BooksFrame DEF Reported
<1>6. ASSUME NEW h \in Handlers, Expire(h) \/ Panic(h)
      PROVE  UNCHANGED <<pc, outcome, results, successCount>>
  BY <1>6 DEF Expire, Panic
<1>7. StopBroadcasting \/ StartCollecting \/ CloseResults \/ FinishRound
      \/ Cancel \/ UNCHANGED broadcasterVars => UNCHANGED <<pc, outcome, results, successCount>>
  BY DEF StopBroadcasting, StartCollecting, CloseResults, FinishRound, Cancel, broadcasterVars
<1> QED
  BY <1>1, <1>2, <1>3, <1>4, <1>5, <1>6, <1>7, StepCases
-----------------------------------------------------------------------------
\* Whatever happens, every part of the invariant stays.
LEMMA StepInv ==
  ASSUME BroadcasterInv, Moves
  PROVE  BroadcasterInv'
  BY StepType, StepWg, StepPhases, StepNames, StepOutcomes, StepBooks, StepCrash
     DEF BroadcasterInv

\* Broadcaster's inductive invariant holds of every behaviour.
THEOREM BroadcasterInvariant == Spec => []BroadcasterInv
<1>1. BroadcasterInv /\ [Next]_broadcasterVars => BroadcasterInv'
  BY StepInv DEF Next, Moves
<1> QED
  BY <1>1, InitInv, PTL DEF Spec

\* Type correctness of broadcastTerminationEvents and its goroutines.
THEOREM BroadcasterTypeCorrect == Spec => []BroadcasterTypeOK
  BY BroadcasterInvariant, PTL DEF BroadcasterInv

\* The unlocked writes to event.Hostname never show: every HandleTermination is
\* called with one whole name.
THEOREM HostnameNeverTorn == Spec => []HostnameWhole
<1>1. BroadcasterInv => HostnameWhole
  <2> SUFFICES ASSUME BroadcasterInv, NEW h \in Handlers,
                      pc[h] \in {"running", "report", "exiting", "done"}
               PROVE  view[h] = [w \in Words |-> IF nodeName THEN "node" ELSE "meta"]
    BY DEF HostnameWhole
  <2>1. \A w \in Words : view[h][w] = Right
    BY DEF BroadcasterInv, Names
  <2>2. view[h] \in [Words -> Whose \cup {"none"}]
    BY DEF BroadcasterInv, BroadcasterTypeOK
  <2> QED
    BY <2>1, <2>2 DEF Right
<1> QED
  BY <1>1, BroadcasterInvariant, PTL

\* close(results) never meets a later send: only a nil handler can panic.
THEOREM OnlyNilPanics == Spec => []CrashOnlyFromBroken
  BY BroadcasterInvariant, PTL DEF BroadcasterInv

\* What has been reported and not collected leaves room for whoever reports.
LEMMA InvRoom ==
  ASSUME BroadcasterInv
  PROVE  ReportNeverBlocks
<1>1. ASSUME NEW h \in Handlers, pc[h] = "report"
      PROVE  Len(results) < Capacity
  <2>1. Pending \subseteq Handlers \ {h} /\ Len(results) = Cardinality(Pending)
    BY <1>1 DEF BroadcasterInv, Books, Reported
  <2>2. /\ IsFiniteSet(Handlers \ {h})
        /\ Cardinality(Handlers \ {h}) = Cardinality(Handlers) - 1
    BY HandlersAssumption, FS_RemoveElement
  <2>3. IsFiniteSet(Pending) /\ Cardinality(Pending) <= Cardinality(Handlers \ {h})
    BY <2>1, <2>2, FS_Subset
  <2>4. Cardinality(Pending) \in Nat /\ Cardinality(Handlers) \in Nat
    BY <2>3, FiniteParts, FS_CardinalityType
  <2> QED
    BY <2>1, <2>2, <2>3, <2>4 DEF Capacity
<1> QED
  BY <1>1 DEF ReportNeverBlocks

\* A buffer of len(handlers) results never makes a handler goroutine wait.
THEOREM BufferSuffices == Spec => []ReportNeverBlocks
  BY InvRoom, BroadcasterInvariant, PTL

\* No handler goroutine outlives its round.
THEOREM NoOverlap == Spec => []RoundsDoNotOverlap
<1>1. BroadcasterInv => RoundsDoNotOverlap
  BY DEF BroadcasterInv, Phases, RoundsDoNotOverlap
<1> QED
  BY <1>1, BroadcasterInvariant, PTL

\* With the channel empty and every handler done, the books are the summary.
LEMMA InvSummary ==
  ASSUME BroadcasterInv
  PROVE  SummaryExact
<1> SUFFICES ASSUME bc \in {"select", "done"}, received > 0
             PROVE  /\ \A h \in Handlers : outcome[h] # "none"
                    /\ successCount = Cardinality({h \in Handlers : outcome[h] = "ok"})
  BY DEF SummaryExact
<1>1. received # 0
  BY DEF BroadcasterInv, BroadcasterTypeOK
<1>2. results = <<>> /\ \A h \in Handlers : pc[h] = "done"
  BY <1>1 DEF BroadcasterInv, Phases
<1>3. Pending = {} /\ Reported = Handlers
  BY <1>2 DEF Pending, Reported
<1>4. Tallied = {h \in Handlers : outcome[h] = "ok"}
  BY <1>3 DEF Tallied
<1> QED
  BY <1>2, <1>4 DEF BroadcasterInv, Books, Outcomes

\* The summary logged at the end of a round counts exactly the handlers that
\* returned no error.
THEOREM SummaryIsExact == Spec => []SummaryExact
  BY InvSummary, BroadcasterInvariant, PTL
-----------------------------------------------------------------------------
(* Why a round ends.  The liveness properties of Broadcaster rest on two     *)
(* facts that need no fairness: nobody in a round waits for something that   *)
(* cannot come (NeverStuck), and only so many steps can be taken in one      *)
(* (StepsRunOut).                                                            *)

\* Nobody waits in vain: a goroutine that copies a word has one left to copy,
\* one that reports finds the channel open and with room, and once no handler
\* goroutine is alive the collector has something to do.
NeverStuck ==
  /\ \A h \in Handlers : pc[h] \in {"store", "load"} => touched[h] # Words
  /\ \A h \in Handlers : pc[h] = "report" => ~closed /\ Len(results) < Capacity
  /\ bc = "collect" /\ (\A h \in Handlers : pc[h] \notin Live) =>
       results # <<>> \/ closed \/ handlerWg = 0

\* What is ahead of the goroutines of a round: the words each handler's has to
\* copy, its other steps up to its result being collected, and the steps taken
\* once for all of them.
WordAhead(h, move, w) ==
  \/ pc[h] = "unspawned"
  \/ pc[h] = "store" /\ (move = "load" \/ w \notin touched[h])
  \/ pc[h] = "load" /\ move = "load" /\ w \notin touched[h]

StepAhead(h, step) ==
  \/ step = "spawn" /\ pc[h] = "unspawned"
  \/ step = "expire" /\ ~expired[h]
  \/ step = "return" /\ pc[h] \notin {"report", "exiting", "done"}
  \/ step = "report" /\ pc[h] \notin {"exiting", "done"}
  \/ step = "exit" /\ pc[h] # "done"
  \/ step = "collect" /\ h \notin Reported \ Pending

TurnAhead(turn) ==
  \/ turn = "start" /\ bc = "spawn"
  \/ turn = "close" /\ ~closed
  \/ turn = "finish" /\ bc \in {"spawn", "collect"}
  \/ turn = "stop" /\ bc # "done"
  \/ turn = "panic" /\ ~crashed

AllWords == Handlers \X ({"store", "load"} \X Words)
AllSteps == Handlers \X {"spawn", "expire", "return", "report", "exit", "collect"}
AllTurns == {"start", "close", "finish", "stop", "panic"}

WordsAhead == {x \in AllWords : WordAhead(x[1], x[2][1], x[2][2])}
StepsAhead == {x \in AllSteps : StepAhead(x[1], x[2])}
TurnsAhead == {t \in AllTurns : TurnAhead(t)}

StepsLeft == Cardinality(WordsAhead) + Cardinality(StepsAhead) + Cardinality(TurnsAhead)

\* Whatever is done between the arrival of an event and the next brings the end
\* nearer: nothing that a round's goroutines do can go on for ever.
StepsRunOut ==
  /\ [](StepsLeft \in 0..(10 * Cardinality(Handlers) + 5))
  /\ [][ReceiveEvent \/ Cancel \/ StepsLeft' < StepsLeft]_broadcasterVars

\* A goroutine that is copying has a word left to copy.
Copying == \A h \in Handlers : pc[h] \in {"store", "load"} => touched[h] # Words

\* The last word copied ends the copying.
LEMMA StepCopying ==
  ASSUME BroadcasterInv, Copying, Moves
  PROVE  Copying'
<1> USE DEF BroadcasterInv, BroadcasterTypeOK, Copying, Stages, Words
<1>1. CASE ReceiveEvent
  BY <1>1 DEF ReceiveEvent
<1>2. ASSUME NEW h \in Handlers, Spawn(h) PROVE Copying'
  BY <1>2 DEF Spawn, raceVars, Names
<1>3. ASSUME NEW h \in Handlers, NEW w \in Words, StoreWord(h, w) PROVE Copying'
  BY <1>3 DEF StoreWord
<1>4. ASSUME NEW h \in Handlers, NEW w \in Words, LoadWord(h, w) PROVE Copying'
  BY <1>4 DEF LoadWord
<1>5. ASSUME NEW h \in Handlers, Return(h) \/ Report(h) \/ Exit(h) PROVE Copying'
  BY <1>5 DEF Return, Report, Exit, raceVars
<1>6. ASSUME NEW h \in Handlers, Expire(h) \/ Panic(h) PROVE UNCHANGED <<pc, touched>>
  BY <1>6 DEF Expire, Panic, raceVars
<1>7. StopBroadcasting \/ StartCollecting \/ CloseResults \/ Collect \/ FinishRound
      \/ Cancel \/ UNCHANGED broadcasterVars => UNCHANGED <<pc, touched>>
  BY DEF StopBroadcasting, StartCollecting, CloseResults, Collect, FinishRound, Cancel,
         broadcasterVars, raceVars
<1>8. UNCHANGED <<pc, touched>> => Copying'
  OBVIOUS
<1> HIDE DEF BroadcasterInv, BroadcasterTypeOK, Copying, Stages, Words
<1> QED
  BY <1>1, <1>2, <1>3, <1>4, <1>5, <1>6, <1>7, <1>8, StepCases

LEMMA CopyingHolds == Spec => []Copying
<1>1. BroadcasterInit => Copying
  BY DEF BroadcasterInit, Copying
<1>2. BroadcasterInv /\ Copying /\ [Next]_broadcasterVars => Copying'
  BY StepCopying DEF Next, Moves
<1> QED
  BY <1>1, <1>2, BroadcasterInvariant, PTL DEF Spec

\* In the states of the invariant nobody waits in vain.
LEMMA InvNeverStuck ==
  ASSUME BroadcasterInv, Copying
  PROVE  NeverStuck
<1>1. ASSUME NEW h \in Handlers, pc[h] = "report" PROVE ~closed /\ Len(results) < Capacity
  BY <1>1, InvRoom DEF BroadcasterInv, Phases, ReportNeverBlocks
<1>2. ASSUME \A h \in Handlers : pc[h] \notin Live PROVE handlerWg = 0
  <2>1. LiveHandlers = {}
    BY <1>2 DEF LiveHandlers
  <2> QED
    BY <2>1, FS_EmptySet DEF BroadcasterInv, WgExact
<1> QED
  BY <1>1, <1>2 DEF NeverStuck, Copying

\* No goroutine of a round waits for one that waits for it, or for nothing: for
\* any number of handlers only a HandleTermination can hold a round up.
THEOREM NobodyWaitsInVain == Spec => []NeverStuck
<1>1. BroadcasterInv /\ Copying => NeverStuck
  BY InvNeverStuck
<1> QED
  BY <1>1, BroadcasterInvariant, CopyingHolds, PTL
-----------------------------------------------------------------------------
\* No more is ahead than was before, and something less.
Nearer ==
  /\ WordsAhead' \subseteq WordsAhead
  /\ StepsAhead' \subseteq StepsAhead
  /\ TurnsAhead' \subseteq TurnsAhead
  /\ <<WordsAhead, StepsAhead, TurnsAhead>>' # <<WordsAhead, StepsAhead, TurnsAhead>>

\* How much there is in a round: ten steps for each handler, five for all.
LEMMA Everything ==
  /\ IsFiniteSet(AllWords) /\ Cardinality(AllWords) = 4 * Cardinality(Handlers)
  /\ IsFiniteSet(AllSteps) /\ Cardinality(AllSteps) = 6 * Cardinality(Handlers)
  /\ IsFiniteSet(AllTurns) /\ Cardinality(AllTurns) = 5
<1>1. ASSUME NEW S, IsFiniteSet(S), NEW x, x \notin S, NEW n \in Nat, Cardinality(S) = n
      PROVE  IsFiniteSet(S \cup {x}) /\ Cardinality(S \cup {x}) = n + 1
  BY <1>1, FS_AddElement
<1>2. ASSUME NEW x, NEW y, x # y
      PROVE  IsFiniteSet({x} \cup {y}) /\ Cardinality({x} \cup {y}) = 2
  <2>1. IsFiniteSet({x}) /\ Cardinality({x}) = 1 /\ y \notin {x}
    BY <1>2, FS_Singleton
  <2>2. IsFiniteSet({x} \cup {y}) /\ Cardinality({x} \cup {y}) = Cardinality({x}) + 1
    BY <2>1, FS_AddElement
  <2> QED
    BY <2>1, <2>2
<1>3. /\ IsFiniteSet({"store", "load"}) /\ Cardinality({"store", "load"}) = 2
      /\ IsFiniteSet(Words) /\ Cardinality(Words) = 2
  <2>1. {"store", "load"} = {"store"} \cup {"load"} /\ Words = {"ptr"} \cup {"len"}
    BY DEF Words
  <2>2. IsFiniteSet({"store"} \cup {"load"}) /\ Cardinality({"store"} \cup {"load"}) = 2
    BY <1>2
  <2>3. IsFiniteSet({"ptr"} \cup {"len"}) /\ Cardinality({"ptr"} \cup {"len"}) = 2
    BY <1>2
  <2> QED
    BY <2>1, <2>2, <2>3
<1>4. /\ IsFiniteSet({"store", "load"} \X Words)
      /\ Cardinality({"store", "load"} \X Words) = 4
  BY <1>3, FS_Product
<1>5. IsFiniteSet(AllWords) /\ Cardinality(AllWords) = 4 * Cardinality(Handlers)
  <2> DEFINE P == {"store", "load"} \X Words
  <2>1. IsFiniteSet(Handlers) /\ Cardinality(Handlers) \in Nat
    BY HandlersAssumption, FS_CardinalityType
  <2>2. IsFiniteSet(Handlers \X P) /\ Cardinality(Handlers \X P) = Cardinality(Handlers) * Cardinality(P)
    BY <1>4, <2>1, FS_Product
  <2>3. AllWords = Handlers \X P /\ Cardinality(P) = 4
    BY <1>4 DEF AllWords
  <2> HIDE DEF P
  <2> QED
    BY <2>1, <2>2, <2>3
<1> DEFINE two   == {"spawn"} \cup {"expire"}
           three == two \cup {"return"}
           four  == three \cup {"report"}
           five  == four \cup {"exit"}
           six   == five \cup {"collect"}
<1>6. IsFiniteSet(two) /\ Cardinality(two) = 2
  BY <1>2
<1>7. IsFiniteSet(three) /\ Cardinality(three) = 3
  BY <1>1, <1>6
<1>8. IsFiniteSet(four) /\ Cardinality(four) = 4
  BY <1>1, <1>7
<1>9. IsFiniteSet(five) /\ Cardinality(five) = 5
  BY <1>1, <1>8
<1>10. IsFiniteSet(six) /\ Cardinality(six) = 6
  BY <1>1, <1>9
<1>11. six = {"spawn", "expire", "return", "report", "exit", "collect"}
  OBVIOUS
<1>12. IsFiniteSet(AllSteps) /\ Cardinality(AllSteps) = 6 * Cardinality(Handlers)
  <2>1. AllSteps = Handlers \X six
    BY <1>11 DEF AllSteps
  <2> HIDE DEF six
  <2> QED
    BY <1>10, <2>1, HandlersAssumption, FS_Product, FS_CardinalityType
<1> DEFINE twoTurns   == {"start"} \cup {"close"}
           threeTurns == twoTurns \cup {"finish"}
           fourTurns  == threeTurns \cup {"stop"}
           fiveTurns  == fourTurns \cup {"panic"}
<1>13. IsFiniteSet(twoTurns) /\ Cardinality(twoTurns) = 2
  BY <1>2
<1>14. IsFiniteSet(threeTurns) /\ Cardinality(threeTurns) = 3
  BY <1>1, <1>13
<1>15. IsFiniteSet(fourTurns) /\ Cardinality(fourTurns) = 4
  BY <1>1, <1>14
<1>16. IsFiniteSet(fiveTurns) /\ Cardinality(fiveTurns) = 5
  BY <1>1, <1>15
<1>17. AllTurns = fiveTurns
  BY DEF AllTurns
<1> QED
  BY <1>5, <1>12, <1>16, <1>17

\* Steps left never exceed what there is in a round.
LEMMA Bounded == StepsLeft \in 0..(10 * Cardinality(Handlers) + 5)
<1>1. ASSUME NEW S, IsFiniteSet(S), NEW T, T \subseteq S
      PROVE  /\ Cardinality(T) \in Nat /\ Cardinality(S) \in Nat
             /\ Cardinality(T) <= Cardinality(S)
  BY <1>1, FS_Subset, FS_CardinalityType
<1>2. WordsAhead \subseteq AllWords /\ StepsAhead \subseteq AllSteps /\ TurnsAhead \subseteq AllTurns
  BY DEF WordsAhead, StepsAhead, TurnsAhead
<1>3. /\ Cardinality(WordsAhead) \in Nat /\ Cardinality(WordsAhead) <= 4 * Cardinality(Handlers)
      /\ Cardinality(StepsAhead) \in Nat /\ Cardinality(StepsAhead) <= 6 * Cardinality(Handlers)
      /\ Cardinality(TurnsAhead) \in Nat /\ Cardinality(TurnsAhead) <= 5
  BY <1>1, <1>2, Everything
<1>4. Cardinality(Handlers) \in Nat
  BY HandlersAssumption, FS_CardinalityType
<1> QED
  BY <1>3, <1>4 DEF StepsLeft

\* Less ahead is fewer steps left.
LEMMA FewerLeft ==
  ASSUME Nearer
  PROVE  StepsLeft' < StepsLeft
<1>1. IsFiniteSet(WordsAhead) /\ IsFiniteSet(StepsAhead) /\ IsFiniteSet(TurnsAhead)
  BY Everything, FS_Subset DEF WordsAhead, StepsAhead, TurnsAhead
<1>2. ASSUME NEW S, IsFiniteSet(S), NEW T, T \subseteq S
      PROVE  /\ Cardinality(T) \in Nat /\ Cardinality(S) \in Nat
             /\ Cardinality(T) <= Cardinality(S)
             /\ T # S => Cardinality(T) # Cardinality(S)
  BY <1>2, FS_Subset, FS_CardinalityType
<1>3. /\ Cardinality(WordsAhead') \in Nat /\ Cardinality(WordsAhead) \in Nat
      /\ Cardinality(WordsAhead') <= Cardinality(WordsAhead)
      /\ WordsAhead' # WordsAhead => Cardinality(WordsAhead') # Cardinality(WordsAhead)
  BY <1>1, <1>2 DEF Nearer
<1>4. /\ Cardinality(StepsAhead') \in Nat /\ Cardinality(StepsAhead) \in Nat
      /\ Cardinality(StepsAhead') <= Cardinality(StepsAhead)
      /\ StepsAhead' # StepsAhead => Cardinality(StepsAhead') # Cardinality(StepsAhead)
  BY <1>1, <1>2 DEF Nearer
<1>5. /\ Cardinality(TurnsAhead') \in Nat /\ Cardinality(TurnsAhead) \in Nat
      /\ Cardinality(TurnsAhead') <= Cardinality(TurnsAhead)
      /\ TurnsAhead' # TurnsAhead => Cardinality(TurnsAhead') # Cardinality(TurnsAhead)
  BY <1>1, <1>2 DEF Nearer
<1>6. WordsAhead' # WordsAhead \/ StepsAhead' # StepsAhead \/ TurnsAhead' # TurnsAhead
  BY DEF Nearer
<1> HIDE DEF WordsAhead, StepsAhead, TurnsAhead
<1> QED
  BY <1>3, <1>4, <1>5, <1>6 DEF StepsLeft

\* The sets of what is ahead, member by member.
LEMMA Shrinking ==
  ASSUME \A h \in Handlers, m \in {"store", "load"}, w \in Words :
            WordAhead(h, m, w)' => WordAhead(h, m, w),
         \A h \in Handlers :
            \A s \in {"spawn", "expire", "return", "report", "exit", "collect"} :
              StepAhead(h, s)' => StepAhead(h, s),
         \A t \in AllTurns : TurnAhead(t)' => TurnAhead(t),
         \/ \E h \in Handlers, m \in {"store", "load"}, w \in Words :
              WordAhead(h, m, w) /\ ~WordAhead(h, m, w)'
         \/ \E h \in Handlers :
              \E s \in {"spawn", "expire", "return", "report", "exit", "collect"} :
                StepAhead(h, s) /\ ~StepAhead(h, s)'
         \/ \E t \in AllTurns : TurnAhead(t) /\ ~TurnAhead(t)'
  PROVE  Nearer
<1>1. WordsAhead' \subseteq WordsAhead
  BY DEF WordsAhead, AllWords
<1>2. StepsAhead' \subseteq StepsAhead
  BY DEF StepsAhead, AllSteps
<1>3. TurnsAhead' \subseteq TurnsAhead
  BY DEF TurnsAhead
<1>4. ASSUME NEW h \in Handlers, NEW m \in {"store", "load"}, NEW w \in Words,
             WordAhead(h, m, w), ~WordAhead(h, m, w)'
      PROVE  WordsAhead' # WordsAhead
  <2>1. <<h, <<m, w>>>> \in AllWords
    BY DEF AllWords
  <2>2. <<h, <<m, w>>>> \in WordsAhead /\ <<h, <<m, w>>>> \notin WordsAhead'
    BY <1>4, <2>1 DEF WordsAhead
  <2> QED
    BY <2>2
<1>5. ASSUME NEW h \in Handlers,
             NEW s \in {"spawn", "expire", "return", "report", "exit", "collect"},
             StepAhead(h, s), ~StepAhead(h, s)'
      PROVE  StepsAhead' # StepsAhead
  <2>1. <<h, s>> \in AllSteps
    BY DEF AllSteps
  <2>2. <<h, s>> \in StepsAhead /\ <<h, s>> \notin StepsAhead'
    BY <1>5, <2>1 DEF StepsAhead
  <2> QED
    BY <2>2
<1>6. ASSUME NEW t \in AllTurns, TurnAhead(t), ~TurnAhead(t)'
      PROVE  TurnsAhead' # TurnsAhead
  BY <1>6 DEF TurnsAhead
<1>7. \/ WordsAhead' # WordsAhead \/ StepsAhead' # StepsAhead \/ TurnsAhead' # TurnsAhead
  BY <1>4, <1>5, <1>6
<1> QED
  BY <1>1, <1>2, <1>3, <1>7 DEF Nearer

\* Every step of a round leaves less ahead than there was.
LEMMA StepNearer ==
  ASSUME BroadcasterInv, Copying, Moves, ~ReceiveEvent, ~Cancel, ~UNCHANGED broadcasterVars
  PROVE  Nearer
<1> USE DEF BroadcasterInv, BroadcasterTypeOK, Stages, Words, AllTurns, WordAhead, StepAhead,
            TurnAhead
<1>1. ASSUME NEW h \in Handlers, Spawn(h) PROVE Nearer
  <2>1. UNCHANGED <<bc, closed, crashed, touched, expired, results>>
    BY <1>1 DEF Spawn, raceVars
  <2>2. pc[h] = "unspawned" /\ pc' = [pc EXCEPT ![h] = IF nodeName THEN "store" ELSE "load"]
    BY <1>1 DEF Spawn
  <2>3. Reported' = Reported /\ Pending' = Pending
    BY <2>1, <2>2 DEF Reported, Pending
  <2>4. StepAhead(h, "spawn") /\ ~StepAhead(h, "spawn")'
    BY <2>2
  <2> QED
    BY <2>1, <2>2, <2>3, <2>4, Shrinking
<1>2. ASSUME NEW h \in Handlers, NEW w \in Words, StoreWord(h, w) PROVE Nearer
  <2>1. UNCHANGED <<bc, closed, crashed, expired, results>>
    BY <1>2 DEF StoreWord, resultVars
  <2>2. /\ pc[h] = "store" /\ w \notin touched[h]
        /\ \/ /\ touched[h] \cup {w} = Words
              /\ touched' = [touched EXCEPT ![h] = {}]
              /\ pc' = [pc EXCEPT ![h] = "load"]
           \/ /\ touched' = [touched EXCEPT ![h] = touched[h] \cup {w}]
              /\ pc' = pc
    BY <1>2 DEF StoreWord
  <2>3. Reported' = Reported /\ Pending' = Pending
    BY <2>1, <2>2 DEF Reported, Pending
  <2>4. WordAhead(h, "store", w) /\ ~WordAhead(h, "store", w)'
    BY <2>2
  <2> QED
    BY <2>1, <2>2, <2>3, <2>4, Shrinking
<1>3. ASSUME NEW h \in Handlers, NEW w \in Words, LoadWord(h, w) PROVE Nearer
  <2>1. UNCHANGED <<bc, closed, crashed, expired, results>>
    BY <1>3 DEF LoadWord, resultVars
  <2>2. /\ pc[h] = "load" /\ w \notin touched[h]
        /\ touched' = [touched EXCEPT ![h] = touched[h] \cup {w}]
        /\ pc' = [pc EXCEPT ![h] = "running"] \/ pc' = pc
    BY <1>3 DEF LoadWord
  <2>3. Reported' = Reported /\ Pending' = Pending
    BY <2>1, <2>2 DEF Reported, Pending
  <2>4. WordAhead(h, "load", w) /\ ~WordAhead(h, "load", w)'
    BY <2>2
  <2> QED
    BY <2>1, <2>2, <2>3, <2>4, Shrinking
<1>4. ASSUME NEW h \in Handlers, Expire(h) PROVE Nearer
  <2>1. UNCHANGED <<bc, closed, crashed, pc, touched, results>>
    BY <1>4 DEF Expire, raceVars, resultVars
  <2>2. ~expired[h] /\ expired' = [expired EXCEPT ![h] = TRUE]
    BY <1>4 DEF Expire
  <2>3. Reported' = Reported /\ Pending' = Pending
    BY <2>1 DEF Reported, Pending
  <2>4. StepAhead(h, "expire") /\ ~StepAhead(h, "expire")'
    BY <2>2
  <2> QED
    BY <2>1, <2>2, <2>3, <2>4, Shrinking
<1>5. ASSUME NEW h \in Handlers, Return(h) PROVE Nearer
  <2>1. UNCHANGED <<bc, closed, crashed, touched, expired, results>>
    BY <1>5 DEF Return, raceVars, resultVars
  <2>2. pc[h] = "running" /\ pc' = [pc EXCEPT ![h] = "report"]
    BY <1>5 DEF Return
  <2>3. Reported' = Reported /\ Pending' = Pending
    BY <2>1, <2>2 DEF Reported, Pending
  <2>4. StepAhead(h, "return") /\ ~StepAhead(h, "return")'
    BY <2>2
  <2> QED
    BY <2>1, <2>2, <2>3, <2>4, Shrinking
<1>6. ASSUME NEW h \in Handlers, Report(h) PROVE Nearer
  <2>1. UNCHANGED <<bc, closed, crashed, touched, expired>>
    BY <1>6 DEF Report, raceVars, Phases
  <2>2. pc[h] = "report" /\ pc' = [pc EXCEPT ![h] = "exiting"]
    BY <1>6 DEF Report, Phases
  <2>3. Reported' = Reported \cup {h} /\ Pending' = Pending \cup {h} /\ h \notin Reported
    <3>1. Pending' = Pending \cup {h}
      BY <1>6, ReportPending
    <3>2. Reported' = Reported \cup {h} /\ h \notin Reported
      BY <2>2 DEF Reported
    <3> QED
      BY <3>1, <3>2
  <2>4. StepAhead(h, "report") /\ ~StepAhead(h, "report")'
    BY <2>2
  <2> QED
    BY <2>1, <2>2, <2>3, <2>4, Shrinking
<1>7. ASSUME NEW h \in Handlers, Exit(h) PROVE Nearer
  <2>1. UNCHANGED <<bc, closed, crashed, touched, expired, results>>
    BY <1>7 DEF Exit, raceVars
  <2>2. pc[h] = "exiting" /\ pc' = [pc EXCEPT ![h] = "done"]
    BY <1>7 DEF Exit
  <2>3. Reported' = Reported /\ Pending' = Pending
    BY <2>1, <2>2 DEF Reported, Pending
  <2>4. StepAhead(h, "exit") /\ ~StepAhead(h, "exit")'
    BY <2>2
  <2> QED
    BY <2>1, <2>2, <2>3, <2>4, Shrinking
<1>8. CASE Collect
  <2>1. UNCHANGED <<bc, closed, crashed, pc, touched, expired>>
    BY <1>8 DEF Collect, raceVars
  <2>2. PICK g \in Pending : Pending' = Pending \ {g}
    BY <1>8, CollectPending
  <2>3. Reported' = Reported /\ g \in Reported
    BY <2>1 DEF Reported, Books
  <2>4. g \in Handlers /\ StepAhead(g, "collect") /\ ~StepAhead(g, "collect")'
    BY <2>2, <2>3 DEF Reported
  <2> QED
    BY <2>1, <2>2, <2>3, <2>4, Shrinking
<1>9. CASE StartCollecting \/ CloseResults \/ FinishRound \/ StopBroadcasting
  <2>1. UNCHANGED <<crashed, pc, touched, expired, results>>
    BY <1>9 DEF StartCollecting, CloseResults, FinishRound, StopBroadcasting, raceVars, resultVars
  <2>2. Reported' = Reported /\ Pending' = Pending
    BY <2>1 DEF Reported, Pending
  <2>3. \/ closed' = closed /\ \/ bc = "spawn" /\ bc' = "collect"
                               \/ bc = "collect" /\ bc' = "select"
                               \/ bc = "select" /\ bc' = "done"
        \/ ~closed /\ closed' /\ bc' = bc
    BY <1>9 DEF StartCollecting, CloseResults, FinishRound, StopBroadcasting, resultVars
  <2>4. /\ \A t \in AllTurns : TurnAhead(t)' => TurnAhead(t)
        /\ \E t \in AllTurns : TurnAhead(t) /\ ~TurnAhead(t)'
    BY <2>1, <2>3
  <2> QED
    BY <2>1, <2>2, <2>4, Shrinking
<1>10. ASSUME NEW h \in Handlers, Panic(h) PROVE Nearer
  <2>1. UNCHANGED <<bc, closed, pc, touched, expired, results>> /\ ~crashed /\ crashed'
    BY <1>10 DEF Panic, raceVars, resultVars
  <2>2. Reported' = Reported /\ Pending' = Pending
    BY <2>1 DEF Reported, Pending
  <2>3. "panic" \in AllTurns /\ TurnAhead("panic") /\ ~TurnAhead("panic")'
    BY <2>1
  <2> QED
    BY <2>1, <2>2, <2>3, Shrinking
<1> QED
  BY <1>1, <1>2, <1>3, <1>4, <1>5, <1>6, <1>7, <1>8, <1>9, <1>10, StepCases

\* A round is over after a bounded number of steps, whatever the number of
\* handlers and however their goroutines are scheduled.
THEOREM RoundStepsRunOut == Spec => StepsRunOut
<1>1. BroadcasterInv /\ Copying /\ [Next]_broadcasterVars
      => [ReceiveEvent \/ Cancel \/ StepsLeft' < StepsLeft]_broadcasterVars
  BY StepNearer, FewerLeft DEF Next, Moves
<1>2. StepsLeft \in 0..(10 * Cardinality(Handlers) + 5)
  BY Bounded
<1> QED
  BY <1>1, <1>2, BroadcasterInvariant, CopyingHolds, PTL DEF Spec, StepsRunOut
-----------------------------------------------------------------------------
(***************************************************************************)
(* Liveness.  tlapm does not know when an action is enabled: that the      *)
(* guards below enable the actions the fairness is about is a hypothesis   *)
(* of the theorems.  It is a state predicate, which TLC evaluates.  All    *)
(* else is proved, for one handler whichever it is: that all of finitely   *)
(* many have returned in the end when each of them has is an induction     *)
(* over temporal formulas, and stays with TLC.                             *)
(***************************************************************************)
HandlerGuards(h) ==
  ~crashed =>
    /\ bc = "spawn" /\ pc[h] = "unspawned" => ENABLED <<Spawn(h)>>_broadcasterVars
    /\ pc[h] \in {"store", "load"} /\ touched[h] # Words =>
         ENABLED <<CopyWord(h)>>_broadcasterVars
    /\ pc[h] = "running" /\ ~expired[h] => ENABLED <<Expire(h)>>_broadcasterVars
    /\ pc[h] = "running" /\ h \notin broken /\ CtxDone(h) =>
         ENABLED <<CtxDone(h) /\ Return(h)>>_broadcasterVars
    /\ \/ pc[h] = "running" /\ h \in broken
       \/ pc[h] = "report" /\ ~closed /\ Len(results) < Capacity
       \/ pc[h] = "exiting"
       => ENABLED <<Panic(h) \/ Report(h) \/ Exit(h)>>_broadcasterVars

StopGuards ==
  bc = "select" /\ cancelled /\ ~crashed => ENABLED <<StopBroadcasting>>_broadcasterVars

\* Where a handler's goroutine is in its round.
Waiting(h)   == bc = "spawn" /\ pc[h] = "unspawned"
Storing(h)   == pc[h] = "store" /\ touched[h] = {}
Stored(h)    == pc[h] = "store" /\ touched[h] # {}
Loading(h)   == pc[h] = "load" /\ touched[h] = {}
Loaded(h)    == pc[h] = "load" /\ touched[h] # {}
InCall(h)    == pc[h] = "running"
Reporting(h) == pc[h] = "report"
Leaving(h)   == pc[h] = "exiting"
Gone(h)      == pc[h] = "done"
TimedOut(h)  == expired[h]

Spawning  == bc = "spawn"
Selecting == bc = "select"
Stopped   == bc = "done"

\* A handler goes through its round step by step; only the next event, which no
\* round is in the way of, takes it back to the start.
LEMMA PlaceMoves ==
  ASSUME BroadcasterInv, NEW h \in Handlers, Moves
  PROVE  /\ Spawning => \/ Waiting(h) \/ Storing(h) \/ Stored(h) \/ Loading(h) \/ Loaded(h)
                        \/ InCall(h) \/ Reporting(h) \/ Leaving(h) \/ Gone(h)
         /\ Waiting(h) => Waiting(h)' \/ Storing(h)' \/ Loading(h)'
         /\ Storing(h) => Storing(h)' \/ Stored(h)'
         /\ Stored(h) => Stored(h)' \/ Loading(h)'
         /\ Loading(h) => Loading(h)' \/ Loaded(h)'
         /\ Loaded(h) => Loaded(h)' \/ InCall(h)'
         /\ InCall(h) => InCall(h)' \/ Reporting(h)'
         /\ InCall(h) /\ TimedOut(h) => TimedOut(h)'
         /\ Reporting(h) => Reporting(h)' \/ Leaving(h)'
         /\ Leaving(h) => Leaving(h)' \/ Gone(h)'
         /\ Gone(h) => Gone(h)' \/ Selecting
<1> DEFINE Ahead ==
             /\ Waiting(h) => Waiting(h)' \/ Storing(h)' \/ Loading(h)'
             /\ Storing(h) => Storing(h)' \/ Stored(h)'
             /\ Stored(h) => Stored(h)' \/ Loading(h)'
             /\ Loading(h) => Loading(h)' \/ Loaded(h)'
             /\ Loaded(h) => Loaded(h)' \/ InCall(h)'
             /\ InCall(h) => InCall(h)' \/ Reporting(h)'
             /\ InCall(h) /\ TimedOut(h) => TimedOut(h)'
             /\ Reporting(h) => Reporting(h)' \/ Leaving(h)'
             /\ Leaving(h) => Leaving(h)' \/ Gone(h)'
             /\ Gone(h) => Gone(h)' \/ Selecting
<1>1. /\ pc \in [Handlers -> Stages] /\ touched \in [Handlers -> SUBSET Words]
      /\ expired \in [Handlers -> BOOLEAN]
      /\ pc[h] = "unspawned" => touched[h] = {}
      /\ bc = "select" => pc[h] \in {"unspawned", "done"}
      /\ bc = "collect" => pc[h] # "unspawned"
  BY DEF BroadcasterInv, BroadcasterTypeOK, Names, Phases
<1>2. Spawning => \/ Waiting(h) \/ Storing(h) \/ Stored(h) \/ Loading(h) \/ Loaded(h)
                  \/ InCall(h) \/ Reporting(h) \/ Leaving(h) \/ Gone(h)
  BY <1>1 DEF Spawning, Waiting, Storing, Stored, Loading, Loaded, InCall, Reporting, Leaving,
     Gone, Stages
<1> SUFFICES Ahead
  BY <1>2
<1> USE DEF Waiting, Storing, Stored, Loading, Loaded, InCall, Reporting, Leaving, Gone,
            TimedOut, Selecting
<1>3. ASSUME pc'[h] = pc[h], touched'[h] = touched[h], expired'[h] = expired[h],
             Waiting(h) => bc' = "spawn"
      PROVE  Ahead
  BY <1>3
<1>4. CASE ReceiveEvent
  BY <1>1, <1>4 DEF ReceiveEvent
<1>5. CASE StopBroadcasting \/ CollectorStep \/ Cancel \/ UNCHANGED broadcasterVars
  <2>1. UNCHANGED <<pc, touched, expired>> /\ (Waiting(h) => bc' = "spawn")
    BY <1>1, <1>5 DEF StopBroadcasting, CollectorStep, StartCollecting, CloseResults, Collect,
       FinishRound, Cancel, broadcasterVars, raceVars
  <2> HIDE DEF Waiting, Storing, Stored, Loading, Loaded, InCall, Reporting, Leaving, Gone, Ahead
  <2> QED
    BY <1>3, <2>1
<1>6. ASSUME NEW g \in Handlers, Spawn(g) \/ Expire(g) \/ HandlerStep(g)
      PROVE  Ahead
  <2>1. bc' = bc
    BY <1>6 DEF Spawn, Expire, HandlerStep, CopyWord, Return, Panic, Report, Exit, StoreWord, LoadWord
  <2>2. CASE g # h
    <3>1. pc'[h] = pc[h]
      BY <1>1, <1>6, <2>2 DEF Spawn, Expire, HandlerStep, CopyWord, Return, Panic, Report, Exit, StoreWord,
         LoadWord
    <3>2. touched'[h] = touched[h]
      BY <1>1, <1>6, <2>2 DEF Spawn, Expire, HandlerStep, CopyWord, Return, Panic, Report, Exit, StoreWord,
         LoadWord, raceVars
    <3>3. expired'[h] = expired[h]
      BY <1>1, <1>6, <2>2 DEF Spawn, Expire, HandlerStep, CopyWord, Return, Panic, Report, Exit, StoreWord,
         LoadWord
    <3> HIDE DEF Storing, Stored, Loading, Loaded, InCall, Reporting, Leaving, Gone, Ahead
    <3> QED
      BY <1>3, <2>1, <3>1, <3>2, <3>3
  <2>3. CASE g = h /\ Spawn(h)
    BY <1>1, <2>3 DEF Spawn, raceVars, Stages
  <2>4. CASE g = h /\ (Expire(h) \/ Return(h) \/ Panic(h))
    BY <1>1, <2>4 DEF Expire, Return, Panic, Stages, raceVars
  <2>5. CASE g = h /\ (Report(h) \/ Exit(h))
    BY <1>1, <2>5 DEF Report, Exit, Stages, raceVars
  <2>6. ASSUME NEW w \in Words, g = h, StoreWord(h, w) PROVE Ahead
    BY <1>1, <2>6 DEF StoreWord, Words
  <2>7. ASSUME NEW w \in Words, g = h, LoadWord(h, w) PROVE Ahead
    BY <1>1, <2>7 DEF LoadWord, Words
  <2> QED
    BY <1>6, <2>2, <2>3, <2>4, <2>5, <2>6, <2>7 DEF HandlerStep, CopyWord
<1> HIDE DEF Ahead
<1> QED
  BY <1>4, <1>5, <1>6 DEF Moves, BroadcasterStep

Nil(h) == h \in broken

\* What stays so while the process runs.
LEMMA StaysSo ==
  ASSUME Moves, NEW h \in Handlers
  PROVE  /\ crashed => crashed'
         /\ cancelled => cancelled'
         /\ Nil(h) => Nil(h)'
         /\ ~Nil(h) => ~Nil(h)'
         /\ Selecting => Selecting' \/ Spawning' \/ Stopped'
         /\ Stopped => Stopped'
<1> USE DEF Nil, Selecting, Spawning, Stopped
<1>1. CASE ReceiveEvent \/ StopBroadcasting \/ CollectorStep \/ Cancel \/ UNCHANGED broadcasterVars
  BY <1>1 DEF ReceiveEvent, StopBroadcasting, CollectorStep, StartCollecting, CloseResults, Collect,
     FinishRound, Cancel, broadcasterVars, paramVars
<1>2. ASSUME NEW g \in Handlers, Spawn(g) \/ Expire(g) \/ HandlerStep(g)
      PROVE  /\ crashed => crashed'
             /\ UNCHANGED <<cancelled, broken, bc>>
  BY <1>2 DEF Spawn, Expire, HandlerStep, CopyWord, Return, Panic, Report, Exit, StoreWord, LoadWord, paramVars
<1> QED
  BY <1>1, <1>2 DEF Moves, BroadcasterStep

\* What the fair actions achieve.
LEMMA Turns ==
  ASSUME BroadcasterInv, Copying, NEW h \in Handlers
  PROVE  /\ <<Spawn(h)>>_broadcasterVars => ~Waiting(h)'
         /\ <<CopyWord(h)>>_broadcasterVars =>
              /\ Storing(h) => ~Storing(h)'
              /\ Stored(h) => ~Stored(h)'
              /\ Loading(h) => ~Loading(h)'
              /\ Loaded(h) => ~Loaded(h)'
         /\ <<Expire(h)>>_broadcasterVars => TimedOut(h)'
         /\ <<CtxDone(h) /\ Return(h)>>_broadcasterVars => Reporting(h)'
         /\ <<Panic(h) \/ Report(h) \/ Exit(h)>>_broadcasterVars =>
              /\ InCall(h) => crashed'
              /\ Reporting(h) => ~Reporting(h)' \/ crashed'
              /\ Leaving(h) => ~Leaving(h)'
<1>1. /\ pc \in [Handlers -> Stages] /\ touched \in [Handlers -> SUBSET Words]
      /\ expired \in [Handlers -> BOOLEAN]
      /\ pc[h] \in {"store", "load"} => touched[h] # Words
  BY DEF BroadcasterInv, BroadcasterTypeOK, Copying
<1> USE <1>1 DEF Waiting, Storing, Stored, Loading, Loaded, InCall, Reporting, Leaving, Gone, TimedOut
<1>2. <<Spawn(h)>>_broadcasterVars => ~Waiting(h)'
  BY DEF Spawn
<1>3. ASSUME NEW w \in Words, StoreWord(h, w)
      PROVE  ~Loading(h) /\ ~Loaded(h) /\ (Storing(h) => ~Storing(h)') /\ (Stored(h) => ~Stored(h)')
  BY <1>3 DEF StoreWord, Words
<1>4. ASSUME NEW w \in Words, LoadWord(h, w)
      PROVE  ~Storing(h) /\ ~Stored(h) /\ (Loading(h) => ~Loading(h)') /\ (Loaded(h) => ~Loaded(h)')
  BY <1>4 DEF LoadWord, Words
<1>5. <<Expire(h)>>_broadcasterVars => TimedOut(h)'
  BY DEF Expire
<1>6. <<CtxDone(h) /\ Return(h)>>_broadcasterVars => Reporting(h)'
  BY DEF Return
<1>7. Panic(h) => InCall(h) /\ crashed'
  BY DEF Panic
<1>8. Report(h) => Reporting(h) /\ (~Reporting(h)' \/ crashed')
  BY DEF Report
<1>9. Exit(h) => Leaving(h) /\ ~Leaving(h)'
  BY DEF Exit
<1>10. Panic(h) \/ Report(h) \/ Exit(h) =>
         /\ InCall(h) => crashed'
         /\ Reporting(h) => ~Reporting(h)' \/ crashed'
         /\ Leaving(h) => ~Leaving(h)'
  BY <1>7, <1>8, <1>9
<1> QED
  BY <1>2, <1>3, <1>4, <1>5, <1>6, <1>10 DEF CopyWord

\* The invariants the proofs rest on, all at once.
PathInv == BroadcasterInv /\ Copying /\ NeverStuck

LEMMA PathInvHolds == Spec => []PathInv
  BY BroadcasterInvariant, CopyingHolds, NobodyWaitsInVain, PTL DEF PathInv

\* In those states each handler's next step is open to it.
LEMMA WayIsOpen ==
  ASSUME PathInv, NEW h \in Handlers, HandlerGuards(h), ~crashed
  PROVE  /\ Waiting(h) => ENABLED <<Spawn(h)>>_broadcasterVars
         /\ Storing(h) \/ Stored(h) \/ Loading(h) \/ Loaded(h) =>
              ENABLED <<CopyWord(h)>>_broadcasterVars
         /\ InCall(h) /\ ~TimedOut(h) => ENABLED <<Expire(h)>>_broadcasterVars
         /\ InCall(h) /\ TimedOut(h) /\ ~Nil(h) => ENABLED <<CtxDone(h) /\ Return(h)>>_broadcasterVars
         /\ (InCall(h) /\ Nil(h)) \/ Reporting(h) \/ Leaving(h) =>
              ENABLED <<Panic(h) \/ Report(h) \/ Exit(h)>>_broadcasterVars
<1>1. /\ pc[h] \in {"store", "load"} => touched[h] # Words
      /\ pc[h] = "report" => ~closed /\ Len(results) < Capacity
      /\ TimedOut(h) => CtxDone(h)
  BY DEF PathInv, NeverStuck, TimedOut, CtxDone
<1>2. Waiting(h) => ENABLED <<Spawn(h)>>_broadcasterVars
  BY DEF HandlerGuards, Waiting
<1>3. Storing(h) \/ Stored(h) \/ Loading(h) \/ Loaded(h) =>
        ENABLED <<CopyWord(h)>>_broadcasterVars
  BY <1>1 DEF HandlerGuards, Storing, Stored, Loading, Loaded
<1>4. /\ InCall(h) /\ ~TimedOut(h) => ENABLED <<Expire(h)>>_broadcasterVars
      /\ InCall(h) /\ TimedOut(h) /\ ~Nil(h) => ENABLED <<CtxDone(h) /\ Return(h)>>_broadcasterVars
  BY <1>1 DEF HandlerGuards, InCall, TimedOut, Nil
<1>5. (InCall(h) /\ Nil(h)) \/ Reporting(h) \/ Leaving(h) =>
        ENABLED <<Panic(h) \/ Report(h) \/ Exit(h)>>_broadcasterVars
  BY <1>1 DEF HandlerGuards, InCall, Nil, Reporting, Leaving
<1> QED
  BY <1>2, <1>3, <1>4, <1>5

\* The fairness of one handler's goroutine.
LEMMA FairToEach ==
  ASSUME NEW h \in Handlers
  PROVE  FairSpec => HandlerFairness(h)
<1>1. HandlersFair => HandlerFairness(h)
  BY DEF HandlersFair
<1> QED
  BY <1>1, PTL DEF FairSpec, BroadcasterFairness

LEMMA NextMoves == [Next]_broadcasterVars => Moves
  BY DEF Next, Moves

\* HandleTermination has been called.
Called(h) == InCall(h) \/ Reporting(h) \/ Leaving(h) \/ Gone(h)

\* No handler keeps another from being called: with any number of them, and any
\* of them at any point of its own round, each is called (main.go:217-230).
THEOREM EachHandlerIsCalled ==
  ASSUME NEW h \in Handlers
  PROVE  FairSpec /\ []HandlerGuards(h) => (Spawning ~> Called(h) \/ crashed)
<1>1. PathInv /\ [Next]_broadcasterVars =>
        /\ Spawning => Waiting(h) \/ Storing(h) \/ Stored(h) \/ Loading(h) \/ Loaded(h) \/ Called(h)
        /\ Waiting(h) => Waiting(h)' \/ Storing(h)' \/ Loading(h)'
        /\ Storing(h) => Storing(h)' \/ Stored(h)'
        /\ Stored(h) => Stored(h)' \/ Loading(h)'
        /\ Loading(h) => Loading(h)' \/ Loaded(h)'
        /\ Loaded(h) => Loaded(h)' \/ Called(h)'
  BY PlaceMoves, NextMoves DEF PathInv, Called
<1>2. PathInv =>
        /\ <<Spawn(h)>>_broadcasterVars => ~Waiting(h)'
        /\ <<CopyWord(h)>>_broadcasterVars =>
             /\ Storing(h) => ~Storing(h)'
             /\ Stored(h) => ~Stored(h)'
             /\ Loading(h) => ~Loading(h)'
             /\ Loaded(h) => ~Loaded(h)'
  BY Turns DEF PathInv
<1>3. PathInv /\ HandlerGuards(h) /\ ~crashed =>
        /\ Waiting(h) => ENABLED <<Spawn(h)>>_broadcasterVars
        /\ Storing(h) \/ Stored(h) \/ Loading(h) \/ Loaded(h) =>
             ENABLED <<CopyWord(h)>>_broadcasterVars
  BY WayIsOpen
<1>4. FairSpec => HandlerFairness(h)
  BY FairToEach
<1> QED
  BY <1>1, <1>2, <1>3, <1>4, PathInvHolds, PTL DEF FairSpec, Spec, HandlerFairness

\* One that returns once its context is done is over in time, whatever the other
\* handlers do: neither the channel nor the WaitGroup holds it up (main.go:217-237).
THEOREM EachHandlerIsOver ==
  ASSUME NEW h \in HonoursCtx
  PROVE  FairSpec /\ []HandlerGuards(h) => (Spawning ~> Gone(h) \/ crashed)
<1>0. h \in Handlers
  BY HandlersAssumption
<1>1. PathInv /\ [Next]_broadcasterVars =>
        /\ InCall(h) => InCall(h)' \/ Reporting(h)'
        /\ InCall(h) /\ TimedOut(h) => TimedOut(h)'
        /\ Reporting(h) => Reporting(h)' \/ Leaving(h)'
        /\ Leaving(h) => Leaving(h)' \/ Gone(h)'
        /\ crashed => crashed'
        /\ Nil(h) => Nil(h)'
        /\ ~Nil(h) => ~Nil(h)'
  BY <1>0, PlaceMoves, StaysSo, NextMoves DEF PathInv
<1>2. PathInv =>
        /\ <<Expire(h)>>_broadcasterVars => TimedOut(h)'
        /\ <<CtxDone(h) /\ Return(h)>>_broadcasterVars => Reporting(h)'
        /\ <<Panic(h) \/ Report(h) \/ Exit(h)>>_broadcasterVars =>
              /\ InCall(h) => crashed'
              /\ Reporting(h) => ~Reporting(h)' \/ crashed'
              /\ Leaving(h) => ~Leaving(h)'
  BY <1>0, Turns DEF PathInv
<1>3. PathInv /\ HandlerGuards(h) /\ ~crashed =>
        /\ InCall(h) /\ ~TimedOut(h) => ENABLED <<Expire(h)>>_broadcasterVars
        /\ InCall(h) /\ TimedOut(h) /\ ~Nil(h) => ENABLED <<CtxDone(h) /\ Return(h)>>_broadcasterVars
        /\ (InCall(h) /\ Nil(h)) \/ Reporting(h) \/ Leaving(h) =>
             ENABLED <<Panic(h) \/ Report(h) \/ Exit(h)>>_broadcasterVars
  BY <1>0, WayIsOpen
<1>4. FairSpec => /\ []PathInv /\ [][Next]_broadcasterVars
                  /\ WF_broadcasterVars(Expire(h))
                  /\ WF_broadcasterVars(Panic(h) \/ Report(h) \/ Exit(h))
  <2>1. FairSpec => HandlerFairness(h)
    BY <1>0, FairToEach
  <2> QED
    BY <2>1, PathInvHolds, PTL DEF FairSpec, Spec, HandlerFairness
<1>5. FairSpec => WF_broadcasterVars(CtxDone(h) /\ Return(h))
  <2>1. ContextsHonoured => ReturnsInTime(h)
    BY DEF ContextsHonoured
  <2> QED
    BY <2>1, PTL DEF FairSpec, BroadcasterFairness, ReturnsInTime
<1>6. FairSpec /\ []HandlerGuards(h) => (Spawning ~> Called(h) \/ crashed)
  BY <1>0, EachHandlerIsCalled
<1>7. FairSpec /\ []HandlerGuards(h) => (InCall(h) ~> Reporting(h) \/ crashed)
  BY <1>1, <1>2, <1>3, <1>4, <1>5, PTL
<1>8. FairSpec /\ []HandlerGuards(h) => (Reporting(h) ~> Leaving(h) \/ crashed)
  BY <1>1, <1>2, <1>3, <1>4, PTL
<1>9. FairSpec /\ []HandlerGuards(h) => (Leaving(h) ~> Gone(h) \/ crashed)
  BY <1>1, <1>2, <1>3, <1>4, PTL
<1> QED
  BY <1>6, <1>7, <1>8, <1>9, PTL DEF Called

\* If its rounds end, the broadcaster stops: events that keep coming do not hide
\* the done context for ever (the select of main.go:200-204).
THEOREM StopsIfRoundsEnd == FairSpec /\ []StopGuards => (RoundEnds => BroadcasterStops)
<1> DEFINE Collecting == bc = "collect"
           Back       == bc \in {"select", "done"}
<1>1. PathInv /\ [Next]_broadcasterVars =>
        /\ cancelled => cancelled'
        /\ crashed => crashed'
        /\ Selecting => Selecting' \/ Spawning' \/ Stopped'
        /\ Stopped => Stopped'
        /\ Collecting' => Collecting \/ Spawning
        /\ Selecting \/ Spawning \/ Collecting \/ Stopped
        /\ Back => Selecting \/ Stopped
        /\ Selecting => ~Collecting
  <2> SUFFICES ASSUME PathInv, [Next]_broadcasterVars
               PROVE  /\ cancelled => cancelled'
                      /\ crashed => crashed'
                      /\ Selecting => Selecting' \/ Spawning' \/ Stopped'
                      /\ Stopped => Stopped'
                      /\ Collecting' => Collecting \/ Spawning
                      /\ Selecting \/ Spawning \/ Collecting \/ Stopped
                      /\ Back => Selecting \/ Stopped
                      /\ Selecting => ~Collecting
    OBVIOUS
  <2>1. PICK h \in Handlers : TRUE
    BY HandlersAssumption
  <2>2. /\ cancelled => cancelled'
        /\ crashed => crashed'
        /\ Selecting => Selecting' \/ Spawning' \/ Stopped'
        /\ Stopped => Stopped'
    BY <2>1, StaysSo, NextMoves
  <2>3. /\ Selecting \/ Spawning \/ Collecting \/ Stopped
        /\ Back => Selecting \/ Stopped
        /\ Selecting => ~Collecting
    BY DEF PathInv, BroadcasterInv, BroadcasterTypeOK, Selecting, Spawning, Stopped
  <2>4. Collecting' => Collecting \/ Spawning
    BY NextMoves, StepCases DEF Spawning, ReceiveEvent, StopBroadcasting, StartCollecting,
       CloseResults, Collect, FinishRound, Cancel, broadcasterVars, Spawn, Expire, Return, Panic,
       Report, Exit, StoreWord, LoadWord
  <2> QED
    BY <2>2, <2>3, <2>4
<1>2. StopGuards /\ Selecting /\ cancelled /\ ~crashed => ENABLED <<StopBroadcasting>>_broadcasterVars
  BY DEF StopGuards, Selecting
<1>3. <<StopBroadcasting>>_broadcasterVars => Stopped'
  BY DEF StopBroadcasting, Stopped
<1>4. FairSpec => /\ BroadcasterInit /\ []PathInv /\ [][Next]_broadcasterVars
                  /\ SF_broadcasterVars(StopBroadcasting)
  BY PathInvHolds, PTL DEF FairSpec, Spec, BroadcasterFairness
<1>5. BroadcasterInit => Selecting
  BY DEF BroadcasterInit, Selecting
<1>6. RoundEnds => (Spawning ~> Back \/ crashed)
  BY PTL DEF RoundEnds, Spawning
<1>7. BroadcasterStops <=> (cancelled ~> Stopped \/ crashed)
  BY PTL DEF BroadcasterStops, Stopped
<1> HIDE DEF Back, Collecting
<1>8. FairSpec /\ RoundEnds => []<>(Selecting \/ Stopped \/ crashed)
  BY <1>1, <1>4, <1>5, <1>6, PTL
<1> QED
  BY <1>1, <1>2, <1>3, <1>4, <1>7, <1>8, PTL

=============================================================================
