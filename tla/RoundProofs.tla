---------------------------- MODULE RoundProofs ----------------------------
(***************************************************************************)
(* Proofs about a round with the Nomad and the Telegram handler, for any   *)
(* nodes and names: the broadcaster's invariant holds with them in place,  *)
(* each is called with the right name, and what it returns stays true.     *)
(***************************************************************************)
EXTENDS Round, FiniteSetTheorems, TLAPS

BP == INSTANCE BroadcasterProofs WITH HonoursCtx <- {}, Fallible <- {}, MaxEvents <- 1
TP == INSTANCE TelegramProofs

LEMMA Assumptions == BP!HandlersAssumption
<1>1. IsFiniteSet(Handlers)
  <2>1. IsFiniteSet({"nomad"})
    BY FS_Singleton
  <2>2. Handlers = {"nomad"} \cup {"telegram"}
    BY DEF Handlers
  <2> QED
    BY <2>1, <2>2, FS_AddElement
<1>2. QED
  BY <1>1 DEF BP!HandlersAssumption, Handlers, IsFiniteSet, BP!IsFiniteSet

\* A handler that has been called.
Called == {"running", "report", "exiting", "done"}

\* Before the event nothing has happened.
Fresh ==
  received = 0 => bc \in {"select", "done"} /\ \A h \in Handlers : pc[h] = "unspawned"

\* A handler does something only once it is called, and returns once.
Calls ==
  /\ nomad # "list" => pc["nomad"] \in Called
  /\ telegram # "send" => pc["telegram"] \in Called
  /\ \A h \in Handlers : outcome[h] # "none" => outcome[h] = Returned(h)

\* What the Nomad handler has picked and begun has the name it was called with.
Drain ==
  /\ drained # {} => nomad # "list"
  /\ nomad = "drain" => chosen \in N!Named(Heard("nomad"))
  /\ drained \subseteq N!Named(Heard("nomad"))
  /\ nomad = "ok" => N!Named(Heard("nomad")) = {} \/ N!Named(Heard("nomad")) \cap drained # {}

Alert == telegram = "ok" => posted # {}

\* What field f of an alert is to show.
Meant(f) == IF f = "Hostname" THEN Heard("telegram") ELSE event[f]

\* What is in the chat was posted by the call, from its copy of the event.
Chat ==
  posted # {} => /\ telegram # "send"
                 /\ \A m \in posted, f \in T!MessageFields : m[f] = T!escapeMarkdown(Meant(f))

RoundInv == RoundTypeOK /\ BP!BroadcasterInv /\ Fresh /\ Calls /\ Drain /\ Alert /\ Chat
-----------------------------------------------------------------------------
\* Seen from the broadcaster, every step is one of its own.
LEMMA BroadcasterMoves ==
  ASSUME [Next]_vars
  PROVE  BP!Moves
<1> USE DEF B!paramVars, BP!paramVars, B!raceVars, BP!raceVars, B!resultVars, BP!resultVars
<1>1. CASE NomadCall \/ TelegramCall \/ UNCHANGED vars
  BY <1>1 DEF NomadCall, TelegramCall, vars, roundVars, BP!Moves, BP!broadcasterVars
<1>2. CASE Rest
  <2>1. CASE B!ReceiveEvent
    BY <2>1 DEF B!ReceiveEvent, BP!ReceiveEvent, BP!Moves, B!Words, BP!Words, B!NoView, BP!NoView
  <2>2. CASE B!CollectorStep
    BY <2>2 DEF B!CollectorStep, B!StartCollecting, B!CloseResults, B!Collect, B!FinishRound,
                BP!CollectorStep, BP!StartCollecting, BP!CloseResults, BP!Collect,
                BP!FinishRound, BP!Moves, BP!BroadcasterStep
  <2>3. ASSUME NEW h \in Handlers, B!Spawn(h) \/ B!Expire(h)
        PROVE  BP!Moves
    BY <2>3 DEF B!Spawn, B!Expire, BP!Spawn, BP!Expire, BP!Moves, BP!BroadcasterStep
  <2>4. ASSUME NEW h \in Handlers, B!HandlerStep(h)
        PROVE  BP!Moves
    <3>1. BP!HandlerStep(h)
      BY <2>4 DEF B!HandlerStep, B!CopyWord, B!StoreWord, B!LoadWord, B!Return, B!Panic, B!Report, B!Exit,
                  BP!HandlerStep, BP!CopyWord, BP!StoreWord, BP!LoadWord, BP!Return, BP!Panic, BP!Report,
                  BP!Exit, B!Words, BP!Words, B!Capacity, BP!Capacity, B!Cardinality, BP!Cardinality
    <3> QED
      BY <3>1 DEF BP!Moves, BP!BroadcasterStep
  <2> QED
    BY <1>2, <2>1, <2>2, <2>3, <2>4 DEF Rest, Goroutine
<1> QED
  BY <1>1, <1>2 DEF Next

\* The variables of the broadcaster that matter to the handlers.
LEMMA Types ==
  ASSUME BP!BroadcasterInv
  PROVE  /\ pc \in [Handlers -> B!Stages]
         /\ view \in [Handlers -> [B!Words -> {"meta", "node", "none"}]]
         /\ outcome \in [Handlers -> {"none", "ok", "error"}]
         /\ received \in Nat
BY DEF BP!BroadcasterInv, BP!BroadcasterTypeOK, BP!Stages, B!Stages, BP!Words, B!Words, BP!Whose

\* Once called, a handler keeps its copy of the event.
LEMMA HeardKept ==
  ASSUME BP!BroadcasterInv, Fresh, [Next]_vars, NEW h \in Handlers, pc[h] \in Called
  PROVE  pc'[h] \in Called /\ Heard(h)' = Heard(h)
<1>1. /\ pc \in [Handlers -> B!Stages]
      /\ view \in [Handlers -> [B!Words -> {"meta", "node", "none"}]]
      /\ received # 0
  BY Types DEF Fresh, Called
<1>2. SUFFICES pc'[h] \in Called /\ view'[h] = view[h] /\ event' = event
  BY DEF Heard
<1> USE <1>1 DEF Called, B!paramVars, B!raceVars, B!resultVars
<1>3. CASE NomadCall \/ TelegramCall \/ UNCHANGED vars
  BY <1>3 DEF NomadCall, TelegramCall, vars, roundVars
<1>4. CASE Rest
  <2>1. event' = event
    BY <1>4 DEF Rest
  <2>2. CASE B!CollectorStep
    BY <2>1, <2>2 DEF B!CollectorStep, B!StartCollecting, B!CloseResults, B!Collect, B!FinishRound
  <2>3. ASSUME NEW g \in Handlers, B!Spawn(g) \/ B!Expire(g)
        PROVE  pc'[h] \in Called /\ view'[h] = view[h]
    BY <2>3 DEF B!Spawn, B!Expire
  <2>4. ASSUME NEW g \in Handlers, B!Return(g) \/ B!Panic(g) \/ B!Report(g) \/ B!Exit(g)
        PROVE  pc'[h] \in Called /\ view'[h] = view[h]
    BY <2>4 DEF B!Return, B!Panic, B!Report, B!Exit
  <2>5. ASSUME NEW g \in Handlers, NEW w \in B!Words, B!StoreWord(g, w)
        PROVE  pc'[h] \in Called /\ view'[h] = view[h]
    BY <2>5 DEF B!StoreWord
  <2>6. ASSUME NEW g \in Handlers, NEW w \in B!Words, B!LoadWord(g, w)
        PROVE  pc'[h] \in Called /\ view'[h] = view[h]
    BY <2>6 DEF B!LoadWord
  <2> QED
    BY <1>4, <2>1, <2>2, <2>3, <2>4, <2>5, <2>6 DEF Rest, Goroutine, B!HandlerStep, B!CopyWord
<1> QED
  BY <1>3, <1>4 DEF Next

LEMMA FreshStep ==
  ASSUME BP!BroadcasterInv, Fresh, [Next]_vars
  PROVE  Fresh'
<1>1. received \in Nat /\ pc \in [Handlers -> B!Stages]
  BY Types
<1> USE <1>1 DEF Fresh, B!paramVars, B!raceVars, B!resultVars
<1>2. CASE NomadCall \/ TelegramCall \/ UNCHANGED vars
  BY <1>2 DEF NomadCall, TelegramCall, vars, roundVars
<1>3. CASE B!ReceiveEvent
  BY <1>3 DEF B!ReceiveEvent
<1>4. CASE B!CollectorStep
  BY <1>4 DEF B!CollectorStep, B!StartCollecting, B!CloseResults, B!Collect, B!FinishRound
<1>5. ASSUME NEW h \in Handlers, B!Spawn(h) \/ B!Expire(h)
      PROVE  Fresh'
  BY <1>5 DEF B!Spawn, B!Expire
<1>6. ASSUME NEW h \in Handlers, B!HandlerStep(h)
      PROVE  Fresh'
  BY <1>6 DEF B!HandlerStep, B!CopyWord, B!StoreWord, B!LoadWord, B!Return, B!Panic, B!Report, B!Exit
<1> QED
  BY <1>2, <1>3, <1>4, <1>5, <1>6 DEF Next, Rest, Goroutine

\* A goroutine of the broadcaster leaves the handlers' own state alone, and
\* passes on what the handler returned.
LEMMA OutcomeStep ==
  ASSUME BP!BroadcasterInv, Fresh, Rest, NEW h \in Handlers
  PROVE  outcome'[h] \in {outcome[h], "none", Returned(h)}
<1>1. outcome \in [Handlers -> {"none", "ok", "error"}]
  BY Types
<1> USE <1>1
<1>2. CASE B!ReceiveEvent
  BY <1>2 DEF B!ReceiveEvent
<1>3. CASE B!CollectorStep
  BY <1>3 DEF B!CollectorStep, B!StartCollecting, B!CloseResults, B!Collect, B!FinishRound
<1>4. ASSUME NEW g \in Handlers, B!Spawn(g) \/ B!Expire(g)
      PROVE  outcome' = outcome
  BY <1>4 DEF B!Spawn, B!Expire
<1>5. ASSUME NEW g \in Handlers, Goroutine(g)
      PROVE  outcome'[h] \in {outcome[h], Returned(h)}
  <2>1. CASE Running(g)
    <3>1. outcome'[g] = Returned(g)
      BY <1>5, <2>1 DEF Goroutine
    <3>2. h # g => outcome'[h] = outcome[h]
      BY <1>5, <2>1 DEF Goroutine, B!HandlerStep, B!CopyWord, B!StoreWord, B!LoadWord, B!Return, B!Panic,
                        B!Report, B!Exit
    <3> QED
      BY <3>1, <3>2
  <2>2. CASE ~Running(g)
    BY <1>5, <2>2 DEF Goroutine, Running, B!HandlerStep, B!CopyWord, B!StoreWord, B!LoadWord, B!Return, B!Panic,
                      B!Report, B!Exit
  <2> QED
    BY <2>1, <2>2
<1> QED
  BY <1>2, <1>3, <1>4, <1>5 DEF Rest

LEMMA CallsStep ==
  ASSUME BP!BroadcasterInv, Fresh, Calls, [Next]_vars
  PROVE  Calls'
<1>1. outcome \in [Handlers -> {"none", "ok", "error"}]
  BY Types
<1>2. "nomad" \in Handlers /\ "telegram" \in Handlers
  BY DEF Handlers
<1>3. \A h \in Handlers : pc[h] \in Called => pc'[h] \in Called
  BY HeardKept
<1>4. CASE NomadCall
  <2>1. /\ nomad \in {"list", "drain"} /\ pc["nomad"] = "running"
        /\ UNCHANGED <<pc, outcome, telegram>>
    BY <1>4 DEF NomadCall, Running, N!ListNodes, N!UpdateDrain, roundVars, telegramVars
  <2>2. outcome["nomad"] = "none"
    BY <1>1, <1>2, <2>1 DEF Calls, Returned
  <2> QED
    BY <1>2, <2>1, <2>2 DEF Calls, Returned, Called, Handlers
<1>5. CASE TelegramCall
  <2>1. /\ telegram = "send" /\ pc["telegram"] = "running"
        /\ UNCHANGED <<pc, outcome, nomad>>
    BY <1>5 DEF TelegramCall, Running, T!SendMessage, roundVars, nomadVars
  <2>2. outcome["telegram"] = "none"
    BY <1>1, <1>2, <2>1 DEF Calls, Returned
  <2> QED
    BY <1>2, <2>1, <2>2 DEF Calls, Returned, Called, Handlers
<1>6. CASE Rest
  <2>1. nomad' = nomad /\ telegram' = telegram
    BY <1>6 DEF Rest, nomadVars, telegramVars
  <2>2. \A h \in Handlers : Returned(h)' = Returned(h)
    BY <2>1 DEF Returned
  <2> QED
    BY <1>2, <1>3, <1>6, <2>1, <2>2, OutcomeStep DEF Calls
<1>7. CASE UNCHANGED vars
  BY <1>7 DEF Calls, Returned, vars, roundVars, nomadVars, telegramVars
<1> QED
  BY <1>4, <1>5, <1>6, <1>7 DEF Next

LEMMA DrainStep ==
  ASSUME RoundTypeOK, BP!BroadcasterInv, Fresh, Calls, Drain, [Next]_vars
  PROVE  Drain'
<1> DEFINE Mine == N!Named(Heard("nomad"))
<1>1. nomad # "list" => Heard("nomad")' = Heard("nomad")
  BY HeardKept DEF Calls, Handlers
<1>2. registry' = registry
  BY DEF Next, NomadCall, TelegramCall, Rest, N!ListNodes, N!UpdateDrain, vars, nomadVars
<1>3. nomad # "list" => Mine' = Mine
  BY <1>1, <1>2 DEF N!Named
<1>4. CASE NomadCall
  <2>1. Heard("nomad")' = Heard("nomad")
    BY <1>4, HeardKept DEF NomadCall, Running, Called, Handlers
  <2>2. Mine' = Mine
    BY <1>2, <2>1 DEF N!Named
  <2>3. Mine \subseteq Nodes
    BY DEF N!Named
  <2> HIDE DEF Mine
  <2>4. CASE N!ListNodes(Heard("nomad"))
    <3>1. drained = {} /\ drained' = {}
      BY <2>4 DEF N!ListNodes, Drain
    <3>2. nomad' = "drain" => chosen' \in Mine
      BY <2>4 DEF N!ListNodes, Mine
    <3>3. nomad' = "ok" => Mine = {}
      BY <2>3, <2>4 DEF N!ListNodes, N!Lists, Mine
    <3> QED
      BY <2>2, <3>1, <3>2, <3>3 DEF Drain, Mine
  <2>5. CASE N!UpdateDrain
    <3>1. chosen \in Mine /\ drained \subseteq Mine
      BY <2>5 DEF N!UpdateDrain, Drain, Mine
    <3>2. drained' \subseteq Mine /\ (nomad' = "ok" => chosen \in drained')
      BY <2>5, <3>1 DEF N!UpdateDrain
    <3>3. nomad' \in {"ok", "error"}
      BY <2>5 DEF N!UpdateDrain
    <3> QED
      BY <2>2, <3>1, <3>2, <3>3 DEF Drain, Mine
  <2> QED
    BY <1>4, <2>4, <2>5 DEF NomadCall
<1>5. CASE TelegramCall \/ Rest \/ UNCHANGED vars
  <2>1. UNCHANGED nomadVars
    BY <1>5 DEF TelegramCall, Rest, vars
  <2>2. nomad = "list" => drained = {}
    BY DEF Drain
  <2> QED
    BY <1>3, <2>1, <2>2 DEF Drain, nomadVars
<1> QED
  BY <1>4, <1>5 DEF Next

LEMMA AlertStep ==
  ASSUME Alert, [Next]_vars
  PROVE  Alert'
BY DEF Alert, Next, NomadCall, TelegramCall, Rest, T!SendMessage, vars, telegramVars

LEMMA ChatStep ==
  ASSUME RoundTypeOK, BP!BroadcasterInv, Fresh, Calls, Chat, [Next]_vars
  PROVE  Chat'
<1>1. event' = event
  BY DEF Next, NomadCall, TelegramCall, Rest, vars
<1>2. ASSUME pc["telegram"] \in Called, NEW f PROVE Meant(f)' = Meant(f)
  BY <1>1, <1>2, HeardKept DEF Meant, Handlers
<1>3. CASE TelegramCall
  <2>1. pc["telegram"] \in Called
    BY <1>3 DEF TelegramCall, Running, Called
  <2>2. posted = {}
    BY <1>3 DEF TelegramCall, T!SendMessage, Chat
  <2> DEFINE sent == [f \in T!MessageFields |->
                       T!escapeMarkdown([event EXCEPT !.Hostname = Heard("telegram")][f])]
  <2>3. telegram' # "send" /\ (posted' = {} \/ posted' = {sent})
    BY <1>3, <2>2 DEF TelegramCall, T!SendMessage
  <2>4. ASSUME NEW f \in T!MessageFields PROVE sent[f] = T!escapeMarkdown(Meant(f))
    <3>1. [event EXCEPT !.Hostname = Heard("telegram")][f] = Meant(f)
      BY DEF RoundTypeOK, Events, Meant, T!MessageFields
    <3> QED BY <3>1
  <2> HIDE DEF sent
  <2>5. \A m \in posted', f \in T!MessageFields : m[f] = T!escapeMarkdown(Meant(f)')
    BY <1>2, <2>1, <2>3, <2>4
  <2> QED BY <2>3, <2>5 DEF Chat
<1>4. CASE NomadCall \/ Rest \/ UNCHANGED vars
  <2>1. posted' = posted /\ telegram' = telegram
    BY <1>4 DEF NomadCall, Rest, vars, telegramVars
  <2>2. posted # {} => pc["telegram"] \in Called
    BY DEF Chat, Calls
  <2> QED BY <1>2, <2>1, <2>2 DEF Chat
<1> QED BY <1>3, <1>4 DEF Next

LEMMA TypesStep ==
  ASSUME RoundTypeOK, Drain, BP!BroadcasterInv', [Next]_vars
  PROVE  RoundTypeOK'
<1>1. B!BroadcasterTypeOK'
  BY DEF BP!BroadcasterInv, BP!BroadcasterTypeOK, B!BroadcasterTypeOK, BP!Stages, B!Stages,
         BP!Words, B!Words, BP!Whose, B!Whose, BP!Result, B!Result
<1>2. event' \in Events
  BY DEF RoundTypeOK, Next, NomadCall, TelegramCall, Rest, vars, Events
<1>3. N!NomadTypeOK(NodeNames)'
  <2>1. CASE NomadCall
    <3>1. registry' = registry /\ NodeNames' = NodeNames
      BY <2>1 DEF NomadCall, N!ListNodes, N!UpdateDrain, NodeNames
    <3>2. nomad' \in {"list", "drain", "ok", "error"}
      BY <2>1 DEF NomadCall, N!ListNodes, N!UpdateDrain
    <3>3. chosen' \in Nodes \cup {"none"}
      BY <2>1 DEF RoundTypeOK, NomadCall, N!NomadTypeOK, N!ListNodes, N!UpdateDrain, N!Named
    <3>4. drained' \in SUBSET Nodes
      <4>1. nomad = "drain" => chosen \in Nodes
        BY DEF Drain, N!Named
      <4> QED
        BY <2>1, <4>1 DEF RoundTypeOK, NomadCall, N!NomadTypeOK, N!ListNodes, N!UpdateDrain
    <3> QED
      BY <3>1, <3>2, <3>3, <3>4 DEF RoundTypeOK, N!NomadTypeOK
  <2>2. CASE TelegramCall \/ Rest \/ UNCHANGED vars
    BY <2>2 DEF RoundTypeOK, TelegramCall, Rest, N!NomadTypeOK, vars, nomadVars, NodeNames
  <2> QED
    BY <2>1, <2>2 DEF Next
<1>4. telegram' \in {"send", "ok", "error"} /\ \A m \in posted' : DOMAIN m = T!MessageFields
  <2>1. CASE TelegramCall
    BY <2>1 DEF RoundTypeOK, TelegramCall, T!SendMessage
  <2>2. CASE NomadCall \/ Rest \/ UNCHANGED vars
    BY <2>2 DEF RoundTypeOK, NomadCall, Rest, vars, telegramVars
  <2> QED
    BY <2>1, <2>2 DEF Next
<1> QED
  BY <1>1, <1>2, <1>3, <1>4 DEF RoundTypeOK, T!MessageFields

LEMMA InvInit == Init => RoundInv
<1> SUFFICES ASSUME Init PROVE RoundInv
  OBVIOUS
<1>1. BP!BroadcasterInit => BP!BroadcasterInv
  BY BP!InitInv, Assumptions
<1>2. BP!BroadcasterInv
  BY <1>1 DEF Init, B!BroadcasterInit, BP!BroadcasterInit, B!Words, BP!Words, B!NoView, BP!NoView
<1>3. B!BroadcasterTypeOK
  BY <1>2 DEF BP!BroadcasterInv, BP!BroadcasterTypeOK, B!BroadcasterTypeOK, BP!Stages, B!Stages,
         BP!Words, B!Words, BP!Whose, B!Whose, BP!Result, B!Result
<1>4. RoundTypeOK
  BY <1>3 DEF Init, RoundTypeOK, N!NomadInit, N!NomadTypeOK, T!TelegramInit
<1>5. Fresh /\ Calls /\ Drain /\ Alert /\ Chat
  BY DEF Init, B!BroadcasterInit, N!NomadInit, T!TelegramInit, Fresh, Calls, Drain, Alert, Chat
<1> QED
  BY <1>2, <1>4, <1>5 DEF RoundInv

LEMMA RoundInvHolds == Spec => []RoundInv
<1>1. RoundInv /\ [Next]_vars => RoundInv'
  <2> SUFFICES ASSUME RoundInv, [Next]_vars PROVE RoundInv'
    OBVIOUS
  <2>1. BP!BroadcasterInv'
    BY BroadcasterMoves, BP!StepInv, Assumptions DEF RoundInv
  <2> QED
    BY <2>1, TypesStep, FreshStep, CallsStep, DrainStep, AlertStep, ChatStep DEF RoundInv
<1> QED
  BY <1>1, InvInit, PTL DEF Spec
-----------------------------------------------------------------------------
\* The round and its two handlers stay within their types.
THEOREM RoundTypeCorrect == Spec => []RoundTypeOK
<1>1. RoundInv => RoundTypeOK
  BY DEF RoundInv
<1> QED
  BY <1>1, RoundInvHolds, PTL

\* Whatever Nomad lists, only nodes of the name the event was to be about are
\* drained (handler_nomad.go:49-70, main.go:226-228).
THEOREM NamedNodeOnly == Spec => []OnlyNamedNodeDrained
<1>1. RoundInv => OnlyNamedNodeDrained
  <2> SUFFICES ASSUME RoundInv, NEW n \in drained
               PROVE  registry[n] = (IF nodeName THEN ConfiguredName ELSE event.Hostname)
    BY DEF OnlyNamedNodeDrained
  <2>1. registry[n] = Heard("nomad") /\ pc["nomad"] \in Called
    BY DEF RoundInv, Drain, Calls, N!Named
  <2>2. \A w \in B!Words : view["nomad"][w] = (IF nodeName THEN "node" ELSE "meta")
    BY <2>1 DEF RoundInv, BP!BroadcasterInv, BP!Names, BP!Right, BP!Words, B!Words, Called, Handlers
  <2>3. B!Words # {}
    BY DEF B!Words
  <2> QED
    BY <2>1, <2>2, <2>3 DEF Heard
<1> QED
  BY <1>1, RoundInvHolds, PTL

\* Escaped and read again, a text is what it was.
LEMMA Faithful ==
  ASSUME NEW t, t \in Seq({t[i] : i \in DOMAIN t})
  PROVE  T!Rendered(T!escapeMarkdown(t)) = t
<1>1. TP!Rendered(TP!escapeMarkdown(t)) = t
  BY TP!EscapingRoundTrips
<1> QED
  BY <1>1 DEF T!Rendered, TP!Rendered, T!Read, TP!Read, T!Markup, TP!Markup,
              T!escapeMarkdown, TP!escapeMarkdown, T!EscapeEach, TP!EscapeEach,
              T!EscapeAll, TP!EscapeAll, T!SpecialChars, TP!SpecialChars, T!Backslash, TP!Backslash

\* Every field of an alert is a text.
LEMMA MeantIsText ==
  ASSUME RoundTypeOK, NEW f \in T!MessageFields
  PROVE  LET t == Meant(f) IN t \in Seq({t[i] : i \in DOMAIN t})
<1> DEFINE IsText(t) == t \in Seq({t[i] : i \in DOMAIN t})
<1>1. IsText(<<"torn">>) /\ IsText(<<"1", ".", "2">>) /\ IsText(<<"s", "p", "o", "t">>)
  OBVIOUS
<1>2. \A t \in NodeNames \cup InstanceIDs : IsText(t)
  BY TextAssumption
<1> HIDE DEF IsText
<1>3. IsText(Meant(f))
  BY <1>1, <1>2 DEF RoundTypeOK, Events, NodeNames, Meant, Heard, T!MessageFields
<1> QED
  BY <1>3 DEF IsText

\* Every field the chat shows is what the metadata service, or the configuration,
\* gave, whatever characters are in it (handler_telegram.go:60-72, :105-121).
THEOREM FieldsShownAsGiven == Spec => []MessageFaithful
<1>1. RoundInv => MessageFaithful
  <2> SUFFICES ASSUME RoundInv, NEW m \in posted, NEW f \in T!MessageFields
               PROVE  T!Rendered(m[f]) = Meant(f)
    BY DEF MessageFaithful, Meant
  <2>1. m[f] = T!escapeMarkdown(Meant(f))
    BY DEF RoundInv, Chat
  <2> QED
    BY <2>1, Faithful, MeantIsText DEF RoundInv
<1> QED
  BY <1>1, RoundInvHolds, PTL

\* The name in the alert is the name of every node that is drained, although the
\* two handlers race on event.Hostname (main.go:219-229).
THEOREM AlertAndDrainAgree == Spec => []AlertNamesDrainedNode
<1>1. RoundInv => AlertNamesDrainedNode
  <2> SUFFICES ASSUME RoundInv, NEW m \in posted, NEW n \in drained
               PROVE  T!Rendered(m.Hostname) = registry[n]
    BY DEF AlertNamesDrainedNode
  <2>1. m["Hostname"] = T!escapeMarkdown(Meant("Hostname")) /\ Meant("Hostname") = Heard("telegram")
    BY DEF RoundInv, Chat, Meant, T!MessageFields
  <2>2. T!Rendered(m.Hostname) = Heard("telegram")
    BY <2>1, Faithful, MeantIsText DEF RoundInv, T!MessageFields
  <2>3. registry[n] = Heard("nomad") /\ pc["nomad"] \in Called /\ pc["telegram"] \in Called
    BY DEF RoundInv, Drain, Calls, Chat, N!Named
  <2>4. \A h \in Handlers, w \in B!Words :
          view[h][w] = (IF nodeName THEN "node" ELSE "meta")
    BY <2>3 DEF RoundInv, BP!BroadcasterInv, BP!Names, BP!Right, BP!Words, B!Words, Called, Handlers
  <2>5. Heard("telegram") = Heard("nomad")
    BY <2>4 DEF Heard, Handlers
  <2> QED
    BY <2>2, <2>3, <2>5
<1> QED
  BY <1>1, RoundInvHolds, PTL

-----------------------------------------------------------------------------
\* With the two handlers in place a round is still one of Broadcaster's: what is
\* proved of any handlers holds of these.
THEOREM RoundKeepsBroadcaster == Spec => BP!Spec
<1>1. Init => BP!BroadcasterInit
  BY DEF Init, B!BroadcasterInit, BP!BroadcasterInit, B!Words, BP!Words, B!NoView, BP!NoView
<1>2. ASSUME RoundInv, [Next]_vars
      PROVE  [BP!Next]_BP!broadcasterVars
  <2>1. CASE BP!ReceiveEvent
    <3>1. received' = received + 1 /\ received \in Nat
      BY <1>2, <2>1, Types DEF BP!ReceiveEvent, RoundInv
    <3>2. ASSUME NomadCall \/ TelegramCall \/ UNCHANGED vars PROVE received = 0
      BY <3>1, <3>2 DEF NomadCall, TelegramCall, vars, roundVars
    <3>3. ASSUME Rest PROVE received = 0
      <4>1. received' = received \/ received = 0
        BY <3>3 DEF Rest, Goroutine, B!CollectorStep, B!StartCollecting, B!CloseResults,
           B!Collect, B!FinishRound, B!HandlerStep, B!CopyWord, B!StoreWord, B!LoadWord, B!Return,
           B!Panic, B!Report, B!Exit, B!Spawn, B!Expire
      <4> QED
        BY <3>1, <4>1
    <3>4. received = 0
      BY <1>2, <3>1, <3>2, <3>3 DEF Next
    <3> QED
      BY <2>1, <3>4 DEF BP!Next
  <2>2. CASE ~BP!ReceiveEvent
    BY <1>2, <2>2, BroadcasterMoves DEF BP!Moves, BP!Next
  <2> QED
    BY <2>1, <2>2
<1> QED
  BY <1>1, <1>2, RoundInvHolds, PTL DEF Spec, BP!Spec

\* Nomad and Telegram act once: one node is drained at most and one message
\* posted, each by the one call, and the summary is given after the last of it.
ActOnce ==
  [][/\ drained' # drained => drained = {} /\ \E n \in Nodes : drained' = {n}
     /\ posted' # posted => posted = {} /\ \E m : posted' = {m}
     /\ bc = "select" /\ received = 1 => drained' = drained /\ posted' = posted]_vars

\* A drain begins with the call that ends HandleTermination.
Begun == drained # {} => nomad \in {"ok", "error"}

\* Every step keeps it.
LEMMA StepBegun ==
  ASSUME RoundInv, Begun, [Next]_vars
  PROVE  Begun'
<1> USE DEF Begun, RoundInv, RoundTypeOK, N!NomadTypeOK
<1>1. CASE NomadCall
  BY <1>1 DEF NomadCall, Drain, N!ListNodes, N!UpdateDrain
<1>2. CASE TelegramCall \/ Rest \/ UNCHANGED vars
  BY <1>2 DEF TelegramCall, Rest, vars, nomadVars
<1> QED
  BY <1>1, <1>2 DEF Next

\* However the two interleave, each acts once, and before the summary
\* (handler_nomad.go:70-72, handler_telegram.go:75-79).
THEOREM EachActsOnce == Spec => ActOnce
<1>1. Init => Begun
  BY DEF Init, N!NomadInit, Begun
<1>2. RoundInv /\ Begun /\ [Next]_vars => Begun'
  BY StepBegun
<1>3. ASSUME RoundInv, Begun, [Next]_vars
      PROVE  /\ drained' # drained => drained = {} /\ \E n \in Nodes : drained' = {n}
             /\ posted' # posted => posted = {} /\ \E m : posted' = {m}
             /\ bc = "select" /\ received = 1 => drained' = drained /\ posted' = posted
  <2> USE <1>3 DEF RoundInv
  <2>1. CASE NomadCall
    <3>1. pc["nomad"] = "running" /\ posted' = posted
      BY <2>1 DEF NomadCall, Running, telegramVars
    <3>2. drained' # drained => nomad = "drain" /\ drained' = drained \cup {chosen}
      BY <2>1 DEF NomadCall, N!ListNodes, N!UpdateDrain
    <3>3. nomad = "drain" => drained = {} /\ chosen \in Nodes
      BY DEF Begun, Drain, N!Named
    <3> QED
      BY <3>1, <3>2, <3>3 DEF BP!BroadcasterInv, BP!Phases, Handlers
  <2>2. CASE TelegramCall
    <3>1. pc["telegram"] = "running" /\ drained' = drained
      BY <2>2 DEF TelegramCall, Running, nomadVars
    <3>2. telegram = "send" /\ (posted' # posted => \E m : posted' = posted \cup {m})
      BY <2>2 DEF TelegramCall, T!SendMessage
    <3>3. posted = {}
      BY <3>2 DEF Chat
    <3> QED
      BY <3>1, <3>2, <3>3 DEF BP!BroadcasterInv, BP!Phases, Handlers
  <2>3. CASE Rest \/ UNCHANGED vars
    BY <2>3 DEF Rest, vars, nomadVars, telegramVars
  <2> QED
    BY <1>3, <2>1, <2>2, <2>3 DEF Next
<1> QED
  BY <1>1, <1>2, <1>3, RoundInvHolds, PTL DEF Spec, ActOnce
-----------------------------------------------------------------------------
(***************************************************************************)
(* Liveness: the round ends if Nomad answers.  tlapm does not know when an *)
(* action is enabled: that the guards below enable the actions the         *)
(* fairness is about is a hypothesis of the theorem.  It is a state        *)
(* predicate, which TLC evaluates.  All else is proved, the two handlers   *)
(* and the two results they leave in the channel being counted out.        *)
(***************************************************************************)
GoroutineGuards(h) ==
  /\ bc = "spawn" /\ pc[h] = "unspawned" => ENABLED <<B!Spawn(h)>>_B!broadcasterVars
  /\ pc[h] \in {"store", "load"} /\ touched[h] # B!Words =>
       ENABLED <<B!CopyWord(h)>>_B!broadcasterVars
  /\ pc[h] = "running" /\ ~expired[h] => ENABLED <<B!Expire(h)>>_B!broadcasterVars
  /\ pc[h] = "running" /\ Returned(h) \in {"ok", "error"} => ENABLED <<Resume(h)>>_vars
  /\ \/ pc[h] = "report" /\ ~closed /\ Len(results) < B!Capacity
     \/ pc[h] = "exiting"
     => ENABLED <<B!Panic(h) \/ B!Report(h) \/ B!Exit(h)>>_B!broadcasterVars

RoundGuards ==
  /\ GoroutineGuards("nomad")
  /\ GoroutineGuards("telegram")
  /\ pc["nomad"] = "running" /\ nomad \in {"list", "drain"} => ENABLED <<NomadCall>>_vars
  /\ pc["telegram"] = "running" /\ expired["telegram"] /\ telegram = "send" =>
       ENABLED <<B!CtxDone("telegram") /\ TelegramCall>>_vars
  /\ bc = "spawn" /\ (\A h \in Handlers : pc[h] # "unspawned") =>
       ENABLED <<B!CollectorStep>>_B!broadcasterVars
  /\ bc = "collect" /\ (results # <<>> \/ closed \/ handlerWg = 0) =>
       ENABLED <<B!CollectorStep>>_B!broadcasterVars

\* Nobody is nil here, so nothing panics.
PathInv == RoundInv /\ BP!PathInv /\ ~crashed

LEMMA PathInvHolds == Spec => []PathInv
<1>1. RoundInv => ~crashed
  BY DEF RoundInv, RoundTypeOK, B!BroadcasterTypeOK, BP!BroadcasterInv, BP!CrashOnlyFromBroken
<1>2. BP!Spec => []BP!PathInv
  BY BP!PathInvHolds, Assumptions
<1> QED
  BY <1>1, <1>2, RoundInvHolds, RoundKeepsBroadcaster, PTL DEF PathInv

\* The broadcaster's steps are those of the module proved about.
LEMMA SameSteps ==
  ASSUME NEW h \in Handlers
  PROVE  /\ <<B!Spawn(h)>>_B!broadcasterVars => <<BP!Spawn(h)>>_BP!broadcasterVars
         /\ <<B!CopyWord(h)>>_B!broadcasterVars => <<BP!CopyWord(h)>>_BP!broadcasterVars
         /\ <<B!Expire(h)>>_B!broadcasterVars => <<BP!Expire(h)>>_BP!broadcasterVars
         /\ <<B!Panic(h) \/ B!Report(h) \/ B!Exit(h)>>_B!broadcasterVars =>
              <<BP!Panic(h) \/ BP!Report(h) \/ BP!Exit(h)>>_BP!broadcasterVars
<1> USE DEF B!broadcasterVars, BP!broadcasterVars, B!paramVars, BP!paramVars, B!raceVars,
            BP!raceVars, B!resultVars, BP!resultVars
<1>1. <<B!Spawn(h)>>_B!broadcasterVars => <<BP!Spawn(h)>>_BP!broadcasterVars
  BY DEF B!Spawn, BP!Spawn
<1>2. <<B!CopyWord(h)>>_B!broadcasterVars => <<BP!CopyWord(h)>>_BP!broadcasterVars
  BY DEF B!CopyWord, BP!CopyWord, B!StoreWord, BP!StoreWord, B!LoadWord, BP!LoadWord, B!Words, BP!Words
<1>3. <<B!Expire(h)>>_B!broadcasterVars => <<BP!Expire(h)>>_BP!broadcasterVars
  BY DEF B!Expire, BP!Expire
<1>4. <<B!Panic(h) \/ B!Report(h) \/ B!Exit(h)>>_B!broadcasterVars =>
        <<BP!Panic(h) \/ BP!Report(h) \/ BP!Exit(h)>>_BP!broadcasterVars
  BY DEF B!Panic, BP!Panic, B!Report, BP!Report, B!Exit, BP!Exit, B!Capacity, BP!Capacity,
         B!Cardinality, BP!Cardinality
<1> QED
  BY <1>1, <1>2, <1>3, <1>4

\* What HandleTermination has got to.
Asking    == nomad = "list"
Draining  == nomad = "drain"
Sending   == telegram = "send"
Answer(h) == Returned(h) \in {"ok", "error"}

LEMMA CallMoves ==
  ASSUME RoundInv, [Next]_vars
  PROVE  /\ Asking \/ Draining \/ Answer("nomad")
         /\ Asking => Asking' \/ Draining' \/ Answer("nomad")'
         /\ Draining => Draining' \/ Answer("nomad")'
         /\ Answer("nomad") => Answer("nomad")'
         /\ Sending \/ Answer("telegram")
         /\ Answer("telegram") => Answer("telegram")'
<1> USE DEF Asking, Draining, Sending, Answer, Returned
<1>1. (Asking \/ Draining \/ Answer("nomad")) /\ (Sending \/ Answer("telegram"))
  BY DEF RoundInv, RoundTypeOK, N!NomadTypeOK
<1>2. CASE NomadCall
  BY <1>1, <1>2 DEF NomadCall, N!ListNodes, N!UpdateDrain, telegramVars
<1>3. CASE TelegramCall
  BY <1>1, <1>3 DEF TelegramCall, T!SendMessage, nomadVars
<1>4. CASE Rest \/ UNCHANGED vars
  BY <1>1, <1>4 DEF Rest, vars, nomadVars, telegramVars
<1> QED
  BY <1>2, <1>3, <1>4 DEF Next

\* What the fair actions of the calls achieve.
LEMMA CallActions ==
  ASSUME RoundInv
  PROVE  /\ <<NomadCall>>_vars => (Asking => ~Asking') /\ (Draining => ~Draining')
         /\ <<B!CtxDone("telegram") /\ TelegramCall>>_vars => Answer("telegram")'
         /\ \A h \in Handlers : <<Resume(h)>>_vars => BP!Reporting(h)'
<1>1. <<NomadCall>>_vars => (Asking => ~Asking') /\ (Draining => ~Draining')
  BY DEF NomadCall, N!ListNodes, N!UpdateDrain, Asking, Draining
<1>2. <<B!CtxDone("telegram") /\ TelegramCall>>_vars => Answer("telegram")'
  BY DEF TelegramCall, T!SendMessage, Answer, Returned
<1>3. ASSUME NEW h \in Handlers, <<Resume(h)>>_vars PROVE BP!Reporting(h)'
  <2>1. pc[h] = "running" /\ broken = {} /\ pc \in [Handlers -> B!Stages]
    BY <1>3 DEF Resume, Running, RoundInv, RoundTypeOK, B!BroadcasterTypeOK
  <2> QED
    BY <1>3, <2>1 DEF Resume, Goroutine, B!HandlerStep, B!CopyWord, B!StoreWord, B!LoadWord,
       B!Return, B!Panic, B!Report, B!Exit, BP!Reporting
<1> QED
  BY <1>1, <1>2, <1>3

\* The places of a handler's goroutine, and the turns that take it on.
LEMMA PlacesOfEach ==
  ASSUME PathInv, NEW h \in Handlers, [Next]_vars
  PROVE  /\ BP!Spawning => \/ BP!Waiting(h) \/ BP!Storing(h) \/ BP!Stored(h) \/ BP!Loading(h)
                           \/ BP!Loaded(h) \/ BP!Called(h)
         /\ BP!Waiting(h) => BP!Waiting(h)' \/ BP!Storing(h)' \/ BP!Loading(h)'
         /\ BP!Storing(h) => BP!Storing(h)' \/ BP!Stored(h)'
         /\ BP!Stored(h) => BP!Stored(h)' \/ BP!Loading(h)'
         /\ BP!Loading(h) => BP!Loading(h)' \/ BP!Loaded(h)'
         /\ BP!Loaded(h) => BP!Loaded(h)' \/ BP!Called(h)'
         /\ BP!Called(h) => BP!InCall(h) \/ BP!Reporting(h) \/ BP!Leaving(h) \/ BP!Gone(h)
         /\ BP!InCall(h) => BP!InCall(h)' \/ BP!Reporting(h)'
         /\ BP!InCall(h) /\ BP!TimedOut(h) => BP!TimedOut(h)'
         /\ BP!Reporting(h) => BP!Reporting(h)' \/ BP!Leaving(h)'
         /\ BP!Leaving(h) => BP!Leaving(h)' \/ BP!Gone(h)'
         /\ BP!Gone(h) => BP!Gone(h)' \/ BP!Selecting
<1>1. BP!BroadcasterInv /\ BP!Moves
  BY BroadcasterMoves DEF PathInv, BP!PathInv
<1> QED
  BY <1>1, BP!PlaceMoves, Assumptions DEF BP!Called

LEMMA TurnsOfEach ==
  ASSUME PathInv, NEW h \in Handlers
  PROVE  /\ <<B!Spawn(h)>>_B!broadcasterVars => ~BP!Waiting(h)'
         /\ <<B!CopyWord(h)>>_B!broadcasterVars =>
              /\ BP!Storing(h) => ~BP!Storing(h)'
              /\ BP!Stored(h) => ~BP!Stored(h)'
              /\ BP!Loading(h) => ~BP!Loading(h)'
              /\ BP!Loaded(h) => ~BP!Loaded(h)'
         /\ <<B!Expire(h)>>_B!broadcasterVars => BP!TimedOut(h)'
         /\ <<B!Panic(h) \/ B!Report(h) \/ B!Exit(h)>>_B!broadcasterVars =>
              /\ BP!InCall(h) => crashed'
              /\ BP!Reporting(h) => ~BP!Reporting(h)' \/ crashed'
              /\ BP!Leaving(h) => ~BP!Leaving(h)'
         /\ <<Resume(h)>>_vars => BP!Reporting(h)'
<1>1. BP!BroadcasterInv /\ BP!Copying /\ RoundInv
  BY DEF PathInv, BP!PathInv
<1>2. <<Resume(h)>>_vars => BP!Reporting(h)'
  BY <1>1, CallActions
<1> QED
  BY <1>1, <1>2, BP!Turns, SameSteps, Assumptions

LEMMA OpenToEach ==
  ASSUME PathInv, NEW h \in Handlers, GoroutineGuards(h)
  PROVE  /\ BP!Waiting(h) => ENABLED <<B!Spawn(h)>>_B!broadcasterVars
         /\ BP!Storing(h) \/ BP!Stored(h) \/ BP!Loading(h) \/ BP!Loaded(h) =>
              ENABLED <<B!CopyWord(h)>>_B!broadcasterVars
         /\ BP!InCall(h) /\ ~BP!TimedOut(h) => ENABLED <<B!Expire(h)>>_B!broadcasterVars
         /\ BP!InCall(h) /\ Answer(h) => ENABLED <<Resume(h)>>_vars
         /\ BP!Reporting(h) \/ BP!Leaving(h) =>
              ENABLED <<B!Panic(h) \/ B!Report(h) \/ B!Exit(h)>>_B!broadcasterVars
<1>1. /\ pc[h] \in {"store", "load"} => touched[h] # B!Words
      /\ pc[h] = "report" => ~closed /\ Len(results) < B!Capacity
  BY DEF PathInv, BP!PathInv, BP!NeverStuck, BP!Words, B!Words, BP!Capacity, B!Capacity,
         BP!Cardinality, B!Cardinality
<1> USE DEF GoroutineGuards
<1>2. BP!Waiting(h) => ENABLED <<B!Spawn(h)>>_B!broadcasterVars
  BY DEF BP!Waiting
<1>3. BP!Storing(h) \/ BP!Stored(h) \/ BP!Loading(h) \/ BP!Loaded(h) =>
        ENABLED <<B!CopyWord(h)>>_B!broadcasterVars
  BY <1>1 DEF BP!Storing, BP!Stored, BP!Loading, BP!Loaded
<1>4. /\ BP!InCall(h) /\ ~BP!TimedOut(h) => ENABLED <<B!Expire(h)>>_B!broadcasterVars
      /\ BP!InCall(h) /\ Answer(h) => ENABLED <<Resume(h)>>_vars
  BY DEF BP!InCall, BP!TimedOut, Answer
<1>5. BP!Reporting(h) \/ BP!Leaving(h) =>
        ENABLED <<B!Panic(h) \/ B!Report(h) \/ B!Exit(h)>>_B!broadcasterVars
  BY <1>1 DEF BP!Reporting, BP!Leaving
<1> QED
  BY <1>2, <1>3, <1>4, <1>5

\* The fairness of one handler's goroutine.
LEMMA FairToEach ==
  ASSUME NEW h \in Handlers
  PROVE  FairSpec => B!HandlerFairness(h) /\ GoesOn(h)
<1>1. B!HandlersFair => B!HandlerFairness(h)
  BY DEF B!HandlersFair
<1>2. GoroutinesGoOn => GoesOn(h)
  BY DEF GoroutinesGoOn
<1> QED
  BY <1>1, <1>2, PTL DEF FairSpec, B!BroadcasterFairness

\* Each of the two is called, and once it has an answer it is soon over.
Guarded(h)     == []GoroutineGuards(h)
GetsCalled(h)  == BP!Spawning ~> BP!Called(h)
GetsThrough(h) == /\ BP!InCall(h) ~> ~BP!InCall(h) \/ BP!TimedOut(h)
                  /\ BP!InCall(h) /\ []Answer(h) ~> ~BP!InCall(h)
                  /\ BP!Reporting(h) ~> BP!Gone(h)
                  /\ BP!Leaving(h) ~> BP!Gone(h)

LEMMA EachCalled ==
  ASSUME NEW h \in Handlers
  PROVE  FairSpec /\ Guarded(h) => GetsCalled(h)
<1>1. PathInv /\ [Next]_vars =>
        /\ BP!Spawning => \/ BP!Waiting(h) \/ BP!Storing(h) \/ BP!Stored(h) \/ BP!Loading(h)
                          \/ BP!Loaded(h) \/ BP!Called(h)
        /\ BP!Waiting(h) => BP!Waiting(h)' \/ BP!Storing(h)' \/ BP!Loading(h)'
        /\ BP!Storing(h) => BP!Storing(h)' \/ BP!Stored(h)'
        /\ BP!Stored(h) => BP!Stored(h)' \/ BP!Loading(h)'
        /\ BP!Loading(h) => BP!Loading(h)' \/ BP!Loaded(h)'
        /\ BP!Loaded(h) => BP!Loaded(h)' \/ BP!Called(h)'
  BY PlacesOfEach
<1>2. PathInv =>
        /\ <<B!Spawn(h)>>_B!broadcasterVars => ~BP!Waiting(h)'
        /\ <<B!CopyWord(h)>>_B!broadcasterVars =>
             /\ BP!Storing(h) => ~BP!Storing(h)'
             /\ BP!Stored(h) => ~BP!Stored(h)'
             /\ BP!Loading(h) => ~BP!Loading(h)'
             /\ BP!Loaded(h) => ~BP!Loaded(h)'
  BY TurnsOfEach
<1>3. PathInv /\ GoroutineGuards(h) =>
        /\ BP!Waiting(h) => ENABLED <<B!Spawn(h)>>_B!broadcasterVars
        /\ BP!Storing(h) \/ BP!Stored(h) \/ BP!Loading(h) \/ BP!Loaded(h) =>
             ENABLED <<B!CopyWord(h)>>_B!broadcasterVars
  BY OpenToEach
<1>4. FairSpec => []PathInv /\ [][Next]_vars /\ B!HandlerFairness(h)
  <2>1. FairSpec => B!HandlerFairness(h)
    BY FairToEach
  <2> QED
    BY <2>1, PathInvHolds, PTL DEF FairSpec, Spec
<1> QED
  BY <1>1, <1>2, <1>3, <1>4, PTL DEF B!HandlerFairness, Guarded, GetsCalled

LEMMA EachOver ==
  ASSUME NEW h \in Handlers
  PROVE  FairSpec /\ Guarded(h) => GetsThrough(h)
<1>1. PathInv /\ [Next]_vars =>
         /\ BP!InCall(h) => BP!InCall(h)' \/ BP!Reporting(h)'
         /\ BP!InCall(h) /\ BP!TimedOut(h) => BP!TimedOut(h)'
         /\ BP!Reporting(h) => BP!Reporting(h)' \/ BP!Leaving(h)'
         /\ BP!Leaving(h) => BP!Leaving(h)' \/ BP!Gone(h)'
  BY PlacesOfEach
<1>2. PathInv =>
         /\ <<B!Expire(h)>>_B!broadcasterVars => BP!TimedOut(h)'
         /\ <<B!Panic(h) \/ B!Report(h) \/ B!Exit(h)>>_B!broadcasterVars =>
              /\ BP!Reporting(h) => ~BP!Reporting(h)' \/ crashed'
              /\ BP!Leaving(h) => ~BP!Leaving(h)'
         /\ <<Resume(h)>>_vars => BP!Reporting(h)'
         /\ ~crashed
  BY TurnsOfEach DEF PathInv
<1>3. PathInv /\ GoroutineGuards(h) =>
         /\ BP!InCall(h) /\ ~BP!TimedOut(h) => ENABLED <<B!Expire(h)>>_B!broadcasterVars
         /\ BP!InCall(h) /\ Answer(h) => ENABLED <<Resume(h)>>_vars
         /\ BP!Reporting(h) \/ BP!Leaving(h) =>
              ENABLED <<B!Panic(h) \/ B!Report(h) \/ B!Exit(h)>>_B!broadcasterVars
  BY OpenToEach
<1>4. ~(BP!InCall(h) /\ BP!Reporting(h)) /\ ~(BP!Reporting(h) /\ BP!Leaving(h))
  BY DEF BP!InCall, BP!Reporting, BP!Leaving
<1>5. FairSpec => []PathInv /\ [][Next]_vars /\ B!HandlerFairness(h) /\ GoesOn(h)
  <2>1. FairSpec => B!HandlerFairness(h) /\ GoesOn(h)
    BY FairToEach
  <2> QED
    BY <2>1, PathInvHolds, PTL DEF FairSpec, Spec
<1>6. FairSpec /\ []GoroutineGuards(h) => (BP!InCall(h) ~> ~BP!InCall(h) \/ BP!TimedOut(h))
  BY <1>1, <1>2, <1>3, <1>4, <1>5, PTL DEF B!HandlerFairness
<1>7. FairSpec /\ []GoroutineGuards(h) => (BP!InCall(h) /\ []Answer(h) ~> ~BP!InCall(h))
  BY <1>1, <1>2, <1>3, <1>4, <1>5, PTL DEF GoesOn
<1>8. FairSpec /\ []GoroutineGuards(h) => (BP!Leaving(h) ~> BP!Gone(h))
  BY <1>1, <1>2, <1>3, <1>4, <1>5, PTL DEF B!HandlerFairness
<1>9. FairSpec /\ []GoroutineGuards(h) => (BP!Reporting(h) ~> BP!Leaving(h))
  BY <1>1, <1>2, <1>3, <1>4, <1>5, PTL DEF B!HandlerFairness
<1> QED
  BY <1>6, <1>7, <1>8, <1>9, PTL DEF Guarded, GetsThrough

\* The collector's side: what is left in the channel, and whether it is closed.
Collecting == bc = "collect"
Shut       == closed
Left(k)    == Len(results) = k
BothGone   == BP!Gone("nomad") /\ BP!Gone("telegram")

LEMMA TwoResults ==
  ASSUME PathInv
  PROVE  Left(0) \/ Left(1) \/ Left(2)
<1>1. IsFiniteSet(Handlers) /\ Cardinality(Handlers) = 2
  <2>1. IsFiniteSet({"nomad"}) /\ Cardinality({"nomad"}) = 1 /\ "telegram" \notin {"nomad"}
    BY FS_Singleton
  <2>2. Handlers = {"nomad"} \cup {"telegram"}
    BY DEF Handlers
  <2> QED
    BY <2>1, <2>2, FS_AddElement
<1>2. BP!Pending \subseteq Handlers /\ Len(results) = BP!Cardinality(BP!Pending)
  BY DEF PathInv, RoundInv, BP!BroadcasterInv, BP!Books, BP!Reported
<1>3. BP!Cardinality(BP!Pending) = Cardinality(BP!Pending)
  BY DEF BP!Cardinality, Cardinality
<1>4. Cardinality(BP!Pending) <= 2 /\ Cardinality(BP!Pending) \in Nat
  BY <1>1, <1>2, FS_Subset, FS_CardinalityType
<1> QED
  BY <1>2, <1>3, <1>4 DEF Left

LEMMA CollectorMoves ==
  ASSUME PathInv, [Next]_vars
  PROVE  /\ BP!Spawning => BP!Spawning' \/ Collecting'
         /\ Collecting => Collecting' \/ BP!Selecting'
         /\ Collecting /\ Shut => Shut'
         /\ Collecting /\ BothGone /\ Left(1) => Left(1)' \/ Left(0)'
         /\ Collecting /\ BothGone /\ Left(0) => Left(0)'
<1> USE DEF BP!Spawning, Collecting, BP!Selecting, Shut, BothGone, BP!Gone, Left
<1>1. pc \in [Handlers -> B!Stages] /\ results \in Seq(B!Result)
  BY DEF PathInv, RoundInv, RoundTypeOK, B!BroadcasterTypeOK
<1> DEFINE Onward == /\ BP!Spawning => BP!Spawning' \/ Collecting'
                     /\ Collecting => Collecting' \/ BP!Selecting'
                     /\ Collecting /\ Shut => Shut'
                     /\ Collecting /\ BothGone /\ Left(1) => Left(1)' \/ Left(0)'
                     /\ Collecting /\ BothGone /\ Left(0) => Left(0)'
<1> SUFFICES Onward
  OBVIOUS
<1>2. CASE NomadCall \/ TelegramCall \/ UNCHANGED vars
  BY <1>2 DEF NomadCall, TelegramCall, vars, roundVars
<1>3. CASE Rest /\ B!ReceiveEvent
  BY <1>3 DEF B!ReceiveEvent
<1>4. CASE B!CollectorStep
  BY <1>1, <1>4 DEF B!CollectorStep, B!StartCollecting, B!CloseResults, B!Collect, B!FinishRound,
     B!resultVars
<1>5. ASSUME NEW h \in Handlers, B!Spawn(h) \/ B!Expire(h) \/ B!HandlerStep(h) PROVE Onward
  <2>1. bc' = bc /\ closed' = closed
    BY <1>5 DEF B!Spawn, B!Expire, B!HandlerStep, B!CopyWord, B!StoreWord, B!LoadWord, B!Return,
       B!Panic, B!Report, B!Exit, B!resultVars
  <2>2. results' = results \/ pc[h] = "report"
    BY <1>5 DEF B!Spawn, B!Expire, B!HandlerStep, B!CopyWord, B!StoreWord, B!LoadWord, B!Return,
       B!Panic, B!Report, B!Exit, B!resultVars
  <2> QED
    BY <2>1, <2>2 DEF Handlers
<1> HIDE DEF Onward
<1> QED
  BY <1>2, <1>3, <1>4, <1>5 DEF Next, Rest, Goroutine

LEMMA CollectorTurn ==
  ASSUME PathInv, <<B!CollectorStep>>_B!broadcasterVars
  PROVE  /\ BP!Spawning => Collecting'
         /\ Collecting => \/ ~Shut /\ Shut'
                          \/ Left(2) /\ Left(1)'
                          \/ Left(1) /\ Left(0)'
                          \/ BP!Selecting'
<1>1. results \in Seq(B!Result)
  BY DEF PathInv, RoundInv, RoundTypeOK, B!BroadcasterTypeOK
<1>2. B!CollectorStep
  OBVIOUS
<1> USE DEF BP!Spawning, Collecting, BP!Selecting, Shut
<1>3. CASE B!StartCollecting \/ B!CloseResults \/ B!FinishRound
  BY <1>3 DEF B!StartCollecting, B!CloseResults, B!FinishRound
<1>4. CASE B!Collect
  <2>1. bc = "collect" /\ results # <<>> /\ results' = Tail(results)
    BY <1>4 DEF B!Collect
  <2>2. Len(results') = Len(results) - 1 /\ Len(results) \in Nat /\ Len(results) # 0
    BY <1>1, <2>1
  <2> QED
    BY <2>1, <2>2, TwoResults DEF Left
<1> QED
  BY <1>2, <1>3, <1>4 DEF B!CollectorStep

LEMMA CollectorFree ==
  ASSUME PathInv, RoundGuards, BothGone, BP!Spawning \/ Collecting
  PROVE  ENABLED <<B!CollectorStep>>_B!broadcasterVars
<1>1. \A h \in Handlers : pc[h] = "done"
  BY DEF BothGone, BP!Gone, Handlers
<1>2. Collecting => results # <<>> \/ closed \/ handlerWg = 0
  BY <1>1 DEF Collecting, PathInv, BP!PathInv, BP!NeverStuck, BP!Live
<1>3. Collecting => ENABLED <<B!CollectorStep>>_B!broadcasterVars
  BY <1>2 DEF Collecting, RoundGuards
<1>4. BP!Spawning => ENABLED <<B!CollectorStep>>_B!broadcasterVars
  BY <1>1 DEF BP!Spawning, RoundGuards
<1> QED
  BY <1>3, <1>4

\* Once both are gone the collector comes to the end of the channel.
LEMMA CollectorFinishes ==
  FairSpec /\ []RoundGuards => ((BP!Spawning \/ Collecting) /\ BothGone ~> BP!Selecting)
<1>1. PathInv /\ [Next]_vars =>
        /\ BP!Spawning => BP!Spawning' \/ Collecting'
        /\ Collecting => Collecting' \/ BP!Selecting'
        /\ Collecting /\ Shut => Shut'
        /\ Collecting /\ BothGone /\ Left(1) => Left(1)' \/ Left(0)'
        /\ Collecting /\ BothGone /\ Left(0) => Left(0)'
  BY CollectorMoves
<1>2. PathInv /\ [Next]_vars /\ BothGone => BothGone' \/ BP!Selecting
  BY PlacesOfEach DEF BothGone, Handlers
<1>3. PathInv /\ <<B!CollectorStep>>_B!broadcasterVars =>
         /\ BP!Spawning => Collecting'
         /\ Collecting => \/ ~Shut /\ Shut'
                          \/ Left(2) /\ Left(1)'
                          \/ Left(1) /\ Left(0)'
                          \/ BP!Selecting'
  BY CollectorTurn
<1>4. PathInv /\ RoundGuards /\ BothGone /\ (BP!Spawning \/ Collecting) =>
        ENABLED <<B!CollectorStep>>_B!broadcasterVars
  BY CollectorFree
<1>5. FairSpec => []PathInv /\ [][Next]_vars /\ WF_B!broadcasterVars(B!CollectorStep)
  BY PathInvHolds, PTL DEF FairSpec, Spec, B!BroadcasterFairness
<1>6. /\ ~(BP!Spawning /\ Collecting) /\ ~(BP!Selecting /\ (BP!Spawning \/ Collecting))
      /\ ~(Left(0) /\ Left(1)) /\ ~(Left(1) /\ Left(2)) /\ ~(Left(0) /\ Left(2))
  BY DEF BP!Spawning, Collecting, BP!Selecting, Left
<1>7. FairSpec /\ []RoundGuards => (BP!Spawning /\ BothGone ~> (Collecting /\ BothGone) \/ BP!Selecting)
  BY <1>1, <1>2, <1>3, <1>4, <1>5, <1>6, PTL
<1>8. FairSpec /\ []RoundGuards => (Collecting /\ BothGone ~> BP!Selecting)
  BY <1>1, <1>2, <1>3, <1>4, <1>5, <1>6, PTL
<1> QED
  BY <1>7, <1>8, PTL

\* The Nomad handler is over when Nomad has answered its two calls,
LEMMA NomadOver ==
  FairSpec /\ Answering /\ []RoundGuards => (BP!Spawning ~> BP!Gone("nomad"))
<1>1. "nomad" \in Handlers
  BY DEF Handlers
<1>2. PathInv /\ [Next]_vars =>
        /\ BP!Called("nomad") => BP!InCall("nomad") \/ BP!Reporting("nomad") \/ BP!Leaving("nomad") \/ BP!Gone("nomad")
        /\ BP!InCall("nomad") => BP!InCall("nomad")' \/ BP!Reporting("nomad")'
        /\ Asking \/ Draining \/ Answer("nomad")
        /\ Asking => Asking' \/ Draining' \/ Answer("nomad")'
        /\ Draining => Draining' \/ Answer("nomad")'
        /\ Answer("nomad") => Answer("nomad")'
  BY <1>1, PlacesOfEach, CallMoves DEF PathInv
<1>3. PathInv => (<<NomadCall>>_vars => (Asking => ~Asking') /\ (Draining => ~Draining'))
  BY CallActions DEF PathInv
<1>4. RoundGuards => (BP!InCall("nomad") /\ (Asking \/ Draining) => ENABLED <<NomadCall>>_vars)
  BY DEF RoundGuards, BP!InCall, Asking, Draining
<1>5. RoundGuards => GoroutineGuards("nomad")
  BY DEF RoundGuards
<1>6. FairSpec => []PathInv /\ [][Next]_vars
  BY PathInvHolds, PTL DEF FairSpec, Spec
<1>7. FairSpec /\ Guarded("nomad") => GetsThrough("nomad")
  BY <1>1, EachOver
<1>8. FairSpec /\ Guarded("nomad") => GetsCalled("nomad")
  BY <1>1, EachCalled
<1>9. FairSpec /\ Answering /\ []RoundGuards => (BP!InCall("nomad") ~> ~BP!InCall("nomad") \/ []Answer("nomad"))
  BY <1>2, <1>3, <1>4, <1>6, PTL DEF Answering
<1>10. FairSpec /\ Answering /\ []RoundGuards => (BP!InCall("nomad") ~> BP!Reporting("nomad"))
  BY <1>2, <1>5, <1>6, <1>7, <1>9, PTL DEF Guarded, GetsThrough
<1> QED
  BY <1>2, <1>5, <1>6, <1>7, <1>8, <1>10, PTL DEF Guarded, GetsThrough, GetsCalled

\* and the Telegram handler when its context is done, at the latest.
LEMMA TelegramOver ==
  FairSpec /\ []RoundGuards => (BP!Spawning ~> BP!Gone("telegram"))
<1>1. "telegram" \in Handlers
  BY DEF Handlers
<1>2. PathInv /\ [Next]_vars =>
        /\ BP!Called("telegram") => BP!InCall("telegram") \/ BP!Reporting("telegram") \/ BP!Leaving("telegram") \/ BP!Gone("telegram")
        /\ BP!InCall("telegram") => BP!InCall("telegram")' \/ BP!Reporting("telegram")'
        /\ BP!InCall("telegram") /\ BP!TimedOut("telegram") => BP!TimedOut("telegram")'
        /\ Sending \/ Answer("telegram")
        /\ Answer("telegram") => Answer("telegram")'
  BY <1>1, PlacesOfEach, CallMoves DEF PathInv
<1>3. PathInv => (<<B!CtxDone("telegram") /\ TelegramCall>>_vars => Answer("telegram")')
  BY CallActions DEF PathInv
<1>4. RoundGuards => (BP!InCall("telegram") /\ BP!TimedOut("telegram") /\ Sending =>
                        ENABLED <<B!CtxDone("telegram") /\ TelegramCall>>_vars)
  BY DEF RoundGuards, BP!InCall, BP!TimedOut, Sending
<1>5. RoundGuards => GoroutineGuards("telegram")
  BY DEF RoundGuards
<1>6. FairSpec => []PathInv /\ [][Next]_vars /\ WF_vars(B!CtxDone("telegram") /\ TelegramCall)
  BY PathInvHolds, PTL DEF FairSpec, Spec
<1>7. FairSpec /\ Guarded("telegram") => GetsThrough("telegram")
  BY <1>1, EachOver
<1>8. FairSpec /\ Guarded("telegram") => GetsCalled("telegram")
  BY <1>1, EachCalled
<1>9. FairSpec /\ []RoundGuards =>
        (BP!InCall("telegram") /\ BP!TimedOut("telegram") ~> ~BP!InCall("telegram") \/ []Answer("telegram"))
  BY <1>2, <1>3, <1>4, <1>6, PTL
<1>10. FairSpec /\ []RoundGuards => (BP!InCall("telegram") ~> BP!Reporting("telegram"))
  BY <1>2, <1>5, <1>6, <1>7, <1>9, PTL DEF Guarded, GetsThrough
<1> QED
  BY <1>2, <1>5, <1>6, <1>7, <1>8, <1>10, PTL DEF Guarded, GetsThrough, GetsCalled

\* With these two handlers a round ends, whatever the metadata, the names and the
\* nodes, as long as Nomad answers: the handlers, the WaitGroup, the channel and
\* the goroutine that closes it never wait for each other in a ring
\* (main.go:207-270).
THEOREM RoundEndsWithAnswers == FairSpec /\ []RoundGuards => RoundEndsIfAnswered
<1>1. PathInv /\ [Next]_vars =>
        /\ BP!Spawning => BP!Spawning' \/ Collecting'
        /\ Collecting => Collecting' \/ BP!Selecting'
  BY CollectorMoves
<1>2. PathInv /\ [Next]_vars =>
        /\ BP!Gone("nomad") => BP!Gone("nomad")' \/ BP!Selecting
        /\ BP!Gone("telegram") => BP!Gone("telegram")' \/ BP!Selecting
  BY PlacesOfEach DEF Handlers
<1>3. FairSpec => []PathInv /\ [][Next]_vars
  BY PathInvHolds, PTL DEF FairSpec, Spec
<1>4. FairSpec /\ Answering /\ []RoundGuards => (BP!Spawning ~> ((BP!Spawning \/ Collecting) /\ BothGone) \/ BP!Selecting)
  BY <1>1, <1>2, <1>3, NomadOver, TelegramOver, PTL DEF BothGone
<1>5. FairSpec /\ Answering /\ []RoundGuards => (BP!Spawning ~> BP!Selecting)
  BY <1>4, CollectorFinishes, PTL
<1>6. BP!Selecting => bc \in {"select", "done"} \/ crashed
  BY DEF BP!Selecting
<1> QED
  BY <1>5, <1>6, PTL DEF RoundEndsIfAnswered, B!RoundEnds, BP!Spawning

=============================================================================
