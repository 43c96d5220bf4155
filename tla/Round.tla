------------------------------- MODULE Round -------------------------------
(***************************************************************************)
(* One round of the broadcaster with the handlers Nomad and Telegram as    *)
(* they are, in the place of Broadcaster's abstract ones: what they are    *)
(* called with is what the race on event.Hostname left in their copy, and  *)
(* what they return is what the round collects.  Shutting down is left to  *)
(* module Evacuator: the processing timeout alone ends a context here.     *)
(***************************************************************************)
EXTENDS Naturals, Sequences, FiniteSets

CONSTANTS
  Nodes,           \* Nomad's nodes
  Hostnames,       \* what the metadata may give as hostname, "" included
  InstanceIDs,     \* and as instance id
  ConfiguredName   \* config.NodeName, when it is set

VARIABLES
  nodeName, broken, cancelled, crashed, bc, received, pc, host, touched, view,
  expired, outcome, results, closed, handlerWg, successCount,  \* Broadcaster
  registry, nomad, chosen, drained,                            \* NomadHandler
  telegram, posted,                                            \* TelegramHandler
  event                                                        \* as the sender sent it

Handlers == {"nomad", "telegram"}

B == INSTANCE Broadcaster WITH HonoursCtx <- {}, Fallible <- {}, MaxEvents <- 1
N == INSTANCE NomadHandler
T == INSTANCE TelegramHandler

roundVars    == <<nodeName, broken, cancelled, crashed, bc, received, pc, host, touched,
                  view, expired, outcome, results, closed, handlerWg, successCount>>
nomadVars    == <<registry, nomad, chosen, drained>>
telegramVars == <<telegram, posted>>
vars         == <<roundVars, nomadVars, telegramVars, event>>

NodeNames == Hostnames \cup {ConfiguredName}

\* A text is a sequence of characters, whatever they are.
ASSUME TextAssumption == \A t \in NodeNames \cup InstanceIDs : t \in Seq({t[i] : i \in DOMAIN t})

\* A field the metadata service would not give is "unknown"; an empty answer
\* is taken as it is.
Events == [Hostname : Hostnames, InstanceID : InstanceIDs,
           PrivateIP : {<<"1", ".", "2">>}, Reason : {<<"s", "p", "o", "t">>}]

RoundTypeOK ==
  /\ B!BroadcasterTypeOK
  /\ N!NomadTypeOK(NodeNames)
  /\ telegram \in {"send", "ok", "error"}
  /\ \A m \in posted : DOMAIN m = T!MessageFields
  /\ event \in Events

Init ==
  /\ B!BroadcasterInit
  /\ N!NomadInit(NodeNames)
  /\ T!TelegramInit
  /\ event \in Events
-----------------------------------------------------------------------------
\* The hostname in the copy of the event handler h is called with.
Heard(h) ==
  IF \A w \in B!Words : view[h][w] = "node" THEN ConfiguredName
  ELSE IF \A w \in B!Words : view[h][w] = "meta" THEN event.Hostname ELSE <<"torn">>

Running(h) == pc[h] = "running"

\* What h's HandleTermination has returned, if it has.
Returned(h) == IF h = "nomad" THEN nomad ELSE telegram

NomadCall ==
  /\ Running("nomad")
  /\ N!ListNodes(Heard("nomad")) \/ N!UpdateDrain
  /\ UNCHANGED <<roundVars, telegramVars, event>>

TelegramCall ==
  /\ Running("telegram")
  /\ T!SendMessage([event EXCEPT !.Hostname = Heard("telegram")])
  /\ UNCHANGED <<roundVars, nomadVars, event>>

\* A handler's goroutine passes on exactly what its handler returned.
Goroutine(h) ==
  /\ B!HandlerStep(h)
  /\ Running(h) => Returned(h) \in {"ok", "error"} /\ outcome'[h] = Returned(h)

Rest ==
  /\ \/ B!ReceiveEvent /\ received = 0
     \/ B!CollectorStep
     \/ \E h \in Handlers : B!Spawn(h) \/ B!Expire(h) \/ Goroutine(h)
  /\ UNCHANGED <<nomadVars, telegramVars, event>>

Next == NomadCall \/ TelegramCall \/ Rest

Spec == Init /\ [][Next]_vars

\* A goroutine whose handler has returned goes on.
Resume(h)      == Running(h) /\ Goroutine(h) /\ UNCHANGED <<nomadVars, telegramVars, event>>
GoesOn(h)      == WF_vars(Resume(h))
GoroutinesGoOn == \A h \in Handlers : GoesOn(h)

\* The Telegram client gives up once its context is done; nothing makes a call
\* to Nomad come back.
FairSpec ==
  /\ Spec
  /\ B!BroadcasterFairness
  /\ WF_vars(B!CtxDone("telegram") /\ TelegramCall)
  /\ GoroutinesGoOn

\* Nomad answers, with or without an error.
Answering == WF_vars(NomadCall)
-----------------------------------------------------------------------------
\* Only nodes of the name the handler was called with are drained.
OnlyNamedNodeDrained ==
  \A n \in drained : registry[n] = (IF nodeName THEN ConfiguredName ELSE event.Hostname)

\* The alert in the chat and the drain in the cluster are about one node, for
\* all that the two handlers race for the hostname.
AlertNamesDrainedNode ==
  \A m \in posted, n \in drained : T!Rendered(m.Hostname) = registry[n]

\* Escaping loses nothing and leaves no markup: the chat shows each field as
\* the metadata service, or the configuration, gave it.
MessageFaithful ==
  \A m \in posted, f \in T!MessageFields :
    T!Rendered(m[f]) = IF f = "Hostname" THEN Heard("telegram") ELSE event[f]

\* The round ends if Nomad answers,
RoundEndsIfAnswered == Answering => B!RoundEnds

\* and "processing_timeout" is the "time allowed for each handler to process
\* termination event" (config-example.yaml:63): it ends in any case.
RoundEnds == B!RoundEnds

=============================================================================
