------------------------------ MODULE Delivery ------------------------------
(***************************************************************************)
(* What the program promises, with the polling, the channels, the mutex    *)
(* and the counters hidden: once the cloud has announced a termination,    *)
(* every handler is called at most once, under the right node name, and a  *)
(* summary is given only when all of them have answered, with the exact    *)
(* number of successes.  The process may stop at any moment, and then      *)
(* nothing happens any more.                                               *)
(***************************************************************************)
EXTENDS Integers, FiniteSets

CONSTANT Handlers

VARIABLES
  announced,  \* there is a termination to report
  answer,     \* per handler: "uncalled", "called", or what it returned
  heard,      \* per handler: the node name it was called with
  summary,    \* successes reported, or -1
  stopped     \* the process is gone

deliveryVars == <<announced, answer, heard, summary, stopped>>

Init ==
  /\ announced \in BOOLEAN
  /\ answer = [h \in Handlers |-> "uncalled"]
  /\ heard = [h \in Handlers |-> "nothing"]
  /\ summary = -1
  /\ stopped = FALSE

Announce ==
  /\ ~stopped
  /\ announced' = TRUE
  /\ UNCHANGED <<answer, heard, summary, stopped>>

\* A handler is called once.  Which of the two names is the right one is a
\* matter of configuration; all handlers hear the same one.
Call(h, name) ==
  /\ ~stopped
  /\ announced
  /\ answer[h] = "uncalled"
  /\ \A g \in Handlers : heard[g] \in {"nothing", name}
  /\ answer' = [answer EXCEPT ![h] = "called"]
  /\ heard' = [heard EXCEPT ![h] = name]
  /\ UNCHANGED <<announced, summary, stopped>>

Answer(h, r) ==
  /\ ~stopped
  /\ answer[h] = "called"
  /\ answer' = [answer EXCEPT ![h] = r]
  /\ UNCHANGED <<announced, heard, summary, stopped>>

Summarise ==
  /\ ~stopped
  /\ summary = -1
  /\ \A h \in Handlers : answer[h] \in {"ok", "error"}
  /\ summary' = Cardinality({h \in Handlers : answer[h] = "ok"})
  /\ UNCHANGED <<announced, answer, heard, stopped>>

Stop ==
  /\ stopped' = TRUE
  /\ UNCHANGED <<announced, answer, heard, summary>>

Next ==
  \/ Announce
  \/ \E h \in Handlers, name \in {"meta", "node"} : Call(h, name)
  \/ \E h \in Handlers, r \in {"ok", "error"} : Answer(h, r)
  \/ Summarise
  \/ Stop

Spec == Init /\ [][Next]_deliveryVars

=============================================================================
