---------------------------- MODULE NomadHandler ----------------------------
(***************************************************************************)
(* NomadHandler.HandleTermination: list the nodes of that name, start the  *)
(* drain of the first one.  Neither call carries the context, so neither   *)
(* need ever come back.  Nomad itself is the environment: which nodes it   *)
(* has, under which names (a replaced instance may have left its name      *)
(* behind), what it lists, and whether a drain it began was answered.      *)
(***************************************************************************)

CONSTANT Nodes   \* node ids, as Nomad knows them

VARIABLES
  registry,  \* the name Nomad has for each node; never changes
  nomad,     \* the handler: the call it is in, or the error it returned
  chosen,    \* nodeID, or "none"
  drained    \* the nodes whose drain was begun

NomadTypeOK(names) ==
  /\ registry \in [Nodes -> names]
  /\ nomad \in {"list", "drain", "ok", "error"}
  /\ chosen \in Nodes \cup {"none"}
  /\ drained \in SUBSET Nodes

NomadInit(names) ==
  /\ registry \in [Nodes -> names]
  /\ nomad = "list"
  /\ chosen = "none"
  /\ drained = {}

Named(hostname) == {n \in Nodes : registry[n] = hostname}

\* What the filter `Name == "..."` makes Nomad list.  The handler does not rely
\* on it: it compares the names again, as for a server that knows no filter.
Lists(hostname) == {Named(hostname), Nodes}

\* Seeded fault: the first node listed is taken for the one asked for.
ListNodesUnchecked(hostname) ==
  /\ nomad = "list"
  /\ \E listed \in Lists(hostname) :
       IF listed = {} THEN nomad' = "ok" /\ UNCHANGED chosen
       ELSE nomad' = "drain" /\ chosen' \in listed
  /\ UNCHANGED <<registry, drained>>

\* The order of the list is Nomad's: the first node of that name may be any of
\* them.  Finding none returns the nil error of the listing.
ListNodes(hostname) ==
  /\ nomad = "list"
  /\ \/ nomad' = "error" /\ UNCHANGED chosen
     \/ \E listed \in Lists(hostname) :
          IF listed \cap Named(hostname) = {} THEN nomad' = "ok" /\ UNCHANGED chosen
          ELSE nomad' = "drain" /\ chosen' \in listed \cap Named(hostname)
  /\ UNCHANGED <<registry, drained>>

\* UpdateDrain returns once the drain has begun; an answer can be lost.
UpdateDrain ==
  /\ nomad = "drain"
  /\ \E began \in BOOLEAN :
       /\ drained' = (IF began THEN drained \cup {chosen} ELSE drained)
       /\ nomad' \in {"error"} \cup (IF began THEN {"ok"} ELSE {})
  /\ UNCHANGED <<registry, chosen>>

=============================================================================
