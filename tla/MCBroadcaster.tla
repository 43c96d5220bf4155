--------------------------- MODULE MCBroadcaster ---------------------------
(* Instances of Broadcaster.  Only the handlers' names are model values: the *)
(* runs differ in how many there are and which of them may be nil.           *)
EXTENDS Broadcaster

CONSTANTS kubernetes, telegram, nomad

AllHandlers == {kubernetes, telegram, nomad}
TwoHandlers == {kubernetes, telegram}
OneNomad    == {nomad}
=============================================================================
