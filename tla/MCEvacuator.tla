---------------------------- MODULE MCEvacuator ----------------------------
(* An instance of Evacuator: two handlers, one of which may be nil. *)
EXTENDS Evacuator

CONSTANTS kubernetes, telegram

TwoHandlers  == {kubernetes, telegram}
JustTelegram == {telegram}
NoHandler    == {}
=============================================================================
