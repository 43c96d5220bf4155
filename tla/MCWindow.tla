------------------------------ MODULE MCWindow ------------------------------
(* Intervals below, between and above one and two request timeouts, the      *)
(* defaults (3 and 2) among them; the largest processing timeout, with and   *)
(* without Nomad, and one that is over before it begins.                     *)
EXTENDS Window

Polls       == {3, 6, 10}
Requests    == {1, 2, 4, 5}
Longest     == [poll : Polls, request : Requests, processing : {75}, nomad : BOOLEAN]
Shortest    == [poll : Polls, request : Requests, processing : {-1}, nomad : {FALSE}]
SomeConfigs == Longest \cup Shortest
=============================================================================
