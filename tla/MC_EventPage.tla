----------------------------- MODULE MC_EventPage ----------------------------
(***************************************************************************)
(* Two members: the server, whose listener is looked at, and another one;   *)
(* each may stop and come back once.                                        *)
(***************************************************************************)
EXTENDS EventPage

CONSTANTS n1, n2

OneStop == [n \in Node |-> 1]
=============================================================================
