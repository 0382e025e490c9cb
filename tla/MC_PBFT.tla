------------------------------ MODULE MC_PBFT ------------------------------
(***************************************************************************)
(* Small instances of PBFT: F = 1, four vote nodes, three of them in the    *)
(* cluster, so that every prepare and commit is needed.                     *)
(***************************************************************************)
EXTENDS PBFT

CONSTANTS n1, n2, n3, n4, g, b1, b2, b3

MCOrder == <<n1, n2, n3, n4>>

\* n2 produces b2; the other blocks are the first node's.
MCCreator == [b \in Block |-> IF b = b2 THEN n2 ELSE n1]

\* A requester of its own for every node: the answers spread as far as they can.
OneEach == [n \in Node |-> CASE n = n1 -> 1 [] n = n2 -> 2 [] n = n3 -> 3 [] n = n4 -> 4]

NoRestart == [n \in Node |-> 0]
\* One requester takes them all, one after the other.
Shared == [n \in Node |-> 0]

RestartOfOne == [n \in Node |-> IF n = n3 THEN 1 ELSE 0]
=============================================================================
