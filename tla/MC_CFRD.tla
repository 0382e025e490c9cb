------------------------------ MODULE MC_CFRD ------------------------------
(***************************************************************************)
(* Small instances of CFRD: four vote nodes, of which three or four are in  *)
(* the cluster, and blocks that n1, n2 and n3 may produce.                  *)
(***************************************************************************)
EXTENDS CFRD

CONSTANTS n1, n2, n3, n4, g, b1, b2, b3

\* n1 may produce two blocks, n2 one.
MCCreator == [b \in Block |-> IF b = b2 THEN n2 ELSE n1]

\* On top of the genesis block n1 is drawn first and n2 after a block timeout;
\* on top of b1 n2 is drawn first, on top of the other blocks n1.
MCCandidates == [b \in Block |-> CASE b = g -> <<n1, n2, n3, n4>>
                                  [] b = b1 -> <<n2, n1, n4, n3>>
                                  [] OTHER -> <<n1, n3, n2, n4>>]

\* endorse_resend_times below zero: no resend at all.
NoResend == -1

\* Only n1 is restarted, once; or nobody is.
RestartOfOne == [n \in Node |-> IF n = n1 THEN 1 ELSE 0]
NoRestart == [n \in Node |-> 0]
=============================================================================
