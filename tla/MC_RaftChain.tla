------------------------------ MODULE MC_RaftChain ---------------------------
(***************************************************************************)
(* n1 is drawn on the genesis block and produces a term of two blocks; n2   *)
(* is drawn on the last of them, may miss the first, and may be restarted.  *)
(***************************************************************************)
EXTENDS RaftChain

CONSTANTS n1, n2, b2, b3, b4

MCCreator == [b \in Block |-> IF b \in {b2, b3} THEN n1 ELSE n2]
MCDrawnOn == [b \in Block |-> IF b \in {Genesis, b4} THEN n1 ELSE n2]
FirstOfTerm == [b \in Block |-> IF b = b2 THEN {n2} ELSE {}]
NothingMissed == [b \in Block |-> {}]
RestartOfTwo == [n \in Node |-> IF n = n2 THEN 1 ELSE 0]
NoRestart == [n \in Node |-> 0]
=============================================================================
