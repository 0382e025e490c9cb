------------------------- MODULE ConsensusCondition -------------------------
(***************************************************************************)
(* The quorum test of RepChain (object ConsensusCondition).  The object     *)
(* keeps three settings read from conf/system.conf: the number of vote      *)
(* nodes, the scale (number_of_endorsement: 1, 2 or 3) and the least number *)
(* of nodes that lets the system work (vote_node_min).  They are the        *)
(* parameters of the operators below.                                       *)
(***************************************************************************)
EXTENDS Integers, FiniteSets

(***************************************************************************)
(* The private method Check.  The source first tests                        *)
(* `this.ConsensusScale == 1`, which compares an AtomicInteger with an Int  *)
(* and is never true, so the scale 1 is not turned into 2; the branch       *)
(* written for the scale 3 repeats the test `scaledata == 2` and is dead.   *)
(* What is left is floor(nodes/2 + 1) for the scale 2 and false otherwise.  *)
(***************************************************************************)

\* Enough of the nodes gave their consent?
Check(nodes, scale, input) == scale = 2 /\ input >= (nodes \div 2) + 1

\* PBFT collects its quorums elsewhere: every input passes.
ConsensusConditionChecked(type, nodes, scale, input) ==
    type = "PBFT" \/ Check(nodes, scale, input)

\* May the voter work with this many stable nodes?
CheckWorkConditionOfSystem(nodes, scale, least, input) ==
    input >= least /\ Check(nodes, scale, input)
=============================================================================
