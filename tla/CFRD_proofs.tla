----------------------------- MODULE CFRD_proofs ----------------------------
(***************************************************************************)
(* The safety of CFRD for every set of nodes, blocks, draws and settings:   *)
(* IInv is inductive, and carries the safety properties with it; with AInv  *)
(* beside it the ledgers implement QuorumLedger and agree.                  *)
(*                                                                          *)
(* Every step only adds: to the ledgers, the endorsements and the published *)
(* blocks, and it leaves a produced block as it is (Grows).  So a fact      *)
(* about one block that a node holds stays true (ProperKept), and each part *)
(* of the invariant is kept by every action that leaves its own variables   *)
(* alone (Frame).  What is left is one step for each action and each part   *)
(* that it disturbs.                                                        *)
(***************************************************************************)
EXTENDS CFRD, FiniteSetTheorems, TLAPS

-----------------------------------------------------------------------------
(* Types.                                                                   *)

\* The draw yields a vote node.
LEMMA DrawType == \A h \in Block, i \in Nat : Draw(h, i) \in Node
<1>1. SUFFICES ASSUME NEW h \in Block, NEW i \in Nat PROVE Draw(h, i) \in Node
  OBVIOUS
<1>2. Candidates[h] \in Seq(Node) /\ Len(Candidates[h]) \in Nat /\ Len(Candidates[h]) > 0
  BY DrawAssumption
<1>3. \A k \in Nat \ {0} : (i % k) + 1 \in 1 .. k
  OBVIOUS
<1>5. Len(Candidates[h]) \in Nat \ {0}
  BY <1>2
<1>6. (i % Len(Candidates[h])) + 1 \in 1 .. Len(Candidates[h])
  BY <1>3, <1>5
<1> QED
  BY <1>2, <1>6 DEF Draw

LEMMA InitType == Init => TypeOK
  BY BlocksAssumption, SettingsAssumption, DrawAssumption, NodesAssumption
  DEF Init, TypeOK, Hash, Index, NoVote, Info, NoInfo, InfoType, IdlePack, NoCollection

LEMMA HashReadType == \A n \in Node : TypeOK => HashRead(n) \in Block
  BY DEF HashRead, TypeOK, Hash

\* Every step of a voter keeps the types.
LEMMA VoterType == ASSUME TypeOK, NEW n \in Stable, VoterNext(n) PROVE TypeOK'
<1> n \in Node
  BY NodesAssumption
<1>1. ASSUME NEW i \in Nat, ResetBlocker(n, i)
      PROVE  /\ blocker' \in [Node -> [blocker : Node \cup {NoNode}, index : Index,
                                       hash : Hash, height : Nat \cup {-1}]]
             /\ create' \in [Node -> BOOLEAN]
  <2>1. Draw(HashRead(n), i) \in Node /\ HashRead(n) \in Hash /\ i \in Index
    BY <1>1, DrawType, HashReadType, SettingsAssumption DEF ResetBlocker, Hash, Index
  <2>2. Height(n) \in Nat \cup {-1}
    BY DEF Height, TypeOK
  <2> QED
    BY <1>1, <2>1, <2>2 DEF ResetBlocker, Notice, TypeOK
<1>2. CASE VoteOfBlocker(n)
  <2>1. blocker[n].index + 1 \in Nat /\ 0 \in Nat
    BY SettingsAssumption DEF TypeOK, Index
  <2>2. /\ blocker' \in [Node -> [blocker : Node \cup {NoNode}, index : Index,
                                  hash : Hash, height : Nat \cup {-1}]]
        /\ create' \in [Node -> BOOLEAN]
    BY <1>1, <1>2, <2>1 DEF VoteOfBlocker, Notice, TypeOK
  <2> QED
    BY <1>2, <2>2 DEF VoteOfBlocker, TypeOK, Hash, chainVars, blockVars, blockerVars, collVars
<1>3. CASE SpecifyVoteHeight(n)
  <2>1. PICK f \in force[n] :
          /\ force' = [force EXCEPT ![n] = @ \ {f}]
          /\ \/ ResetBlocker(n, 0)
             \/ blocker[n].index < f.index /\ ResetBlocker(n, f.index)
             \/ UNCHANGED <<blocker, create>>
    BY <1>3 DEF SpecifyVoteHeight
  <2>2. blocker[n].index < f.index => f.index \in Nat
    BY SettingsAssumption DEF TypeOK, Index, InfoType
  <2>3. /\ blocker' \in [Node -> [blocker : Node \cup {NoNode}, index : Index,
                                  hash : Hash, height : Nat \cup {-1}]]
        /\ create' \in [Node -> BOOLEAN]
    BY <1>1, <2>1, <2>2 DEF TypeOK
  <2> QED
    BY <1>3, <2>1, <2>3 DEF SpecifyVoteHeight, TypeOK, Hash, chainVars, blockVars, blockerVars,
       collVars
<1>4. CASE CleanVoteInfo(n)
  <2>1. NoVote \in [blocker : Node \cup {NoNode}, index : Index, hash : Hash,
                    height : Nat \cup {-1}]
    BY SettingsAssumption DEF NoVote, Index, Hash
  <2> QED
    BY <1>4, <2>1 DEF CleanVoteInfo, TypeOK, chainVars, blockVars, blockerVars, collVars
<1> QED
  BY <1>2, <1>3, <1>4 DEF VoterNext

\* The values of a blocker's progress and of a collector.
PackType == [stage : {"idle", "packing", "hashed", "packed"}, hash : Hash, block : Hash]
CollType == [block : Hash, info : InfoType, recved : SUBSET Node,
             resends : 0 .. (EndorseResendTimes + 1), again : SUBSET Node]
AskType == [from : Node, to : Node, block : Block, info : InfoType, signed : BOOLEAN, lost : BOOLEAN]

\* The records a node starts with.
LEMMA StartType == NoInfo \in InfoType /\ NoCollection \in CollType /\ IdlePack \in PackType
  BY SettingsAssumption
  DEF NoVote, Info, NoInfo, InfoType, Hash, Index, NoCollection, CollType, IdlePack, PackType

\* Every step of a blocker keeps the types.
LEMMA BlockerType == ASSUME TypeOK, NEW n \in Stable, BlockerNext(n) PROVE TypeOK'
<1> n \in Node
  BY NodesAssumption
<1> USE DEF chainVars, blockVars, voterVars, collVars
<1>1. Info(blocker[n]) \in InfoType
  BY DEF TypeOK, Info, InfoType
<1>2. CASE CreateBlock(n)
  <2>1. preblock[n] # NoHash => preblock[n] \in Block
    BY DEF TypeOK, Hash
  <2>2. /\ pack' \in [Node -> PackType]
        /\ \A m \in Node : pack'[m].stage = "packed" => pack'[m].block \in Block
    <3>1. CASE pack' = pack
      BY <3>1 DEF TypeOK, PackType
    <3>2. CASE pack' = [pack EXCEPT ![n].stage = "packing"]
      <4>1. /\ pack[n] \in PackType /\ pack \in [Node -> PackType]
            /\ \A m \in Node : pack[m].stage = "packed" => pack[m].block \in Block
        BY DEF TypeOK, PackType
      <4>2. [pack[n] EXCEPT !.stage = "packing"] \in PackType
        BY <4>1 DEF PackType
      <4>3. [pack[n] EXCEPT !.stage = "packing"].stage # "packed"
        BY <4>1 DEF PackType
      <4> QED
        BY <3>2, <4>1, <4>2, <4>3
    <3> QED
      BY <1>2, <3>1, <3>2 DEF CreateBlock
  <2>3. preinfo' \in [Node -> InfoType]
    BY <1>1, <1>2 DEF CreateBlock, TypeOK
  <2>4. collectQ' \in [Node -> SUBSET [block : Block, info : InfoType]]
    BY <1>1, <1>2, <2>1 DEF CreateBlock, Collect, TypeOK
  <2>5. create' \in [Node -> BOOLEAN]
    BY <1>2 DEF CreateBlock, TypeOK
  <2> QED
    BY <1>2, <2>2, <2>3, <2>4, <2>5 DEF CreateBlock, TypeOK, PackType
<1>3. CASE PackHash(n)
  <2>1. [stage |-> "hashed", hash |-> blocker[n].hash, block |-> NoHash] \in PackType
    BY DEF TypeOK, PackType, Hash
  <2> QED
    BY <1>3, <2>1 DEF PackHash, TypeOK, PackType
<1>4. CASE PackHeight(n)
  <2>1. PICK b \in Block :
          /\ prev' = [prev EXCEPT ![b] = pack[n].hash]
          /\ height' = [height EXCEPT ![b] = blocker[n].height + 1]
          /\ pack' = [pack EXCEPT ![n].stage = "packed", ![n].block = b]
    BY <1>4 DEF PackHeight
  <2>2. pack[n].hash \in Hash /\ blocker[n].height \in Nat \cup {-1}
    BY DEF TypeOK
  <2>3. blocker[n].height + 1 \in Nat
    BY <2>2
  <2>4. b \in Hash
    BY DEF Hash
  <2>5. /\ pack' \in [Node -> PackType]
        /\ \A m \in Node : pack'[m].stage = "packed" => pack'[m].block \in Block
    <3> DEFINE v == [pack[n] EXCEPT !.stage = "packed", !.block = b]
    <3>1. /\ pack[n] \in PackType /\ pack \in [Node -> PackType]
          /\ \A m \in Node : pack[m].stage = "packed" => pack[m].block \in Block
      BY DEF TypeOK, PackType
    <3>2. v \in PackType /\ v.block = b
      BY <2>4, <3>1 DEF PackType
    <3>3. pack' = [pack EXCEPT ![n] = v]
      BY <2>1
    <3> HIDE DEF v
    <3> QED
      BY <3>1, <3>2, <3>3
  <2>6. prev' \in [Block -> Hash] /\ height' \in [Block -> Nat \cup {-1}]
    BY <2>1, <2>2, <2>3 DEF TypeOK
  <2> QED
    BY <1>4, <2>5, <2>6 DEF PackHeight, TypeOK, PackType
<1>5. CASE PackFail(n)
  <2>1. [IdlePack EXCEPT !.stage = "packing"] \in PackType
    BY StartType DEF PackType
  <2>2. /\ pack \in [Node -> PackType]
        /\ \A m \in Node : pack[m].stage = "packed" => pack[m].block \in Block
    BY DEF TypeOK, PackType
  <2>3. /\ pack' \in [Node -> PackType]
        /\ \A m \in Node : pack'[m].stage = "packed" => pack'[m].block \in Block
    BY <1>5, <2>1, <2>2, StartType DEF PackFail, IdlePack
  <2> QED
    BY <1>5, <2>3 DEF PackFail, TypeOK, PackType
<1>6. CASE PackDone(n)
  <2>1. pack[n].block \in Block
    BY <1>6 DEF PackDone, TypeOK
  <2>2. /\ pack' \in [Node -> PackType]
        /\ \A m \in Node : pack'[m].stage = "packed" => pack'[m].block \in Block
    BY <1>6, StartType DEF PackDone, TypeOK, IdlePack, PackType
  <2>3. /\ preblock' \in [Node -> Hash] /\ preinfo' \in [Node -> InfoType]
        /\ collectQ' \in [Node -> SUBSET [block : Block, info : InfoType]]
    BY <1>1, <1>6, <2>1 DEF PackDone, Collect, TypeOK, Hash
  <2> QED
    BY <1>6, <2>2, <2>3 DEF PackDone, TypeOK, PackType
<1> QED
  BY <1>2, <1>3, <1>4, <1>5, <1>6 DEF BlockerNext

\* Noting an endorser for the delayed resend keeps the collectors' types.
LEMMA ResendType ==
    ASSUME TypeOK, NEW q \in asks, Resend(q)
    PROVE  coll' \in [Node -> CollType]
<1>1. coll' = coll \/ coll' = [coll EXCEPT ![q.from].again = @ \cup {q.to}]
  BY DEF Resend
<1>2. coll \in [Node -> CollType] /\ coll[q.from] \in CollType /\ q.to \in Node
  BY DEF TypeOK, CollType
<1>3. [coll[q.from] EXCEPT !.again = @ \cup {q.to}] \in CollType
  BY <1>2 DEF CollType
<1> QED
  BY <1>1, <1>2, <1>3

\* Every step of a collector keeps the types.
LEMMA CollectorType == ASSUME TypeOK, NEW n \in Stable, CollectorNext(n) PROVE TypeOK'
<1> n \in Node /\ Stable \subseteq Node
  BY NodesAssumption
<1> USE DEF chainVars, blockVars, voterVars, blockerVars
<1>1. CASE CollectEndorsement(n)
  <2>1. PICK q \in collectQ[n] :
          /\ collectQ' = [collectQ EXCEPT ![n] = @ \ {q}]
          /\ \/ /\ coll' = [coll EXCEPT ![n] =
                              [NoCollection EXCEPT !.block = q.block, !.info = q.info]]
                /\ asks' = asks \cup {Ask(n, m, q.block, q.info) : m \in Stable \ {n}}
             \/ UNCHANGED <<coll, asks>>
    BY <1>1 DEF CollectEndorsement
  <2>2. q.block \in Block /\ q.info \in InfoType
    BY DEF TypeOK
  <2>3. [NoCollection EXCEPT !.block = q.block, !.info = q.info] \in CollType
    BY <2>2, StartType DEF CollType, Hash
  <2>4. coll' \in [Node -> CollType]
    BY <2>1, <2>3 DEF TypeOK, CollType
  <2>5. \A m \in Node : Ask(n, m, q.block, q.info) \in AskType
    BY <2>2 DEF Ask, AskType
  <2>6. asks' \subseteq AskType
    BY <2>1, <2>5 DEF TypeOK, AskType
  <2>7. collectQ' \in [Node -> SUBSET [block : Block, info : InfoType]]
    BY <2>1 DEF TypeOK
  <2> QED
    BY <1>1, <2>4, <2>6, <2>7 DEF CollectEndorsement, TypeOK, CollType, AskType
<1>2. CASE DelayResend(n)
  <2> DEFINE goes == Collecting(n) /\ Working /\ coll[n].resends <= EndorseResendTimes
  <2>1. coll[n] \in CollType
    BY DEF TypeOK, CollType
  <2>2. goes => coll[n].resends + 1 \in 0 .. (EndorseResendTimes + 1)
    BY <2>1, SettingsAssumption DEF CollType
  <2>3. coll' = [coll EXCEPT ![n].again = {},
                             ![n].resends = IF goes THEN @ + 1 ELSE @]
    BY <1>2 DEF DelayResend
  <2>4. coll' \in [Node -> CollType]
    <3> HIDE DEF goes
    <3> QED
      BY <2>1, <2>2, <2>3 DEF TypeOK, CollType
  <2>5. asks' \subseteq asks \cup {r \in {Ask(n, m, coll[n].block, coll[n].info) :
                                          m \in coll[n].again} : goes}
    BY <1>2 DEF DelayResend
  <2>6. goes => coll[n].block \in Block
    BY <2>1 DEF Collecting, CollType, Hash
  <2>7. goes => \A m \in coll[n].again : Ask(n, m, coll[n].block, coll[n].info) \in AskType
    BY <2>1, <2>6 DEF CollType, Ask, AskType
  <2>8. asks' \subseteq AskType
    <3> HIDE DEF goes
    <3> QED
      BY <2>5, <2>7 DEF TypeOK, AskType
  <2> QED
    BY <1>2, <2>4, <2>8 DEF DelayResend, TypeOK, CollType, AskType
<1> QED
  BY <1>1, <1>2 DEF CollectorNext

\* Every step of a requester keeps the types.
LEMMA RequesterType == ASSUME TypeOK, NEW q \in asks, RequesterNext(q) PROVE TypeOK'
<1> USE DEF chainVars, blockVars, voterVars, blockerVars
<1>1. q \in AskType /\ q.from \in Node /\ q.to \in Node
  BY DEF TypeOK, AskType
<1>2. CASE ReceiveEndorsement(q)
  <2>1. asks' = asks \ {q}
    BY <1>2 DEF ReceiveEndorsement
  <2>2. coll[q.from] \in CollType /\ coll \in [Node -> CollType]
    BY <1>1 DEF TypeOK, CollType
  <2>3. CASE Collecting(q.from) /\ coll[q.from].block = q.block /\ CheckAndFinish(q.from, q.to)
    <3> DEFINE recved == coll[q.from].recved \cup {q.to}
    <3>1. recved \subseteq Node /\ coll[q.from].block \in Block
      BY <1>1, <2>2, <2>3 DEF CollType, AskType
    <3>2. confirmed' \subseteq [block : Block, signers : SUBSET Node]
      BY <1>1, <2>3, <3>1 DEF CheckAndFinish, TypeOK
    <3>3. [coll[q.from] EXCEPT !.recved = recved] \in CollType
      BY <2>2, <3>1 DEF CollType
    <3>4. coll' \in [Node -> CollType]
      BY <2>2, <2>3, <3>3, StartType DEF CheckAndFinish
    <3> QED
      BY <1>2, <2>1, <3>2, <3>4 DEF ReceiveEndorsement, TypeOK, CollType
  <2>4. CASE UNCHANGED <<coll, confirmed>>
    BY <1>2, <2>1, <2>4 DEF ReceiveEndorsement, TypeOK
  <2> QED
    BY <1>2, <2>3, <2>4 DEF ReceiveEndorsement
<1>3. CASE AskTimeout(q)
  <2>1. coll' \in [Node -> CollType]
    BY <1>1, <1>3, ResendType DEF AskTimeout
  <2> QED
    BY <1>3, <2>1 DEF AskTimeout, TypeOK, CollType
<1> QED
  BY <1>2, <1>3 DEF RequesterNext

\* Every step of an endorser keeps the types.
LEMMA EndorserType == ASSUME TypeOK, NEW q \in asks, EndorserNext(q) PROVE TypeOK'
<1> USE DEF chainVars, blockVars, voterVars, blockerVars
<1>1. q \in AskType /\ q.from \in Node /\ q.to \in Node
  BY DEF TypeOK, AskType
<1>2. CASE EndorseSuccess(q)
  <2>1. [q EXCEPT !.signed = TRUE] \in AskType
    BY <1>1 DEF AskType
  <2>2. asks' \subseteq AskType
    BY <1>2, <2>1 DEF EndorseSuccess, TypeOK, AskType
  <2>3. signed' \subseteq [node : Node, block : Block, index : Index]
    BY <1>1, <1>2 DEF EndorseSuccess, TypeOK, AskType
  <2> QED
    BY <1>2, <2>2, <2>3 DEF EndorseSuccess, TypeOK, AskType
<1>3. CASE EndorseVerifyError(q)
  BY <1>3 DEF EndorseVerifyError, TypeOK
<1>4. CASE EndorseHeightError(q)
  <2>1. force' = force \/ force' = [force EXCEPT ![q.to] = @ \cup {q.info}]
    BY <1>4 DEF EndorseHeightError
  <2>2. force' \in [Node -> SUBSET InfoType]
    <3>1. q.info \in InfoType /\ force \in [Node -> SUBSET InfoType]
      BY <1>1 DEF TypeOK, AskType
    <3>2. force[q.to] \cup {q.info} \in SUBSET InfoType
      BY <1>1, <3>1
    <3> QED
      BY <1>1, <2>1, <3>1, <3>2
  <2>3. coll' \in [Node -> CollType]
    BY <1>1, <1>4, ResendType DEF EndorseHeightError, TypeOK, CollType
  <2>4. asks' \subseteq asks
    BY <1>4 DEF EndorseHeightError
  <2> QED
    BY <1>4, <2>2, <2>3, <2>4 DEF EndorseHeightError, TypeOK, CollType
<1>5. CASE EndorseSynching(q)
  <2>1. coll' \in [Node -> CollType]
    BY <1>1, <1>5, ResendType DEF EndorseSynching
  <2> QED
    BY <1>5, <2>1 DEF EndorseSynching, TypeOK, CollType
<1> QED
  BY <1>2, <1>3, <1>4, <1>5 DEF EndorserNext

\* Confirming, storing and restarting keep the types.
LEMMA StorageType ==
    ASSUME TypeOK, NEW n \in Stable, StorageNext(n) \/ Restart(n) PROVE TypeOK'
<1> n \in Node
  BY NodesAssumption
<1> USE DEF blockVars, voterVars, blockerVars, collVars
<1>1. ASSUME NEW c \in confirmed, Confirm(n, c) PROVE TypeOK'
  <2>1. cache' \in [Node -> SUBSET Block]
    BY <1>1 DEF Confirm, TypeOK
  <2> QED
    BY <1>1, <2>1 DEF Confirm, TypeOK
<1>2. ASSUME NEW b \in Block, Store(n, b) PROVE TypeOK'
  <2>1. HashRead(n) \in Hash
    BY HashReadType DEF Hash
  <2>2. /\ cur' \in [Node -> Block] /\ stored' \in [Node -> SUBSET Block]
        /\ cache' \in [Node -> SUBSET Block] /\ seen' \in [Node -> Hash]
    <3>1. /\ cache' = [cache EXCEPT ![n] = @ \ {b}]
          /\ cur' = cur \/ cur' = [cur EXCEPT ![n] = b]
          /\ stored' = stored \/ stored' = [stored EXCEPT ![n] = @ \cup {b}]
          /\ seen' = seen \/ seen' = [seen EXCEPT ![n] = HashRead(n)]
      BY <1>2 DEF Store
    <3>2. /\ cur \in [Node -> Block] /\ stored \in [Node -> SUBSET Block]
          /\ cache \in [Node -> SUBSET Block] /\ seen \in [Node -> Hash]
      BY DEF TypeOK
    <3> QED
      BY <2>1, <3>1, <3>2
  <2> QED
    BY <1>2, <2>2 DEF Store, TypeOK
<1>3. CASE Restart(n)
  <2>1. NoVote \in [blocker : Node \cup {NoNode}, index : Index, hash : Hash,
                    height : Nat \cup {-1}]
    BY SettingsAssumption DEF NoVote, Index, Hash
  <2>2. /\ pack' \in [Node -> PackType]
        /\ \A m \in Node : pack'[m].stage = "packed" => pack'[m].block \in Block
    BY <1>3, StartType DEF Restart, TypeOK, IdlePack, PackType
  <2>3. /\ preblock' \in [Node -> Hash] /\ preinfo' \in [Node -> InfoType]
        /\ coll' \in [Node -> CollType] /\ seen' \in [Node -> Hash]
    BY <1>3, StartType DEF Restart, TypeOK, CollType, Hash
  <2>4. /\ cache' \in [Node -> SUBSET Block]
        /\ create' \in [Node -> BOOLEAN] /\ force' \in [Node -> SUBSET InfoType]
        /\ collectQ' \in [Node -> SUBSET [block : Block, info : InfoType]]
        /\ restarts' \in [Node -> Nat]
    BY <1>3 DEF Restart, TypeOK
  <2>5. blocker' \in [Node -> [blocker : Node \cup {NoNode}, index : Index, hash : Hash,
                              height : Nat \cup {-1}]]
    BY <1>3, <2>1 DEF Restart, TypeOK
  <2>6. asks' \subseteq AskType
    <3>1. \A q \in asks : q \in AskType /\ [q EXCEPT !.lost = TRUE] \in AskType
      BY ZenonT(60) DEF TypeOK, AskType
    <3> QED
      BY <1>3, <3>1 DEF Restart
  <2> QED
    BY <1>3, <2>2, <2>3, <2>4, <2>5, <2>6 DEF Restart, TypeOK, PackType, CollType, AskType
<1> QED
  BY <1>1, <1>2, <1>3 DEF StorageNext

LEMMA TypeStep == TypeOK /\ [Next]_vars => TypeOK'
<1> SUFFICES ASSUME TypeOK, [Next]_vars PROVE TypeOK'
  OBVIOUS
<1>1. CASE UNCHANGED vars
  BY <1>1 DEF vars, chainVars, blockVars, voterVars, blockerVars, collVars, TypeOK
<1>2. CASE Next
  BY <1>2, VoterType, BlockerType, CollectorType, StorageType, RequesterType, EndorserType
  DEF Next
<1> QED
  BY <1>1, <1>2

\* Every variable of the consensus keeps its type; in particular a collector
\* never resends more than endorse_resend_times + 1 times, and no index of a
\* draw leaves its range (the fields of EndorseCollector and of BlockerInfo).
THEOREM TypeCorrect == Spec => []TypeOK
<1>1. Init => TypeOK
  BY InitType
<1>2. TypeOK /\ [Next]_vars => TypeOK'
  BY TypeStep
<1> QED
  BY <1>1, <1>2, PTL DEF Spec

-----------------------------------------------------------------------------
(* Safety.                                                                  *)

\* What no step takes back.
Grows ==
    /\ \A n \in Node : stored[n] \subseteq stored'[n]
    /\ \A b \in Block : height[b] > 0 => prev'[b] = prev[b] /\ height'[b] = height[b]
    /\ signed \subseteq signed' /\ confirmed \subseteq confirmed'

LEMMA ProperKept ==
    ASSUME TypeOK, InvLedger, Grows, NEW n \in Node, NEW b \in Block, Proper(b, n)
    PROVE  Proper(b, n)' /\ prev'[b] = prev[b] /\ height'[b] = height[b]
<1>1. prev[b] \in Block /\ height[prev[b]] > 0
  BY DEF TypeOK, InvLedger, Proper
<1>2. height[b] > 0
  <2>1. \A h \in Nat \cup {-1} : h > 0 => h + 1 > 0
    OBVIOUS
  <2> QED
    BY <1>1, <2>1 DEF TypeOK, Proper
<1> QED
  BY <1>1, <1>2 DEF Grows, Proper

LEMMA EndorsedKept ==
    ASSUME Grows, NEW b, NEW m, Endorsed(b, m) PROVE Endorsed(b, m)'
  BY DEF Grows, Endorsed

\* A part of the invariant is kept by a step that leaves its variables alone.
LEMMA Frame ==
    ASSUME TypeOK, IInv, Grows
    PROVE  /\ cur' = cur /\ stored' = stored => InvLedger'
           /\ stored' = stored /\ cache' = cache => InvCertified'
           /\ UNCHANGED <<cur, stored, blocker, seen>> => InvDraw'
           /\ UNCHANGED <<cur, stored, blocker, pack>> => InvPack'
           /\ UNCHANGED <<prev, height, cur, stored, pack, preblock, collectQ>> => InvOwn'
           /\ asks' \subseteq asks => InvAsks'
           /\ signed' = signed => InvSigned'
           /\ coll' = coll => InvColl'
           /\ confirmed' = confirmed => InvConfirmed' /\ CertificateIsReal'
<1> USE DEF IInv
<1>0. \A n \in Node : cur[n] \in Block /\ height[cur[n]] > 0 /\ cur[n] \in stored[n]
  BY DEF TypeOK, InvLedger, Height
<1>1. cur' = cur /\ stored' = stored => InvLedger'
  BY <1>0, BlocksAssumption DEF InvLedger, Height, Grows, TypeOK
<1>2. stored' = stored /\ cache' = cache => InvCertified'
  BY DEF InvCertified, Grows
<1>3. UNCHANGED <<cur, stored, blocker, seen>> => InvDraw'
  BY <1>0 DEF InvDraw, Grows, Held, Height
<1>4. UNCHANGED <<cur, stored, blocker, pack>> => InvPack'
  BY DEF InvPack, Held
<1>5. UNCHANGED <<prev, height, cur, stored, pack, preblock, collectQ>> => InvOwn'
  BY DEF InvOwn, Held, Height
<1>6. asks' \subseteq asks => InvAsks'
  <2>1. \A q \in asks : q.from \in Node /\ q.block \in Block
    BY DEF TypeOK
  <2> QED
    BY <2>1, ProperKept, EndorsedKept DEF InvAsks
<1>7. signed' = signed => InvSigned'
  <2>1. \A s \in signed : s.node \in Node /\ s.block \in Block /\ Creator[s.block] \in Node
    BY DrawAssumption DEF TypeOK
  <2> QED
    BY <2>1, ProperKept DEF InvSigned, Grows
<1>8. coll' = coll => InvColl'
  <2>1. \A n \in Node : coll[n].block # NoHash => coll[n].block \in Block
    BY DEF TypeOK, Hash
  <2> QED
    BY <2>1, ProperKept, EndorsedKept DEF InvColl
<1>9. confirmed' = confirmed => InvConfirmed' /\ CertificateIsReal'
  <2>1. \A c \in confirmed : c.block \in Block /\ Creator[c.block] \in Node
    BY DrawAssumption DEF TypeOK
  <2>2. confirmed' = confirmed => InvConfirmed'
    BY <2>1, ProperKept DEF InvConfirmed
  <2>3. confirmed' = confirmed => CertificateIsReal'
    BY DEF CertificateIsReal, Grows
  <2> QED
    BY <2>2, <2>3
<1> QED
  BY <1>1, <1>2, <1>3, <1>4, <1>5, <1>6, <1>7, <1>8, <1>9

\* Every step only adds.
LEMMA GrowsStep == ASSUME TypeOK, Next PROVE Grows
<1> USE DEF chainVars, blockVars, voterVars, blockerVars, collVars
<1>1. ASSUME NEW n \in Stable, VoterNext(n) PROVE Grows
  BY <1>1 DEF VoterNext, CleanVoteInfo, VoteOfBlocker, SpecifyVoteHeight, Grows
<1>2. ASSUME NEW n \in Stable, BlockerNext(n) PROVE Grows
  <2>1. CASE PackHeight(n)
    BY <2>1 DEF PackHeight, Grows, TypeOK
  <2> QED
    BY <1>2, <2>1 DEF BlockerNext, CreateBlock, PackHash, PackFail, PackDone, Grows
<1>3. ASSUME NEW n \in Stable, CollectorNext(n) PROVE Grows
  BY <1>3 DEF CollectorNext, CollectEndorsement, DelayResend, Grows
<1>4. ASSUME NEW n \in Stable, StorageNext(n) \/ Restart(n) PROVE Grows
  <2>1. ASSUME NEW b \in Block, Store(n, b) PROVE Grows
    BY <2>1, ZenonT(60) DEF Store, Grows, TypeOK
  <2> QED
    BY <1>4, <2>1 DEF StorageNext, Confirm, Restart, Grows
<1>5. ASSUME NEW q \in asks, RequesterNext(q) PROVE Grows
  BY <1>5 DEF RequesterNext, ReceiveEndorsement, CheckAndFinish, AskTimeout, Grows
<1>6. ASSUME NEW q \in asks, EndorserNext(q) PROVE Grows
  BY <1>6 DEF EndorserNext, EndorseSuccess, EndorseVerifyError, EndorseHeightError,
              EndorseSynching, Grows
<1> QED
  BY <1>1, <1>2, <1>3, <1>4, <1>5, <1>6 DEF Next

\* A vote that starts with no replaced hash works with the current one.
LEMMA VoterInv ==
    ASSUME TypeOK, IInv, Grows, NEW n \in Stable, VoterNext(n) PROVE IInv'
<1> n \in Node
  BY NodesAssumption
<1> DEFINE Redrawn == \E who \in Node, i \in Index :
                        blocker' = [blocker EXCEPT ![n] =
                          [blocker |-> who, index |-> i, hash |-> HashRead(n),
                           height |-> Height(n)]]
<1>1. /\ UNCHANGED <<chainVars, blockVars, blockerVars, collVars, signed, confirmed>>
      /\ \/ seen' = [seen EXCEPT ![n] = NoHash] /\ (Redrawn \/ UNCHANGED blocker)
         \/ CleanVoteInfo(n)
  <2>1. ASSUME NEW i \in Nat, ResetBlocker(n, i) PROVE Redrawn
    <3>1. Draw(HashRead(n), i) \in Node /\ i \in Index
      BY <2>1, DrawType, HashReadType, SettingsAssumption DEF ResetBlocker, Index
    <3> QED
      BY <2>1, <3>1 DEF ResetBlocker
  <2>2. CASE VoteOfBlocker(n)
    <3>1. blocker[n].index + 1 \in Nat /\ 0 \in Nat
      BY SettingsAssumption DEF TypeOK, Index
    <3> HIDE DEF Redrawn
    <3> QED
      BY <2>1, <2>2, <3>1 DEF VoteOfBlocker
  <2>3. CASE SpecifyVoteHeight(n)
    <3>1. PICK f \in force[n] :
            \/ ResetBlocker(n, 0)
            \/ blocker[n].index < f.index /\ ResetBlocker(n, f.index)
            \/ UNCHANGED blocker
      BY <2>3 DEF SpecifyVoteHeight
    <3>2. blocker[n].index < f.index => f.index \in Nat
      BY SettingsAssumption DEF TypeOK, Index, InfoType
    <3>3. Redrawn \/ UNCHANGED blocker
      <4> HIDE DEF Redrawn
      <4> QED
        BY <2>1, <3>1, <3>2
    <3> QED
      BY <2>3, <3>3 DEF SpecifyVoteHeight
  <2> HIDE DEF Redrawn
  <2> QED
    BY <2>2, <2>3 DEF VoterNext, CleanVoteInfo
<1>2. /\ UNCHANGED <<cur, stored, cache, prev, height, pack, preblock, collectQ, coll, asks,
                    signed, confirmed>>
      /\ InvLedger' /\ InvCertified' /\ InvOwn' /\ InvAsks' /\ InvSigned' /\ InvColl'
      /\ InvConfirmed' /\ CertificateIsReal'
  BY <1>1, Frame DEF CleanVoteInfo, chainVars, blockVars, blockerVars, collVars
<1>3. cur[n] \in Block /\ cur[n] # NoHash /\ HashRead(n) \in stored[n]
  BY BlocksAssumption DEF IInv, InvLedger, InvDraw, Held, HashRead, TypeOK
<1>4. \A m \in Node : Height(m)' = Height(m)
  BY <1>2 DEF Height
<1>5. \A m \in Node \ {n} : blocker'[m] = blocker[m] /\ seen'[m] = seen[m]
  BY <1>1 DEF CleanVoteInfo, TypeOK
<1>6. \/ blocker'[n] = blocker[n] /\ seen'[n] = NoHash
      \/ /\ blocker'[n].hash = HashRead(n) /\ blocker'[n].height = Height(n)
         /\ seen'[n] = NoHash
      \/ /\ blocker'[n].hash = NoHash /\ seen'[n] = seen[n] /\ blocker[n].hash # cur[n]
  <2>1. CASE CleanVoteInfo(n)
    <3>1. blocker[n].hash # cur[n]
      BY <2>1 DEF CleanVoteInfo, IInv, InvDraw, HashRead
    <3> QED
      BY <2>1, <3>1 DEF CleanVoteInfo, NoVote, TypeOK
  <2>2. CASE seen' = [seen EXCEPT ![n] = NoHash] /\ Redrawn
    BY <2>2 DEF TypeOK
  <2>3. CASE seen' = [seen EXCEPT ![n] = NoHash] /\ UNCHANGED blocker
    BY <2>3 DEF TypeOK
  <2> HIDE DEF Redrawn
  <2> QED
    BY <1>1, <2>1, <2>2, <2>3
<1> HIDE DEF Redrawn
<1>7. blocker[n].hash = cur[n] => HashRead(n) = cur[n]
  BY DEF IInv, InvDraw, HashRead
<1>8. InvDraw'
  <2>1. ASSUME NEW m \in Node
        PROVE  /\ Held(blocker'[m].hash, m) /\ Held(seen'[m], m)
               /\ blocker'[m].hash = cur[m] => blocker'[m].height = Height(m)
               /\ seen'[m] # NoHash => seen'[m] # cur[m] /\ blocker'[m].hash # cur[m]
    <3>1. CASE m # n
      BY <1>5, <3>1 DEF IInv, InvDraw
    <3>2. CASE m = n
      BY <1>3, <1>6, <3>2 DEF IInv, InvDraw, Held
    <3> QED
      BY <3>1, <3>2
  <2> QED
    BY <1>2, <1>4, <2>1 DEF InvDraw, Held
<1>9. InvPack'
  <2>1. ASSUME NEW m \in Node, pack[m].stage = "hashed"
        PROVE  Held(pack[m].hash, m) /\ (pack[m].hash = cur[m] => blocker'[m].hash = cur[m])
    <3>1. CASE m # n
      BY <1>5, <2>1, <3>1 DEF IInv, InvPack
    <3>2. CASE m = n
      BY <1>6, <1>7, <2>1, <3>2 DEF IInv, InvPack
    <3> QED
      BY <3>1, <3>2
  <2> QED
    BY <1>2, <2>1 DEF InvPack, Held
<1> QED
  BY <1>2, <1>8, <1>9 DEF IInv

\* A block gets the height of the draw its previous hash was taken from, or of
\* a later draw on the same hash, as long as that hash is still the tip.
LEMMA BlockerInv ==
    ASSUME TypeOK, IInv, Grows, NEW n \in Stable, BlockerNext(n) PROVE IInv'
<1> n \in Node
  BY NodesAssumption
<1> USE DEF chainVars, blockVars, voterVars, collVars
<1>1. /\ UNCHANGED <<cur, stored, cache, blocker, seen, asks, coll, signed, confirmed>>
      /\ InvLedger' /\ InvCertified' /\ InvDraw' /\ InvAsks' /\ InvSigned' /\ InvColl'
      /\ InvConfirmed' /\ CertificateIsReal'
  <2>1. UNCHANGED <<cur, stored, cache, blocker, seen, asks, coll, signed, confirmed>>
    BY DEF BlockerNext, CreateBlock, PackHash, PackHeight, PackFail, PackDone, Collect
  <2> QED
    BY <2>1, Frame
<1>2. /\ pack \in [Node -> PackType] /\ preblock \in [Node -> Hash]
      /\ collectQ \in [Node -> SUBSET [block : Block, info : InfoType]]
  BY DEF TypeOK, PackType
<1>3. InvPack /\ InvOwn
  BY DEF IInv
<1>4. CASE CreateBlock(n)
  <2>1. /\ pack' = pack \/ pack' = [pack EXCEPT ![n].stage = "packing"]
        /\ pack' # pack => blocker[n].blocker = n
        /\ UNCHANGED <<prev, height, preblock>>
        /\ \/ collectQ' = collectQ
           \/ preblock[n] # NoHash /\ Collect(n, preblock[n], Info(blocker[n]))
    BY <1>4 DEF CreateBlock
  <2>2. \A m \in Node : \/ pack'[m] = pack[m]
                        \/ m = n /\ pack'[m].stage = "packing" /\ blocker[m].blocker = m
    BY <1>2, <2>1 DEF PackType
  <2>3. InvPack'
    BY <1>1, <1>3, <2>2 DEF InvPack, Held
  <2>4. \A m \in Node : \A q \in collectQ'[m] :
          q \in collectQ[m] \/ (m = n /\ q.block = preblock[n] /\ preblock[n] # NoHash)
    BY <1>2, <2>1 DEF Collect
  <2>5. InvOwn'
    BY <1>1, <1>3, <2>1, <2>2, <2>4 DEF InvOwn, Held, Height
  <2> QED
    BY <1>1, <2>3, <2>5 DEF IInv
<1>5. CASE PackHash(n)
  <2>1. /\ UNCHANGED <<prev, height, preblock, collectQ>> /\ pack[n].stage = "packing"
        /\ pack' = [pack EXCEPT ![n] = [stage |-> "hashed", hash |-> blocker[n].hash,
                                        block |-> NoHash]]
    BY <1>5 DEF PackHash
  <2>2. /\ pack'[n].stage = "hashed" /\ pack'[n].hash = blocker[n].hash
        /\ \A m \in Node \ {n} : pack'[m] = pack[m]
    BY <1>2, <2>1
  <2>3. InvPack'
    BY <1>1, <1>3, <2>1, <2>2 DEF IInv, InvDraw, InvPack, Held
  <2>4. InvOwn'
    BY <1>1, <1>3, <2>1, <2>2 DEF InvOwn, Held, Height
  <2> QED
    BY <1>1, <2>3, <2>4 DEF IInv
<1>6. CASE PackHeight(n)
  <2>1. PICK b \in Block :
          /\ height[b] = -1 /\ Creator[b] = n
          /\ prev' = [prev EXCEPT ![b] = pack[n].hash]
          /\ height' = [height EXCEPT ![b] = blocker[n].height + 1]
          /\ pack' = [pack EXCEPT ![n].stage = "packed", ![n].block = b]
    BY <1>6 DEF PackHeight
  <2>2. /\ pack[n].stage = "hashed" /\ UNCHANGED <<preblock, collectQ>>
    BY <1>6 DEF PackHeight
  <2>3. /\ pack'[n].stage = "packed" /\ pack'[n].block = b
        /\ \A m \in Node \ {n} : pack'[m] = pack[m]
    <3>1. pack[n] \in PackType
      BY <1>2
    <3> DEFINE v == [pack[n] EXCEPT !.stage = "packed", !.block = b]
    <3>2. pack' = [pack EXCEPT ![n] = v] /\ v.stage = "packed" /\ v.block = b
      BY <2>1, <3>1 DEF PackType
    <3> HIDE DEF v
    <3> QED
      BY <1>2, <3>2
  <2>4. InvPack'
    BY <1>1, <1>3, <2>2, <2>3 DEF InvPack, Held
  <2>5. /\ prev'[b] = pack[n].hash /\ height'[b] = blocker[n].height + 1
        /\ \A d \in Block \ {b} : prev'[d] = prev[d] /\ height'[d] = height[d]
    BY <2>1 DEF TypeOK
  <2>6. \A m \in Node : Height(m)' = Height(m)
    BY <1>1, <2>1, <2>5 DEF IInv, InvLedger, Height, TypeOK
  <2>7. Held(prev'[b], n) /\ (prev'[b] = cur[n] => height'[b] = Height(n) + 1)
    BY <1>3, <2>2, <2>5 DEF InvPack, IInv, InvDraw
  <2>8. ASSUME NEW d \in Block
        PROVE  /\ Held(prev[d], Creator[d])'
               /\ (prev[d] = cur[Creator[d]] => height[d] = Height(Creator[d]) + 1)'
    <3>1. Creator[d] \in Node
      BY DrawAssumption
    <3>2. CASE d = b
      BY <1>1, <2>1, <2>6, <2>7, <3>2 DEF Held
    <3>3. CASE d # b
      BY <1>1, <1>3, <2>5, <2>6, <3>1, <3>3 DEF InvOwn, Held
    <3> QED
      BY <3>2, <3>3
  <2>9. \A m \in Node : /\ pack'[m].stage = "packed" => Creator[pack'[m].block] = m
                        /\ preblock'[m] # NoHash => Creator[preblock'[m]] = m
                        /\ \A q \in collectQ'[m] : Creator[q.block] = m
    <3>1. \A m \in Node : /\ pack[m].stage = "packed" => Creator[pack[m].block] = m
                          /\ preblock[m] # NoHash => Creator[preblock[m]] = m
                          /\ \A q \in collectQ[m] : Creator[q.block] = m
      BY <1>3 DEF InvOwn
    <3>2. Creator[pack'[n].block] = n
      BY <2>1, <2>3
    <3> QED
      BY <2>2, <2>3, <3>1, <3>2
  <2>10. InvOwn'
    BY <2>8, <2>9 DEF InvOwn
  <2> QED
    BY <1>1, <2>4, <2>10 DEF IInv
<1>7. CASE PackFail(n)
  <2>1. /\ UNCHANGED <<prev, height, preblock, collectQ>>
        /\ \/ pack' = [pack EXCEPT ![n] = IdlePack]
           \/ pack' = [pack EXCEPT ![n] = [IdlePack EXCEPT !.stage = "packing"]]
    BY <1>7 DEF PackFail
  <2>2. /\ pack'[n].stage \in {"idle", "packing"}
        /\ \A m \in Node \ {n} : pack'[m] = pack[m]
    BY <1>2, <2>1 DEF IdlePack
  <2>3. InvPack' /\ InvOwn'
    BY <1>1, <1>3, <2>1, <2>2 DEF InvPack, InvOwn, Held, Height
  <2> QED
    BY <1>1, <2>3 DEF IInv
<1>8. CASE PackDone(n)
  <2>1. /\ UNCHANGED <<prev, height>> /\ pack' = [pack EXCEPT ![n] = IdlePack]
        /\ pack[n].stage = "packed" /\ Collect(n, pack[n].block, Info(blocker[n]))
        /\ preblock' = [preblock EXCEPT ![n] = pack[n].block]
    BY <1>8 DEF PackDone
  <2>2. pack'[n].stage = "idle" /\ \A m \in Node \ {n} : pack'[m] = pack[m]
    BY <1>2, <2>1 DEF IdlePack
  <2>3. \A m \in Node : \A q \in collectQ'[m] :
          q \in collectQ[m] \/ (m = n /\ q.block = pack[n].block)
    BY <1>2, <2>1 DEF Collect
  <2>4. preblock'[n] = pack[n].block /\ \A m \in Node \ {n} : preblock'[m] = preblock[m]
    BY <1>2, <2>1
  <2>5. InvPack' /\ InvOwn'
    BY <1>1, <1>3, <2>1, <2>2, <2>3, <2>4 DEF InvPack, InvOwn, Held, Height
  <2> QED
    BY <1>1, <2>5 DEF IInv
<1> QED
  BY <1>4, <1>5, <1>6, <1>7, <1>8 DEF BlockerNext

\* A collector starts with a block on its own tip, which is proper, and asks
\* others only.
LEMMA CollectorInv ==
    ASSUME TypeOK, IInv, Grows, NEW n \in Stable, CollectorNext(n) PROVE IInv'
<1> n \in Node /\ Stable \subseteq Node
  BY NodesAssumption
<1> USE DEF chainVars, blockVars, voterVars, blockerVars
<1>1. /\ UNCHANGED <<cur, stored, cache, prev, height, blocker, seen, pack, preblock, signed,
                    confirmed>>
      /\ InvLedger' /\ InvCertified' /\ InvDraw' /\ InvPack' /\ InvSigned' /\ InvConfirmed'
      /\ CertificateIsReal'
  <2>1. UNCHANGED <<cur, stored, cache, prev, height, blocker, seen, pack, preblock, signed,
                    confirmed>>
    BY DEF CollectorNext, CollectEndorsement, DelayResend
  <2> QED
    BY <2>1, Frame
<1>2. coll \in [Node -> CollType] /\ collectQ \in [Node -> SUBSET [block : Block, info : InfoType]]
  BY DEF TypeOK, CollType
<1>3. InvOwn /\ InvAsks /\ InvColl /\ InvLedger
  BY DEF IInv
<1>4. \A q \in asks' : q \in asks => /\ q.from # q.to /\ Proper(q.block, q.from)'
                                     /\ q.signed => Endorsed(q.block, q.to)'
  BY <1>1, <1>3 DEF InvAsks, Proper, Endorsed
<1>5. ASSUME NEW m \in Node, NEW b, b = coll[m].block, b # NoHash
      PROVE  /\ Proper(b, m)' /\ m \notin coll[m].recved \cup coll[m].again
             /\ \A k \in coll[m].recved : Endorsed(b, k)'
  BY <1>1, <1>3, <1>5 DEF InvColl, Proper, Endorsed
<1>6. CASE CollectEndorsement(n)
  <2>1. PICK q \in collectQ[n] :
          /\ collectQ' = [collectQ EXCEPT ![n] = @ \ {q}]
          /\ \/ /\ prev[q.block] = cur[n]
                /\ coll' = [coll EXCEPT ![n] =
                              [NoCollection EXCEPT !.block = q.block, !.info = q.info]]
                /\ asks' = asks \cup {Ask(n, m, q.block, q.info) : m \in Stable \ {n}}
             \/ UNCHANGED <<coll, asks>>
    BY <1>6 DEF CollectEndorsement
  <2>2. InvOwn'
    <3>1. \A m \in Node : collectQ'[m] \subseteq collectQ[m]
      BY <1>2, <2>1
    <3> QED
      BY <1>1, <1>3, <3>1 DEF InvOwn, Held, Height
  <2>3. CASE UNCHANGED <<coll, asks>>
    BY <1>1, <2>2, <2>3, Frame DEF IInv
  <2>4. CASE /\ prev[q.block] = cur[n]
             /\ coll' = [coll EXCEPT ![n] =
                           [NoCollection EXCEPT !.block = q.block, !.info = q.info]]
             /\ asks' = asks \cup {Ask(n, m, q.block, q.info) : m \in Stable \ {n}}
    <3>1. q.block \in Block /\ Creator[q.block] = n
      BY <1>2, <1>3 DEF InvOwn
    <3>2. Proper(q.block, n)'
      BY <1>1, <1>3, <2>4, <3>1 DEF InvOwn, InvLedger, Proper, Height
    <3>3. /\ coll'[n].block = q.block /\ coll'[n].recved = {} /\ coll'[n].again = {}
          /\ \A m \in Node \ {n} : coll'[m] = coll[m]
      BY <1>2, <2>4 DEF NoCollection
    <3>4. InvColl'
      BY <1>5, <3>2, <3>3 DEF InvColl
    <3>5. \A r \in asks' : \/ r \in asks
                           \/ /\ r.from = n /\ r.to # n /\ r.block = q.block
                              /\ r.signed = FALSE
      BY <2>4 DEF Ask
    <3>6. InvAsks'
      BY <1>4, <3>2, <3>5 DEF InvAsks
    <3> QED
      BY <1>1, <2>2, <3>4, <3>6 DEF IInv
  <2> QED
    BY <2>1, <2>3, <2>4
<1>7. CASE DelayResend(n)
  <2> DEFINE goes == Collecting(n) /\ Working /\ coll[n].resends <= EndorseResendTimes
  <2>1. /\ coll' = [coll EXCEPT ![n].again = {}, ![n].resends = IF goes THEN @ + 1 ELSE @]
        /\ asks' = asks \cup {r \in {Ask(n, m, coll[n].block, coll[n].info) :
                                       m \in coll[n].again} : goes}
        /\ collectQ' = collectQ
    BY <1>7 DEF DelayResend
  <2>2. goes => coll[n].block # NoHash
    BY DEF Collecting
  <2> HIDE DEF goes
  <2>3. InvOwn'
    BY <1>1, <2>1, Frame
  <2>4. /\ coll'[n].block = coll[n].block /\ coll'[n].recved = coll[n].recved
        /\ coll'[n].again = {}
        /\ \A m \in Node \ {n} : coll'[m] = coll[m]
    BY <1>2, <2>1 DEF CollType
  <2>5. InvColl'
    BY <1>5, <2>4 DEF InvColl
  <2>6. \A r \in asks' : \/ r \in asks
                         \/ /\ goes /\ r.from = n /\ r.to \in coll[n].again
                            /\ r.block = coll[n].block /\ r.signed = FALSE
    BY <2>1 DEF Ask
  <2>7. InvAsks'
    BY <1>4, <1>5, <2>2, <2>6 DEF InvAsks
  <2> QED
    BY <1>1, <2>3, <2>5, <2>7 DEF IInv
<1> QED
  BY <1>6, <1>7 DEF CollectorNext

\* Noting an endorser of a node's own collection for the delayed resend.
LEMMA ResendInv ==
    ASSUME TypeOK, IInv, Grows, NEW q \in asks, Resend(q) PROVE InvColl'
<1>1. q.from \in Node /\ q.to \in Node /\ q.from # q.to
  BY DEF TypeOK, IInv, InvAsks
<1>2. \/ coll' = coll
      \/ coll' = [coll EXCEPT ![q.from].again = @ \cup {q.to}]
  BY DEF Resend
<1>3. coll \in [Node -> CollType]
  BY DEF TypeOK, CollType
<1>4. CASE coll' = coll
  BY <1>4, Frame
<1>5. CASE coll' = [coll EXCEPT ![q.from].again = @ \cup {q.to}]
  <2>1. \A m \in Node : /\ coll'[m].block = coll[m].block /\ coll'[m].recved = coll[m].recved
                        /\ m \in coll'[m].again => m \in coll[m].again
    BY <1>1, <1>3, <1>5 DEF CollType
  <2>2. ASSUME NEW m \in Node, NEW b, b = coll[m].block, b # NoHash
        PROVE  /\ Proper(b, m)' /\ m \notin coll[m].recved \cup coll[m].again
               /\ \A k \in coll[m].recved : Endorsed(b, k)'
    <3>1. b \in Block
      BY <1>3, <2>2 DEF CollType, Hash
    <3> QED
      BY <2>2, <3>1, ProperKept, EndorsedKept DEF IInv, InvColl
  <2> QED
    BY <2>1, <2>2 DEF InvColl
<1> QED
  BY <1>2, <1>4, <1>5

\* One more signer of a block, one more signature.
LEMMA OneMoreSigner ==
    ASSUME NEW S \in SUBSET Node, NEW n \in Node, n \notin S
    PROVE  Cardinality(S \cup {n}) = Cardinality(S) + 1
  BY NodesAssumption, FS_Subset, FS_AddElement

\* Only a positive answer to the block being collected for is counted, so what
\* is published carries real endorsements.
LEMMA RequesterInv ==
    ASSUME TypeOK, IInv, Grows, NEW q \in asks, RequesterNext(q) PROVE IInv'
<1> USE DEF chainVars, blockVars, voterVars, blockerVars
<1>1. /\ UNCHANGED <<cur, stored, cache, prev, height, blocker, seen, pack, preblock, collectQ,
                    signed>>
      /\ asks' \subseteq asks
      /\ InvLedger' /\ InvCertified' /\ InvDraw' /\ InvPack' /\ InvOwn' /\ InvSigned' /\ InvAsks'
  <2>1. /\ UNCHANGED <<cur, stored, cache, prev, height, blocker, seen, pack, preblock,
                       collectQ, signed>>
        /\ asks' \subseteq asks
    BY DEF RequesterNext, ReceiveEndorsement, AskTimeout
  <2> QED
    BY <2>1, Frame
<1>2. CASE AskTimeout(q)
  <2>1. confirmed' = confirmed /\ Resend(q)
    BY <1>2 DEF AskTimeout
  <2> QED
    BY <1>1, <2>1, ResendInv, Frame DEF IInv
<1>3. CASE ReceiveEndorsement(q) /\ UNCHANGED <<coll, confirmed>>
  BY <1>1, <1>3, Frame DEF IInv
<1>4. CASE /\ ReceiveEndorsement(q)
           /\ Collecting(q.from) /\ coll[q.from].block = q.block
           /\ CheckAndFinish(q.from, q.to)
  <2> DEFINE n == q.from
             recved == coll[n].recved \cup {q.to}
  <2>1. n \in Node /\ q.to \in Node /\ n # q.to /\ q.block \in Block /\ q.block # NoHash
    BY BlocksAssumption DEF TypeOK, IInv, InvAsks
  <2>2. q.signed /\ Endorsed(q.block, q.to) /\ Proper(q.block, n)
    BY <1>4 DEF ReceiveEndorsement, IInv, InvAsks
  <2>3. coll \in [Node -> CollType] /\ coll[n].recved \subseteq Node
    BY <2>1 DEF TypeOK, CollType
  <2>4. recved \subseteq Node /\ n \notin recved /\ \A m \in recved : Endorsed(q.block, m)
    BY <1>4, <2>1, <2>2, <2>3 DEF IInv, InvColl
  <2>5. Proper(q.block, n)' /\ \A m \in recved : Endorsed(q.block, m)'
    BY <1>1, <2>2, <2>4 DEF Proper, Endorsed
  <2>6. CASE Agreed(Cardinality(recved) + 1)
    <3>1. /\ confirmed' = confirmed \cup {[block |-> q.block, signers |-> recved \cup {n}]}
          /\ coll' = [coll EXCEPT ![n] = NoCollection]
      BY <1>4, <2>6 DEF CheckAndFinish
    <3>2. Agreed(Cardinality(recved \cup {n}))
      BY <2>1, <2>4, <2>6, OneMoreSigner
    <3>3. Creator[q.block] = n
      BY <2>2 DEF Proper
    <3>4. InvConfirmed'
      BY <1>1, <2>5, <3>1, <3>3 DEF IInv, InvConfirmed, Proper
    <3>5. CertificateIsReal'
      <4> DEFINE new == [block |-> q.block, signers |-> recved \cup {n}]
      <4>1. /\ Agreed(Cardinality(new.signers)) /\ Creator[new.block] \in new.signers
            /\ \A m \in new.signers \ {Creator[new.block]} :
                 \E s \in signed' : s.node = m /\ s.block = new.block
        BY <2>5, <3>2, <3>3 DEF Endorsed
      <4>2. \A c \in confirmed :
              /\ Agreed(Cardinality(c.signers)) /\ Creator[c.block] \in c.signers
              /\ \A m \in c.signers \ {Creator[c.block]} :
                   \E s \in signed' : s.node = m /\ s.block = c.block
        BY <1>1 DEF IInv, CertificateIsReal
      <4>3. confirmed' = confirmed \cup {new}
        BY <3>1
      <4> HIDE DEF new
      <4> QED
        BY <4>1, <4>2, <4>3 DEF CertificateIsReal
    <3>6. coll'[n].block = NoHash /\ \A m \in Node \ {n} : coll'[m] = coll[m]
      BY <2>1, <2>3, <3>1 DEF NoCollection
    <3>7. InvColl'
      BY <1>1, <3>6 DEF IInv, InvColl, Proper, Endorsed
    <3> QED
      BY <1>1, <3>4, <3>5, <3>7 DEF IInv
  <2>7. CASE ~Agreed(Cardinality(recved) + 1)
    <3>1. coll' = [coll EXCEPT ![n].recved = recved] /\ confirmed' = confirmed
      BY <1>4, <2>7 DEF CheckAndFinish
    <3>2. /\ coll'[n].block = q.block /\ coll'[n].recved = recved
          /\ coll'[n].again = coll[n].again
          /\ \A m \in Node \ {n} : coll'[m] = coll[m]
      BY <1>4, <2>1, <2>3, <3>1 DEF CollType
    <3>3. InvColl'
      <4>1. n \notin coll[n].again
        BY <1>4, <2>1 DEF IInv, InvColl
      <4>2. ASSUME NEW m \in Node \ {n}, NEW b, b = coll[m].block, b # NoHash
            PROVE  /\ Proper(b, m)' /\ m \notin coll[m].recved \cup coll[m].again
                   /\ \A k \in coll[m].recved : Endorsed(b, k)'
        BY <1>1, <4>2 DEF IInv, InvColl, Proper, Endorsed
      <4> HIDE DEF recved
      <4> QED
        BY <2>4, <2>5, <3>2, <4>1, <4>2 DEF InvColl
    <3> QED
      BY <1>1, <3>1, <3>3, Frame DEF IInv
  <2> QED
    BY <2>6, <2>7
<1> QED
  BY <1>2, <1>3, <1>4 DEF RequesterNext, ReceiveEndorsement

\* An endorser signs a block on the hash of its own draw, which it holds.
LEMMA EndorserInv ==
    ASSUME TypeOK, IInv, Grows, NEW q \in asks, EndorserNext(q) PROVE IInv'
<1> USE DEF chainVars, blockVars, voterVars, blockerVars
<1>1. /\ UNCHANGED <<cur, stored, cache, prev, height, blocker, seen, pack, preblock, collectQ,
                    confirmed>>
      /\ InvLedger' /\ InvCertified' /\ InvDraw' /\ InvPack' /\ InvOwn' /\ InvConfirmed'
      /\ CertificateIsReal'
  <2>1. UNCHANGED <<cur, stored, cache, prev, height, blocker, seen, pack, preblock, collectQ,
                    confirmed>>
    BY DEF EndorserNext, EndorseSuccess, EndorseVerifyError, EndorseHeightError, EndorseSynching
  <2> QED
    BY <2>1, Frame
<1>2. CASE EndorseSuccess(q)
  <2> DEFINE s == [node |-> q.to, block |-> q.block, index |-> blocker[q.to].index]
             r == [q EXCEPT !.signed = TRUE]
  <2>1. /\ signed' = signed \cup {s} /\ asks' = (asks \ {q}) \cup {r}
        /\ coll' = coll /\ prev[q.block] = blocker[q.to].hash
    BY <1>2 DEF EndorseSuccess, AllowEndorse
  <2>2. q \in AskType /\ q.to \in Node /\ q.from \in Node /\ q.block \in Block
    BY DEF TypeOK, AskType
  <2>3. /\ r.from = q.from /\ r.to = q.to /\ r.block = q.block
        /\ s.node = q.to /\ s.block = q.block
    BY <2>2 DEF AskType
  <2>4. q.from # q.to /\ Proper(q.block, q.from)
    BY DEF IInv, InvAsks
  <2>5. prev[q.block] \in stored[q.to]
    BY <2>1, <2>2, <2>4, BlocksAssumption DEF IInv, InvDraw, Held, Proper, TypeOK
  <2> HIDE DEF s, r
  <2>6. Endorsed(q.block, q.to)' /\ Proper(q.block, q.from)'
    BY <1>1, <2>1, <2>3, <2>4 DEF Endorsed, Proper
  <2>7. InvSigned'
    BY <1>1, <2>1, <2>3, <2>4, <2>5 DEF IInv, InvSigned, Proper
  <2>8. InvAsks'
    BY <1>1, <2>1, <2>3, <2>4, <2>6 DEF IInv, InvAsks, Proper, Endorsed
  <2>9. InvColl'
    BY <2>1, Frame
  <2> QED
    BY <1>1, <2>7, <2>8, <2>9 DEF IInv
<1>3. CASE EndorseVerifyError(q)
  <2>1. coll' = coll /\ signed' = signed /\ asks' \subseteq asks
    BY <1>3 DEF EndorseVerifyError
  <2> QED
    BY <1>1, <2>1, Frame DEF IInv
<1>4. CASE EndorseHeightError(q) \/ EndorseSynching(q)
  <2>1. /\ signed' = signed /\ asks' \subseteq asks
        /\ Resend(q) \/ coll' = coll
    BY <1>4 DEF EndorseHeightError, EndorseSynching
  <2> QED
    BY <1>1, <2>1, ResendInv, Frame DEF IInv
<1> QED
  BY <1>2, <1>3, <1>4 DEF EndorserNext

\* A stored block is higher than every hash that the node read before, so no
\* draw, no running vote and no half-made block is on it yet.
LEMMA StorageInv ==
    ASSUME TypeOK, IInv, Grows, NEW n \in Stable, StorageNext(n) \/ Restart(n) PROVE IInv'
<1> n \in Node
  BY NodesAssumption
<1> USE DEF blockVars, voterVars, blockerVars, collVars
<1>1. ASSUME NEW c \in confirmed, Confirm(n, c) PROVE IInv'
  <2>1. /\ UNCHANGED <<cur, stored, prev, height, blocker, seen, pack, preblock, collectQ, asks,
                       coll, signed, confirmed>>
        /\ cache' = [cache EXCEPT ![n] =
                       {d \in @ : height[d] # height[c.block]} \cup {c.block}]
    BY <1>1 DEF Confirm
  <2>2. \A m \in Node : cache'[m] \subseteq cache[m] \cup {c.block}
    BY <2>1 DEF TypeOK
  <2>3. InvCertified'
    BY <2>1, <2>2 DEF IInv, InvCertified
  <2> QED
    BY <2>1, <2>3, Frame DEF IInv
<1>2. ASSUME NEW b \in Block, Store(n, b) PROVE IInv'
  <2>1. /\ UNCHANGED <<prev, height, blocker, pack, preblock, collectQ, asks, coll, signed,
                       confirmed>>
        /\ b \in cache[n] /\ cache' = [cache EXCEPT ![n] = @ \ {b}]
    BY <1>2 DEF Store
  <2>2. \A m \in Node : cache'[m] \subseteq cache[m]
    BY <2>1 DEF TypeOK
  <2>3. InvAsks' /\ InvSigned' /\ InvColl' /\ InvConfirmed' /\ CertificateIsReal'
    BY <2>1, Frame
  <2>4. CASE UNCHANGED <<cur, stored, seen>>
    <3>1. InvLedger' /\ InvDraw' /\ InvPack' /\ InvOwn'
      BY <2>1, <2>4, Frame
    <3>2. InvCertified'
      BY <2>1, <2>2, <2>4 DEF IInv, InvCertified
    <3> QED
      BY <2>3, <3>1, <3>2 DEF IInv
  <2>5. CASE /\ height[b] = Height(n) + 1
             /\ cur' = [cur EXCEPT ![n] = b] /\ stored' = [stored EXCEPT ![n] = @ \cup {b}]
             /\ seen' = [seen EXCEPT ![n] = HashRead(n)] \/ seen' = seen
    <3>1. /\ cur'[n] = b /\ stored'[n] = stored[n] \cup {b}
          /\ \A m \in Node \ {n} : cur'[m] = cur[m] /\ stored'[m] = stored[m]
      BY <2>5 DEF TypeOK
    <3>2. /\ seen'[n] \in {seen[n], HashRead(n)}
          /\ \A m \in Node \ {n} : seen'[m] = seen[m]
      BY <2>5 DEF TypeOK
    <3>3. Height(n) \in Nat /\ Height(n)' = Height(n) + 1
      <4>1. Height(n) \in Nat
        BY DEF Height, TypeOK, IInv, InvLedger
      <4> QED
        BY <2>1, <2>5, <3>1, <4>1 DEF Height
    <3>4. \A m \in Node \ {n} : Height(m)' = Height(m)
      BY <2>1, <3>1 DEF Height
    <3>5. \A h : Held(h, n) => h # b
      <4>1. \A h \in stored[n] : height[h] <= Height(n) /\ height[h] \in Nat
        BY DEF IInv, InvLedger, TypeOK
      <4> QED
        BY <2>5, <3>3, <4>1, BlocksAssumption DEF Held
    <3>6. \A m \in Node : \A h : Held(h, m) => Held(h, m)'
      BY <3>1 DEF Held
    <3>7. Held(HashRead(n), n)
      BY DEF IInv, InvLedger, InvDraw, HashRead, Held
    <3>8. InvLedger'
      <4>1. \A h \in stored[n] : 0 < height[h] /\ height[h] <= Height(n) /\ height[h] \in Nat
        BY DEF IInv, InvLedger, TypeOK
      <4>2. \A h \in stored'[n] : 0 < height[h] /\ height[h] <= Height(n)'
        BY <2>5, <3>1, <3>3, <4>1
      <4> QED
        BY <2>1, <3>1, <3>4, <4>2 DEF IInv, InvLedger
    <3>9. InvCertified'
      BY <2>1, <2>2, <3>1 DEF IInv, InvCertified
    <3>10. InvDraw'
      <4>1. ASSUME NEW m \in Node
            PROVE  /\ Held(blocker[m].hash, m) /\ Held(seen'[m], m)
                   /\ blocker[m].hash = cur'[m] => blocker[m].height = Height(m)'
                   /\ seen'[m] # NoHash => seen'[m] # cur'[m] /\ blocker[m].hash # cur'[m]
        <5>1. CASE m = n
          BY <3>1, <3>2, <3>5, <3>7, <5>1 DEF IInv, InvDraw
        <5>2. CASE m # n
          BY <3>1, <3>2, <3>4, <5>2 DEF IInv, InvDraw
        <5> QED
          BY <5>1, <5>2
      <4> QED
        BY <2>1, <3>1, <4>1 DEF InvDraw, Held
    <3>11. InvPack'
      BY <2>1, <3>1, <3>5, <3>6 DEF IInv, InvPack
    <3>12. InvOwn'
      <4>1. \A d \in Block : Creator[d] \in Node /\ Held(prev[d], Creator[d])
        BY DrawAssumption DEF IInv, InvOwn
      <4>2. \A d \in Block : prev[d] = cur'[Creator[d]] => Creator[d] # n
        BY <3>1, <3>5, <4>1
      <4>3. \A d \in Block : prev[d] = cur'[Creator[d]] => height[d] = Height(Creator[d])' + 1
        BY <3>1, <3>4, <4>1, <4>2 DEF IInv, InvOwn
      <4>4. \A d \in Block : Held(prev[d], Creator[d])'
        BY <2>1, <3>1, <4>1 DEF Held
      <4> QED
        BY <2>1, <4>3, <4>4 DEF IInv, InvOwn
    <3> QED
      BY <2>3, <3>8, <3>9, <3>10, <3>11, <3>12 DEF IInv
  <2> QED
    BY <1>2, <2>4, <2>5 DEF Store
<1>3. CASE Restart(n)
  <2>1. UNCHANGED <<cur, stored, prev, height, signed, confirmed>>
    BY <1>3 DEF Restart
  <2>2. InvLedger' /\ InvSigned' /\ InvConfirmed' /\ CertificateIsReal'
    BY <2>1, Frame
  <2>3. /\ cache'[n] = {} /\ blocker'[n] = NoVote /\ seen'[n] = NoHash /\ pack'[n] = IdlePack
        /\ preblock'[n] = NoHash /\ collectQ'[n] = {} /\ coll'[n] = NoCollection
        /\ \A m \in Node \ {n} :
             /\ cache'[m] = cache[m] /\ blocker'[m] = blocker[m] /\ seen'[m] = seen[m]
             /\ pack'[m] = pack[m] /\ preblock'[m] = preblock[m]
             /\ collectQ'[m] = collectQ[m] /\ coll'[m] = coll[m]
    BY <1>3 DEF Restart, TypeOK
  <2>4. InvCertified'
    BY <2>1, <2>3 DEF IInv, InvCertified
  <2>5. cur[n] # NoHash /\ NoVote.hash = NoHash /\ NoVote.blocker \notin Node
    BY NodesAssumption, BlocksAssumption DEF NoVote, TypeOK
  <2>6. InvDraw'
    BY <2>1, <2>3, <2>5 DEF IInv, InvDraw, Held, Height
  <2>7. IdlePack.stage = "idle" /\ NoCollection.block = NoHash
    BY DEF IdlePack, NoCollection
  <2>8. InvPack'
    BY <2>1, <2>3, <2>7 DEF IInv, InvPack, Held
  <2>9. InvOwn'
    BY <2>1, <2>3, <2>7 DEF IInv, InvOwn, Held, Height
  <2>10. InvColl'
    BY <2>1, <2>3, <2>7 DEF IInv, InvColl, Proper, Endorsed
  <2>11. InvAsks'
    <3>1. \A q \in asks' : \E r \in asks : /\ q.from = r.from /\ q.to = r.to
                                           /\ q.block = r.block /\ q.signed = r.signed
      <4>1. ASSUME NEW r \in asks, NEW q, q = [r EXCEPT !.lost = TRUE]
            PROVE  /\ q.from = r.from /\ q.to = r.to
                   /\ q.block = r.block /\ q.signed = r.signed
        <5>1. r \in AskType
          BY DEF TypeOK, AskType
        <5> QED
          BY <4>1, <5>1 DEF AskType
      <4>2. ASSUME NEW q \in asks'
            PROVE  \E r \in asks : q = r \/ q = [r EXCEPT !.lost = TRUE]
        BY <1>3 DEF Restart
      <4> QED
        BY <4>1, <4>2
    <3> QED
      BY <2>1, <3>1 DEF IInv, InvAsks, Proper, Endorsed
  <2> QED
    BY <2>2, <2>4, <2>6, <2>8, <2>9, <2>10, <2>11 DEF IInv
<1> QED
  BY <1>1, <1>2, <1>3 DEF StorageNext

LEMMA InitInv == Init => IInv
  BY BlocksAssumption, DrawAssumption, NodesAssumption
  DEF Init, IInv, InvLedger, InvCertified, InvDraw, InvPack, InvOwn, InvAsks, InvSigned, InvColl,
      InvConfirmed, CertificateIsReal, Held, Height, NoVote, IdlePack, NoCollection

LEMMA StepInv == TypeOK /\ IInv /\ [Next]_vars => IInv'
<1> SUFFICES ASSUME TypeOK, IInv, [Next]_vars PROVE IInv'
  OBVIOUS
<1>1. CASE UNCHANGED vars
  <2>1. /\ UNCHANGED <<cur, stored, cache, prev, height, blocker, seen, pack, preblock, collectQ,
                       asks, coll, signed, confirmed>>
        /\ Grows
    BY <1>1 DEF vars, chainVars, blockVars, voterVars, blockerVars, collVars, Grows
  <2> QED
    BY <2>1, Frame DEF IInv
<1>2. CASE Next
  <2>1. Grows
    BY <1>2, GrowsStep
  <2> QED
    BY <1>2, <2>1, VoterInv, BlockerInv, CollectorInv, StorageInv, RequesterInv, EndorserInv
    DEF Next
<1> QED
  BY <1>1, <1>2

\* Every reachable state satisfies the inductive invariant: what an actor of a
\* node relies on between two reads of pe is true whatever the others do
\* meanwhile (VoterOfCFRD.vote, IBlocker.PackedBlock, EndorseCollector).
THEOREM InvariantHolds == Spec => []IInv
<1>1. Init => TypeOK /\ IInv
  BY InitType, InitInv
<1>2. (TypeOK /\ IInv) /\ [Next]_vars => (TypeOK /\ IInv)'
  BY TypeStep, StepInv
<1> QED
  BY <1>1, <1>2, PTL DEF Spec

\* Late answers and answers for another block are never counted: a published
\* block was endorsed by everybody whose signature it carries
\* (EndorseCollector.CheckAndFinishHandler).
THEOREM CertificatesAreReal == Spec => []CertificateIsReal
<1>1. IInv => CertificateIsReal
  BY DEF IInv
<1> QED
  BY <1>1, InvariantHolds, PTL

\* Two quorums of vote nodes meet.
LEMMA QuorumsMeet ==
    ASSUME NEW S \in SUBSET Node, NEW T \in SUBSET Node,
           Agreed(Cardinality(S)), Agreed(Cardinality(T))
    PROVE  S \cap T # {}
<1>1. IsFiniteSet(Node) /\ Cardinality(Node) \in Nat
  BY NodesAssumption, FS_CardinalityType
<1>2. Cardinality(S) \in Nat /\ Cardinality(T) \in Nat
  BY <1>1, FS_Subset, FS_CardinalityType
<1>3. /\ Cardinality(S) >= (Cardinality(Node) \div 2) + 1
      /\ Cardinality(T) >= (Cardinality(Node) \div 2) + 1
  BY DEF Agreed, ConsensusConditionChecked, Check
<1>4. Cardinality(S) + Cardinality(T) > Cardinality(Node)
  BY <1>1, <1>2, <1>3
<1> QED
  BY <1>1, <1>4, FS_MajoritiesIntersect

\* A block reaches a ledger only after a quorum stored the block below it
\* (Endorser4Future.isAllowEndorse, IStorager.RestoreBlock).
THEOREM ParentsHeldByQuorum == Spec => []ParentHeldByQuorum
<1>1. TypeOK /\ IInv => ParentHeldByQuorum
  <2> SUFFICES ASSUME TypeOK, IInv, NEW n \in Node, NEW b \in stored[n] \ {Genesis}
               PROVE  Agreed(Cardinality({m \in Node : prev[b] \in stored[m]}))
    BY DEF ParentHeldByQuorum
  <2> DEFINE H == {m \in Node : prev[b] \in stored[m]}
  <2>1. PICK c \in confirmed : c.block = b
    BY DEF IInv, InvCertified
  <2>2. c.signers \subseteq Node
    BY DEF TypeOK
  <2>3. \A m \in c.signers : prev[b] \in stored[m]
    BY <2>1 DEF IInv, CertificateIsReal, InvSigned, InvConfirmed, Proper
  <2>4. c.signers \subseteq H /\ H \subseteq Node /\ Agreed(Cardinality(c.signers))
    BY <2>2, <2>3 DEF IInv, CertificateIsReal
  <2> HIDE DEF H
  <2>5. IsFiniteSet(H) /\ IsFiniteSet(c.signers) /\ Cardinality(c.signers) <= Cardinality(H)
    BY <2>4, NodesAssumption, FS_Subset
  <2>6. Cardinality(H) \in Nat /\ Cardinality(c.signers) \in Nat /\ Cardinality(Node) \in Nat
    BY <2>5, NodesAssumption, FS_CardinalityType
  <2>7. Agreed(Cardinality(H))
    BY <2>4, <2>5, <2>6 DEF Agreed, ConsensusConditionChecked, Check
  <2> QED
    BY <2>7 DEF H
<1> QED
  BY <1>1, TypeCorrect, InvariantHolds, PTL

\* No endorsed block skips or repeats a height, although its previous hash and
\* its height come from different reads of the draw (IBlocker.PackedBlock).
THEOREM HeightsFollowParents == Spec => []HeightFollowsParent
<1>1. TypeOK /\ IInv => HeightFollowsParent
  <2>1. ASSUME TypeOK, IInv, NEW s \in signed
        PROVE  prev[s.block] \in Block /\ height[s.block] = height[prev[s.block]] + 1
    BY <2>1 DEF TypeOK, IInv, InvSigned, Proper
  <2> QED
    BY <2>1 DEF HeightFollowsParent
<1> QED
  BY <1>1, TypeCorrect, InvariantHolds, PTL

\* A fork is never silent: two published blocks on the same hash have a node
\* that signed both (ConsensusCondition.Check, CheckAndFinishHandler).
THEOREM ForksLeaveWitness == Spec => []ForkLeavesWitness
<1>1. TypeOK /\ IInv => ForkLeavesWitness
  <2> SUFFICES ASSUME TypeOK, IInv, NEW c \in confirmed, NEW d \in confirmed
               PROVE  Signed(c.block) \cap Signed(d.block) # {}
    BY DEF ForkLeavesWitness
  <2>1. \A x \in confirmed : /\ x.signers \in SUBSET Node /\ Agreed(Cardinality(x.signers))
                             /\ x.signers \subseteq Signed(x.block)
    BY DEF TypeOK, IInv, CertificateIsReal, Signed
  <2>2. c.signers \cap d.signers # {}
    BY <2>1, QuorumsMeet
  <2> QED
    BY <2>1, <2>2
<1> QED
  BY <1>1, TypeCorrect, InvariantHolds, PTL

-----------------------------------------------------------------------------
(***************************************************************************)
(* The ledgers.  CFRD implements QuorumLedger (publishing a block approves  *)
(* it, storing one extends a ledger, every other step stutters), and        *)
(* without a restart and without a second draw all ledgers agree.           *)
(***************************************************************************)

\* The refinement mapping of a published block.
AsApproved(c) == [block |-> c.block, parent |-> prev[c.block], height |-> height[c.block]]
Approved == {AsApproved(c) : c \in confirmed}

\* What a step may do to the variables the mapping reads.
LEMMA StepOfLedger ==
    ASSUME TypeOK, Next
    PROVE  \/ UNCHANGED <<cur, stored, confirmed>>
           \/ /\ UNCHANGED <<cur, stored, prev, height>>
              /\ \E c : confirmed' = confirmed \cup {c}
           \/ /\ UNCHANGED <<prev, height, confirmed>>
              /\ \E n \in Node, b \in Block :
                   /\ b \in cache[n] /\ height[b] = Height(n) + 1 /\ prev[b] = cur[n]
                   /\ cur' = [cur EXCEPT ![n] = b]
                   /\ stored' = [stored EXCEPT ![n] = @ \cup {b}]
<1> USE DEF chainVars, blockVars, voterVars, blockerVars, collVars
<1> Stable \subseteq Node
  BY NodesAssumption
<1>1. ASSUME NEW n \in Stable, VoterNext(n) \/ BlockerNext(n) \/ CollectorNext(n)
      PROVE  UNCHANGED <<cur, stored, confirmed>>
  BY <1>1 DEF VoterNext, CleanVoteInfo, VoteOfBlocker, SpecifyVoteHeight, BlockerNext,
              CreateBlock, PackHash, PackHeight, PackFail, PackDone, CollectorNext,
              CollectEndorsement, DelayResend
<1>2. ASSUME NEW n \in Stable, Restart(n) PROVE UNCHANGED <<cur, stored, confirmed>>
  BY <1>2 DEF Restart
<1>3. ASSUME NEW n \in Stable, NEW c \in confirmed, Confirm(n, c)
      PROVE  UNCHANGED <<cur, stored, confirmed>>
  BY <1>3 DEF Confirm
<1>4. ASSUME NEW n \in Stable, NEW b \in Block, Store(n, b)
      PROVE  /\ UNCHANGED <<prev, height, confirmed>>
             /\ \/ UNCHANGED <<cur, stored>>
                \/ /\ b \in cache[n] /\ height[b] = Height(n) + 1 /\ prev[b] = cur[n]
                   /\ cur' = [cur EXCEPT ![n] = b]
                   /\ stored' = [stored EXCEPT ![n] = @ \cup {b}]
  BY <1>4 DEF Store
<1>5. ASSUME NEW q \in asks, RequesterNext(q) \/ EndorserNext(q)
      PROVE  /\ UNCHANGED <<cur, stored, prev, height>>
             /\ confirmed' = confirmed \/ \E c : confirmed' = confirmed \cup {c}
  BY <1>5 DEF RequesterNext, ReceiveEndorsement, CheckAndFinish, AskTimeout, EndorserNext,
              EndorseSuccess, EndorseVerifyError, EndorseHeightError, EndorseSynching
<1> QED
  BY <1>1, <1>2, <1>3, <1>4, <1>5 DEF Next, StorageNext

\* Approval is for ever: a published block keeps its parent and its height.
LEMMA ApprovedKept ==
    ASSUME TypeOK, IInv, Grows
    PROVE  \A c \in confirmed : prev'[c.block] = prev[c.block] /\ height'[c.block] = height[c.block]
<1>1. \A c \in confirmed : c.block \in Block /\ Creator[c.block] \in Node
  BY DrawAssumption DEF TypeOK
<1> QED
  BY <1>1, ProperKept DEF IInv, InvConfirmed

LEMMA InitRefines == Init => Ledger!Init
<1> SUFFICES ASSUME Init PROVE Ledger!Init
  OBVIOUS
<1>1. confirmed = {} /\ stored = [n \in Node |-> {Genesis}] /\ cur = [n \in Node |-> Genesis]
  BY DEF Init
<1> QED
  BY <1>1 DEF Ledger!Init

LEMMA StepRefines ==
    TypeOK /\ IInv /\ TypeOK' /\ IInv' /\ [Next]_vars => [Ledger!Next]_Ledger!vars
<1> SUFFICES ASSUME TypeOK, IInv, TypeOK', IInv', [Next]_vars PROVE [Ledger!Next]_Ledger!vars
  OBVIOUS
<1>1. CASE UNCHANGED vars
  <2>1. UNCHANGED <<cur, stored, confirmed, prev, height>>
    BY <1>1 DEF vars, chainVars, blockVars
  <2>2. UNCHANGED Ledger!vars
    BY <2>1 DEF Ledger!vars
  <2> QED
    BY <2>2
<1>2. CASE Next
  <2>1. Grows /\ \A c \in confirmed : prev'[c.block] = prev[c.block]
                                   /\ height'[c.block] = height[c.block]
    BY <1>2, GrowsStep, ApprovedKept
  <2>2. CASE UNCHANGED <<cur, stored, confirmed>>
    <3>1. Approved' = Approved
      BY <2>1, <2>2 DEF Approved, AsApproved
    <3>2. UNCHANGED Ledger!vars
      BY <2>2, <3>1 DEF Ledger!vars, Approved, AsApproved
    <3> QED
      BY <3>2
  <2>3. ASSUME UNCHANGED <<cur, stored, prev, height>>, NEW c, confirmed' = confirmed \cup {c}
        PROVE  Ledger!Next
    <3> DEFINE b == c.block
               p == prev[c.block]
               h == height[c.block]
    <3>1. /\ b \in Block /\ b # Genesis /\ p \in Block
          /\ c.signers \in SUBSET Node /\ Agreed(Cardinality(c.signers))
          /\ \A n \in c.signers : p \in stored[n]
          /\ h = height[p] + 1
          /\ \/ p = Genesis /\ height[p] = 1
             \/ \E d \in confirmed : d.block = p
      <4>1. c \in confirmed' /\ c.block \in Block
        BY <2>3 DEF TypeOK
      <4>2. /\ Creator[b] \in Node /\ Proper(b, Creator[b])
            /\ c.signers \in SUBSET Node /\ Agreed(Cardinality(c.signers))
            /\ \A m \in c.signers \ {Creator[b]} : Endorsed(b, m)'
        BY <2>3, <4>1, DrawAssumption
        DEF TypeOK, IInv, InvConfirmed, CertificateIsReal, Proper, Endorsed
      <4>3. \A n \in c.signers : p \in stored[n]
        BY <2>3, <4>2 DEF IInv, InvSigned, Endorsed, Proper
      <4>4. /\ p \in stored[Creator[b]] /\ p \in Block /\ h = height[p] + 1
            /\ height[p] \in Nat /\ height[p] > 0
        BY <4>1, <4>2 DEF Proper, TypeOK, IInv, InvLedger
      <4>5. b # Genesis /\ height[Genesis] = 1
        BY <4>4 DEF IInv, InvLedger
      <4>6. p # Genesis => \E d \in confirmed : d.block = p
        BY <4>2, <4>4 DEF IInv, InvCertified
      <4> QED
        BY <4>1, <4>2, <4>3, <4>4, <4>5, <4>6
    <3>2. Approved' = Approved \cup {[block |-> b, parent |-> p, height |-> h]}
      BY <2>3 DEF Approved, AsApproved
    <3>3. h \in Ledger!NextHeights(p)
      <4>1. CASE p = Genesis /\ height[p] = 1
        BY <3>1, <4>1 DEF Ledger!NextHeights
      <4>2. ASSUME NEW d \in confirmed, d.block = p PROVE h \in Ledger!NextHeights(p)
        <5>1. AsApproved(d).block = p /\ AsApproved(d).height = height[p]
          BY <4>2 DEF AsApproved
        <5> QED
          BY <3>1, <5>1 DEF Ledger!NextHeights, AsApproved
      <4> QED
        BY <3>1, <4>1, <4>2
    <3>4. \A a \in Approved : a.block = b => a.parent = p /\ a.height = h
      BY DEF Approved, AsApproved
    <3>5. c.signers \in Quorums
      BY <3>1 DEF Quorums
    <3>6. Ledger!Approve(b, p, h)
      <4>1. UNCHANGED <<stored, cur>>
        BY <2>3
      <4> HIDE DEF b, p, h
      <4> QED
        BY <3>1, <3>2, <3>4, <3>5, <4>1 DEF Ledger!Approve, Approved, AsApproved
    <3>7. b \in Block /\ p \in Block
      BY <3>1
    <3> HIDE DEF b, p, h
    <3>8. \E x, y \in Block : \E z \in Ledger!NextHeights(y) : Ledger!Approve(x, y, z)
      BY <3>3, <3>6, <3>7 DEF Ledger!NextHeights, Ledger!Approve
    <3> QED
      BY <3>8 DEF Ledger!Next
  <2>4. ASSUME UNCHANGED <<prev, height, confirmed>>, NEW n \in Node, NEW b \in Block,
               b \in cache[n], height[b] = Height(n) + 1, prev[b] = cur[n],
               cur' = [cur EXCEPT ![n] = b], stored' = [stored EXCEPT ![n] = @ \cup {b}]
        PROVE  Ledger!Next
    <3>1. PICK c \in confirmed : c.block = b
      BY <2>4 DEF IInv, InvCertified
    <3>2. AsApproved(c).block = b /\ AsApproved(c).parent = cur[n]
      BY <2>4, <3>1 DEF AsApproved
    <3>3. b \notin stored[n]
      <4>1. Height(n) \in Nat /\ \A h \in stored[n] : height[h] <= Height(n)
        BY DEF IInv, InvLedger, Height, TypeOK
      <4>2. ~(Height(n) + 1 <= Height(n))
        BY <4>1
      <4> QED
        BY <2>4, <4>1, <4>2
    <3>4. Approved' = Approved /\ AsApproved(c) \in Approved
      BY <2>4 DEF Approved, AsApproved
    <3>5. Ledger!Extend(n, AsApproved(c))
      BY <2>4, <3>2, <3>3, <3>4 DEF Ledger!Extend, Approved, AsApproved
    <3> QED
      BY <3>4, <3>5 DEF Ledger!Next, Approved, AsApproved
  <2> QED
    BY <1>2, <2>2, <2>3, <2>4, StepOfLedger
<1> QED
  BY <1>1, <1>2

\* The consensus keeps the promise of QuorumLedger: a block is approved only on
\* top of a block that a quorum holds, with the next height, and every ledger
\* grows by approved blocks from its own tip (EndorseCollector, ConfirmOfBlock,
\* IStorager).
THEOREM RefinesQuorumLedger == Spec => ImplementsLedger
<1>1. Spec => [](TypeOK /\ IInv)
  BY TypeCorrect, InvariantHolds, PTL
<1>2. (TypeOK /\ IInv) /\ (TypeOK /\ IInv)' /\ [Next]_vars => [Ledger!Next]_Ledger!vars
  BY StepRefines
<1>3. Init => Ledger!Init
  BY InitRefines
<1> QED
  BY <1>1, <1>2, <1>3, PTL DEF Spec, ImplementsLedger

-----------------------------------------------------------------------------
(* The agreement of the ledgers.  It rests on what a blocker remembers: the  *)
(* block it made last on its own tip (BlockerOfCFRD.preblock), which a       *)
(* restart takes away.                                                       *)

\* A block of a ledger is below the tip, and what is below it is in the ledger.
InvTip ==
    \A n \in Node : \A b \in stored[n] :
        /\ b = cur[n] \/ height[b] < Height(n)
        /\ b # Genesis => prev[b] \in stored[n]

\* The blocks a node produced on top of a block.
Own(n) == {b \in Block : Creator[b] = n /\ prev[b] \in Block}

\* The blocks a node made are all below a hash.
Below(n, h) == h = NoHash \/ \A b \in Own(n) : height[prev[b]] < height[h]

\* The only block that a node made on its tip is the one it holds.
LastMade(n) ==
    \A b \in Own(n) : \/ height[prev[b]] < Height(n)
                      \/ pack[n].stage # "packed" /\ b = preblock[n]
                      \/ pack[n].stage = "packed" /\ b = pack[n].block

\* A node that was not restarted has one block for a hash, the one it holds if
\* the hash is its tip, and none yet for a hash that the block under way may be
\* put on.
Once(n) ==
    /\ \A b, d \in Own(n) : prev[b] = prev[d] => b = d
    /\ LastMade(n)
    /\ pack[n].stage \in {"packing", "hashed"} =>
         Below(n, cur[n]) /\ Below(n, blocker[n].hash) /\ Below(n, seen[n])
    /\ pack[n].stage = "hashed" => Below(n, pack[n].hash)

InvOnce == \A n \in Node : restarts[n] = 0 => Once(n)

\* A draw is what the hash and the index give, and a block is endorsed under
\* the draw that names its producer.
InvDrawn ==
    /\ \A n \in Node : blocker[n].hash # NoHash =>
         blocker[n].blocker = Draw(blocker[n].hash, blocker[n].index)
    /\ \A s \in signed : Creator[s.block] = Draw(prev[s.block], s.index)

\* Nothing is published that nobody else endorsed.
InvWitness == \A c \in confirmed : \E s \in signed : s.block = c.block

AInv == InvTip /\ InvOnce /\ InvDrawn /\ InvWitness

\* What a step of a voter does to its draw.
LEMMA VoterStep ==
    ASSUME TypeOK, NEW n \in Stable, VoterNext(n)
    PROVE  /\ UNCHANGED <<cur, stored, prev, height, pack, preblock, restarts, signed, confirmed>>
           /\ \A m \in Node \ {n} : blocker'[m] = blocker[m] /\ seen'[m] = seen[m]
           /\ \/ blocker'[n] = blocker[n] /\ seen'[n] = NoHash
              \/ /\ seen'[n] = NoHash /\ blocker'[n].hash = HashRead(n)
                 /\ blocker'[n].blocker = Draw(HashRead(n), blocker'[n].index)
              \/ blocker'[n].hash = NoHash /\ seen'[n] = seen[n]
<1> n \in Node
  BY NodesAssumption
<1>1. UNCHANGED <<cur, stored, prev, height, pack, preblock, restarts, signed, confirmed>>
  BY DEF VoterNext, CleanVoteInfo, VoteOfBlocker, SpecifyVoteHeight, chainVars, blockVars,
         blockerVars
<1>2. CASE CleanVoteInfo(n)
  <2>1. NoVote.hash = NoHash
    BY DEF NoVote
  <2> QED
    BY <1>1, <1>2, <2>1 DEF CleanVoteInfo, TypeOK
<1>3. ASSUME NEW i, ResetBlocker(n, i), seen' = [seen EXCEPT ![n] = NoHash]
      PROVE  /\ \A m \in Node \ {n} : blocker'[m] = blocker[m] /\ seen'[m] = seen[m]
             /\ seen'[n] = NoHash /\ blocker'[n].hash = HashRead(n)
             /\ blocker'[n].blocker = Draw(HashRead(n), blocker'[n].index)
  <2> DEFINE v == [blocker |-> Draw(HashRead(n), i), index |-> i, hash |-> HashRead(n),
                   height |-> Height(n)]
  <2>1. blocker' = [blocker EXCEPT ![n] = v]
    BY <1>3 DEF ResetBlocker
  <2>2. v.hash = HashRead(n) /\ v.index = i /\ v.blocker = Draw(HashRead(n), i)
    OBVIOUS
  <2> HIDE DEF v
  <2> QED
    BY <1>3, <2>1, <2>2 DEF TypeOK
<1>4. CASE VoteOfBlocker(n) \/ SpecifyVoteHeight(n)
  <2>1. /\ seen' = [seen EXCEPT ![n] = NoHash]
        /\ UNCHANGED blocker \/ \E i : ResetBlocker(n, i)
    BY <1>4 DEF VoteOfBlocker, SpecifyVoteHeight
  <2>2. CASE UNCHANGED blocker
    BY <1>1, <2>1, <2>2 DEF TypeOK
  <2> QED
    BY <1>1, <1>3, <2>1, <2>2
<1> QED
  BY <1>2, <1>4 DEF VoterNext

\* What a node holds is produced, and stays below what it was below.
LEMMA OwnHeld ==
    ASSUME TypeOK, IInv, NEW n \in Node, NEW b \in Own(n)
    PROVE  b \in Block /\ prev[b] \in stored[n] /\ prev[b] \in Block /\ height[prev[b]] > 0
  BY BlocksAssumption DEF Own, IInv, InvOwn, InvLedger, Held, TypeOK

LEMMA BelowKept ==
    ASSUME TypeOK, IInv, Grows, NEW n \in Node,
           \A b \in Block : Creator[b] = n => prev'[b] = prev[b],
           NEW h, Held(h, n), Below(n, h)
    PROVE  Below(n, h)'
<1>1. CASE h = NoHash
  BY <1>1 DEF Below
<1>2. CASE h # NoHash
  <2>1. h \in Block /\ height[h] > 0
    BY <1>2 DEF Held, IInv, InvLedger, TypeOK
  <2>2. \A b \in Own(n)' : /\ b \in Own(n) /\ prev'[b] = prev[b]
                           /\ height'[prev[b]] = height[prev[b]]
    BY OwnHeld DEF Grows, Own
  <2> QED
    BY <1>2, <2>1, <2>2 DEF Below, Grows
<1> QED
  BY <1>1, <1>2

\* A step that leaves a node's blocks alone, and its progress in making one,
\* keeps what the node knows of them, whatever its draw and its tip become.
LEMMA OnceKept ==
    ASSUME TypeOK, IInv, Grows, NEW n \in Node, Once(n),
           \A b \in Block : Creator[b] = n => prev'[b] = prev[b],
           pack'[n] = pack[n], preblock'[n] = preblock[n],
           cur'[n] = cur[n] \/ (cur'[n] \in Block /\ height[cur'[n]] > Height(n)),
           blocker'[n].hash \in {NoHash, cur[n], seen[n], blocker[n].hash},
           seen'[n] \in {NoHash, cur[n], seen[n]}
    PROVE  Once(n)'
<1>1. /\ Own(n)' = Own(n) /\ \A b \in Own(n) : /\ prev'[b] = prev[b] /\ prev[b] \in Block
                                               /\ height'[prev[b]] = height[prev[b]]
  BY OwnHeld DEF Own, Grows
<1>2. /\ Height(n) \in Nat /\ Height(n) > 0 /\ Height(n)' = height[cur'[n]]
      /\ Height(n)' \in Nat /\ Height(n) <= Height(n)'
  <2>1. /\ cur[n] \in Block /\ Height(n) \in Nat /\ Height(n) > 0 /\ cur'[n] \in Block
        /\ \A b \in Block : height[b] \in Nat \cup {-1}
    BY DEF TypeOK, IInv, InvLedger, Height
  <2>2. height[cur'[n]] >= Height(n) /\ height[cur'[n]] \in Nat
    BY <2>1 DEF Height
  <2>3. Height(n)' = height[cur'[n]]
    BY <2>1, <2>2 DEF Grows, Height
  <2> QED
    BY <2>1, <2>2, <2>3
<1>3. \A b \in Own(n) : height[prev[b]] \in Nat /\ height'[prev'[b]] = height[prev[b]]
  <2>1. \A b \in Own(n) : height[prev[b]] > 0 /\ height[prev[b]] \in Nat \cup {-1}
    BY OwnHeld DEF TypeOK
  <2> QED
    BY <1>1, <2>1
<1>4. \A b, d \in Own(n)' : prev'[b] = prev'[d] => b = d
  BY <1>1 DEF Once
<1>5. LastMade(n)'
  BY <1>1, <1>2, <1>3 DEF Once, LastMade
<1>6. ASSUME pack[n].stage \in {"packing", "hashed"}
      PROVE  Below(n, cur[n])' /\ Below(n, blocker[n].hash)' /\ Below(n, seen[n])'
  <2>1. Held(cur[n], n) /\ Held(blocker[n].hash, n) /\ Held(seen[n], n) /\ Held(NoHash, n)
    BY DEF IInv, InvLedger, InvDraw, Held
  <2>2. /\ Below(n, cur[n]) /\ Below(n, blocker[n].hash) /\ Below(n, seen[n])
        /\ Below(n, NoHash)
    BY <1>6 DEF Once, Below
  <2>3. ASSUME NEW h \in {NoHash, cur[n], seen[n], blocker[n].hash} PROVE Below(n, h)'
    <3>1. Held(h, n) /\ Below(n, h)
      BY <2>1, <2>2
    <3> QED
      BY <3>1, BelowKept
  <2>4. Below(n, cur[n])'
    <3>1. cur[n] # NoHash
      BY BlocksAssumption DEF TypeOK
    <3>2. \A b \in Own(n) : height[prev[b]] < Height(n)
      BY <2>2, <3>1 DEF Below, Height
    <3>3. \A b \in Own(n)' : height'[prev'[b]] < Height(n)'
      BY <1>1, <1>2, <1>3, <3>2
    <3> QED
      BY <1>2, <3>3 DEF Below, Height
  <2>5. Below(n, blocker[n].hash)' /\ Below(n, seen[n])'
    <3>1. PICK h \in {NoHash, cur[n], seen[n], blocker[n].hash} : blocker'[n].hash = h
      OBVIOUS
    <3>2. PICK k \in {NoHash, cur[n], seen[n]} : seen'[n] = k
      OBVIOUS
    <3>3. Below(n, h)' /\ Below(n, k)'
      BY <2>3
    <3> QED
      BY <3>1, <3>2, <3>3 DEF Below
  <2> QED
    BY <2>4, <2>5
<1>7. ASSUME pack[n].stage = "hashed" PROVE Below(n, pack[n].hash)'
  <2>1. Held(pack[n].hash, n) /\ Below(n, pack[n].hash)
    BY <1>7 DEF Once, IInv, InvPack
  <2>2. Below(n, pack[n].hash)'
    BY <2>1, BelowKept DEF Below
  <2> QED
    BY <2>2
<1> QED
  BY <1>4, <1>5, <1>6, <1>7 DEF Once

\* A step of a blocker leaves the other nodes alone.
LEMMA BlockerStep ==
    ASSUME TypeOK, NEW n \in Stable, BlockerNext(n)
    PROVE  /\ UNCHANGED <<cur, stored, blocker, seen, signed, confirmed, restarts>>
           /\ \A m \in Node \ {n} : pack'[m] = pack[m] /\ preblock'[m] = preblock[m]
           /\ \A b \in Block : Creator[b] # n => prev'[b] = prev[b]
<1> n \in Node
  BY NodesAssumption
<1>1. UNCHANGED <<cur, stored, blocker, seen, signed, confirmed, restarts>>
  BY DEF BlockerNext, CreateBlock, PackHash, PackHeight, PackFail, PackDone, chainVars,
         voterVars, collVars
<1>2. /\ UNCHANGED preblock \/ \E b : preblock' = [preblock EXCEPT ![n] = b]
      /\ \/ UNCHANGED prev
         \/ \E b \in Block : \E h : Creator[b] = n /\ prev' = [prev EXCEPT ![b] = h]
  BY DEF BlockerNext, CreateBlock, PackHash, PackHeight, PackFail, PackDone, blockVars
<1>3. \A m \in Node \ {n} : pack'[m] = pack[m]
  BY DEF BlockerNext, CreateBlock, PackHash, PackHeight, PackFail, PackDone, TypeOK
<1>4. \A m \in Node \ {n} : preblock'[m] = preblock[m]
  BY <1>2 DEF TypeOK
<1>5. \A b \in Block : Creator[b] # n => prev'[b] = prev[b]
  BY <1>2 DEF TypeOK
<1> QED
  BY <1>1, <1>3, <1>4, <1>5

\* A blocker that starts a block has none on its tip, and the one it makes is
\* the only one on its hash.
LEMMA BlockerOnce ==
    ASSUME TypeOK, IInv, Grows, InvTip, NEW n \in Node, Once(n), n \in Stable, BlockerNext(n)
    PROVE  Once(n)'
<1>1. UNCHANGED <<cur, stored, blocker, seen>>
  BY BlockerStep
<1>2. pack \in [Node -> PackType] /\ preblock \in [Node -> Hash]
  BY DEF TypeOK, PackType
<1>3. /\ cur[n] \in Block /\ cur[n] \in stored[n] /\ cur[n] # NoHash
      /\ \A h : Held(h, n) /\ h # NoHash /\ h # cur[n] => height[h] < Height(n)
  BY BlocksAssumption DEF TypeOK, IInv, InvLedger, InvTip, Held
<1>4. ASSUME \A b \in Block : Creator[b] = n => prev'[b] = prev[b]
      PROVE  /\ Own(n)' = Own(n)
             /\ \A h : Held(h, n) /\ Below(n, h) => Below(n, h)'
             /\ \A b, d \in Own(n)' : prev'[b] = prev'[d] => b = d
             /\ \A b \in Own(n) : height'[prev'[b]] = height[prev[b]]
             /\ Height(n)' = Height(n)
  <2>1. Own(n)' = Own(n)
    BY <1>4 DEF Own
  <2>2. \A h : Held(h, n) /\ Below(n, h) => Below(n, h)'
    BY <1>4, BelowKept
  <2>3. \A b, d \in Own(n)' : prev'[b] = prev'[d] => b = d
    BY <1>4, <2>1 DEF Once, Own
  <2>4. \A b \in Own(n) : height'[prev'[b]] = height[prev[b]]
    BY <1>4, OwnHeld DEF Grows, Own
  <2>5. Height(n)' = Height(n)
    BY <1>1, <1>3 DEF Grows, Height, IInv, InvLedger
  <2> QED
    BY <2>1, <2>2, <2>3, <2>4, <2>5
<1>5. Held(cur[n], n) /\ Held(blocker[n].hash, n) /\ Held(seen[n], n)
  BY <1>3 DEF IInv, InvDraw, Held
<1>6. CASE CreateBlock(n)
  <2>1. /\ UNCHANGED <<prev, preblock>>
        /\ \/ pack' = pack
           \/ /\ pack[n].stage = "idle" /\ blocker[n].hash = cur[n]
              /\ ~(preblock[n] # NoHash /\ prev[preblock[n]] = cur[n])
              /\ pack' = [pack EXCEPT ![n].stage = "packing"]
    BY <1>6 DEF CreateBlock, blockVars
  <2>2. CASE pack' = pack
    BY <1>1, <1>4, <1>5, <2>1, <2>2, OnceKept
  <2>3. CASE /\ pack[n].stage = "idle" /\ blocker[n].hash = cur[n]
             /\ ~(preblock[n] # NoHash /\ prev[preblock[n]] = cur[n])
             /\ pack' = [pack EXCEPT ![n].stage = "packing"]
    <3>1. \A b \in Own(n) : height[prev[b]] < Height(n)
      BY <1>3, <2>3, OwnHeld, BlocksAssumption DEF Once, LastMade, Held
    <3>2. seen[n] = NoHash /\ pack'[n].stage = "packing"
      BY <1>2, <2>3 DEF IInv, InvDraw, PackType
    <3>3. Below(n, cur[n]) /\ Below(n, seen[n])
      BY <3>1, <3>2 DEF Below, Height
    <3>4. Below(n, cur[n])' /\ Below(n, blocker[n].hash)' /\ Below(n, seen[n])'
      <4>1. \A h : Held(h, n) /\ Below(n, h) => Below(n, h)'
        BY <1>4, <2>1
      <4> QED
        BY <1>1, <1>5, <2>3, <3>3, <4>1 DEF Below
    <3>5. LastMade(n)'
      BY <1>4, <2>1, <3>1 DEF LastMade
    <3> QED
      BY <1>4, <2>1, <3>2, <3>4, <3>5 DEF Once
  <2> QED
    BY <2>1, <2>2, <2>3
<1>7. CASE PackHash(n)
  <2>1. UNCHANGED <<prev, preblock>> /\ pack[n].stage = "packing"
    BY <1>7 DEF PackHash, blockVars
  <2>2. pack'[n].stage = "hashed" /\ pack'[n].hash = blocker[n].hash
    BY <1>2, <1>7 DEF PackHash
  <2>3. Below(n, cur[n]) /\ Below(n, blocker[n].hash) /\ Below(n, seen[n])
    BY <2>1 DEF Once
  <2>4. Below(n, cur[n])' /\ Below(n, blocker[n].hash)' /\ Below(n, seen[n])'
    <3>1. \A h : Held(h, n) /\ Below(n, h) => Below(n, h)'
      BY <1>4, <2>1
    <3> QED
      BY <1>1, <1>5, <2>3, <3>1 DEF Below
  <2>5. Below(n, pack[n].hash)'
    BY <1>1, <2>2, <2>4 DEF Below
  <2>6. LastMade(n)'
    BY <1>4, <2>1, <2>2 DEF Once, LastMade
  <2> QED
    BY <1>4, <2>1, <2>4, <2>5, <2>6 DEF Once
<1>8. CASE PackFail(n)
  <2>1. UNCHANGED <<prev, preblock>> /\ pack[n].stage \in {"packing", "hashed"}
    BY <1>8 DEF PackFail, blockVars
  <2>2. pack'[n].stage \in {"idle", "packing"}
    BY <1>2, <1>8 DEF PackFail, IdlePack
  <2>3. Below(n, cur[n]) /\ Below(n, blocker[n].hash) /\ Below(n, seen[n])
    BY <2>1 DEF Once
  <2>4. Below(n, cur[n])' /\ Below(n, blocker[n].hash)' /\ Below(n, seen[n])'
    <3>1. \A h : Held(h, n) /\ Below(n, h) => Below(n, h)'
      BY <1>4, <2>1
    <3> QED
      BY <1>1, <1>5, <2>3, <3>1 DEF Below
  <2>5. LastMade(n)'
    BY <1>4, <2>1, <2>2 DEF Once, LastMade
  <2> QED
    BY <1>4, <2>1, <2>2, <2>4, <2>5 DEF Once
<1>9. CASE PackDone(n)
  <2>1. UNCHANGED prev /\ pack[n].stage = "packed"
    BY <1>9 DEF PackDone, blockVars
  <2>2. pack'[n].stage = "idle" /\ preblock'[n] = pack[n].block
    BY <1>2, <1>9 DEF PackDone, IdlePack
  <2>3. LastMade(n)'
    BY <1>4, <2>1, <2>2 DEF Once, LastMade
  <2> QED
    BY <1>4, <2>1, <2>2, <2>3 DEF Once
<1>10. CASE PackHeight(n)
  <2>1. PICK x \in Block :
          /\ height[x] = -1 /\ Creator[x] = n
          /\ prev' = [prev EXCEPT ![x] = pack[n].hash]
          /\ height' = [height EXCEPT ![x] = blocker[n].height + 1]
          /\ pack' = [pack EXCEPT ![n].stage = "packed", ![n].block = x]
    BY <1>10 DEF PackHeight
  <2>2. pack'[n].stage = "packed" /\ pack'[n].block = x /\ pack[n].stage = "hashed"
    <3>1. pack[n] \in PackType
      BY <1>2
    <3> DEFINE v == [pack[n] EXCEPT !.stage = "packed", !.block = x]
    <3>2. pack' = [pack EXCEPT ![n] = v] /\ v.stage = "packed" /\ v.block = x
      BY <2>1, <3>1 DEF PackType
    <3> HIDE DEF v
    <3> QED
      BY <1>2, <1>10, <3>2 DEF PackHeight
  <2>3. prev'[x] = pack[n].hash /\ \A b \in Block \ {x} : prev'[b] = prev[b]
    BY <2>1 DEF TypeOK
  <2>4. \A b \in Own(n)' : b = x \/ b \in Own(n)
    BY <2>3 DEF Own
  <2>5. \A b \in Own(n) : height[prev[b]] < Height(n)
    BY <1>3, <2>2 DEF Once, Below, Height
  <2>6. \A h \in Block : height[h] > 0 => height'[h] = height[h]
    BY DEF Grows
  <2>7. Height(n)' = Height(n)
    BY <1>1, <1>3, <2>6 DEF Height, IInv, InvLedger
  <2>8. \A b \in Own(n) \ {x} : height'[prev'[b]] < Height(n)'
    BY <2>3, <2>5, <2>6, <2>7, OwnHeld
  <2>9. LastMade(n)'
    BY <2>2, <2>4, <2>8 DEF LastMade
  <2>10. \A b \in Own(n) \ {x} : prev'[b] # prev'[x]
    <3>1. CASE pack[n].hash = NoHash
      BY <2>3, <3>1, BlocksAssumption, OwnHeld
    <3>2. CASE pack[n].hash # NoHash
      <4>1. \A b \in Own(n) : height[prev[b]] < height[pack[n].hash]
        BY <2>2, <3>2 DEF Once, Below
      <4>2. height[pack[n].hash] \in Int /\ ~(height[pack[n].hash] < height[pack[n].hash])
        <5>1. pack[n].hash \in Block
          BY <2>2, <3>2 DEF TypeOK, IInv, InvPack, Held
        <5> QED
          BY <5>1 DEF TypeOK
      <4> QED
        BY <2>3, <4>1, <4>2, OwnHeld
    <3> QED
      BY <3>1, <3>2
  <2>11. \A b, d \in Own(n)' : prev'[b] = prev'[d] => b = d
    <3>1. \A b, d \in Own(n) : prev[b] = prev[d] => b = d
      BY DEF Once
    <3>2. \A b \in Own(n) : b \in Block
      BY DEF Own
    <3> QED
      BY <2>3, <2>4, <2>10, <3>1, <3>2
  <2> QED
    BY <2>2, <2>9, <2>11 DEF Once
<1> QED
  BY <1>6, <1>7, <1>8, <1>9, <1>10 DEF BlockerNext

\* The first two parts are kept by every step.
LEMMA StepTip == ASSUME TypeOK, IInv, InvTip, Next PROVE InvTip'
<1>1. Grows
  BY GrowsStep
<1>2. /\ \A n \in Node : cur[n] \in stored[n] /\ stored[n] \subseteq Block
      /\ \A n \in Node : \A b \in stored[n] : /\ height[b] > 0 /\ height[b] \in Nat
                                              /\ height[b] <= Height(n)
                                              /\ prev'[b] = prev[b] /\ height'[b] = height[b]
  BY <1>1 DEF TypeOK, IInv, InvLedger, Grows
<1>3. \A n \in Node : height'[cur[n]] = Height(n)
  BY <1>2 DEF Height
<1>4. CASE UNCHANGED <<cur, stored>>
  BY <1>2, <1>3, <1>4 DEF InvTip, Height
<1>5. ASSUME UNCHANGED <<prev, height, confirmed>>, NEW n \in Node, NEW b \in Block,
             height[b] = Height(n) + 1, prev[b] = cur[n],
             cur' = [cur EXCEPT ![n] = b], stored' = [stored EXCEPT ![n] = @ \cup {b}]
      PROVE  InvTip'
  <2>1. /\ cur'[n] = b /\ stored'[n] = stored[n] \cup {b}
        /\ \A m \in Node \ {n} : cur'[m] = cur[m] /\ stored'[m] = stored[m]
    BY <1>5 DEF TypeOK
  <2>2. \A d \in stored[n] : height[d] < height[b]
    BY <1>2, <1>5 DEF Height
  <2>3. Height(n)' = height[b] /\ \A m \in Node \ {n} : Height(m)' = Height(m)
    BY <1>5, <2>1 DEF Height
  <2>4. ASSUME NEW m \in Node, NEW d \in stored'[m]
        PROVE  /\ d = cur'[m] \/ height[d] < Height(m)'
               /\ d # Genesis => prev[d] \in stored'[m]
    BY <1>2, <1>5, <2>1, <2>2, <2>3, <2>4 DEF InvTip
  <2> QED
    BY <1>5, <2>4 DEF InvTip
<1> QED
  BY <1>4, <1>5, StepOfLedger

LEMMA StepOnce == ASSUME TypeOK, IInv, InvTip, InvOnce, Next PROVE InvOnce'
<1> USE DEF chainVars, blockVars, voterVars, blockerVars, collVars
<1> Stable \subseteq Node
  BY NodesAssumption
<1>1. Grows
  BY GrowsStep
\* A node that a step leaves alone, or whose draw or tip only moves on.
<1>2. ASSUME NEW m \in Node, restarts'[m] = restarts[m],
             \A b \in Block : Creator[b] = m => prev'[b] = prev[b],
             pack'[m] = pack[m], preblock'[m] = preblock[m],
             cur'[m] = cur[m] \/ (cur'[m] \in Block /\ height[cur'[m]] > Height(m)),
             blocker'[m].hash \in {NoHash, cur[m], seen[m], blocker[m].hash},
             seen'[m] \in {NoHash, cur[m], seen[m]}
      PROVE  restarts'[m] = 0 => Once(m)'
  BY <1>1, <1>2, OnceKept DEF InvOnce
<1>3. ASSUME NEW n \in Stable, VoterNext(n) PROVE InvOnce'
  <2>1. /\ UNCHANGED <<cur, prev, pack, preblock, restarts>>
        /\ \A m \in Node : /\ blocker'[m].hash \in {NoHash, cur[m], seen[m], blocker[m].hash}
                           /\ seen'[m] \in {NoHash, cur[m], seen[m]}
    BY <1>3, VoterStep DEF HashRead
  <2> QED
    BY <1>2, <2>1 DEF InvOnce
<1>4. ASSUME NEW n \in Stable, BlockerNext(n) PROVE InvOnce'
  <2>1. restarts' = restarts /\ (restarts[n] = 0 => Once(n)')
    BY <1>1, <1>4, BlockerStep, BlockerOnce DEF InvOnce
  <2>2. ASSUME NEW m \in Node \ {n} PROVE restarts'[m] = 0 => Once(m)'
    BY <1>2, <1>4, BlockerStep
  <2> QED
    BY <2>1, <2>2 DEF InvOnce
<1>5. ASSUME UNCHANGED <<prev, cur, blocker, seen, pack, preblock, restarts>> PROVE InvOnce'
  BY <1>2, <1>5 DEF InvOnce
<1>6. ASSUME NEW n \in Stable, CollectorNext(n) \/ (\E c \in confirmed : Confirm(n, c))
      PROVE  InvOnce'
  BY <1>5, <1>6 DEF CollectorNext, CollectEndorsement, DelayResend, Confirm
<1>7. ASSUME NEW q \in asks, RequesterNext(q) PROVE InvOnce'
  BY <1>5, <1>7 DEF RequesterNext, ReceiveEndorsement, AskTimeout
<1>8. ASSUME NEW q \in asks, EndorserNext(q) PROVE InvOnce'
  BY <1>5, <1>8 DEF EndorserNext, EndorseSuccess, EndorseVerifyError, EndorseHeightError,
                    EndorseSynching
<1>9. ASSUME NEW n \in Stable, NEW b \in Block, Store(n, b) PROVE InvOnce'
  <2>1. /\ UNCHANGED <<prev, blocker, pack, preblock, restarts>>
        /\ \/ UNCHANGED <<cur, seen>>
           \/ /\ height[b] = Height(n) + 1 /\ cur' = [cur EXCEPT ![n] = b]
              /\ seen' = [seen EXCEPT ![n] = HashRead(n)] \/ UNCHANGED seen
    BY <1>9 DEF Store
  <2>2. CASE UNCHANGED <<cur, seen>>
    BY <1>5, <2>1, <2>2
  <2>3. CASE /\ height[b] = Height(n) + 1 /\ cur' = [cur EXCEPT ![n] = b]
             /\ seen' = [seen EXCEPT ![n] = HashRead(n)] \/ UNCHANGED seen
    <3>1. Height(n) + 1 > Height(n)
      BY SMTT(40) DEF TypeOK, IInv, InvLedger, Height
    <3>2. \A m \in Node : /\ cur'[m] = cur[m] \/ (cur'[m] \in Block /\ height[cur'[m]] > Height(m))
                          /\ seen'[m] \in {NoHash, cur[m], seen[m]}
      BY <2>3, <3>1 DEF TypeOK, HashRead
    <3> QED
      BY <1>2, <2>1, <3>2 DEF InvOnce
  <2> QED
    BY <2>1, <2>2, <2>3
<1>10. ASSUME NEW n \in Stable, Restart(n) PROVE InvOnce'
  <2>1. restarts'[n] # 0 /\ \A m \in Node \ {n} : restarts'[m] = restarts[m]
    BY <1>10 DEF Restart, TypeOK
  <2>2. /\ UNCHANGED <<prev, cur>>
        /\ \A m \in Node \ {n} : /\ pack'[m] = pack[m] /\ preblock'[m] = preblock[m]
                                 /\ blocker'[m] = blocker[m] /\ seen'[m] = seen[m]
    BY <1>10 DEF Restart, TypeOK
  <2>3. ASSUME NEW m \in Node \ {n} PROVE restarts'[m] = 0 => Once(m)'
    BY <1>2, <2>1, <2>2
  <2> QED
    BY <2>1, <2>3 DEF InvOnce
<1> QED
  BY <1>3, <1>4, <1>6, <1>7, <1>8, <1>9, <1>10 DEF Next, StorageNext

\* The draw and the endorsements: only a vote draws, only an endorser that is
\* asked for a block by the node it has drawn endorses.
LEMMA StepDrawn == ASSUME TypeOK, IInv, InvDrawn, Next PROVE InvDrawn'
<1> USE DEF chainVars, blockVars, voterVars, blockerVars, collVars
<1> Stable \subseteq Node
  BY NodesAssumption
<1>1. Grows
  BY GrowsStep
<1>2. \A s \in signed : prev'[s.block] = prev[s.block]
  <2>1. \A s \in signed : s.block \in Block /\ Creator[s.block] \in Node
    BY DrawAssumption DEF TypeOK
  <2> QED
    BY <1>1, <2>1, ProperKept DEF IInv, InvSigned
<1>3. ASSUME signed' = signed, NEW n \in Node,
             \A m \in Node \ {n} : blocker'[m] = blocker[m],
             \/ blocker'[n] = blocker[n] \/ blocker'[n].hash = NoHash
             \/ blocker'[n].blocker = Draw(blocker'[n].hash, blocker'[n].index)
      PROVE  InvDrawn'
  BY <1>2, <1>3 DEF InvDrawn
<1>4. ASSUME signed' = signed, blocker' = blocker PROVE InvDrawn'
  BY <1>2, <1>4 DEF InvDrawn
<1>5. ASSUME NEW n \in Stable, VoterNext(n) PROVE InvDrawn'
  <2>1. /\ signed' = signed /\ n \in Node /\ \A m \in Node \ {n} : blocker'[m] = blocker[m]
        /\ \/ blocker'[n] = blocker[n] \/ blocker'[n].hash = NoHash
           \/ blocker'[n].blocker = Draw(blocker'[n].hash, blocker'[n].index)
    BY <1>5, VoterStep
  <2> QED
    BY <1>3, <2>1
<1>6. ASSUME NEW n \in Stable, Restart(n) PROVE InvDrawn'
  <2>1. NoVote.hash = NoHash
    BY DEF NoVote
  <2>2. /\ signed' = signed /\ n \in Node /\ \A m \in Node \ {n} : blocker'[m] = blocker[m]
        /\ blocker'[n].hash = NoHash
    BY <1>6, <2>1 DEF Restart, TypeOK
  <2> QED
    BY <1>3, <2>2
<1>7. ASSUME NEW n \in Stable, BlockerNext(n) \/ CollectorNext(n) \/ StorageNext(n)
      PROVE  InvDrawn'
  <2>1. signed' = signed /\ blocker' = blocker
    BY <1>7, BlockerStep
    DEF CollectorNext, CollectEndorsement, DelayResend, StorageNext, Confirm, Store
  <2> QED
    BY <1>4, <2>1
<1>8. ASSUME NEW q \in asks, RequesterNext(q) PROVE InvDrawn'
  BY <1>4, <1>8 DEF RequesterNext, ReceiveEndorsement, AskTimeout
<1>9. ASSUME NEW q \in asks, EndorserNext(q) PROVE InvDrawn'
  <2>1. CASE EndorseSuccess(q)
    <3> DEFINE v == blocker[q.to]
               new == [node |-> q.to, block |-> q.block, index |-> v.index]
    <3>1. /\ blocker' = blocker /\ signed' = signed \cup {new} /\ prev' = prev
          /\ prev[q.block] = v.hash /\ q.from = v.blocker
      BY <2>1 DEF EndorseSuccess, AllowEndorse
    <3>2. q.to \in Node /\ Creator[q.block] = q.from /\ prev[q.block] # NoHash
      BY BlocksAssumption DEF TypeOK, IInv, InvAsks, Proper
    <3>3. new.block = q.block /\ new.index = v.index
      OBVIOUS
    <3>4. Creator[new.block] = Draw(prev[new.block], new.index)
      BY <3>1, <3>2, <3>3 DEF InvDrawn
    <3> HIDE DEF new
    <3> QED
      BY <3>1, <3>4 DEF InvDrawn
  <2>2. CASE EndorseVerifyError(q) \/ EndorseHeightError(q) \/ EndorseSynching(q)
    BY <1>4, <2>2 DEF EndorseVerifyError, EndorseHeightError, EndorseSynching
  <2> QED
    BY <1>9, <2>1, <2>2 DEF EndorserNext
<1> QED
  BY <1>5, <1>6, <1>7, <1>8, <1>9 DEF Next

\* What is published was just endorsed by the node whose answer came last.
LEMMA StepWitness == ASSUME TypeOK, IInv, InvWitness, Next PROVE InvWitness'
<1> USE DEF chainVars, blockVars, voterVars, blockerVars, collVars
<1>1. signed \subseteq signed'
  BY GrowsStep DEF Grows
<1>2. ASSUME confirmed' = confirmed PROVE InvWitness'
  BY <1>1, <1>2 DEF InvWitness
<1>3. ASSUME NEW q \in asks, RequesterNext(q) PROVE InvWitness'
  <2>1. CASE confirmed' = confirmed
    BY <1>2, <2>1
  <2>2. CASE confirmed' # confirmed
    <3>1. /\ q.signed
          /\ \E S : confirmed' = confirmed \cup {[block |-> q.block, signers |-> S]}
      BY <1>3, <2>2 DEF RequesterNext, ReceiveEndorsement, CheckAndFinish, AskTimeout
    <3>2. \E s \in signed : s.block = q.block
      BY <3>1 DEF IInv, InvAsks, Endorsed
    <3> QED
      BY <1>1, <3>1, <3>2 DEF InvWitness
  <2> QED
    BY <2>1, <2>2
<1>4. ASSUME NEW n \in Stable, \/ VoterNext(n) \/ BlockerNext(n) \/ CollectorNext(n)
                               \/ StorageNext(n) \/ Restart(n)
      PROVE  confirmed' = confirmed
  BY <1>4, VoterStep, BlockerStep
  DEF CollectorNext, CollectEndorsement, DelayResend, StorageNext, Confirm, Store, Restart
<1>5. ASSUME NEW q \in asks, EndorserNext(q) PROVE confirmed' = confirmed
  BY <1>5 DEF EndorserNext, EndorseSuccess, EndorseVerifyError, EndorseHeightError,
              EndorseSynching
<1> QED
  BY <1>2, <1>3, <1>4, <1>5 DEF Next

LEMMA OneBlock == TypeOK /\ IInv /\ AInv => OneBlockPerBlocker
<1> SUFFICES ASSUME TypeOK, IInv, AInv, NEW s \in signed, NEW t \in signed,
                    Creator[s.block] = Creator[t.block], prev[s.block] = prev[t.block],
                    restarts[Creator[s.block]] = 0
             PROVE  s.block = t.block
  BY DEF OneBlockPerBlocker
<1>1. \A x \in signed : /\ x.block \in Block /\ Creator[x.block] \in Node
                        /\ x.block \in Own(Creator[x.block])
  BY DrawAssumption DEF TypeOK, IInv, InvSigned, Proper, Own
<1> QED
  BY <1>1 DEF AInv, InvOnce, Once

\* Two blocks on the same hash, both endorsed under the first draw only.
LEMMA SameDraw ==
    ASSUME TypeOK, IInv, AInv, NEW c \in confirmed, NEW d \in confirmed,
           prev[c.block] = prev[d.block],
           \A s \in signed : s.index = 0, \A n \in Node : restarts[n] = 0
    PROVE  c.block = d.block
<1>1. PICK s \in signed : s.block = c.block
  BY DEF AInv, InvWitness
<1>2. PICK t \in signed : t.block = d.block
  BY DEF AInv, InvWitness
<1>3. Creator[s.block] = Creator[t.block] /\ Creator[s.block] \in Node
  BY <1>1, <1>2, DrawAssumption DEF AInv, InvDrawn, TypeOK
<1> QED
  BY <1>1, <1>2, <1>3, OneBlock DEF OneBlockPerBlocker

\* The agreement itself is carried from step to step: a block is stored on top
\* of the same block everywhere, endorsed under the first draw there, and the
\* node drawn has one block for it.
LEMMA StepAgree ==
    TypeOK /\ IInv /\ AInv /\ AgreeWithoutRedraw /\ [Next]_vars => AgreeWithoutRedraw'
<1> SUFFICES ASSUME TypeOK, IInv, AInv, AgreeWithoutRedraw, [Next]_vars,
                    (\A s \in signed' : s.index = 0) /\ (\A n \in Node : restarts'[n] = 0)
             PROVE  LedgersAgree'
  BY DEF AgreeWithoutRedraw
<1>1. CASE UNCHANGED vars
  <2>1. UNCHANGED <<stored, height, signed, restarts>>
    BY <1>1 DEF vars, chainVars, blockVars
  <2> QED
    BY <2>1 DEF AgreeWithoutRedraw, LedgersAgree
<1>2. CASE Next
  <2>1. Grows
    BY <1>2, GrowsStep
  <2>2. \A n \in Node : restarts[n] = 0
    <3>1. \/ restarts' = restarts
          \/ \E n \in Stable : Restart(n)
      BY <1>2, VoterStep, BlockerStep
      DEF Next, CollectorNext, CollectEndorsement, DelayResend, StorageNext, Confirm, Store,
          RequesterNext, ReceiveEndorsement, AskTimeout, EndorserNext, EndorseSuccess,
          EndorseVerifyError, EndorseHeightError, EndorseSynching
    <3>2. ASSUME NEW n \in Stable, Restart(n) PROVE restarts'[n] # 0 /\ n \in Node
      BY <3>2, NodesAssumption DEF Restart, TypeOK
    <3> QED
      BY <3>1, <3>2
  <2>3. (\A s \in signed : s.index = 0) /\ LedgersAgree
    BY <2>1, <2>2 DEF Grows, AgreeWithoutRedraw
  <2>4. \A n \in Node :
          /\ cur[n] \in stored[n] /\ Height(n) \in Nat
          /\ \A b \in stored[n] : /\ b \in Block /\ height[b] \in Nat /\ height[b] > 0
                                 /\ height'[b] = height[b] /\ height[b] <= Height(n)
    BY <2>1 DEF TypeOK, IInv, InvLedger, Grows, Height
  <2>5. CASE stored' = stored
    BY <2>3, <2>4, <2>5 DEF LedgersAgree
  <2>6. ASSUME UNCHANGED <<prev, height, confirmed>>, NEW n \in Node, NEW b \in Block,
               b \in cache[n], height[b] = Height(n) + 1, prev[b] = cur[n],
               stored' = [stored EXCEPT ![n] = @ \cup {b}]
        PROVE  LedgersAgree'
    <3>1. PICK c \in confirmed : c.block = b
      BY <2>6 DEF IInv, InvCertified
    <3>2. ASSUME NEW m \in Node, NEW d \in stored[m], height[d] = height[b] PROVE d = b
      <4>1. d # Genesis
        BY <2>4, <2>6, <3>2 DEF IInv, InvLedger
      <4>2. PICK e \in confirmed : e.block = d
        BY <4>1 DEF IInv, InvCertified
      <4>3. prev[d] \in stored[m] /\ height[d] = height[prev[d]] + 1
        BY <4>1, <4>2 DEF AInv, InvTip, IInv, InvConfirmed, Proper
      <4>4. height[prev[d]] \in Nat /\ Height(n) \in Nat /\ cur[n] \in stored[n]
        BY <2>4, <4>3
      <4>5. height[prev[d]] + 1 = Height(n) + 1
        BY <2>6, <3>2, <4>3
      <4>6. height[prev[d]] = height[cur[n]]
        BY <4>4, <4>5 DEF Height
      <4>7. prev[d] = cur[n]
        BY <2>3, <4>3, <4>4, <4>6 DEF LedgersAgree
      <4> QED
        BY <2>2, <2>3, <2>6, <3>1, <4>2, <4>7, SameDraw
    <3>3. \A m \in Node : stored'[m] = stored[m] \/ stored'[m] = stored[m] \cup {b}
      BY <2>6 DEF TypeOK
    <3> QED
      BY <2>3, <2>6, <3>2, <3>3 DEF LedgersAgree
  <2> QED
    BY <1>2, <2>5, <2>6, StepOfLedger
<1> QED
  BY <1>1, <1>2

LEMMA InitAgree == Init => AInv /\ AgreeWithoutRedraw
<1> SUFFICES ASSUME Init PROVE AInv /\ AgreeWithoutRedraw
  OBVIOUS
<1>1. InvTip /\ InvDrawn /\ InvWitness /\ AgreeWithoutRedraw
  BY DEF Init, InvTip, InvDrawn, InvWitness, AgreeWithoutRedraw, LedgersAgree, Height, NoVote
<1>2. \A n \in Node : Own(n) = {}
  BY BlocksAssumption DEF Init, Own
<1>3. InvOnce
  BY <1>2 DEF Init, InvOnce, Once, LastMade, Below, IdlePack
<1> QED
  BY <1>1, <1>3 DEF AInv

LEMMA StepAInv == TypeOK /\ IInv /\ AInv /\ [Next]_vars => AInv'
<1> SUFFICES ASSUME TypeOK, IInv, AInv, [Next]_vars PROVE AInv'
  OBVIOUS
<1>1. CASE UNCHANGED vars
  BY <1>1 DEF vars, chainVars, blockVars, voterVars, blockerVars, AInv, InvTip, InvOnce, InvDrawn,
              InvWitness, Once, Own, LastMade, Below, Height
<1>2. CASE Next
  BY <1>2, StepTip, StepOnce, StepDrawn, StepWitness DEF AInv
<1> QED
  BY <1>1, <1>2

\* What the agreement rests on holds in every reachable state: the blocks a node
\* made (BlockerOfCFRD.preblock), the draws (VoterOfCFRD) and the endorsements.
THEOREM AgreementInvariant == Spec => []AInv
<1>1. Spec => [](TypeOK /\ IInv)
  BY TypeCorrect, InvariantHolds, PTL
<1>2. Init => AInv
  BY InitAgree
<1>3. (TypeOK /\ IInv) /\ AInv /\ [Next]_vars => AInv'
  BY StepAInv
<1> QED
  BY <1>1, <1>2, <1>3, PTL DEF Spec

\* A node that was not restarted offers one block on top of a hash, however
\* often it is drawn there and whatever its voter and its storager do while it
\* makes the block (BlockerOfCFRD.receive, CreateBlock).
THEOREM OneBlockForAHash == Spec => []OneBlockPerBlocker
<1>1. TypeOK /\ IInv /\ AInv => OneBlockPerBlocker
  BY OneBlock
<1> QED
  BY <1>1, TypeCorrect, InvariantHolds, AgreementInvariant, PTL

\* No fork without a restart or a second draw: the draw on a hash names one
\* producer, the producer has one block, and nothing else is endorsed
\* (IRandomAlgorithmOfVote, Endorser4Future.isAllowEndorse, IStorager).
THEOREM LedgersAgreeWithoutRedraw == Spec => []AgreeWithoutRedraw
<1>1. Spec => [](TypeOK /\ IInv /\ AInv)
  BY TypeCorrect, InvariantHolds, AgreementInvariant, PTL
<1>2. Init => AgreeWithoutRedraw
  BY InitAgree
<1>3. (TypeOK /\ IInv /\ AInv) /\ AgreeWithoutRedraw /\ [Next]_vars => AgreeWithoutRedraw'
  BY StepAgree
<1> QED
  BY <1>1, <1>2, <1>3, PTL DEF Spec
=============================================================================
