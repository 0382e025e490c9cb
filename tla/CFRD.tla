-------------------------------- MODULE CFRD --------------------------------
(***************************************************************************)
(* The CFRD consensus of RepChain on a fixed set of stable vote nodes, from *)
(* the draw of a blocker to the storage of the block it produced.           *)
(*                                                                          *)
(* Every node runs a voter, a blocker, an endorsement collector with its    *)
(* requesters, endorsers, a confirmer and a storager.  They are actors:     *)
(* each handles one message at a time, all of them share PeerExtension      *)
(* (pe), and each reads pe again whenever it needs it.  One action below is *)
(* the part of a handler that runs between two such reads of shared state   *)
(* that another actor can change.                                           *)
(*                                                                          *)
(* A block is its hash.  The hash fixes who produced it (Creator) and seeds *)
(* the draw on top of it (Candidates); the previous hash and the height are *)
(* what the blocker wrote into it, and are state.                           *)
(***************************************************************************)
EXTENDS Integers, Sequences, ConsensusCondition

CONSTANTS
    Node,                \* the vote nodes (vote_node_list)
    Stable,              \* those in the cluster (NodeMgr.getStableNodes)
    NoNode,              \* "" as the name of a blocker
    Block,               \* block hashes
    Genesis,             \* the block of height 1, stored by every node
    NoHash,              \* "" as a hash
    Creator,             \* [Block -> Node]: the node that signs the block first
    Candidates,          \* [Block -> Seq(Node)]: the candidates its hash draws
    Scale,               \* number_of_endorsement
    VoteNodeMin,         \* vote_node_min
    VerifyOfEndorsement, \* is_verify_of_endorsement
    EndorseResendTimes,  \* SystemProfile.getEndorseResendTimes
    MaxIndex,            \* bound: highest index of a draw on one hash
    MaxRestarts          \* bound, [Node -> Nat]: restarts of each node

ASSUME NodesAssumption == IsFiniteSet(Node) /\ Stable \subseteq Node /\ NoNode \notin Node
ASSUME BlocksAssumption == Genesis \in Block /\ NoHash \notin Block
ASSUME DrawAssumption ==
    /\ Creator \in [Block -> Node]
    /\ Candidates \in [Block -> Seq(Node)]
    /\ \A b \in Block : Len(Candidates[b]) > 0
ASSUME SettingsAssumption ==
    /\ Scale \in Nat /\ VoteNodeMin \in Nat /\ EndorseResendTimes \in Nat \cup {-1}
    /\ MaxIndex \in Nat /\ MaxRestarts \in [Node -> Nat]
    /\ VerifyOfEndorsement \in BOOLEAN

VARIABLES
    prev,       \* what is in a block: the hash of the block below it
    height,     \* ... and its height; -1 as long as nobody produced the block
    cur,        \* pe.getCurrentBlockHash of each node
    stored,     \* the blocks in each node's database
    blocker,    \* pe.getBlocker, always equal to the voter's own Blocker
    seen,       \* the replaced hash a running vote has read, or NoHash
    force,      \* SpecifyVoteHeight messages on their way to the voter
    create,     \* is a CreateBlock message on its way to the blocker?
    pack,       \* the blocker's progress in CreateBlockHandler
    preblock,   \* BlockerOfCFRD.preblock
    preinfo,    \* BlockerOfCFRD.blockerInfo
    collectQ,   \* CollectEndorsement messages on their way to the collector
    coll,       \* the collector's state
    asks,       \* requests for endorsement, and their answers
    signed,     \* history: the endorsements given, with the signer's index
    confirmed,  \* ConfirmedBlock messages published
    cache,      \* pe.getBlockCacheMgr: blocks waiting for the storager
    restarts    \* how often a node was restarted

chainVars   == <<cur, stored, cache>>
blockVars   == <<prev, height>>
voterVars   == <<blocker, seen, force>>
blockerVars == <<pack, preblock, preinfo>>
collVars    == <<collectQ, coll, asks>>
vars == <<chainVars, blockVars, voterVars, create, blockerVars, collVars,
          signed, confirmed, restarts>>

-----------------------------------------------------------------------------
Hash == Block \cup {NoHash}
Index == -1 .. MaxIndex

\* BlockerInfo, and the part of it that travels as a ForceVoteInfo.
NoVote == [blocker |-> NoNode, index |-> -1, hash |-> NoHash, height |-> -1]
Info(v) == [hash |-> v.hash, height |-> v.height, index |-> v.index]
NoInfo == Info(NoVote)
InfoType == [hash : Hash, height : Nat \cup {-1}, index : Index]

IdlePack == [stage |-> "idle", hash |-> NoHash, block |-> NoHash]
NoCollection == [block |-> NoHash, info |-> NoInfo, recved |-> {},
                 resends |-> 0, again |-> {}]

\* A request for an endorsement; `signed` once its positive answer is on the way,
\* `lost` once the node that asked was restarted.
Ask(n, m, b, i) ==
    [from |-> n, to |-> m, block |-> b, info |-> i, signed |-> FALSE, lost |-> FALSE]

\* IRandomAlgorithmOfVote: the candidate at the position, modulo their number.
Draw(h, i) == Candidates[h][(i % Len(Candidates[h])) + 1]

\* Enough signatures for a block, enough nodes to work at all.
Agreed(n) == ConsensusConditionChecked("CFRD", Cardinality(Node), Scale, n)
\* The sets of nodes whose signatures are enough.
Quorums == {Q \in SUBSET Node : Agreed(Cardinality(Q))}
Working == CheckWorkConditionOfSystem(Cardinality(Node), Scale, VoteNodeMin,
                                      Cardinality(Stable))

Height(n) == height[cur[n]]

Init ==
    /\ prev = [b \in Block |-> NoHash]
    /\ height = [b \in Block |-> IF b = Genesis THEN 1 ELSE -1]
    /\ cur = [n \in Node |-> Genesis]
    /\ stored = [n \in Node |-> {Genesis}]
    /\ blocker = [n \in Node |-> NoVote]
    /\ seen = [n \in Node |-> NoHash]
    /\ force = [n \in Node |-> {}]
    /\ create = [n \in Node |-> FALSE]
    /\ pack = [n \in Node |-> IdlePack]
    /\ preblock = [n \in Node |-> NoHash]
    /\ preinfo = [n \in Node |-> NoInfo]
    /\ collectQ = [n \in Node |-> {}]
    /\ coll = [n \in Node |-> NoCollection]
    /\ asks = {}
    /\ signed = {}
    /\ confirmed = {}
    /\ cache = [n \in Node |-> {}]
    /\ restarts = [n \in Node |-> 0]

-----------------------------------------------------------------------------
(* The voter (IVoter, VoterOfCFRD).  Its timer and the storager send it     *)
(* VoteOfBlocker again and again, so a vote may start at any moment; the    *)
(* pool is taken to hold enough transactions.  A vote reads pe's hash and   *)
(* then its height; a block may be stored in between.                       *)

\* The hash the vote works with: the storager may have replaced it since.
HashRead(n) == IF seen[n] = NoHash THEN cur[n] ELSE seen[n]

\* NoticeBlockerMsg: the drawn node tells its own blocker to create a block.
Notice(n, who) == create' = [create EXCEPT ![n] = @ \/ who = n]

\* resetBlocker; pe's height was read after its hash.
ResetBlocker(n, i) ==
    LET who == Draw(HashRead(n), i) IN
    /\ i <= MaxIndex
    /\ blocker' = [blocker EXCEPT ![n] = [blocker |-> who, index |-> i, hash |-> HashRead(n),
                                         height |-> Height(n)]]
    /\ Notice(n, who)

\* cleanVoteInfo: for a moment pe shows no draw at all.
CleanVoteInfo(n) ==
    /\ Working
    /\ blocker[n].hash \notin {NoHash, HashRead(n)}
    /\ blocker' = [blocker EXCEPT ![n] = NoVote]
    /\ UNCHANGED <<chainVars, blockVars, seen, force, create, blockerVars, collVars, signed,
                   confirmed, restarts>>

\* vote(false, null), for the message VoteOfBlocker.  The block timeout may or
\* may not have passed since the draw.
VoteOfBlocker(n) ==
    /\ Working
    /\ \/ blocker[n].hash # HashRead(n) /\ ResetBlocker(n, 0)
       \/ blocker[n].hash = HashRead(n) /\ ResetBlocker(n, blocker[n].index + 1)
       \/ /\ blocker[n].hash = HashRead(n)
          /\ Notice(n, blocker[n].blocker)
          /\ UNCHANGED blocker
    /\ seen' = [seen EXCEPT ![n] = NoHash]
    /\ UNCHANGED <<chainVars, blockVars, force, blockerVars, collVars, signed,
                   confirmed, restarts>>

\* vote(true, info), for the message SpecifyVoteHeight(info).
SpecifyVoteHeight(n) ==
    /\ Working
    /\ \E f \in force[n] :
         LET catchUp == f.hash = HashRead(n) /\ blocker[n].index < f.index IN
         /\ force' = [force EXCEPT ![n] = @ \ {f}]
         /\ \/ blocker[n].hash # HashRead(n) /\ ResetBlocker(n, 0)
            \/ blocker[n].hash = HashRead(n) /\ catchUp /\ ResetBlocker(n, f.index)
            \/ /\ blocker[n].hash = HashRead(n) /\ ~catchUp
               /\ UNCHANGED <<blocker, create>>
    /\ seen' = [seen EXCEPT ![n] = NoHash]
    /\ UNCHANGED <<chainVars, blockVars, blockerVars, collVars, signed, confirmed, restarts>>

-----------------------------------------------------------------------------
(* The blocker (IBlocker, BlockerOfCFRD).  CreateBlockHandler reads         *)
(* pe.getBlocker once in its guard, once for the previous hash, once for    *)
(* the height, and once more when the block has been executed.              *)

Collect(n, b, i) == collectQ' = [collectQ EXCEPT ![n] = @ \cup {[block |-> b, info |-> i]}]

\* Mutant: the block made earlier on the same hash is not looked at.
CreateBlock_Always(n) ==
    /\ create[n] /\ pack[n].stage = "idle"
    /\ blocker[n].blocker = n /\ blocker[n].hash = cur[n]
    /\ create' = [create EXCEPT ![n] = FALSE]
    /\ pack' = [pack EXCEPT ![n].stage = "packing"]
    /\ UNCHANGED <<chainVars, blockVars, voterVars, preblock, preinfo, collVars, signed,
                   confirmed, restarts>>

\* receive CreateBlock.  While the node synchronises the message is dropped.
CreateBlock(n) ==
    LET v == blocker[n]
        elected == v.blocker = n /\ v.hash = cur[n]
        again == preblock[n] # NoHash /\ prev[preblock[n]] = v.hash
    IN
    /\ create[n] /\ pack[n].stage = "idle"
    /\ create' = [create EXCEPT ![n] = FALSE]
    /\ \/ /\ elected /\ ~again
          /\ pack' = [pack EXCEPT ![n].stage = "packing"]
          /\ UNCHANGED <<preinfo, collectQ>>
       \/ /\ elected /\ again /\ preinfo[n].index < v.index
          /\ preinfo' = [preinfo EXCEPT ![n] = Info(v)]
          /\ Collect(n, preblock[n], Info(v))
          /\ UNCHANGED pack
       \/ UNCHANGED <<pack, preinfo, collectQ>>
    /\ UNCHANGED <<chainVars, blockVars, voterVars, preblock, coll, asks, signed,
                   confirmed, restarts>>

\* PackedBlock: pe.getBlocker.voteBlockHash becomes the previous hash.
PackHash(n) ==
    /\ pack[n].stage = "packing"
    /\ pack' = [pack EXCEPT ![n] = [stage |-> "hashed", hash |-> blocker[n].hash,
                                    block |-> NoHash]]
    /\ UNCHANGED <<chainVars, blockVars, voterVars, create, preblock, preinfo, collVars,
                   signed, confirmed, restarts>>

\* PackedBlock: pe.getBlocker.VoteHeight + 1 becomes the height; the block is
\* executed, hashed and signed.
PackHeight(n) ==
    /\ pack[n].stage = "hashed"
    /\ \E b \in Block :
         /\ height[b] = -1 /\ Creator[b] = n
         /\ prev' = [prev EXCEPT ![b] = pack[n].hash]
         /\ height' = [height EXCEPT ![b] = blocker[n].height + 1]
         /\ pack' = [pack EXCEPT ![n].stage = "packed", ![n].block = b]
    /\ UNCHANGED <<chainVars, voterVars, create, preblock, preinfo, collVars, signed,
                   confirmed, restarts>>

\* Too few transactions: the block is given up and VoteOfBlocker sent.  If the
\* collected ones cannot be executed, PackedBlock tries the next ones.
PackFail(n) ==
    /\ \/ /\ pack[n].stage = "packing"
          /\ pack' = [pack EXCEPT ![n] = IdlePack]
       \/ /\ pack[n].stage = "hashed"
          /\ pack' = [pack EXCEPT ![n] = [IdlePack EXCEPT !.stage = "packing"]]
    /\ UNCHANGED <<chainVars, blockVars, voterVars, create, preblock, preinfo, collVars,
                   signed, confirmed, restarts>>

\* The end of CreateBlockHandler: pe.getBlocker is read once more.
PackDone(n) ==
    /\ pack[n].stage = "packed"
    /\ preblock' = [preblock EXCEPT ![n] = pack[n].block]
    /\ preinfo' = [preinfo EXCEPT ![n] = Info(blocker[n])]
    /\ Collect(n, pack[n].block, Info(blocker[n]))
    /\ pack' = [pack EXCEPT ![n] = IdlePack]
    /\ UNCHANGED <<chainVars, blockVars, voterVars, create, coll, asks, signed,
                   confirmed, restarts>>

-----------------------------------------------------------------------------
(* The collector (EndorseCollector) and its requesters                      *)
(* (EndorsementRequest4Future).  The request of a node to itself is always  *)
(* refused and is left out.  A requester that finds its block no longer on  *)
(* the tip does not ask: that is a request lost.                            *)

\* The collector still works on the block, and the block is still on the tip.
Collecting(n) == coll[n].block # NoHash /\ prev[coll[n].block] = cur[n]

\* Mutant: the block is collected for even if the chain has moved on.
CollectEndorsement_OffTip(n) ==
    \E q \in collectQ[n] :
        /\ collectQ' = [collectQ EXCEPT ![n] = @ \ {q}]
        /\ coll[n].block # q.block \/ coll[n].info.index < q.info.index
        /\ coll' = [coll EXCEPT ![n] = [NoCollection EXCEPT !.block = q.block, !.info = q.info]]
        /\ asks' = asks \cup {Ask(n, m, q.block, q.info) : m \in Stable \ {n}}
        /\ UNCHANGED <<chainVars, blockVars, voterVars, create, blockerVars, signed,
                       confirmed, restarts>>

\* receive CollectEndorsement: start, or restart with a larger index.
CollectEndorsement(n) ==
    \E q \in collectQ[n] :
        /\ collectQ' = [collectQ EXCEPT ![n] = @ \ {q}]
        /\ \/ /\ prev[q.block] = cur[n]
              /\ coll[n].block # q.block \/ coll[n].info.index < q.info.index
              /\ coll' = [coll EXCEPT ![n] =
                            [NoCollection EXCEPT !.block = q.block, !.info = q.info]]
              /\ asks' = asks \cup {Ask(n, m, q.block, q.info) : m \in Stable \ {n}}
           \/ UNCHANGED <<coll, asks>>
        /\ UNCHANGED <<chainVars, blockVars, voterVars, create, blockerVars, signed,
                       confirmed, restarts>>

\* A positive answer reaches the collector: recvedEndorse grows, and
\* CheckAndFinishHandler publishes the block once enough nodes signed it.
CheckAndFinish(n, m) ==
    LET recved == coll[n].recved \cup {m} IN
    IF Agreed(Cardinality(recved) + 1)
    THEN /\ confirmed' = confirmed \cup {[block |-> coll[n].block, signers |-> recved \cup {n}]}
         /\ coll' = [coll EXCEPT ![n] = NoCollection]
    ELSE /\ coll' = [coll EXCEPT ![n].recved = recved]
         /\ UNCHANGED confirmed

\* Mutant: the answer is not compared with the block being collected for.
ReceiveEndorsement_AnyBlock(q) ==
    /\ q.signed
    /\ asks' = asks \ {q}
    /\ Collecting(q.from) /\ CheckAndFinish(q.from, q.to)
    /\ UNCHANGED <<chainVars, blockVars, voterVars, create, blockerVars, collectQ, signed,
                   restarts>>

\* The requester's handler after a positive answer, and the collector's then.
ReceiveEndorsement(q) ==
    LET n == q.from IN
    /\ q.signed
    /\ asks' = asks \ {q}
    /\ \/ Collecting(n) /\ coll[n].block = q.block /\ CheckAndFinish(n, q.to)
       \/ UNCHANGED <<coll, confirmed>>
    /\ UNCHANGED <<chainVars, blockVars, voterVars, create, blockerVars, collectQ, signed,
                   restarts>>

\* ResendEndorseInfo: the endorser is noted for the delayed resend, whose timer
\* starts with the first entry.
Resend(q) ==
    LET n == q.from IN
    coll' = IF ~q.lost /\ Collecting(n) /\ Working /\ coll[n].resends <= EndorseResendTimes
            THEN [coll EXCEPT ![n].again = @ \cup {q.to}]
            ELSE coll

\* The answer did not come in time: the request or the answer is lost or late.
AskTimeout(q) ==
    /\ asks' = asks \ {q}
    /\ Resend(q)
    /\ UNCHANGED <<chainVars, blockVars, voterVars, create, blockerVars, collectQ, signed,
                   confirmed, restarts>>

\* Mutant: every endorser asked again counts as a resend of its own.
DelayResend_PerEndorser(n) ==
    LET c == coll[n] IN
    /\ c.again # {}
    /\ coll' = [coll EXCEPT ![n].again = {}, ![n].resends = @ + Cardinality(c.again)]
    /\ asks' = asks \cup {Ask(n, m, c.block, c.info) : m \in c.again}
    /\ UNCHANGED <<chainVars, blockVars, voterVars, create, blockerVars, collectQ, signed,
                   confirmed, restarts>>

\* receive DelayResendEndorseInfo: the timer of the resend fires.
DelayResend(n) ==
    LET c == coll[n]
        goes == Collecting(n) /\ Working /\ c.resends <= EndorseResendTimes
    IN
    /\ c.again # {}
    /\ coll' = [coll EXCEPT ![n].again = {}, ![n].resends = IF goes THEN @ + 1 ELSE @]
    /\ asks' = asks \cup {r \in {Ask(n, m, c.block, c.info) : m \in c.again} : goes}
    /\ UNCHANGED <<chainVars, blockVars, voterVars, create, blockerVars, collectQ, signed,
                   confirmed, restarts>>

-----------------------------------------------------------------------------
(* The endorser (Endorser4Future).  A negative answer leaves nothing behind *)
(* but a resend, so it is taken to reach the requester and the collector at *)
(* once: what could happen on its way may as well happen before it.         *)

\* Mutant: only the producer is compared, not the previous hash.
AllowEndorse_AnyHash(q) == q.from = blocker[q.to].blocker

\* isAllowEndorse = 0: the block is on the hash of the endorser's own draw,
\* and its producer is the node drawn.
AllowEndorse(q) ==
    prev[q.block] = blocker[q.to].hash /\ q.from = blocker[q.to].blocker

\* The endorser signs.  VerifyInfo refuses a block whose transactions are
\* already in the database, which is so when the block itself is.
EndorseSuccess(q) ==
    /\ ~q.signed /\ AllowEndorse(q)
    /\ VerifyOfEndorsement /\ q.block \notin stored[q.to]
    /\ signed' = signed \cup {[node |-> q.to, block |-> q.block, index |-> blocker[q.to].index]}
    /\ asks' = (asks \ {q}) \cup {[q EXCEPT !.signed = TRUE]}
    /\ UNCHANGED <<chainVars, blockVars, voterVars, create, blockerVars, collectQ, coll,
                   confirmed, restarts>>

\* Mutant: every answer counts as an endorsement, whatever its result flag.
EndorseVerifyError_Counted(q) ==
    /\ ~q.signed /\ AllowEndorse(q)
    /\ asks' = (asks \ {q}) \cup {[q EXCEPT !.signed = TRUE]}
    /\ UNCHANGED <<chainVars, blockVars, voterVars, create, blockerVars, collectQ, coll,
                   signed, confirmed, restarts>>

\* VerifyInfo fails: a repeated transaction, a failed or late preload, the
\* outcome of the signature checks (which races with the checks themselves),
\* or is_verify_of_endorsement is off.  The collector is not told.
EndorseVerifyError(q) ==
    /\ ~q.signed /\ AllowEndorse(q)
    /\ asks' = asks \ {q}
    /\ UNCHANGED <<chainVars, blockVars, voterVars, create, blockerVars, collectQ, coll,
                   signed, confirmed, restarts>>

\* isAllowEndorse = 2: not on the endorser's draw.  A requester whose draw on
\* the same hash is further on makes the voter catch up.  The requester sends
\* again, unless the endorser is so far ahead that it must synchronise.
EndorseHeightError(q) ==
    LET v == blocker[q.to] IN
    /\ ~q.signed /\ ~AllowEndorse(q)
    /\ force' = IF /\ height[q.block] <= Height(q.to) + 1
                   /\ q.info.height = v.height /\ q.info.hash = v.hash
                   /\ q.info.index > v.index
                THEN [force EXCEPT ![q.to] = @ \cup {q.info}]
                ELSE force
    /\ asks' = asks \ {q}
    /\ \/ Height(q.to) <= Height(q.from) + 1 /\ Resend(q)
       \/ Height(q.to) > Height(q.from) + 1 /\ UNCHANGED coll
    /\ UNCHANGED <<chainVars, blockVars, blocker, seen, create, blockerVars, collectQ,
                   signed, confirmed, restarts>>

\* The endorser is synchronising.
EndorseSynching(q) ==
    /\ ~q.signed
    /\ asks' = asks \ {q}
    /\ Resend(q)
    /\ UNCHANGED <<chainVars, blockVars, voterVars, create, blockerVars, collectQ, signed,
                   confirmed, restarts>>

-----------------------------------------------------------------------------
(* The confirmer (IConfirmOfBlock, ConfirmOfBlock) and the storager         *)
(* (IStorager).  A published block may reach a node late, more than once    *)
(* or never; a block fetched by the synchroniser takes the same way.        *)

Confirm(n, c) ==
    /\ height[c.block] > Height(n)
    /\ Agreed(Cardinality(c.signers))
    /\ cache' = [cache EXCEPT ![n] =
                   {d \in @ : height[d] # height[c.block]} \cup {c.block}]
    /\ UNCHANGED <<cur, stored, blockVars, voterVars, create, blockerVars, collVars, signed,
                   confirmed, restarts>>

\* One round of the loop in Handler: RestoreBlock on the lowest cached block.
\* A block that does not fit, or cannot be saved, only leaves the cache; one
\* above the next height stays there, and the synchroniser is told.  A vote may
\* be running that has read the hash replaced here.
Store(n, b) ==
    /\ b \in cache[n]
    /\ \A d \in cache[n] : height[b] <= height[d]
    /\ height[b] <= Height(n) + 1
    /\ cache' = [cache EXCEPT ![n] = @ \ {b}]
    /\ \/ /\ height[b] = Height(n) + 1 /\ prev[b] = cur[n]
          /\ cur' = [cur EXCEPT ![n] = b]
          /\ stored' = [stored EXCEPT ![n] = @ \cup {b}]
          /\ \/ seen' = [seen EXCEPT ![n] = HashRead(n)]
             \/ UNCHANGED seen
       \/ UNCHANGED <<cur, stored, seen>>
    /\ UNCHANGED <<blockVars, blocker, force, create, blockerVars, collVars, signed, confirmed,
                   restarts>>

\* The process stops and starts again: only the database is left.  Its requests
\* may still reach the endorsers, but nobody waits for the answers.
Restart(n) ==
    /\ restarts[n] < MaxRestarts[n]
    /\ restarts' = [restarts EXCEPT ![n] = @ + 1]
    /\ blocker' = [blocker EXCEPT ![n] = NoVote]
    /\ seen' = [seen EXCEPT ![n] = NoHash]
    /\ force' = [force EXCEPT ![n] = {}]
    /\ create' = [create EXCEPT ![n] = FALSE]
    /\ pack' = [pack EXCEPT ![n] = IdlePack]
    /\ preblock' = [preblock EXCEPT ![n] = NoHash]
    /\ preinfo' = [preinfo EXCEPT ![n] = NoInfo]
    /\ collectQ' = [collectQ EXCEPT ![n] = {}]
    /\ coll' = [coll EXCEPT ![n] = NoCollection]
    /\ asks' = {IF q.from = n THEN [q EXCEPT !.lost = TRUE] ELSE q : q \in asks}
    /\ cache' = [cache EXCEPT ![n] = {}]
    /\ UNCHANGED <<cur, stored, blockVars, signed, confirmed>>

-----------------------------------------------------------------------------
VoterNext(n) == CleanVoteInfo(n) \/ VoteOfBlocker(n) \/ SpecifyVoteHeight(n)
BlockerNext(n) ==
    CreateBlock(n) \/ PackHash(n) \/ PackHeight(n) \/ PackFail(n) \/ PackDone(n)
CollectorNext(n) == CollectEndorsement(n) \/ DelayResend(n)
RequesterNext(q) == ReceiveEndorsement(q) \/ AskTimeout(q)
EndorserNext(q) ==
    EndorseSuccess(q) \/ EndorseVerifyError(q) \/ EndorseHeightError(q) \/ EndorseSynching(q)
StorageNext(n) == (\E c \in confirmed : Confirm(n, c)) \/ (\E b \in Block : Store(n, b))

Next ==
    \/ \E n \in Stable : \/ VoterNext(n) \/ BlockerNext(n) \/ CollectorNext(n)
                         \/ StorageNext(n) \/ Restart(n)
    \/ \E q \in asks : RequesterNext(q) \/ EndorserNext(q)

Spec == Init /\ [][Next]_vars
-----------------------------------------------------------------------------
(* Properties.                                                              *)

\* Every variable keeps its type; the resends of a collector and the index of a
\* draw stay in their ranges (EndorseCollector.resendTimes, BlockerInfo).
TypeOK ==
    /\ prev \in [Block -> Hash] /\ height \in [Block -> Nat \cup {-1}]
    /\ cur \in [Node -> Block] /\ stored \in [Node -> SUBSET Block]
    /\ cache \in [Node -> SUBSET Block]
    /\ blocker \in [Node -> [blocker : Node \cup {NoNode}, index : Index, hash : Hash,
                             height : Nat \cup {-1}]]
    /\ seen \in [Node -> Hash] /\ force \in [Node -> SUBSET InfoType]
    /\ create \in [Node -> BOOLEAN]
    /\ pack \in [Node -> [stage : {"idle", "packing", "hashed", "packed"}, hash : Hash,
                          block : Hash]]
    /\ \A n \in Node : pack[n].stage = "packed" => pack[n].block \in Block
    /\ preblock \in [Node -> Hash] /\ preinfo \in [Node -> InfoType]
    /\ collectQ \in [Node -> SUBSET [block : Block, info : InfoType]]
    /\ coll \in [Node -> [block : Hash, info : InfoType, recved : SUBSET Node,
                          resends : 0 .. (EndorseResendTimes + 1), again : SUBSET Node]]
    /\ asks \subseteq [from : Node, to : Node, block : Block, info : InfoType,
                       signed : BOOLEAN, lost : BOOLEAN]
    /\ signed \subseteq [node : Node, block : Block, index : Index]
    /\ confirmed \subseteq [block : Block, signers : SUBSET Node]
    /\ restarts \in [Node -> Nat]

\* A published block carries signatures of its producer and of enough others,
\* and each of the others did endorse exactly this block: an answer that comes
\* late, or belongs to a block collected earlier, is never counted for another
\* (EndorseCollector.receive, ResultOfEndorseRequester).
CertificateIsReal ==
    \A c \in confirmed :
        /\ Agreed(Cardinality(c.signers))
        /\ Creator[c.block] \in c.signers
        /\ \A m \in c.signers \ {Creator[c.block]} :
             \E s \in signed : s.node = m /\ s.block = c.block

\* Before a block is anywhere, the block below it is at a quorum of nodes: it
\* survives the loss of any minority even if its own storage is still under
\* way (isAllowEndorse compares with the endorser's draw, which is on a block
\* that the endorser holds).
ParentHeldByQuorum ==
    \A n \in Node : \A b \in stored[n] \ {Genesis} :
        Agreed(Cardinality({m \in Node : prev[b] \in stored[m]}))

\* No endorsed block skips or repeats a height, although the voter reads the
\* hash and the height of the chain one after the other, and the blocker reads
\* the draw's hash and height one after the other (VoterOfCFRD.vote,
\* IBlocker.PackedBlock).
HeightFollowsParent ==
    \A s \in signed : prev[s.block] \in Block /\ height[s.block] = height[prev[s.block]] + 1

\* A node that was not restarted has one block endorsed on top of a hash: when
\* it is drawn again there it offers the block it already has
\* (BlockerOfCFRD.receive, CreateBlock).
OneBlockPerBlocker ==
    \A s, t \in signed :
        /\ Creator[s.block] = Creator[t.block] /\ prev[s.block] = prev[t.block]
        /\ restarts[Creator[s.block]] = 0
        => s.block = t.block

\* The nodes that really signed a block: its producer and its endorsers.
Signed(b) == {Creator[b]} \cup {s.node : s \in {t \in signed : t.block = b}}

\* Two published blocks that exclude each other were both signed by some node,
\* so a fork always shows in the signatures of that node: the quorums of
\* CheckAndFinishHandler intersect and are made of real endorsements.
ForkLeavesWitness ==
    \A c, d \in confirmed :
        prev[c.block] = prev[d.block] => Signed(c.block) \cap Signed(d.block) # {}

\* All ledgers agree on the block of a height.
LedgersAgree ==
    \A n, m \in Node : \A b \in stored[n], d \in stored[m] :
        height[b] = height[d] => b = d

\* They do as long as nobody was restarted and no endorsement was given under
\* a second draw on the same hash, which follows only a block timeout.
AgreeWithoutRedraw ==
    (\A s \in signed : s.index = 0) /\ (\A n \in Node : restarts[n] = 0) => LedgersAgree

\* A collector resends at most endorse_resend_times times and then leaves the
\* block to the block timeout.
ResendsWithinLimit == \A n \in Node : coll[n].resends <= EndorseResendTimes

\* A node endorses only blocks on its own current hash.
EndorseOnTip == [][\A s \in signed' \ signed : prev[s.block] = cur[s.node]]_vars

\* The consensus keeps the promise of QuorumLedger: published blocks are the
\* approved ones.
Ledger == INSTANCE QuorumLedger WITH
    Quorum <- Quorums,
    approved <- {[block |-> c.block, parent |-> prev[c.block], height |-> height[c.block]] :
                  c \in confirmed},
    ledger <- stored,
    tip <- cur

ImplementsLedger == Ledger!Init /\ [][Ledger!Next]_Ledger!vars
-----------------------------------------------------------------------------
(* The inductive invariant behind the safety properties: what every actor    *)
(* of a node may rely on between two reads of pe.                            *)

\* A hash that a node read from its chain at some time.
Held(h, n) == h = NoHash \/ h \in stored[n]

\* A block of this producer on top of a block that the producer holds.
Proper(b, n) == Creator[b] = n /\ prev[b] \in stored[n] /\ height[b] = height[prev[b]] + 1

Endorsed(b, m) == \E s \in signed : s.node = m /\ s.block = b

\* The tip is the highest block of a node.
InvLedger ==
    /\ height[Genesis] = 1
    /\ \A n \in Node :
         cur[n] \in stored[n] /\ \A b \in stored[n] : 0 < height[b] /\ height[b] <= Height(n)

\* Only published blocks reach a cache or a ledger.
InvCertified ==
    \A n \in Node : \A b \in (stored[n] \ {Genesis}) \cup cache[n] :
        \E c \in confirmed : c.block = b

\* A draw on the current hash has the height that belongs to it; while a vote
\* holds a hash that was replaced, the draw is not on the new one.
InvDraw ==
    \A n \in Node :
        /\ Held(blocker[n].hash, n) /\ Held(seen[n], n)
        /\ blocker[n].hash = cur[n] => blocker[n].height = Height(n)
        /\ seen[n] # NoHash => seen[n] # cur[n] /\ blocker[n].hash # cur[n]

\* The blocker took the previous hash from a draw that, if the hash is still
\* the current one, can only have been replaced by another draw on it.
InvPack ==
    \A n \in Node :
        pack[n].stage = "hashed" =>
            Held(pack[n].hash, n) /\ (pack[n].hash = cur[n] => blocker[n].hash = cur[n])

\* A block that fits on its producer's tip has the height for it, and every
\* block on its way through a node's blocker and collector is the node's own.
InvOwn ==
    /\ \A b \in Block : /\ Held(prev[b], Creator[b])
                        /\ prev[b] = cur[Creator[b]] => height[b] = Height(Creator[b]) + 1
    /\ \A n \in Node : /\ pack[n].stage = "packed" => Creator[pack[n].block] = n
                       /\ preblock[n] # NoHash => Creator[preblock[n]] = n
                       /\ \A q \in collectQ[n] : Creator[q.block] = n

\* What is asked for is a proper block, and a positive answer was given.
InvAsks ==
    \A q \in asks : /\ q.from # q.to /\ Proper(q.block, q.from)
                    /\ q.signed => Endorsed(q.block, q.to)

\* A node endorses proper blocks on top of a block it holds.
InvSigned ==
    \A s \in signed : Proper(s.block, Creator[s.block]) /\ prev[s.block] \in stored[s.node]

\* A collector counts others' endorsements of the block it collects for.
InvColl ==
    \A n \in Node : coll[n].block # NoHash =>
        /\ Proper(coll[n].block, n)
        /\ n \notin coll[n].recved \cup coll[n].again
        /\ \A m \in coll[n].recved : Endorsed(coll[n].block, m)

\* A published block is proper.
InvConfirmed ==
    \A c \in confirmed : Proper(c.block, Creator[c.block])

\* The parts together; with them every safety property above can be carried
\* from one step to the next (IVoter, IBlocker, EndorseCollector, IStorager).
IInv == /\ InvLedger /\ InvCertified /\ InvDraw /\ InvPack /\ InvOwn
        /\ InvAsks /\ InvSigned /\ InvColl /\ InvConfirmed /\ CertificateIsReal
=============================================================================
