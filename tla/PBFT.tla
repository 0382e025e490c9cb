-------------------------------- MODULE PBFT --------------------------------
(***************************************************************************)
(* The PBFT consensus of RepChain, from the draw of a blocker to the        *)
(* storage of the block.  A block goes through four rounds: the requesters  *)
(* of the blocker's collector send a pre-prepare to every stable node, each *)
(* node that accepts it sends its prepare to all, 2F prepares make a node   *)
(* commit to all, and 2F + 1 commits make it answer the requester named in  *)
(* the last commit.  The requester with F + 1 answers has the collector     *)
(* publish the block.                                                       *)
(*                                                                          *)
(* There is no view change and no lock: a block timeout draws the next node *)
(* on the same hash, which starts over with a block of its own.             *)
(*                                                                          *)
(* The signatures are all valid.  A message is checked and counted in one   *)
(* step, and may never arrive.  No node synchronises: one that does refuses *)
(* what it is sent, which is the same as not having got it yet.             *)
(***************************************************************************)
EXTENDS Integers, Sequences, ConsensusCondition

CONSTANTS
    Node,                \* the vote nodes (vote_node_list)
    Stable,              \* those in the cluster (NodeMgr.getStableNodes)
    Order,               \* the vote nodes as the draw sorts them
    Block,               \* block hashes
    Genesis,             \* the block every node stores
    NoHash,              \* "" as a hash, null as a block
    Creator,             \* [Block -> Node]: the node that produces the block
    F,                   \* SystemProfile.getPbftF
    RequesterOf,         \* [Node -> Nat]: the child the collector routes a node to
    Scale,               \* number_of_endorsement
    VoteNodeMin,         \* vote_node_min
    VerifyOfEndorsement, \* is_verify_of_endorsement
    MaxIndex,            \* bound: highest index of a draw on one hash
    MaxRestarts          \* bound, [Node -> Nat]: restarts of each node

ASSUME NodesAssumption ==
    IsFiniteSet(Node) /\ Stable \subseteq Node /\ Order \in Seq(Node) /\ Order # <<>>
ASSUME BlocksAssumption ==
    Genesis \in Block /\ NoHash \notin Block /\ Creator \in [Block -> Node]
ASSUME SettingsAssumption ==
    /\ F \in Nat /\ RequesterOf \in [Node -> Nat] /\ Scale \in Nat /\ VoteNodeMin \in Nat
    /\ VerifyOfEndorsement \in BOOLEAN
    /\ MaxIndex \in Nat /\ MaxRestarts \in [Node -> Nat]
\* F is a constant 1 of SystemProfile; vote_node_list names four nodes.  With
\* more than 4F of them a node could commit to one block twice, on the prepares
\* of different nodes, and the counters, which do not look at the sender, would
\* count it twice.
ASSUME FaultsAssumption == F > 0 /\ Cardinality(Node) <= 4 * F

VARIABLES
    prev,       \* what is in a block: the hash of the block below it
    height,     \* ... and its height; -1 as long as nobody produced the block
    cur,        \* pe.getCurrentBlockHash of each node
    stored,     \* the blocks in each node's database
    draw,       \* pe.getBlocker: the hash drawn on, and the index of the draw
    preblock,   \* BlockerOfPBFT.preblock
    collectQ,   \* CollectEndorsement messages on their way to the collector
    coll,       \* the block the collector works on
    preprepares,\* pre-prepares sent and not yet accepted
    prepares,   \* prepares on their way
    commits,    \* commits on their way
    replies,    \* answers on their way to a requester
    pbuf,       \* PbftPrepare: the block counted for, and its prepares
    cbuf,       \* PbftCommit: the block counted for, and its commits
    rbuf,       \* EndorsementRequest4Future: the same for the answers
    prepared,   \* history: who prepared a block, under which index
    missed,     \* history: blocks one of whose prepares or commits was refused
    confirmed,  \* ConfirmedBlock messages published
    restarts    \* how often a node was restarted

blockVars == <<prev, height>>
chainVars == <<cur, stored>>
blockerVars == <<preblock, collectQ>>
endorserVars == <<prepares, commits, pbuf, cbuf, prepared, missed>>
requesterVars == <<replies, rbuf>>
vars == <<blockVars, chainVars, draw, blockerVars, coll, preprepares, endorserVars,
          requesterVars, confirmed, restarts>>

-----------------------------------------------------------------------------
Hash == Block \cup {NoHash}
Requester == {RequesterOf[m] : m \in Node}
NoDraw == [hash |-> NoHash, index |-> -1]
Empty == [hash |-> NoHash, got |-> {}]

\* ISequencialAlgorithmOfVote: the nodes in turn, whatever the hash is.
Drawn(i) == Order[(i % Len(Order)) + 1]

Height(n) == height[cur[n]]
Working == CheckWorkConditionOfSystem(Cardinality(Node), Scale, VoteNodeMin,
                                      Cardinality(Stable))

\* What the three counters do with one more message on block b.
Count(buf, b, x) == [hash |-> b, got |-> IF buf.hash = b THEN buf.got \cup {x} ELSE {x}]

\* Mutant: a counter that is full is not emptied.
Counted_Kept(buf, needed) == buf

\* ... and what is left when there are enough of them.
Counted(buf, needed) == IF Cardinality(buf.got) >= needed THEN Empty ELSE buf

Init ==
    /\ prev = [b \in Block |-> NoHash]
    /\ height = [b \in Block |-> IF b = Genesis THEN 1 ELSE -1]
    /\ cur = [n \in Node |-> Genesis]
    /\ stored = [n \in Node |-> {Genesis}]
    /\ draw = [n \in Node |-> NoDraw]
    /\ preblock = [n \in Node |-> NoHash]
    /\ collectQ = [n \in Node |-> {}]
    /\ coll = [n \in Node |-> NoHash]
    /\ preprepares = {} /\ prepares = {} /\ commits = {} /\ replies = {}
    /\ pbuf = [n \in Node |-> Empty]
    /\ cbuf = [n \in Node |-> Empty]
    /\ rbuf = [n \in Node |-> [r \in Requester |-> Empty]]
    /\ prepared = {} /\ missed = {}
    /\ confirmed = {}
    /\ restarts = [n \in Node |-> 0]

-----------------------------------------------------------------------------
(* The voter (VoterOfPBFT) and the blocker (BlockerOfPBFT).  The voter's    *)
(* timer and the storager send VoteOfBlocker again and again, and each vote *)
(* that does not redraw sends the blocker CreateBlock; the pool is taken to *)
(* hold enough transactions.                                                *)

\* vote: a new hash is drawn on from index 0; the next index follows a block
\* timeout, or a drawn node that is not stable.
VoteOfBlocker(n) ==
    /\ Working
    /\ \/ /\ draw[n].hash # cur[n]
          /\ draw' = [draw EXCEPT ![n] = [hash |-> cur[n], index |-> 0]]
       \/ /\ draw[n].hash = cur[n] /\ draw[n].index < MaxIndex
          /\ draw' = [draw EXCEPT ![n].index = @ + 1]
    /\ UNCHANGED <<blockVars, chainVars, blockerVars, coll, preprepares, endorserVars,
                   requesterVars, confirmed, restarts>>

\* The blocks that n may still produce.
Unused(n) == {b \in Block : height[b] = -1 /\ Creator[b] = n}

\* Mutant: the block gets the height that was drawn on, not the next one.
Pack_SameHeight(n) ==
    LET b == CHOOSE b \in Unused(n) : TRUE IN
        /\ Unused(n) # {}
        /\ prev' = [prev EXCEPT ![b] = draw[n].hash]
        /\ height' = [height EXCEPT ![b] = height[draw[n].hash]]
        /\ preblock' = [preblock EXCEPT ![n] = b]
        /\ collectQ' = [collectQ EXCEPT ![n] = @ \cup {b}]

\* A block packed by n goes to the collector; which hash it gets is all one.
Pack(n) ==
    LET b == CHOOSE b \in Unused(n) : TRUE IN
        /\ Unused(n) # {}
        /\ prev' = [prev EXCEPT ![b] = draw[n].hash]
        /\ height' = [height EXCEPT ![b] = height[draw[n].hash] + 1]
        /\ preblock' = [preblock EXCEPT ![n] = b]
        /\ collectQ' = [collectQ EXCEPT ![n] = @ \cup {b}]

\* receive CreateBlock: one block per hash, on the hash of the node's own draw.
CreateBlock(n) ==
    /\ draw[n].hash = cur[n] /\ Drawn(draw[n].index) = n
    /\ preblock[n] # NoHash => prev[preblock[n]] # draw[n].hash
    /\ Pack(n)
    /\ UNCHANGED <<chainVars, draw, coll, preprepares, endorserVars, requesterVars,
                   confirmed, restarts>>

-----------------------------------------------------------------------------
(* The collector (EndorseCollector) and the endorsers (Endorser4Future,      *)
(* PbftPrePrepare, PbftPrepare, PbftCommit).  The pre-prepare of a node to   *)
(* itself has no effect and is left out.                                     *)

\* receive CollectEndorsement: every stable node gets a requester.
CollectEndorsement(n) ==
    \E b \in collectQ[n] :
        /\ collectQ' = [collectQ EXCEPT ![n] = @ \ {b}]
        /\ \/ /\ coll[n] # b /\ prev[b] = cur[n]
              /\ coll' = [coll EXCEPT ![n] = b]
              /\ preprepares' = preprepares \cup {[block |-> b, to |-> m] : m \in Stable \ {n}}
           \/ /\ coll[n] = b \/ prev[b] # cur[n]
              /\ UNCHANGED <<coll, preprepares>>
        /\ UNCHANGED <<blockVars, chainVars, draw, preblock, endorserVars, requesterVars,
                       confirmed, restarts>>

\* CheckMessage, CheckMessage2: the block is on the hash of the node's own draw,
\* and its producer is the node drawn.
FitsDraw(b, n) ==
    /\ prev[b] = draw[n].hash /\ draw[n].hash # NoHash
    /\ Creator[b] = Drawn(draw[n].index)

\* CheckMessage and VerifyInfo together; VerifyInfo refuses a block whose
\* transactions are already in the database.
Acceptable(q) ==
    /\ height[q.block] <= Height(q.to) + 1 /\ FitsDraw(q.block, q.to)
    /\ VerifyOfEndorsement => q.block \notin stored[q.to]

\* A prepare goes to every stable node, the sender included.  It names the
\* requester that sent the pre-prepare.
Prepare(n, b) ==
    prepares' = prepares \cup
        {[block |-> b, from |-> n, to |-> m, path |-> RequesterOf[n]] : m \in Stable}

\* receive MsgPbftPrePrepare, accepted.
PrePrepare(q) ==
    /\ Acceptable(q)
    /\ preprepares' = preprepares \ {q}
    /\ prepared' = prepared \cup {[node |-> q.to, block |-> q.block, index |-> draw[q.to].index]}
    /\ Prepare(q.to, q.block)
    /\ UNCHANGED <<blockVars, chainVars, draw, blockerVars, coll, commits, pbuf, cbuf, missed,
                   requesterVars, confirmed, restarts>>

\* Mutant: a pre-prepare that does not fit is not asked for again.
PrePrepareRefused_NoResend(q) ==
    /\ ~Acceptable(q)
    /\ preprepares' = preprepares \ {q}
    /\ UNCHANGED <<blockVars, chainVars, draw, blockerVars, coll, endorserVars, requesterVars,
                   confirmed, restarts>>

\* receive MsgPbftPrePrepare, refused: the requester is asked to send it again,
\* and does at once, until the chain of the node is above the block.  So it
\* does when the verification fails or the node synchronises: no step at all.
PrePrepareRefused(q) ==
    /\ ~Acceptable(q)
    /\ preprepares' = {x \in preprepares : x # q \/ height[q.block] >= Height(q.to)}
    /\ UNCHANGED <<blockVars, chainVars, draw, blockerVars, coll, endorserVars, requesterVars,
                   confirmed, restarts>>

\* PbftPrepare, PbftCommit, EndorsementRequest4Future: how many are enough.
PreparesNeeded == 2 * F
\* Mutant: the node's own commit is counted twice.
CommitsNeeded_OneLess == 2 * F
CommitsNeeded == 2 * F + 1
RepliesNeeded == F + 1

\* receive MsgPbftPrepare: count it, and commit once there are enough.  The
\* commit goes where the last of them says.
ReceivePrepare(p) ==
    LET n == p.to
        buf == Count(pbuf[n], p.block, p.from)
        full == Cardinality(buf.got) >= PreparesNeeded
    IN
    /\ FitsDraw(p.block, n)
    /\ prepares' = prepares \ {p}
    /\ pbuf' = [pbuf EXCEPT ![n] = Counted(buf, PreparesNeeded)]
    /\ commits' = commits \cup
         {c \in [block : {p.block}, from : {n}, to : Stable, path : {p.path}, prepares : {buf.got}] :
            full}
    /\ UNCHANGED <<blockVars, chainVars, draw, blockerVars, coll, preprepares, cbuf, prepared,
                   missed, requesterVars, confirmed, restarts>>

\* receive MsgPbftCommit: count it, and answer once there are enough.
ReceiveCommit(c) ==
    LET n == c.to
        buf == Count(cbuf[n], c.block, [from |-> c.from, prepares |-> c.prepares])
        full == Cardinality(buf.got) >= CommitsNeeded
    IN
    /\ FitsDraw(c.block, n)
    /\ commits' = commits \ {c}
    /\ cbuf' = [cbuf EXCEPT ![n] = Counted(buf, CommitsNeeded)]
    /\ replies' = replies \cup
         {r \in [block : {c.block}, path : {c.path}, from : {n}, commits : {buf.got}] : full}
    /\ UNCHANGED <<blockVars, chainVars, draw, blockerVars, coll, preprepares, prepares, pbuf,
                   prepared, missed, rbuf, confirmed, restarts>>

\* A prepare or a commit that does not fit the draw is dropped, and nobody
\* sends it again.
DropMessage ==
    /\ \/ \E p \in prepares : /\ ~FitsDraw(p.block, p.to)
                              /\ prepares' = prepares \ {p}
                              /\ missed' = missed \cup {p.block}
                              /\ UNCHANGED commits
       \/ \E c \in commits : /\ ~FitsDraw(c.block, c.to)
                             /\ commits' = commits \ {c}
                             /\ missed' = missed \cup {c.block}
                             /\ UNCHANGED prepares
    /\ UNCHANGED <<blockVars, chainVars, draw, blockerVars, coll, preprepares, pbuf, cbuf,
                   prepared, requesterVars, confirmed, restarts>>

-----------------------------------------------------------------------------
(* The answers (EndorsementRequest4Future, EndorseCollector) and what       *)
(* becomes of a published block (ConfirmOfBlockOfPBFT, StoragerOfPBFT).     *)

\* receive MsgPbftReply in the requester, and MsgPbftReplyOk in its collector.
ReceiveReply(r) ==
    LET n == Creator[r.block]
        buf == Count(rbuf[n][r.path], r.block, [from |-> r.from, commits |-> r.commits])
        full == Cardinality(buf.got) >= RepliesNeeded
        publish == full /\ coll[n] = r.block /\ prev[r.block] = cur[n]
    IN
    /\ replies' = replies \ {r}
    /\ rbuf' = [rbuf EXCEPT ![n][r.path] = Counted(buf, RepliesNeeded)]
    /\ coll' = IF publish THEN [coll EXCEPT ![n] = NoHash] ELSE coll
    /\ confirmed' = confirmed \cup
         {c \in [block : {r.block}, replies : {buf.got}] : publish}
    /\ UNCHANGED <<blockVars, chainVars, draw, blockerVars, preprepares, endorserVars, restarts>>

\* A published block is checked and stored on the tip.
StoreBlock(n) ==
    \E c \in confirmed :
        /\ Cardinality(c.replies) >= RepliesNeeded
        /\ prev[c.block] = cur[n]
        /\ cur' = [cur EXCEPT ![n] = c.block]
        /\ stored' = [stored EXCEPT ![n] = @ \cup {c.block}]
        /\ UNCHANGED <<blockVars, draw, blockerVars, coll, preprepares, endorserVars,
                       requesterVars, confirmed, restarts>>

\* The process stops and starts again: only the database is left.  A message
\* sent before is answered by the actor of the same name.
Restart(n) ==
    /\ restarts[n] < MaxRestarts[n]
    /\ restarts' = [restarts EXCEPT ![n] = @ + 1]
    /\ draw' = [draw EXCEPT ![n] = NoDraw]
    /\ preblock' = [preblock EXCEPT ![n] = NoHash]
    /\ collectQ' = [collectQ EXCEPT ![n] = {}]
    /\ coll' = [coll EXCEPT ![n] = NoHash]
    /\ pbuf' = [pbuf EXCEPT ![n] = Empty]
    /\ cbuf' = [cbuf EXCEPT ![n] = Empty]
    /\ rbuf' = [rbuf EXCEPT ![n] = [r \in Requester |-> Empty]]
    /\ UNCHANGED <<blockVars, chainVars, preprepares, prepares, commits, replies, prepared,
                   missed, confirmed>>

-----------------------------------------------------------------------------
NodeNext(n) == VoteOfBlocker(n) \/ CreateBlock(n) \/ CollectEndorsement(n) \/ StoreBlock(n)
MessageNext ==
    \/ \E q \in preprepares : PrePrepare(q) \/ PrePrepareRefused(q)
    \/ \E p \in prepares : ReceivePrepare(p)
    \/ \E c \in commits : ReceiveCommit(c)
    \/ \E r \in replies : ReceiveReply(r)
    \/ DropMessage

Next == (\E n \in Stable : NodeNext(n) \/ Restart(n)) \/ MessageNext

Spec == Init /\ [][Next]_vars

\* Every actor handles its messages in the end, and the voter's timer has every
\* node draw on its hash; a published block that was lost is fetched by the
\* synchroniser.  That a block is created or times out is nobody's duty.
Fairness ==
    /\ WF_vars(MessageNext)
    /\ \A n \in Stable : /\ WF_vars(draw[n].hash # cur[n] /\ VoteOfBlocker(n))
                         /\ WF_vars(CollectEndorsement(n))
                         /\ WF_vars(StoreBlock(n))

FairSpec == Spec /\ Fairness
-----------------------------------------------------------------------------
(* Properties.                                                              *)

\* What counts: a commit with the prepares behind it, an answer with its commits.
Commit == [from : Node, prepares : SUBSET Node]
Reply == [from : Node, commits : SUBSET Commit]
Counter(X) == [hash : Hash, got : SUBSET X]

\* Every variable keeps its type, and a counter is emptied when it is full
\* (PbftPrepare, PbftCommit, EndorsementRequest4Future).
TypeOK ==
    /\ prev \in [Block -> Hash] /\ height \in [Block -> Nat \cup {-1}]
    /\ cur \in [Node -> Block] /\ stored \in [Node -> SUBSET Block]
    /\ draw \in [Node -> [hash : Block, index : 0 .. MaxIndex] \cup {NoDraw}]
    /\ preblock \in [Node -> Hash] /\ collectQ \in [Node -> SUBSET Block]
    /\ coll \in [Node -> Hash] /\ preprepares \subseteq [block : Block, to : Node]
    /\ prepares \subseteq [block : Block, from : Node, to : Node, path : Requester]
    /\ commits \subseteq [block : Block, from : Node, to : Node, path : Requester,
                          prepares : SUBSET Node]
    /\ replies \subseteq [block : Block, path : Requester, from : Node,
                          commits : SUBSET Commit]
    /\ pbuf \in [Node -> Counter(Node)] /\ cbuf \in [Node -> Counter(Commit)]
    /\ rbuf \in [Node -> [Requester -> Counter(Reply)]]
    /\ \A n \in Node :
         /\ Cardinality(pbuf[n].got) < PreparesNeeded
         /\ Cardinality(cbuf[n].got) < CommitsNeeded
         /\ \A r \in Requester : Cardinality(rbuf[n][r].got) < RepliesNeeded
    /\ prepared \subseteq [node : Node, block : Block, index : 0 .. MaxIndex]
    /\ missed \subseteq Block
    /\ confirmed \subseteq [block : Block, replies : SUBSET Reply]
    /\ restarts \in [Node -> Nat]

\* A node that is behind a published block: it produced or prepared it.
Vouched(b) == {Creator[b]} \cup {s.node : s \in {t \in prepared : t.block = b}}

\* A published block carries the answers of F + 1 different nodes, each with the
\* commits of 2F + 1 different nodes, each with the prepares of 2F nodes that
\* did prepare exactly this block: although the counters never look at who sent
\* a message, and a message of one block empties the counter of another
\* (PbftPrepare, PbftCommit, EndorsementRequest4Future; the confirmer counts
\* only the answers).
CertificateIsReal ==
    \A c \in confirmed :
        /\ Cardinality({r.from : r \in c.replies}) >= F + 1
        /\ \A r \in c.replies :
             /\ Cardinality({x.from : x \in r.commits}) >= 2 * F + 1
             /\ \A x \in r.commits :
                  /\ Cardinality(x.prepares) >= 2 * F
                  /\ Creator[c.block] \notin x.prepares
                  /\ x.prepares \subseteq Vouched(c.block)

\* The consensus keeps the promise of QuorumLedger with quorums of 2F + 1.
Ledger == INSTANCE QuorumLedger WITH
    Quorum <- {Q \in SUBSET Node : Cardinality(Q) >= 2 * F + 1},
    approved <- {[block |-> c.block, parent |-> prev[c.block], height |-> height[c.block]] :
                  c \in confirmed},
    ledger <- stored,
    tip <- cur

ImplementsLedger == Ledger!Init /\ [][Ledger!Next]_Ledger!vars

Published(b) == \E c \in confirmed : c.block = b

\* A block that is collected for is published, unless a prepare or a commit of
\* it met a node that had not drawn yet or had drawn again, or its producer was
\* restarted.  The answers of a block go to several requesters, each to the one
\* named in the last commit a node happened to count, and only a requester that
\* gets F + 1 of them speaks up (PbftCommit, EndorsementRequest4Future).
BlockIsPublished ==
    \A b \in Block \ {Genesis} :
        (\E n \in Node : coll[n] = b) ~>
            \/ Published(b) \/ b \in missed
            \/ \E n \in Node : restarts[n] > 0 \/ draw[n].index > 0

\* The same without the exception for a refused message.  A node that draws late
\* loses prepares for good: only pre-prepares are sent again
\* (Endorser4Future.ProcessMsgPbftPepare).
CollectedIsPublished ==
    \A b \in Block \ {Genesis} :
        (\E n \in Node : coll[n] = b) ~>
            Published(b) \/ \E n \in Node : restarts[n] > 0 \/ draw[n].index > 0
=============================================================================
