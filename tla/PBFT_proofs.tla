----------------------------- MODULE PBFT_proofs -----------------------------
(***************************************************************************)
(* Proofs about PBFT: type correctness, the certificate of a published      *)
(* block, and the promise of QuorumLedger.                                  *)
(*                                                                          *)
(* The counters count messages and never look at the sender.  What makes a  *)
(* counted commit worth a node is that a node commits to a block only once, *)
(* and this in turn holds because the prepares behind a commit are used up: *)
(* two commits of one node to one block would need twice 2F nodes besides   *)
(* the producer.  The same argument, one round later, shows that a node     *)
(* answers for a block only once.                                           *)
(***************************************************************************)
EXTENDS PBFT, FiniteSetTheorems, TLAPS

\* The nodes that prepared b.
Preparers(b) == {s.node : s \in {t \in prepared : t.block = b}}

\* The answers for b, wherever they are by now.
RepliesSent(b) ==
    {[from |-> r.from, commits |-> r.commits] : r \in {x \in replies : x.block = b}}
RepliesHeld(n, b) == UNION {rbuf[n][w].got : w \in {r \in Requester : rbuf[n][r].hash = b}}
RepliesCounted(b) == UNION {RepliesHeld(n, b) : n \in Node}
RepliesPublished(b) == UNION {c.replies : c \in {x \in confirmed : x.block = b}}
RepliesMade(b) == RepliesSent(b) \cup RepliesCounted(b) \cup RepliesPublished(b)

\* ... and the commits to b: on their way, counted, or part of an answer.
CommitsSent(b) ==
    {[from |-> c.from, prepares |-> c.prepares] : c \in {x \in commits : x.block = b}}
CommitsCounted(b) == UNION {cbuf[n].got : n \in {m \in Node : cbuf[m].hash = b}}
CommitsAnswered(b) == UNION {y.commits : y \in RepliesMade(b)}
CommitsMade(b) == CommitsSent(b) \cup CommitsCounted(b) \cup CommitsAnswered(b)

Produced(b) == height[b] # -1

\* A block asked for was produced, and no pre-prepare comes twice to a node.
InvAsked ==
    /\ \A n \in Node : \A b \in collectQ[n] :
         /\ Creator[b] = n /\ Produced(b) /\ Preparers(b) = {}
         /\ \A q \in preprepares : q.block # b
    /\ \A q \in preprepares : /\ Produced(q.block) /\ q.to # Creator[q.block]
                              /\ q.to \notin Preparers(q.block)
    /\ \A s \in prepared : Produced(s.block) /\ s.node # Creator[s.block]

\* A prepare was sent by a node that prepared, and is either on its way or counted.
InvPrepares ==
    /\ \A p \in prepares : p.from \in Preparers(p.block) /\ p.path = RequesterOf[p.from]
    /\ \A n \in Node : /\ pbuf[n].got \subseteq Preparers(pbuf[n].hash)
                       /\ \A p \in prepares : p.to = n /\ p.block = pbuf[n].hash
                                              => p.from \notin pbuf[n].got

\* A node commits to a block once, on prepares that it will not count again.
InvCommits ==
    \A b \in Block :
        /\ \A x \in CommitsMade(b) :
             /\ Cardinality(x.prepares) >= PreparesNeeded /\ x.prepares \subseteq Preparers(b)
             /\ \A p \in prepares : p.to = x.from /\ p.block = b => p.from \notin x.prepares
             /\ pbuf[x.from].hash = b => pbuf[x.from].got \cap x.prepares = {}
        /\ \A x, y \in CommitsMade(b) : x.from = y.from => x = y

\* A commit goes one way, and is either on its way to a node or counted there.
InvDelivery ==
    \A c \in commits :
        /\ \A d \in commits : d.block = c.block /\ d.from = c.from => d.path = c.path
        /\ cbuf[c.to].hash = c.block => \A x \in cbuf[c.to].got : x.from # c.from
        /\ \A y \in RepliesMade(c.block) :
             y.from = c.to => \A x \in y.commits : x.from # c.from

\* A node answers for a block once, on commits that it will not count again.
InvReplies ==
    \A b \in Block :
        /\ \A y \in RepliesMade(b) :
             /\ IsFiniteSet(y.commits) /\ Cardinality(y.commits) >= CommitsNeeded
             /\ cbuf[y.from].hash = b => cbuf[y.from].got \cap y.commits = {}
        /\ \A y, z \in RepliesMade(b) : y.from = z.from => y = z

\* What is counted is finite, and was enough when the block was published.
InvCounted ==
    /\ \A n \in Node : /\ IsFiniteSet(cbuf[n].got)
                       /\ \A r \in Requester : IsFiniteSet(rbuf[n][r].got)
    /\ \A c \in confirmed : /\ IsFiniteSet(c.replies)
                            /\ Cardinality(c.replies) >= RepliesNeeded

\* The hashes drawn on are stored, and stored blocks are published ones.
InvLedger ==
    /\ height[Genesis] = 1 /\ prev[Genesis] = NoHash
    /\ \A b \in Block : b # Genesis /\ Produced(b) =>
         /\ prev[b] \in Block /\ Produced(prev[b]) /\ height[b] = height[prev[b]] + 1
    /\ \A n \in Node :
         /\ cur[n] \in stored[n] /\ draw[n].hash \in stored[n] \cup {NoHash}
         /\ \A b \in stored[n] : /\ Produced(b) /\ height[b] <= Height(n)
                                 /\ b = Genesis \/ Published(b)

\* Whoever committed to a block holds the one below it.
InvBelow ==
    \A b \in Block : \A x \in CommitsMade(b) : prev[b] \in stored[x.from]

IInv == /\ TypeOK /\ InvAsked /\ InvPrepares /\ InvCommits /\ InvDelivery /\ InvReplies
        /\ InvCounted /\ InvLedger /\ InvBelow

-----------------------------------------------------------------------------
(* Sets of nodes.                                                           *)

\* The producer does not prepare, so two sets of 2F preparers meet.
LEMMA PreparersMeet ==
    ASSUME NEW a \in Node, NEW P \in SUBSET (Node \ {a}), NEW Q \in SUBSET (Node \ {a}),
           Cardinality(P) >= PreparesNeeded, Cardinality(Q) >= PreparesNeeded
    PROVE  P \cap Q # {}
<1>1. /\ IsFiniteSet(Node) /\ Cardinality(Node) \in Nat
      /\ IsFiniteSet(Node \ {a}) /\ Cardinality(Node \ {a}) = Cardinality(Node) - 1
  BY NodesAssumption, FS_RemoveElement, FS_CardinalityType
<1>2. /\ IsFiniteSet(P) /\ IsFiniteSet(Q) /\ IsFiniteSet(P \cup Q)
      /\ Cardinality(P) \in Nat /\ Cardinality(Q) \in Nat
      /\ Cardinality(P \cup Q) <= Cardinality(Node \ {a})
  <2>1. P \subseteq Node \ {a} /\ Q \subseteq Node \ {a} /\ P \cup Q \subseteq Node \ {a}
    OBVIOUS
  <2> QED
    BY <1>1, <2>1, FS_Subset, FS_CardinalityType
<1>3. Cardinality(P \cup Q) = Cardinality(P) + Cardinality(Q) - Cardinality(P \cap Q)
  BY <1>2, FS_Union
<1>4. SUFFICES ASSUME P \cap Q = {} PROVE FALSE
  OBVIOUS
<1>5. Cardinality(P \cap Q) = 0
  BY <1>4, FS_EmptySet
<1> QED
  BY <1>1, <1>2, <1>3, <1>5, FaultsAssumption, SettingsAssumption DEF PreparesNeeded

\* So do two sets of 2F + 1 nodes.
LEMMA CommittersMeet ==
    ASSUME NEW P \in SUBSET Node, NEW Q \in SUBSET Node,
           Cardinality(P) >= CommitsNeeded, Cardinality(Q) >= CommitsNeeded
    PROVE  P \cap Q # {}
<1>1. /\ IsFiniteSet(P) /\ IsFiniteSet(Q) /\ IsFiniteSet(P \cup Q)
      /\ Cardinality(P) \in Nat /\ Cardinality(Q) \in Nat /\ Cardinality(Node) \in Nat
      /\ Cardinality(P \cup Q) <= Cardinality(Node)
  <2>1. P \subseteq Node /\ Q \subseteq Node /\ P \cup Q \subseteq Node
    OBVIOUS
  <2> QED
    BY <2>1, NodesAssumption, FS_Subset, FS_CardinalityType
<1>2. Cardinality(P \cup Q) = Cardinality(P) + Cardinality(Q) - Cardinality(P \cap Q)
  BY <1>1, FS_Union
<1>3. SUFFICES ASSUME P \cap Q = {} PROVE FALSE
  OBVIOUS
<1>4. Cardinality(P \cap Q) = 0
  BY <1>3, FS_EmptySet
<1> QED
  BY <1>1, <1>2, <1>4, FaultsAssumption, SettingsAssumption DEF CommitsNeeded

\* Records of different senders are as many as their senders.
LEMMA SendersCounted ==
    ASSUME NEW S, IsFiniteSet(S), \A x, y \in S : x.from = y.from => x = y
    PROVE  Cardinality({x.from : x \in S}) = Cardinality(S)
<1> DEFINE T == {x.from : x \in S}
           f == [x \in S |-> x.from]
<1>1. f \in Bijection(S, T)
  BY DEF Bijection, Injection, Surjection, IsInjective
<1>2. ExistsBijection(S, T)
  BY <1>1 DEF ExistsBijection
<1> HIDE DEF T
<1>3. Cardinality(T) = Cardinality(S)
  BY <1>2, FS_Bijection
<1> QED
  BY <1>3 DEF T

\* The commits of 2F + 1 nodes and those of 2F + 1 nodes have a node in common.
LEMMA CommitsMeet ==
    ASSUME NEW S \in SUBSET Commit, IsFiniteSet(S), Cardinality(S) >= CommitsNeeded,
           \A x, y \in S : x.from = y.from => x = y,
           NEW T \in SUBSET Commit, IsFiniteSet(T), Cardinality(T) >= CommitsNeeded,
           \A x, y \in T : x.from = y.from => x = y
    PROVE  \E x \in S, y \in T : x.from = y.from
<1> DEFINE P == {x.from : x \in S}
           Q == {x.from : x \in T}
<1>1. P \in SUBSET Node /\ Q \in SUBSET Node
  BY DEF Commit
<1>2. Cardinality(P) = Cardinality(S) /\ Cardinality(Q) = Cardinality(T)
  BY SendersCounted
<1>3. P \cap Q # {}
  <2> HIDE DEF P, Q
  <2> QED
    BY <1>1, <1>2, CommittersMeet
<1> QED
  BY <1>3

-----------------------------------------------------------------------------
(* The counters.                                                            *)

LEMMA CountType ==
    ASSUME NEW X, NEW buf \in Counter(X), NEW b \in Block, NEW x \in X
    PROVE  /\ Count(buf, b, x) \in Counter(X) /\ Count(buf, b, x).hash = b
           /\ x \in Count(buf, b, x).got
           /\ \A y \in Count(buf, b, x).got : y = x \/ (buf.hash = b /\ y \in buf.got)
  BY DEF Count, Counter, Hash

LEMMA CountFinite ==
    ASSUME NEW buf, NEW b, NEW x, IsFiniteSet(buf.got)
    PROVE  IsFiniteSet(Count(buf, b, x).got)
<1>1. IsFiniteSet({x}) /\ IsFiniteSet(buf.got \cup {x})
  BY FS_Singleton, FS_AddElement
<1>2. Count(buf, b, x).got \in {buf.got \cup {x}, {x}}
  BY DEF Count
<1> QED
  BY <1>1, <1>2

LEMMA CountedType ==
    ASSUME NEW X, NEW buf \in Counter(X), NEW needed \in Nat \ {0}, IsFiniteSet(buf.got)
    PROVE  /\ Counted(buf, needed) \in Counter(X)
           /\ Counted(buf, needed) \in {buf, Empty}
           /\ Cardinality(Counted(buf, needed).got) < needed
<1>1. Cardinality(buf.got) \in Nat /\ Cardinality({}) = 0
  BY FS_CardinalityType, FS_EmptySet
<1>2. Empty \in Counter(X) /\ Empty.got = {}
  BY DEF Empty, Counter, Hash
<1> QED
  BY <1>1, <1>2 DEF Counted

LEMMA NeededType ==
    /\ PreparesNeeded \in Nat \ {0} /\ CommitsNeeded \in Nat \ {0} /\ RepliesNeeded \in Nat \ {0}
  BY SettingsAssumption, FaultsAssumption DEF PreparesNeeded, CommitsNeeded, RepliesNeeded

LEMMA EmptyIsFewer ==
    /\ Cardinality(Empty.got) < PreparesNeeded /\ Cardinality(Empty.got) < CommitsNeeded
    /\ Cardinality(Empty.got) < RepliesNeeded
<1>1. Cardinality(Empty.got) = 0
  BY FS_EmptySet DEF Empty
<1> QED
  BY <1>1, NeededType

-----------------------------------------------------------------------------
(* Types.                                                                   *)

LEMMA InitType == Init => TypeOK
<1> SUFFICES ASSUME Init PROVE TypeOK
  OBVIOUS
<1>1. Empty \in Counter(Node) /\ Empty \in Counter(Commit) /\ Empty \in Counter(Reply)
      /\ Empty.got = {} /\ Cardinality({}) = 0
  BY FS_EmptySet DEF Empty, Counter, Hash
<1>2. \A n \in Node : /\ pbuf[n] = Empty /\ cbuf[n] = Empty
                      /\ \A r \in Requester : rbuf[n][r] = Empty
  BY DEF Init
<1>3. \A n \in Node :
         /\ Cardinality(pbuf[n].got) < PreparesNeeded
         /\ Cardinality(cbuf[n].got) < CommitsNeeded
         /\ \A r \in Requester : Cardinality(rbuf[n][r].got) < RepliesNeeded
  BY <1>2, EmptyIsFewer
<1>4. pbuf \in [Node -> Counter(Node)] /\ cbuf \in [Node -> Counter(Commit)]
      /\ rbuf \in [Node -> [Requester -> Counter(Reply)]]
  BY <1>1 DEF Init
<1>5. draw \in [Node -> [hash : Block, index : 0 .. MaxIndex] \cup {NoDraw}]
  BY DEF Init
<1>6. prev \in [Block -> Hash] /\ height \in [Block -> Nat \cup {-1}]
      /\ cur \in [Node -> Block] /\ stored \in [Node -> SUBSET Block]
  BY BlocksAssumption DEF Init, Hash
<1>7. /\ preblock \in [Node -> Hash] /\ collectQ \in [Node -> SUBSET Block]
      /\ coll \in [Node -> Hash] /\ preprepares = {} /\ prepares = {} /\ commits = {}
      /\ replies = {} /\ prepared = {} /\ missed = {} /\ confirmed = {}
      /\ restarts \in [Node -> Nat]
  BY DEF Init, Hash
<1> QED
  BY <1>3, <1>4, <1>5, <1>6, <1>7 DEF TypeOK

\* A draw on a hash has an index.
LEMMA DrawType ==
    ASSUME TypeOK, NEW n \in Node
    PROVE  /\ draw[n] = NoDraw \/ (draw[n].hash \in Block /\ draw[n].index \in 0 .. MaxIndex)
           /\ draw[n].hash \in Hash
           /\ draw[n].hash # NoHash => draw[n].hash \in Block /\ draw[n].index \in 0 .. MaxIndex
  BY DEF TypeOK, NoDraw, Hash

LEMMA VoteType ==
    ASSUME TypeOK, NEW n \in Stable, VoteOfBlocker(n)
    PROVE  TypeOK'
<1>1. n \in Node /\ cur[n] \in Block /\ cur[n] # NoHash /\ 0 \in 0 .. MaxIndex
  BY NodesAssumption, BlocksAssumption, SettingsAssumption DEF TypeOK
<1>2. draw' \in [Node -> [hash : Block, index : 0 .. MaxIndex] \cup {NoDraw}]
  <2>1. CASE draw' = [draw EXCEPT ![n] = [hash |-> cur[n], index |-> 0]]
    BY <1>1, <2>1 DEF TypeOK
  <2>2. CASE draw[n].hash = cur[n] /\ draw[n].index < MaxIndex
             /\ draw' = [draw EXCEPT ![n].index = @ + 1]
    <3>1. draw[n] \in [hash : Block, index : 0 .. MaxIndex]
      BY <1>1, <2>2 DEF TypeOK, NoDraw
    <3>2. [draw[n] EXCEPT !.index = @ + 1] \in [hash : Block, index : 0 .. MaxIndex]
      BY <3>1, <2>2, SettingsAssumption
    <3> QED
      BY <1>1, <2>2, <3>2 DEF TypeOK
  <2> QED
    BY <2>1, <2>2 DEF VoteOfBlocker
<1> QED
  BY <1>2 DEF TypeOK, VoteOfBlocker, blockVars, chainVars, blockerVars, endorserVars,
              requesterVars

LEMMA CreateType ==
    ASSUME TypeOK, NEW n \in Stable, CreateBlock(n)
    PROVE  TypeOK'
<1>1. PICK b \in Unused(n) :
        /\ prev' = [prev EXCEPT ![b] = draw[n].hash]
        /\ height' = [height EXCEPT ![b] = height[draw[n].hash] + 1]
        /\ preblock' = [preblock EXCEPT ![n] = b]
        /\ collectQ' = [collectQ EXCEPT ![n] = @ \cup {b}]
  BY DEF CreateBlock, Pack
<1>2. b \in Block /\ n \in Node /\ draw[n].hash \in Block
  BY NodesAssumption DEF Unused, CreateBlock, TypeOK
<1>3. height[draw[n].hash] + 1 \in Nat
  <2>1. height[draw[n].hash] \in Nat \cup {-1}
    BY <1>2 DEF TypeOK
  <2> QED
    BY <2>1
<1>4. prev' \in [Block -> Hash] /\ height' \in [Block -> Nat \cup {-1}]
      /\ preblock' \in [Node -> Hash] /\ collectQ' \in [Node -> SUBSET Block]
  BY <1>1, <1>2, <1>3 DEF TypeOK, Hash
<1> QED
  BY <1>4 DEF TypeOK, CreateBlock, chainVars, endorserVars, requesterVars

LEMMA CollectType ==
    ASSUME TypeOK, NEW n \in Stable, CollectEndorsement(n)
    PROVE  TypeOK'
<1>1. PICK b \in collectQ[n] : CollectEndorsement(n)!(b)
  BY DEF CollectEndorsement
<1>2. b \in Block /\ n \in Node /\ Stable \subseteq Node
  BY NodesAssumption DEF TypeOK
<1>3. collectQ' \in [Node -> SUBSET Block] /\ coll' \in [Node -> Hash]
      /\ preprepares' \subseteq [block : Block, to : Node]
  BY <1>1, <1>2 DEF TypeOK, Hash
<1> QED
  BY <1>1, <1>3 DEF TypeOK, blockVars, chainVars, endorserVars, requesterVars

LEMMA StoreType ==
    ASSUME TypeOK, NEW n \in Stable, StoreBlock(n)
    PROVE  TypeOK'
<1>1. PICK c \in confirmed : StoreBlock(n)!(c)
  BY DEF StoreBlock
<1>2. c.block \in Block /\ n \in Node
  BY NodesAssumption DEF TypeOK
<1>3. cur' \in [Node -> Block] /\ stored' \in [Node -> SUBSET Block]
  BY <1>1, <1>2 DEF TypeOK
<1> QED
  BY <1>1, <1>3 DEF TypeOK, blockVars, blockerVars, endorserVars, requesterVars

LEMMA PrePrepareType ==
    ASSUME TypeOK, NEW q \in preprepares, PrePrepare(q)
    PROVE  TypeOK'
<1>1. q.block \in Block /\ q.to \in Node /\ RequesterOf[q.to] \in Requester /\ Stable \subseteq Node
  BY NodesAssumption DEF TypeOK, Requester
<1>2. draw[q.to].index \in 0 .. MaxIndex
  BY <1>1, DrawType DEF PrePrepare, Acceptable, FitsDraw
<1>3. prepares' \subseteq [block : Block, from : Node, to : Node, path : Requester]
      /\ prepared' \subseteq [node : Node, block : Block, index : 0 .. MaxIndex]
      /\ preprepares' \subseteq [block : Block, to : Node]
  BY <1>1, <1>2 DEF PrePrepare, Prepare, TypeOK
<1> QED
  BY <1>3 DEF TypeOK, PrePrepare, blockVars, chainVars, blockerVars, requesterVars

LEMMA RefusedType ==
    ASSUME TypeOK, NEW q \in preprepares, PrePrepareRefused(q)
    PROVE  TypeOK'
<1>1. preprepares' \subseteq [block : Block, to : Node]
  BY DEF TypeOK, PrePrepareRefused
<1> QED
  BY <1>1 DEF TypeOK, PrePrepareRefused, blockVars, chainVars, blockerVars, endorserVars,
              requesterVars

LEMMA DropType ==
    ASSUME TypeOK, DropMessage
    PROVE  TypeOK'
<1>1. prepares' \subseteq prepares /\ commits' \subseteq commits /\ missed' \subseteq Block
  BY DEF TypeOK, DropMessage
<1> QED
  BY <1>1 DEF TypeOK, DropMessage, blockVars, chainVars, blockerVars, requesterVars

LEMMA RestartType ==
    ASSUME TypeOK, NEW n \in Stable, Restart(n)
    PROVE  TypeOK'
<1>1. Empty \in Counter(Node) /\ Empty \in Counter(Commit) /\ Empty \in Counter(Reply)
      /\ Empty.got = {} /\ Cardinality({}) = 0
  BY FS_EmptySet DEF Empty, Counter, Hash
<1>2. n \in Node
  BY NodesAssumption
<1>3. pbuf' \in [Node -> Counter(Node)] /\ cbuf' \in [Node -> Counter(Commit)]
      /\ rbuf' \in [Node -> [Requester -> Counter(Reply)]]
  BY <1>1 DEF Restart, TypeOK
<1>4. \A m \in Node : /\ pbuf'[m] \in {pbuf[m], Empty} /\ cbuf'[m] \in {cbuf[m], Empty}
                      /\ \A r \in Requester : rbuf'[m][r] \in {rbuf[m][r], Empty}
  BY <1>2 DEF Restart, TypeOK
<1>5. \A m \in Node :
         /\ Cardinality(pbuf'[m].got) < PreparesNeeded
         /\ Cardinality(cbuf'[m].got) < CommitsNeeded
         /\ \A r \in Requester : Cardinality(rbuf'[m][r].got) < RepliesNeeded
  BY <1>4, EmptyIsFewer DEF TypeOK
<1>6. draw' \in [Node -> [hash : Block, index : 0 .. MaxIndex] \cup {NoDraw}]
  BY DEF TypeOK, Restart
<1>7. /\ preblock' \in [Node -> Hash] /\ collectQ' \in [Node -> SUBSET Block]
      /\ coll' \in [Node -> Hash] /\ restarts' \in [Node -> Nat]
  BY <1>2 DEF TypeOK, Restart, Hash
<1> QED
  BY <1>3, <1>5, <1>6, <1>7 DEF TypeOK, Restart, blockVars, chainVars, PreparesNeeded,
                               CommitsNeeded, RepliesNeeded

LEMMA ReceivePrepareType ==
    ASSUME TypeOK, NEW p \in prepares, ReceivePrepare(p)
    PROVE  TypeOK'
<1> DEFINE n == p.to
           buf == Count(pbuf[n], p.block, p.from)
<1>1. /\ p.block \in Block /\ p.from \in Node /\ n \in Node /\ p.path \in Requester
      /\ Stable \subseteq Node /\ pbuf[n] \in Counter(Node)
  BY NodesAssumption DEF TypeOK
<1>2. buf \in Counter(Node)
  BY <1>1, CountType
<1>3. IsFiniteSet(buf.got) /\ buf.got \subseteq Node
  BY <1>2, NodesAssumption, FS_Subset DEF Counter
<1> HIDE DEF buf
<1>4. /\ Counted(buf, PreparesNeeded) \in Counter(Node)
      /\ Cardinality(Counted(buf, PreparesNeeded).got) < PreparesNeeded
  BY <1>2, <1>3, NeededType, CountedType
<1>5. pbuf' = [pbuf EXCEPT ![n] = Counted(buf, PreparesNeeded)]
  BY DEF ReceivePrepare, buf
<1>6. pbuf' \in [Node -> Counter(Node)]
      /\ \A m \in Node : Cardinality(pbuf'[m].got) < PreparesNeeded
  BY <1>1, <1>4, <1>5 DEF TypeOK
<1>7. /\ prepares' \subseteq prepares
      /\ commits' \subseteq [block : Block, from : Node, to : Node, path : Requester,
                             prepares : SUBSET Node]
  BY <1>1, <1>3 DEF ReceivePrepare, TypeOK, buf
<1> QED
  BY <1>6, <1>7 DEF TypeOK, ReceivePrepare, blockVars, chainVars, blockerVars, requesterVars,
                    PreparesNeeded, CommitsNeeded, RepliesNeeded

LEMMA ReceiveCommitType ==
    ASSUME TypeOK, InvCounted, NEW c \in commits, ReceiveCommit(c)
    PROVE  TypeOK'
<1> DEFINE n == c.to
           x == [from |-> c.from, prepares |-> c.prepares]
           buf == Count(cbuf[n], c.block, x)
<1>1. /\ c.block \in Block /\ c.from \in Node /\ n \in Node /\ c.path \in Requester
      /\ c.prepares \in SUBSET Node /\ cbuf[n] \in Counter(Commit)
  BY DEF TypeOK
<1>2. buf \in Counter(Commit)
  <2>1. x \in Commit
    BY <1>1 DEF Commit
  <2> QED
    BY <1>1, <2>1, CountType
<1>3. IsFiniteSet(buf.got) /\ buf.got \subseteq Commit
  BY <1>1, <1>2, CountFinite DEF Counter, InvCounted
<1>4. /\ cbuf' = [cbuf EXCEPT ![n] = Counted(buf, CommitsNeeded)]
      /\ commits' \subseteq commits
      /\ replies' \subseteq [block : Block, path : Requester, from : Node, commits : SUBSET Commit]
  BY <1>1, <1>3 DEF ReceiveCommit, TypeOK
<1> HIDE DEF buf
<1>5. /\ Counted(buf, CommitsNeeded) \in Counter(Commit)
      /\ Cardinality(Counted(buf, CommitsNeeded).got) < CommitsNeeded
  BY <1>2, <1>3, NeededType, CountedType
<1>6. cbuf' \in [Node -> Counter(Commit)]
      /\ \A m \in Node : Cardinality(cbuf'[m].got) < CommitsNeeded
  BY <1>1, <1>4, <1>5 DEF TypeOK
<1> QED
  BY <1>4, <1>6 DEF TypeOK, ReceiveCommit, blockVars, chainVars, blockerVars,
                    PreparesNeeded, CommitsNeeded, RepliesNeeded

LEMMA ReceiveReplyType ==
    ASSUME TypeOK, InvCounted, NEW r \in replies, ReceiveReply(r)
    PROVE  TypeOK'
<1> DEFINE n == Creator[r.block]
           x == [from |-> r.from, commits |-> r.commits]
           buf == Count(rbuf[n][r.path], r.block, x)
<1>1. /\ r.block \in Block /\ r.from \in Node /\ n \in Node /\ r.path \in Requester
      /\ r.commits \in SUBSET Commit /\ rbuf[n] \in [Requester -> Counter(Reply)]
  BY BlocksAssumption DEF TypeOK
<1>2. buf \in Counter(Reply)
  <2>1. x \in Reply
    BY <1>1 DEF Reply
  <2> QED
    BY <1>1, <2>1, CountType
<1>3. IsFiniteSet(buf.got) /\ buf.got \subseteq Reply
  BY <1>1, <1>2, CountFinite DEF Counter, InvCounted
<1>4. /\ rbuf' = [rbuf EXCEPT ![n][r.path] = Counted(buf, RepliesNeeded)]
      /\ replies' \subseteq replies
      /\ coll' \in [Node -> Hash]
      /\ confirmed' \subseteq [block : Block, replies : SUBSET Reply]
  BY <1>1, <1>3 DEF ReceiveReply, TypeOK, Hash
<1> HIDE DEF buf
<1>5. /\ Counted(buf, RepliesNeeded) \in Counter(Reply)
      /\ Cardinality(Counted(buf, RepliesNeeded).got) < RepliesNeeded
  BY <1>2, <1>3, NeededType, CountedType
<1>6. rbuf' \in [Node -> [Requester -> Counter(Reply)]]
      /\ \A m \in Node, w \in Requester : Cardinality(rbuf'[m][w].got) < RepliesNeeded
  BY <1>1, <1>4, <1>5 DEF TypeOK
<1> QED
  BY <1>4, <1>6 DEF TypeOK, ReceiveReply, blockVars, chainVars, blockerVars, endorserVars,
                    PreparesNeeded, CommitsNeeded, RepliesNeeded

\* Every step keeps the types.
LEMMA NextType ==
    ASSUME TypeOK, InvCounted, [Next]_vars
    PROVE  TypeOK'
<1>1. CASE UNCHANGED vars
  BY <1>1 DEF TypeOK, vars, blockVars, chainVars, blockerVars, endorserVars, requesterVars,
              PreparesNeeded, CommitsNeeded, RepliesNeeded
<1>2. CASE Next
  BY <1>2, VoteType, CreateType, CollectType, StoreType, RestartType, PrePrepareType,
     RefusedType, ReceivePrepareType, ReceiveCommitType, ReceiveReplyType, DropType
     DEF Next, NodeNext, MessageNext
<1> QED
  BY <1>1, <1>2

-----------------------------------------------------------------------------
(* Where commits and answers come from.                                     *)

LEMMA InRepliesMade ==
    ASSUME NEW b, NEW y
    PROVE  y \in RepliesMade(b)
             <=> \/ \E r \in replies : r.block = b /\ y = [from |-> r.from, commits |-> r.commits]
                 \/ \E n \in Node : \E w \in Requester :
                      rbuf[n][w].hash = b /\ y \in rbuf[n][w].got
                 \/ \E c \in confirmed : c.block = b /\ y \in c.replies
<1>1. y \in RepliesSent(b)
        <=> \E r \in replies : r.block = b /\ y = [from |-> r.from, commits |-> r.commits]
  BY DEF RepliesSent
<1>2. \A n : y \in RepliesHeld(n, b)
        <=> \E w \in Requester : rbuf[n][w].hash = b /\ y \in rbuf[n][w].got
  BY DEF RepliesHeld
<1>3. y \in RepliesCounted(b)
        <=> \E n \in Node : \E w \in Requester : rbuf[n][w].hash = b /\ y \in rbuf[n][w].got
  BY <1>2 DEF RepliesCounted
<1>4. y \in RepliesPublished(b) <=> \E c \in confirmed : c.block = b /\ y \in c.replies
  BY DEF RepliesPublished
<1> QED
  BY <1>1, <1>3, <1>4 DEF RepliesMade

LEMMA InCommitsMade ==
    ASSUME NEW b, NEW x
    PROVE  x \in CommitsMade(b)
             <=> \/ \E c \in commits : c.block = b /\ x = [from |-> c.from, prepares |-> c.prepares]
                 \/ \E n \in Node : cbuf[n].hash = b /\ x \in cbuf[n].got
                 \/ \E y \in RepliesMade(b) : x \in y.commits
<1>1. x \in CommitsSent(b)
        <=> \E c \in commits : c.block = b /\ x = [from |-> c.from, prepares |-> c.prepares]
  BY DEF CommitsSent
<1>2. x \in CommitsCounted(b) <=> \E n \in Node : cbuf[n].hash = b /\ x \in cbuf[n].got
  BY DEF CommitsCounted
<1>3. x \in CommitsAnswered(b) <=> \E y \in RepliesMade(b) : x \in y.commits
  BY DEF CommitsAnswered
<1> QED
  BY <1>1, <1>2, <1>3 DEF CommitsMade

LEMMA MadeType ==
    ASSUME TypeOK, NEW b
    PROVE  RepliesMade(b) \subseteq Reply /\ CommitsMade(b) \subseteq Commit
<1>1. RepliesMade(b) \subseteq Reply
  <2>1. \A r \in replies : [from |-> r.from, commits |-> r.commits] \in Reply
    BY DEF TypeOK, Reply
  <2>2. \A n \in Node : \A w \in Requester : rbuf[n][w].got \subseteq Reply
    BY DEF TypeOK, Counter
  <2>3. \A c \in confirmed : c.replies \subseteq Reply
    BY DEF TypeOK
  <2> QED
    BY <2>1, <2>2, <2>3, InRepliesMade
<1>2. \A y \in RepliesMade(b) : y.commits \subseteq Commit
  BY <1>1 DEF Reply
<1> QED
  BY <1>1, <1>2, InCommitsMade DEF TypeOK, Counter, Commit

\* As long as answers only get lost or move on, there are no more of them.
LEMMA RepliesFewer ==
    ASSUME NEW b, replies' \subseteq replies, confirmed' = confirmed,
           \A m \in Node : \A w \in Requester : rbuf'[m][w] \in {rbuf[m][w], Empty}
    PROVE  RepliesMade(b)' \subseteq RepliesMade(b)
<1>1. \A m \in Node : \A w \in Requester :
        rbuf'[m][w].got = {} \/ rbuf'[m][w] = rbuf[m][w]
  BY DEF Empty
<1>2. RepliesSent(b)' \subseteq RepliesSent(b)
  BY DEF RepliesSent
<1>3. \A m \in Node : RepliesHeld(m, b)' \subseteq RepliesHeld(m, b)
  BY <1>1 DEF RepliesHeld
<1>4. RepliesCounted(b)' \subseteq RepliesCounted(b)
  BY <1>3 DEF RepliesCounted
<1>5. RepliesPublished(b)' = RepliesPublished(b)
  BY DEF RepliesPublished
<1> QED
  BY <1>2, <1>4, <1>5 DEF RepliesMade

LEMMA CommitsFewer ==
    ASSUME NEW b, commits' \subseteq commits, RepliesMade(b)' \subseteq RepliesMade(b),
           \A m \in Node : cbuf'[m] \in {cbuf[m], Empty}
    PROVE  CommitsMade(b)' \subseteq CommitsMade(b)
<1>1. \A m \in Node : cbuf'[m].got = {} \/ cbuf'[m] = cbuf[m]
  BY DEF Empty
<1>2. CommitsSent(b)' \subseteq CommitsSent(b)
  BY DEF CommitsSent
<1>3. CommitsCounted(b)' \subseteq CommitsCounted(b)
  BY <1>1 DEF CommitsCounted
<1>4. CommitsAnswered(b)' \subseteq CommitsAnswered(b)
  BY DEF CommitsAnswered
<1> QED
  BY <1>2, <1>3, <1>4 DEF CommitsMade

\* A commit stands for a producer and preparers.
LEMMA CommittedProduced ==
    ASSUME TypeOK, InvAsked, InvCommits, NEW b \in Block, NEW x \in CommitsMade(b)
    PROVE  Produced(b) /\ Preparers(b) # {}
<1>1. Cardinality(x.prepares) >= PreparesNeeded /\ x.prepares \subseteq Preparers(b)
  BY DEF InvCommits
<1>2. x.prepares # {}
  BY <1>1, FS_EmptySet, NeededType
<1>3. PICK s \in prepared : s.block = b
  BY <1>1, <1>2 DEF Preparers
<1> QED
  BY <1>1, <1>2, <1>3 DEF InvAsked

\* What a node counts besides the message it receives was already counted.
LEMMA CountedCommitsAreMade ==
    ASSUME TypeOK, NEW c \in commits
    PROVE  LET x == [from |-> c.from, prepares |-> c.prepares]
               buf == Count(cbuf[c.to], c.block, x)
           IN  /\ x \in CommitsMade(c.block)
               /\ buf.got \subseteq CommitsMade(c.block)
<1> DEFINE x == [from |-> c.from, prepares |-> c.prepares]
<1>1. c.block \in Block /\ c.to \in Node /\ cbuf[c.to] \in Counter(Commit) /\ x \in Commit
  BY DEF TypeOK, Commit
<1>2. x \in CommitsMade(c.block)
  BY InCommitsMade
<1>3. cbuf[c.to].hash = c.block => cbuf[c.to].got \subseteq CommitsMade(c.block)
  BY <1>1, InCommitsMade
<1> QED
  BY <1>1, <1>2, <1>3, CountType

LEMMA CountedRepliesAreMade ==
    ASSUME TypeOK, NEW r \in replies
    PROVE  LET x == [from |-> r.from, commits |-> r.commits]
               buf == Count(rbuf[Creator[r.block]][r.path], r.block, x)
           IN  /\ x \in RepliesMade(r.block)
               /\ buf.got \subseteq RepliesMade(r.block)
<1> DEFINE x == [from |-> r.from, commits |-> r.commits]
           n == Creator[r.block]
<1>1. r.block \in Block /\ n \in Node /\ r.path \in Requester
      /\ rbuf[n][r.path] \in Counter(Reply) /\ x \in Reply
  <2>1. r.block \in Block /\ r.path \in Requester /\ x \in Reply
    BY DEF TypeOK, Reply
  <2>2. n \in Node
    BY <2>1, BlocksAssumption
  <2> HIDE DEF n
  <2>3. rbuf[n][r.path] \in Counter(Reply)
    BY <2>1, <2>2 DEF TypeOK
  <2> QED
    BY <2>1, <2>2, <2>3
<1>2. x \in RepliesMade(r.block)
  BY InRepliesMade
<1>3. rbuf[n][r.path].hash = r.block => rbuf[n][r.path].got \subseteq RepliesMade(r.block)
  <2> HIDE DEF n
  <2> QED
    BY <1>1, InRepliesMade
<1> QED
  BY <1>1, <1>2, <1>3, CountType

-----------------------------------------------------------------------------
(* The invariant, step by step.                                             *)

\* Steps that only lose or move what was sent.
LEMMA LossKeeps ==
    ASSUME TypeOK, InvPrepares, InvCommits, InvDelivery, InvReplies,
           prepares' \subseteq prepares, commits' \subseteq commits, prepared' = prepared,
           \A b \in Block : CommitsMade(b)' \subseteq CommitsMade(b)
                            /\ RepliesMade(b)' \subseteq RepliesMade(b),
           \A m \in Node : pbuf'[m] \in {pbuf[m], Empty} /\ cbuf'[m] \in {cbuf[m], Empty}
    PROVE  InvPrepares' /\ InvCommits' /\ InvDelivery' /\ InvReplies'
<1>1. \A b : Preparers(b)' = Preparers(b)
  BY DEF Preparers
<1>2. \A m \in Node : /\ pbuf'[m].got = {} \/ pbuf'[m] = pbuf[m]
                      /\ cbuf'[m].got = {} \/ cbuf'[m] = cbuf[m]
  BY DEF Empty
<1>3. InvPrepares'
  BY <1>1, <1>2 DEF InvPrepares
<1>4. InvCommits'
  BY <1>1, <1>2, MadeType DEF InvCommits, PreparesNeeded, Commit
<1>5. InvDelivery'
  BY <1>2 DEF InvDelivery, TypeOK
<1>6. InvReplies'
  BY <1>2, MadeType DEF InvReplies, CommitsNeeded, Reply
<1> QED
  BY <1>3, <1>4, <1>5, <1>6

\* The round of pre-prepares: a node that prepares has not prepared before.
LEMMA PrePrepareKeeps ==
    ASSUME TypeOK, InvAsked, InvPrepares, InvCommits, InvDelivery, InvReplies,
           NEW q \in preprepares, PrePrepare(q)
    PROVE  InvAsked' /\ InvPrepares' /\ InvCommits' /\ InvDelivery' /\ InvReplies'
<1> DEFINE n == q.to
           b == q.block
           new == {[block |-> b, from |-> n, to |-> m, path |-> RequesterOf[n]] : m \in Stable}
<1>1. /\ b \in Block /\ n \in Node
      /\ UNCHANGED <<commits, replies, pbuf, cbuf, rbuf, confirmed, height, collectQ>>
      /\ preprepares' = preprepares \ {q} /\ prepares' = prepares \cup new
      /\ prepared' = prepared \cup {[node |-> n, block |-> b, index |-> draw[n].index]}
  BY DEF PrePrepare, Prepare, TypeOK, blockVars, blockerVars, requesterVars
<1>2. n # Creator[b] /\ Produced(b) /\ n \notin Preparers(b)
  BY DEF InvAsked
<1>3. /\ \A d : d # b => Preparers(d)' = Preparers(d)
      /\ Preparers(b)' = Preparers(b) \cup {n}
  <2> DEFINE s0 == [node |-> n, block |-> b, index |-> draw[n].index]
  <2>1. s0.node = n /\ s0.block = b
    OBVIOUS
  <2>2. \A d, m : m \in Preparers(d)' <=> \E s \in prepared' : s.block = d /\ s.node = m
    BY DEF Preparers
  <2>3. \A d, m : m \in Preparers(d) <=> \E s \in prepared : s.block = d /\ s.node = m
    BY DEF Preparers
  <2>4. prepared' = prepared \cup {s0}
    BY <1>1
  <2> HIDE DEF s0, n, b
  <2>5. \A d, m : m \in Preparers(d)' <=> m \in Preparers(d) \/ (d = b /\ m = n)
    BY <2>1, <2>2, <2>3, <2>4
  <2> QED
    BY <2>5
<1>4. \A d : CommitsMade(d)' = CommitsMade(d) /\ RepliesMade(d)' = RepliesMade(d)
  BY <1>1 DEF CommitsMade, RepliesMade, CommitsSent, CommitsCounted, CommitsAnswered,
              RepliesSent, RepliesCounted, RepliesHeld, RepliesPublished
<1>5. InvAsked'
  <2>1. \A m \in Node : \A d \in collectQ'[m] :
          /\ Creator[d] = m /\ Produced(d)' /\ Preparers(d)' = {}
          /\ \A x \in preprepares' : x.block # d
    BY <1>1, <1>3 DEF InvAsked, Produced
  <2>2. \A x \in preprepares' : Produced(x.block)' /\ x.to # Creator[x.block]
    BY <1>1 DEF InvAsked, Produced
  <2>3. \A x \in preprepares' : x.to \notin Preparers(x.block)'
    <3> TAKE x \in preprepares'
    <3>1. x \in preprepares /\ x # q /\ x.to \notin Preparers(x.block)
      BY <1>1 DEF InvAsked
    <3>2. x.to # n \/ x.block # b
      BY <3>1, SMTT(40) DEF TypeOK
    <3> QED
      BY <1>3, <3>1, <3>2
  <2>4. \A s \in prepared' : Produced(s.block)' /\ s.node # Creator[s.block]
    BY <1>1, <1>2 DEF InvAsked, Produced
  <2> QED
    BY <2>1, <2>2, <2>3, <2>4 DEF InvAsked
<1>6. InvPrepares'
  <2>1. \A p \in prepares' : p.from \in Preparers(p.block)' /\ p.path = RequesterOf[p.from]
    BY <1>1, <1>3 DEF InvPrepares
  <2>2. \A m \in Node : pbuf'[m].got \subseteq Preparers(pbuf[m].hash)'
    BY <1>1, <1>3 DEF InvPrepares
  <2>3. \A m \in Node : \A p \in prepares' :
          p.to = m /\ p.block = pbuf'[m].hash => p.from \notin pbuf'[m].got
    BY <1>1, <1>2 DEF InvPrepares
  <2> QED
    BY <2>1, <2>2, <2>3 DEF InvPrepares
<1>7. InvCommits'
  <2> SUFFICES ASSUME NEW d \in Block
               PROVE  InvCommits!(d)'
    BY DEF InvCommits
  <2>1. \A x \in CommitsMade(d)' :
          /\ Cardinality(x.prepares) >= PreparesNeeded /\ x.prepares \subseteq Preparers(d)'
          /\ pbuf'[x.from].hash = d => pbuf'[x.from].got \cap x.prepares = {}
    BY <1>1, <1>3, <1>4 DEF InvCommits
  <2>2. \A x \in CommitsMade(d)' : \A p \in prepares' :
          p.to = x.from /\ p.block = d => p.from \notin x.prepares
    BY <1>1, <1>2, <1>4 DEF InvCommits
  <2>3. \A x, y \in CommitsMade(d)' : x.from = y.from => x = y
    BY <1>4 DEF InvCommits
  <2> QED
    BY <2>1, <2>2, <2>3 DEF PreparesNeeded
<1>8. InvDelivery'
  BY <1>1, <1>4 DEF InvDelivery
<1>9. InvReplies'
  BY <1>1, <1>4 DEF InvReplies, CommitsNeeded
<1> QED
  BY <1>5, <1>6, <1>7, <1>8, <1>9

\* The round of prepares: the node that commits has not committed before.
LEMMA ReceivePrepareKeeps ==
    ASSUME TypeOK, InvAsked, InvPrepares, InvCommits, InvDelivery, InvReplies,
           NEW p \in prepares, ReceivePrepare(p)
    PROVE  /\ InvPrepares' /\ InvCommits' /\ InvDelivery' /\ InvReplies'
           /\ \A d \in Block : \A x \in CommitsMade(d)' :
                x \in CommitsMade(d) \/ (d = p.block /\ x.from = p.to)
<1> DEFINE n == p.to
           b == p.block
           buf == Count(pbuf[n], b, p.from)
           full == Cardinality(buf.got) >= PreparesNeeded
           x0 == [from |-> n, prepares |-> buf.got]
           new == {c \in [block : {b}, from : {n}, to : Stable, path : {p.path},
                          prepares : {buf.got}] : full}
<1>1. /\ b \in Block /\ n \in Node /\ p.from \in Node /\ Creator[b] \in Node
      /\ pbuf[n] \in Counter(Node)
  BY BlocksAssumption DEF TypeOK
<1>2. /\ UNCHANGED <<replies, cbuf, rbuf, confirmed, prepared>>
      /\ prepares' = prepares \ {p} /\ commits' = commits \cup new
      /\ pbuf' = [pbuf EXCEPT ![n] = Counted(buf, PreparesNeeded)]
  BY DEF ReceivePrepare, requesterVars
<1>3. /\ buf \in Counter(Node) /\ buf.hash = b
      /\ \A x \in buf.got : x = p.from \/ (pbuf[n].hash = b /\ x \in pbuf[n].got)
  BY <1>1, CountType
<1>4. buf.got \subseteq Preparers(b) /\ buf.got \in SUBSET (Node \ {Creator[b]})
  <2>1. buf.got \subseteq Preparers(b)
    BY <1>1, <1>3 DEF InvPrepares
  <2>2. Preparers(b) \subseteq Node \ {Creator[b]}
    BY DEF Preparers, InvAsked, TypeOK
  <2> QED
    BY <2>1, <2>2
<1>5. \A x \in prepares' : x.to = n /\ x.block = b => x.from \notin buf.got
  <2> SUFFICES ASSUME NEW x \in prepares, x # p, x.to = n, x.block = b
               PROVE  x.from \notin buf.got
    BY <1>2
  <2>1. x.from # p.from
    <3>1. x.path = RequesterOf[x.from] /\ p.path = RequesterOf[p.from]
      BY DEF InvPrepares
    <3>2. x \in [block : Block, from : Node, to : Node, path : Requester]
          /\ p \in [block : Block, from : Node, to : Node, path : Requester]
      BY DEF TypeOK
    <3>3. x.from = p.from /\ x.path = p.path => x = p
      BY <3>2
    <3> QED
      BY <3>1, <3>3
  <2>2. pbuf[n].hash = b => x.from \notin pbuf[n].got
    BY <1>1 DEF InvPrepares
  <2> QED
    BY <1>3, <2>1, <2>2
<1>6. \A x \in CommitsMade(b) : x.from = n => buf.got \cap x.prepares = {}
  BY <1>1, <1>3 DEF InvCommits
<1>7. full => \A x \in CommitsMade(b) : x.from # n
  <2> SUFFICES ASSUME full, NEW x \in CommitsMade(b), x.from = n PROVE FALSE
    OBVIOUS
  <2>1. Cardinality(x.prepares) >= PreparesNeeded /\ x.prepares \subseteq Preparers(b)
    BY <1>1 DEF InvCommits
  <2>2. x.prepares \in SUBSET (Node \ {Creator[b]})
    BY <2>1 DEF Preparers, InvAsked, TypeOK
  <2> HIDE DEF buf
  <2>3. buf.got \cap x.prepares # {}
    BY <1>1, <1>4, <2>1, <2>2, PreparersMeet
  <2> QED
    BY <1>6, <2>3
<1> HIDE DEF buf
<1>8. \A d : RepliesMade(d)' = RepliesMade(d)
  BY <1>2 DEF RepliesMade, RepliesSent, RepliesCounted, RepliesHeld, RepliesPublished
<1>9. \A d : /\ \A x \in CommitsMade(d)' : x \in CommitsMade(d) \/ (d = b /\ full /\ x = x0)
             /\ \A c \in commits' : c \in commits
                  \/ (full /\ c.block = b /\ c.from = n /\ c.path = p.path /\ c.prepares = buf.got)
  <2>1. \A c \in commits' : c \in commits
          \/ (full /\ c.block = b /\ c.from = n /\ c.path = p.path /\ c.prepares = buf.got)
    BY <1>2
  <2> TAKE d
  <2>2. \A x \in CommitsSent(d)' : x \in CommitsSent(d) \/ (d = b /\ full /\ x = x0)
    BY <2>1 DEF CommitsSent
  <2>3. CommitsCounted(d)' = CommitsCounted(d)
    BY <1>2 DEF CommitsCounted
  <2>4. CommitsAnswered(d)' = CommitsAnswered(d)
    BY <1>8 DEF CommitsAnswered
  <2> QED
    BY <2>1, <2>2, <2>3, <2>4 DEF CommitsMade
<1>10. \A d : Preparers(d)' = Preparers(d)
  BY <1>2 DEF Preparers
<1>11. /\ pbuf'[n] = buf \/ pbuf'[n] = Empty
       /\ \A m \in Node : m # n => pbuf'[m] = pbuf[m]
       /\ full => pbuf'[n] = Empty
  BY <1>1, <1>2 DEF TypeOK, Counted
<1>12. Empty.got = {} /\ b # Empty.hash
  BY <1>1, BlocksAssumption DEF Empty
<1>13. InvPrepares'
  <2>1. \A m \in Node : pbuf'[m].got \subseteq Preparers(pbuf'[m].hash)
    BY <1>3, <1>4, <1>11, <1>12 DEF InvPrepares
  <2>2. \A m \in Node : \A x \in prepares' :
          x.to = m /\ x.block = pbuf'[m].hash => x.from \notin pbuf'[m].got
    BY <1>2, <1>3, <1>5, <1>11, <1>12 DEF InvPrepares
  <2> QED
    BY <1>2, <1>10, <2>1, <2>2 DEF InvPrepares
<1>14. InvCommits'
  <2> SUFFICES ASSUME NEW d \in Block
               PROVE  InvCommits!(d)'
    BY DEF InvCommits
  <2>1. \A x \in CommitsMade(d)' :
          Cardinality(x.prepares) >= PreparesNeeded /\ x.prepares \subseteq Preparers(d)'
    BY <1>4, <1>9, <1>10 DEF InvCommits
  <2>2. \A x \in CommitsMade(d)' : \A y \in prepares' :
          y.to = x.from /\ y.block = d => y.from \notin x.prepares
    BY <1>2, <1>5, <1>9 DEF InvCommits
  <2>3. \A x \in CommitsMade(d)' : pbuf'[x.from].hash = d => pbuf'[x.from].got \cap x.prepares = {}
    <3> TAKE x \in CommitsMade(d)'
    <3>1. CASE x \in CommitsMade(d) /\ x.from = n
      BY <1>3, <1>6, <1>11, <1>12, <3>1 DEF InvCommits
    <3>2. CASE x \in CommitsMade(d) /\ x.from # n
      <4>1. x.from \in Node
        BY <3>2, MadeType DEF Commit
      <4> QED
        BY <1>11, <3>2, <4>1 DEF InvCommits
    <3>3. CASE d = b /\ full /\ x = x0
      BY <1>11, <1>12, <3>3
    <3> QED
      BY <1>9, <3>1, <3>2, <3>3
  <2>4. \A x, y \in CommitsMade(d)' : x.from = y.from => x = y
    BY <1>7, <1>9 DEF InvCommits
  <2> QED
    BY <2>1, <2>2, <2>3, <2>4 DEF PreparesNeeded
<1>15. \A c \in commits : c.block \in Block /\ c.to \in Node
                          /\ [from |-> c.from, prepares |-> c.prepares] \in CommitsMade(c.block)
  BY InCommitsMade DEF TypeOK
<1>16. InvDelivery'
  <2>1. \A c, d \in commits' : d.block = c.block /\ d.from = c.from => d.path = c.path
    <3>1. full => \A c \in commits : c.block = b => c.from # n
      <4> SUFFICES ASSUME full, NEW c \in commits, c.block = b PROVE c.from # n
        OBVIOUS
      <4>1. [from |-> c.from, prepares |-> c.prepares] \in CommitsMade(b)
        BY <1>15
      <4>2. [from |-> c.from, prepares |-> c.prepares].from # n
        BY <1>7, <4>1
      <4> QED
        BY <4>2
    <3>2. \A c, d \in commits : d.block = c.block /\ d.from = c.from => d.path = c.path
      BY DEF InvDelivery
    <3>3. \A c \in commits' : c \in commits
            \/ (full /\ c.block = b /\ c.from = n /\ c.path = p.path)
      BY <1>9
    <3> HIDE DEF full, n, b
    <3> QED
      BY <3>1, <3>2, <3>3
  <2>2. \A c \in commits' : cbuf'[c.to].hash = c.block => \A x \in cbuf'[c.to].got : x.from # c.from
    <3> SUFFICES ASSUME NEW c \in commits', c \notin commits, cbuf[c.to].hash = c.block,
                        NEW x \in cbuf[c.to].got
                 PROVE  x.from # c.from
      BY <1>2 DEF InvDelivery
    <3>1. c.to \in Node /\ c.block = b /\ c.from = n /\ full
      BY <1>2, <1>9, NodesAssumption
    <3> QED
      BY <1>7, <3>1, InCommitsMade
  <2>3. \A c \in commits' : \A y \in RepliesMade(c.block) :
          y.from = c.to => \A x \in y.commits : x.from # c.from
    BY <1>7, <1>9, InCommitsMade DEF InvDelivery
  <2> QED
    BY <1>8, <2>1, <2>2, <2>3 DEF InvDelivery
<1>17. InvReplies'
  BY <1>2, <1>8 DEF InvReplies, CommitsNeeded
<1> QED
  BY <1>9, <1>13, <1>14, <1>16, <1>17

\* The round of commits: the node that answers has not answered before.
LEMMA ReceiveCommitKeeps ==
    ASSUME TypeOK, InvPrepares, InvCommits, InvDelivery, InvReplies, InvCounted,
           NEW c \in commits, ReceiveCommit(c)
    PROVE  /\ InvPrepares' /\ InvCommits' /\ InvDelivery' /\ InvReplies' /\ InvCounted'
           /\ \A d \in Block : CommitsMade(d)' \subseteq CommitsMade(d)
<1> DEFINE n == c.to
           b == c.block
           x0 == [from |-> c.from, prepares |-> c.prepares]
           buf == Count(cbuf[n], b, x0)
           full == Cardinality(buf.got) >= CommitsNeeded
           y0 == [from |-> n, commits |-> buf.got]
           new == {r \in [block : {b}, path : {c.path}, from : {n}, commits : {buf.got}] : full}
<1>1. /\ b \in Block /\ n \in Node /\ c.from \in Node
      /\ cbuf[n] \in Counter(Commit) /\ x0 \in Commit /\ x0.from = c.from
  BY DEF TypeOK, Commit
<1>2. /\ UNCHANGED <<prepares, pbuf, prepared, rbuf, confirmed>>
      /\ commits' = commits \ {c} /\ replies' = replies \cup new
      /\ cbuf' = [cbuf EXCEPT ![n] = Counted(buf, CommitsNeeded)]
  BY DEF ReceiveCommit
<1>3. /\ buf \in Counter(Commit) /\ buf.hash = b
      /\ \A x \in buf.got : x = x0 \/ (cbuf[n].hash = b /\ x \in cbuf[n].got)
  BY <1>1, CountType
<1>4. x0 \in CommitsMade(b) /\ buf.got \subseteq CommitsMade(b)
  BY CountedCommitsAreMade
<1>5. IsFiniteSet(buf.got) /\ buf.got \subseteq Commit
  BY <1>1, <1>3, CountFinite DEF InvCounted, Counter
<1>6. \A x, z \in CommitsMade(b) : x.from = z.from => x = z
  BY <1>1 DEF InvCommits
<1>7. \A y \in RepliesMade(b) :
        y.from = n => \A x \in buf.got : \A z \in y.commits : x.from # z.from
  <2> TAKE y \in RepliesMade(b)
  <2> HAVE y.from = n
  <2> TAKE x \in buf.got
  <2> TAKE z \in y.commits
  <2>1. z \in CommitsMade(b)
    BY InCommitsMade
  <2>2. CASE x = x0
    BY <1>1, <2>2 DEF InvDelivery
  <2>3. CASE cbuf[n].hash = b /\ x \in cbuf[n].got
    <3>1. x # z
      BY <1>1, <2>3 DEF InvReplies
    <3>2. x \in CommitsMade(b)
      BY <1>4
    <3> QED
      BY <1>6, <2>1, <3>1, <3>2
  <2> QED
    BY <1>3, <2>2, <2>3
<1>8. full => \A y \in RepliesMade(b) : y.from # n
  <2> SUFFICES ASSUME full, NEW y \in RepliesMade(b), y.from = n PROVE FALSE
    OBVIOUS
  <2>1. /\ IsFiniteSet(y.commits) /\ Cardinality(y.commits) >= CommitsNeeded
        /\ y.commits \in SUBSET Commit /\ y.commits \subseteq CommitsMade(b)
    BY <1>1, MadeType, InCommitsMade DEF InvReplies, Reply
  <2>2. /\ \A x, z \in buf.got : x.from = z.from => x = z
        /\ \A x, z \in y.commits : x.from = z.from => x = z
    BY <1>4, <1>6, <2>1
  <2> HIDE DEF buf
  <2>3. \E x \in buf.got, z \in y.commits : x.from = z.from
    BY <1>5, <2>1, <2>2, CommitsMeet
  <2> QED
    BY <1>7, <2>3
<1> HIDE DEF buf
<1>9. \A d : \A y \in RepliesMade(d)' : y \in RepliesMade(d) \/ (d = b /\ full /\ y = y0)
  <2> TAKE d
  <2>1. \A y \in RepliesSent(d)' : y \in RepliesSent(d) \/ (d = b /\ full /\ y = y0)
    BY <1>2 DEF RepliesSent
  <2>2. RepliesCounted(d)' = RepliesCounted(d) /\ RepliesPublished(d)' = RepliesPublished(d)
    BY <1>2 DEF RepliesCounted, RepliesHeld, RepliesPublished
  <2> QED
    BY <2>1, <2>2 DEF RepliesMade
<1>10. /\ cbuf'[n] = buf \/ cbuf'[n] = Empty
       /\ \A m \in Node : m # n => cbuf'[m] = cbuf[m]
       /\ full => cbuf'[n] = Empty
  BY <1>1, <1>2 DEF TypeOK, Counted
<1>11. Empty.got = {} /\ b # Empty.hash
  BY <1>1, BlocksAssumption DEF Empty
<1>12. \A d \in Block : CommitsMade(d)' \subseteq CommitsMade(d)
  <2> TAKE d \in Block
  <2>1. \A x \in CommitsSent(d)' : x \in CommitsMade(d)
    BY <1>2 DEF CommitsSent, CommitsMade
  <2>2. \A x \in CommitsCounted(d)' : x \in CommitsMade(d)
    <3>1. \A m \in Node : cbuf'[m].hash = d => cbuf'[m].got \subseteq CommitsMade(d)
      <4> SUFFICES ASSUME NEW m \in Node, cbuf'[m].hash = d
                   PROVE  cbuf'[m].got \subseteq CommitsMade(d)
        OBVIOUS
      <4>1. CASE m = n
        BY <1>3, <1>4, <1>10, <1>11, <4>1
      <4>2. CASE m # n
        BY <1>10, <4>2, InCommitsMade
      <4> QED
        BY <4>1, <4>2
    <3> QED
      BY <3>1 DEF CommitsCounted
  <2>3. \A y \in RepliesMade(d)' : y.commits \subseteq CommitsMade(d)
    BY <1>4, <1>9, InCommitsMade
  <2>4. \A x \in CommitsAnswered(d)' : x \in CommitsMade(d)
    BY <2>3 DEF CommitsAnswered
  <2>5. CommitsMade(d)' = CommitsSent(d)' \cup CommitsCounted(d)' \cup CommitsAnswered(d)'
    BY DEF CommitsMade
  <2> QED
    BY <2>1, <2>2, <2>4, <2>5
<1>13. \A d : Preparers(d)' = Preparers(d)
  BY <1>2 DEF Preparers
<1>14. InvPrepares' /\ InvCommits'
  <2>1. InvPrepares'
    BY <1>2, <1>13 DEF InvPrepares
  <2>2. InvCommits'
    BY <1>2, <1>12, <1>13 DEF InvCommits, PreparesNeeded
  <2> QED
    BY <2>1, <2>2
<1>15. \A d \in commits' : d.to = n /\ d.block = b => \A x \in buf.got : x.from # d.from
  <2> SUFFICES ASSUME NEW d \in commits, d # c, d.to = n, d.block = b,
                      NEW x \in buf.got, x.from = d.from
               PROVE  FALSE
    BY <1>2
  <2>1. x = x0
    BY <1>1, <1>3 DEF InvDelivery
  <2>2. d.from = c.from /\ d.path = c.path
    BY <1>1, <2>1 DEF InvDelivery
  <2>3. d.prepares = c.prepares
    <3>1. [from |-> d.from, prepares |-> d.prepares] \in CommitsMade(b)
      BY InCommitsMade
    <3>2. [from |-> d.from, prepares |-> d.prepares] = x0
      BY <1>4, <1>6, <2>2, <3>1
    <3> QED
      BY <3>2
  <2>4. /\ d \in [block : Block, from : Node, to : Node, path : Requester, prepares : SUBSET Node]
        /\ c \in [block : Block, from : Node, to : Node, path : Requester, prepares : SUBSET Node]
    BY DEF TypeOK
  <2> QED
    BY <2>2, <2>3, <2>4
<1>16. InvDelivery'
  <2>1. \A d, e \in commits' : e.block = d.block /\ e.from = d.from => e.path = d.path
    BY <1>2 DEF InvDelivery
  <2>2. \A d \in commits' : cbuf'[d.to].hash = d.block => \A x \in cbuf'[d.to].got : x.from # d.from
    <3> TAKE d \in commits'
    <3>1. CASE d.to = n
      BY <1>2, <1>3, <1>10, <1>11, <1>15, <3>1
    <3>2. CASE d.to # n
      BY <1>2, <1>10, <3>2 DEF InvDelivery, TypeOK
    <3> QED
      BY <3>1, <3>2
  <2>3. \A d \in commits' : \A y \in RepliesMade(d.block)' :
          y.from = d.to => \A x \in y.commits : x.from # d.from
    <3> TAKE d \in commits'
    <3> TAKE y \in RepliesMade(d.block)'
    <3>1. CASE y \in RepliesMade(d.block)
      BY <1>2, <3>1 DEF InvDelivery
    <3>2. CASE d.block = b /\ full /\ y = y0
      BY <1>15, <3>2
    <3> QED
      BY <1>9, <3>1, <3>2
  <2> QED
    BY <2>1, <2>2, <2>3 DEF InvDelivery
<1>17. InvReplies'
  <2> SUFFICES ASSUME NEW d \in Block
               PROVE  InvReplies!(d)'
    BY DEF InvReplies
  <2>1. \A y \in RepliesMade(d)' :
          IsFiniteSet(y.commits) /\ Cardinality(y.commits) >= CommitsNeeded
    BY <1>5, <1>9 DEF InvReplies
  <2>2. \A y \in RepliesMade(d)' : cbuf'[y.from].hash = d => cbuf'[y.from].got \cap y.commits = {}
    <3> TAKE y \in RepliesMade(d)'
    <3>1. CASE y \in RepliesMade(d) /\ y.from = n
      BY <1>3, <1>7, <1>10, <1>11, <3>1
    <3>2. CASE y \in RepliesMade(d) /\ y.from # n
      <4>1. y.from \in Node
        BY <3>2, MadeType DEF Reply
      <4> QED
        BY <1>10, <3>2, <4>1 DEF InvReplies
    <3>3. CASE d = b /\ full /\ y = y0
      BY <1>10, <1>11, <3>3
    <3> QED
      BY <1>9, <3>1, <3>2, <3>3
  <2>3. \A y, z \in RepliesMade(d)' : y.from = z.from => y = z
    BY <1>8, <1>9 DEF InvReplies
  <2> QED
    BY <2>1, <2>2, <2>3 DEF CommitsNeeded
<1>18. InvCounted'
  <2>1. \A m \in Node : IsFiniteSet(cbuf'[m].got)
    BY <1>5, <1>10, <1>11, FS_EmptySet DEF InvCounted
  <2> QED
    BY <1>2, <2>1 DEF InvCounted, RepliesNeeded
<1> QED
  BY <1>12, <1>14, <1>16, <1>17, <1>18

\* The answers: what a published block carries was made for it.
LEMMA ReceiveReplyKeeps ==
    ASSUME TypeOK, InvPrepares, InvCommits, InvDelivery, InvReplies, InvCounted,
           NEW r \in replies, ReceiveReply(r)
    PROVE  /\ InvPrepares' /\ InvCommits' /\ InvDelivery' /\ InvReplies' /\ InvCounted'
           /\ \A d \in Block : /\ CommitsMade(d)' \subseteq CommitsMade(d)
                               /\ RepliesMade(d)' \subseteq RepliesMade(d)
<1> DEFINE n == Creator[r.block]
           b == r.block
           x0 == [from |-> r.from, commits |-> r.commits]
           buf == Count(rbuf[n][r.path], b, x0)
           full == Cardinality(buf.got) >= RepliesNeeded
<1>1. /\ b \in Block /\ n \in Node /\ r.path \in Requester
      /\ rbuf[n][r.path] \in Counter(Reply) /\ x0 \in Reply
  <2>1. b \in Block /\ r.path \in Requester /\ x0 \in Reply
    BY DEF TypeOK, Reply
  <2>2. n \in Node
    BY <2>1, BlocksAssumption
  <2> HIDE DEF n
  <2>3. rbuf[n][r.path] \in Counter(Reply)
    BY <2>1, <2>2 DEF TypeOK
  <2> QED
    BY <2>1, <2>2, <2>3
<1>2. /\ UNCHANGED <<prepares, commits, pbuf, cbuf, prepared>>
      /\ replies' = replies \ {r}
      /\ rbuf' = [rbuf EXCEPT ![n][r.path] = Counted(buf, RepliesNeeded)]
      /\ confirmed' \subseteq confirmed \cup
           {x \in [block : {b}, replies : {buf.got}] : full}
  BY DEF ReceiveReply, endorserVars
<1>3. buf.got \subseteq RepliesMade(b) /\ buf.hash = b
  <2>1. buf.hash = b
    BY <1>1, CountType
  <2> QED
    BY <2>1, CountedRepliesAreMade
<1>4. IsFiniteSet(buf.got)
  BY <1>1, CountFinite DEF InvCounted
<1> HIDE DEF buf, n
<1>5. /\ \A m \in Node : \A w \in Requester :
           rbuf'[m][w] \in {rbuf[m][w], Empty} \/ rbuf'[m][w] = buf
      /\ \A x \in confirmed' : x \in confirmed \/ (x.block = b /\ full /\ x.replies = buf.got)
  <2>1. Counted(buf, RepliesNeeded) \in {buf, Empty}
    BY DEF Counted
  <2> QED
    BY <1>1, <1>2, <2>1 DEF TypeOK
<1>6. Empty.got = {}
  BY DEF Empty
<1>7. \A d : RepliesMade(d)' \subseteq RepliesMade(d)
  <2> TAKE d
  <2>1. RepliesSent(d)' \subseteq RepliesSent(d)
    BY <1>2 DEF RepliesSent
  <2>2. \A m \in Node : \A w \in Requester :
          rbuf'[m][w].hash = d => rbuf'[m][w].got \subseteq RepliesMade(d)
    <3> TAKE m \in Node
    <3> TAKE w \in Requester
    <3>1. CASE rbuf'[m][w] = rbuf[m][w]
      BY <3>1, InRepliesMade
    <3>2. CASE rbuf'[m][w] = Empty
      BY <1>6, <3>2
    <3>3. CASE rbuf'[m][w] = buf
      BY <1>3, <3>3
    <3> QED
      BY <1>5, <3>1, <3>2, <3>3
  <2>3. \A m \in Node : RepliesHeld(m, d)' \subseteq RepliesMade(d)
    BY <2>2 DEF RepliesHeld
  <2>4. RepliesCounted(d)' \subseteq RepliesMade(d)
    BY <2>3 DEF RepliesCounted
  <2>5. \A x \in confirmed' : x.block = d => x.replies \subseteq RepliesMade(d)
    BY <1>3, <1>5, InRepliesMade
  <2>6. RepliesPublished(d)' \subseteq RepliesMade(d)
    BY <2>5 DEF RepliesPublished
  <2>7. RepliesMade(d)' = RepliesSent(d)' \cup RepliesCounted(d)' \cup RepliesPublished(d)'
        /\ RepliesSent(d) \subseteq RepliesMade(d)
    BY DEF RepliesMade
  <2> QED
    BY <2>1, <2>4, <2>6, <2>7
<1>8. \A d : CommitsMade(d)' \subseteq CommitsMade(d)
  BY <1>2, <1>7, CommitsFewer
<1>9. InvPrepares' /\ InvCommits' /\ InvDelivery' /\ InvReplies'
  BY <1>2, <1>7, <1>8, LossKeeps
<1>10. InvCounted'
  <2>1. \A m \in Node : \A w \in Requester : IsFiniteSet(rbuf'[m][w].got)
    BY <1>4, <1>5, <1>6, FS_EmptySet DEF InvCounted
  <2>2. \A x \in confirmed' : IsFiniteSet(x.replies) /\ Cardinality(x.replies) >= RepliesNeeded
    BY <1>4, <1>5 DEF InvCounted
  <2> QED
    BY <1>2, <2>1, <2>2 DEF InvCounted, RepliesNeeded
<1> QED
  BY <1>7, <1>8, <1>9, <1>10

\* Steps of the voter, the blocker, the collector and the storager send nothing
\* of the three rounds.
LEMMA QuietKeeps ==
    ASSUME TypeOK, InvPrepares, InvCommits, InvDelivery, InvReplies, InvCounted,
           UNCHANGED <<prepares, commits, replies, pbuf, cbuf, rbuf, prepared, confirmed>>
    PROVE  /\ InvPrepares' /\ InvCommits' /\ InvDelivery' /\ InvReplies' /\ InvCounted'
           /\ \A d \in Block : CommitsMade(d)' \subseteq CommitsMade(d)
<1>1. \A d : RepliesMade(d)' \subseteq RepliesMade(d)
  BY RepliesFewer
<1>2. \A d : CommitsMade(d)' \subseteq CommitsMade(d)
  BY <1>1, CommitsFewer
<1>3. InvCounted'
  BY DEF InvCounted, RepliesNeeded
<1> QED
  BY <1>1, <1>2, <1>3, LossKeeps

LEMMA DropKeeps ==
    ASSUME TypeOK, InvPrepares, InvCommits, InvDelivery, InvReplies, InvCounted, DropMessage
    PROVE  /\ InvPrepares' /\ InvCommits' /\ InvDelivery' /\ InvReplies' /\ InvCounted'
           /\ \A d \in Block : CommitsMade(d)' \subseteq CommitsMade(d)
<1>1. /\ UNCHANGED <<replies, pbuf, cbuf, rbuf, prepared, confirmed>>
      /\ prepares' \subseteq prepares /\ commits' \subseteq commits
  BY DEF DropMessage, requesterVars
<1>2. \A d : RepliesMade(d)' \subseteq RepliesMade(d)
  BY <1>1, RepliesFewer
<1>3. \A d : CommitsMade(d)' \subseteq CommitsMade(d)
  BY <1>1, <1>2, CommitsFewer
<1>4. InvCounted'
  BY <1>1 DEF InvCounted, RepliesNeeded
<1> QED
  BY <1>1, <1>2, <1>3, <1>4, LossKeeps

LEMMA RestartKeeps ==
    ASSUME TypeOK, InvPrepares, InvCommits, InvDelivery, InvReplies, InvCounted,
           NEW n \in Stable, Restart(n)
    PROVE  /\ InvPrepares' /\ InvCommits' /\ InvDelivery' /\ InvReplies' /\ InvCounted'
           /\ \A d \in Block : CommitsMade(d)' \subseteq CommitsMade(d)
<1>1. /\ UNCHANGED <<prepares, commits, replies, prepared, confirmed>>
      /\ \A m \in Node : /\ pbuf'[m] \in {pbuf[m], Empty} /\ cbuf'[m] \in {cbuf[m], Empty}
                         /\ \A w \in Requester : rbuf'[m][w] \in {rbuf[m][w], Empty}
  BY DEF Restart, TypeOK
<1>2. \A d : RepliesMade(d)' \subseteq RepliesMade(d)
  BY <1>1, RepliesFewer
<1>3. \A d : CommitsMade(d)' \subseteq CommitsMade(d)
  BY <1>1, <1>2, CommitsFewer
<1>4. InvCounted'
  <2>1. IsFiniteSet(Empty.got)
    BY FS_EmptySet DEF Empty
  <2> QED
    BY <1>1, <2>1 DEF InvCounted, RepliesNeeded
<1> QED
  BY <1>1, <1>2, <1>3, <1>4, LossKeeps

LEMMA CreateAsked ==
    ASSUME TypeOK, InvAsked, NEW n \in Stable, CreateBlock(n)
    PROVE  InvAsked'
<1>1. PICK b \in Unused(n) :
        /\ height' = [height EXCEPT ![b] = height[draw[n].hash] + 1]
        /\ collectQ' = [collectQ EXCEPT ![n] = @ \cup {b}]
  BY DEF CreateBlock, Pack
<1>2. /\ b \in Block /\ n \in Node /\ Creator[b] = n /\ ~Produced(b) /\ draw[n].hash \in Block
      /\ UNCHANGED <<preprepares, prepared>>
  BY NodesAssumption DEF Unused, CreateBlock, TypeOK, Produced, endorserVars
<1>3. /\ \A d \in Block : Produced(d) => Produced(d)'
      /\ Produced(b)'
  <2>1. height[draw[n].hash] \in Nat \cup {-1}
    BY <1>2 DEF TypeOK
  <2>2. height'[b] = height[draw[n].hash] + 1
    BY <1>1, <1>2 DEF TypeOK
  <2>3. Produced(b)'
    BY <2>1, <2>2 DEF Produced
  <2> QED
    BY <1>1, <1>2, <2>3 DEF TypeOK, Produced
<1>4. \A d : Preparers(d)' = Preparers(d)
  BY <1>2 DEF Preparers
<1>5. Preparers(b) = {} /\ \A q \in preprepares : q.block # b
  BY <1>2 DEF InvAsked, Preparers
<1>6. \A m \in Node : \A d \in collectQ'[m] : d \in collectQ[m] \/ (m = n /\ d = b)
  BY <1>1, <1>2 DEF TypeOK
<1>7. \A m \in Node : \A d \in collectQ'[m] :
         /\ Creator[d] = m /\ Produced(d)' /\ Preparers(d)' = {}
         /\ \A q \in preprepares' : q.block # d
  BY <1>2, <1>3, <1>4, <1>5, <1>6 DEF InvAsked, TypeOK
<1>8. \A q \in preprepares' : /\ Produced(q.block)' /\ q.to # Creator[q.block]
                              /\ q.to \notin Preparers(q.block)'
  BY <1>2, <1>3, <1>4 DEF InvAsked, TypeOK
<1>9. \A s \in prepared' : Produced(s.block)' /\ s.node # Creator[s.block]
  BY <1>2, <1>3 DEF InvAsked, TypeOK
<1> QED
  BY <1>7, <1>8, <1>9 DEF InvAsked

LEMMA CollectAsked ==
    ASSUME TypeOK, InvAsked, NEW n \in Stable, CollectEndorsement(n)
    PROVE  InvAsked'
<1>1. PICK b \in collectQ[n] :
        /\ collectQ' = [collectQ EXCEPT ![n] = @ \ {b}]
        /\ preprepares' \subseteq preprepares \cup {[block |-> b, to |-> m] : m \in Stable \ {n}}
  BY DEF CollectEndorsement
<1>2. UNCHANGED <<prepared, height>> /\ n \in Node
  BY NodesAssumption DEF CollectEndorsement, blockVars, endorserVars
<1>3. \A d : Preparers(d)' = Preparers(d)
  BY <1>2 DEF Preparers
<1>4. Creator[b] = n /\ Produced(b) /\ Preparers(b) = {}
  BY <1>2 DEF InvAsked
<1>5. /\ \A m \in Node : collectQ'[m] \subseteq collectQ[m] /\ b \notin collectQ'[n]
      /\ \A q \in preprepares' : q \in preprepares \/ (q.block = b /\ q.to # n)
  BY <1>1, <1>2 DEF TypeOK
<1>6. \A m \in Node : \A d \in collectQ'[m] : d # b
  BY <1>2, <1>4, <1>5 DEF InvAsked
<1>7. \A m \in Node : \A d \in collectQ'[m] :
         /\ Creator[d] = m /\ Produced(d)' /\ Preparers(d)' = {}
         /\ \A q \in preprepares' : q.block # d
  BY <1>2, <1>3, <1>5, <1>6 DEF InvAsked, Produced
<1>8. \A q \in preprepares' : /\ Produced(q.block)' /\ q.to # Creator[q.block]
                              /\ q.to \notin Preparers(q.block)'
  BY <1>2, <1>3, <1>4, <1>5 DEF InvAsked, Produced
<1> QED
  BY <1>2, <1>7, <1>8 DEF InvAsked, Produced

\* What the other steps do to the requests.
LEMMA OtherAsked ==
    ASSUME TypeOK, InvAsked, preprepares' \subseteq preprepares, UNCHANGED <<prepared, height>>,
           \A m \in Node : collectQ'[m] \subseteq collectQ[m]
    PROVE  InvAsked'
<1>1. \A d : Preparers(d)' = Preparers(d)
  BY DEF Preparers
<1> QED
  BY <1>1 DEF InvAsked, Produced

-----------------------------------------------------------------------------
(* The chains.                                                              *)

\* A block is produced once; nothing stored or published is lost.
Grows ==
    /\ \A b \in Block : Produced(b) => prev'[b] = prev[b] /\ height'[b] = height[b]
    /\ \A n \in Node : stored[n] \subseteq stored'[n]
    /\ confirmed \subseteq confirmed'

LEMMA GrowsStep == TypeOK /\ [Next]_vars => Grows
<1> SUFFICES ASSUME TypeOK, [Next]_vars PROVE Grows
  OBVIOUS
<1> USE DEF blockVars, chainVars
<1> Stable \subseteq Node
  BY NodesAssumption
<1>1. ASSUME NEW n \in Stable, CreateBlock(n) PROVE Grows
  <2>1. PICK b \in Unused(n) : /\ prev' = [prev EXCEPT ![b] = draw[n].hash]
                               /\ height' = [height EXCEPT ![b] = height[draw[n].hash] + 1]
    BY <1>1 DEF CreateBlock, Pack
  <2>2. UNCHANGED <<stored, confirmed>> /\ ~Produced(b)
    BY <1>1 DEF CreateBlock, Unused, Produced
  <2> QED
    BY <2>1, <2>2 DEF Grows, TypeOK
<1>2. ASSUME NEW n \in Stable, StoreBlock(n) PROVE Grows
  <2>1. UNCHANGED <<prev, height, confirmed>>
        /\ \E b : stored' = [stored EXCEPT ![n] = @ \cup {b}]
    BY <1>2 DEF StoreBlock
  <2> QED
    BY <2>1 DEF Grows, TypeOK
<1>3. ASSUME NEW n \in Stable, VoteOfBlocker(n) \/ CollectEndorsement(n) \/ Restart(n)
      PROVE  UNCHANGED <<prev, height, stored, confirmed>>
  BY <1>3 DEF VoteOfBlocker, CollectEndorsement, Restart
<1>4. ASSUME NEW q \in preprepares, PrePrepare(q) \/ PrePrepareRefused(q)
      PROVE  UNCHANGED <<prev, height, stored, confirmed>>
  BY <1>4 DEF PrePrepare, PrePrepareRefused
<1>5. ASSUME NEW p \in prepares, ReceivePrepare(p)
      PROVE  UNCHANGED <<prev, height, stored, confirmed>>
  BY <1>5 DEF ReceivePrepare
<1>6. ASSUME NEW c \in commits, ReceiveCommit(c)
      PROVE  UNCHANGED <<prev, height, stored, confirmed>>
  BY <1>6 DEF ReceiveCommit
<1>7. ASSUME NEW r \in replies, ReceiveReply(r)
      PROVE  UNCHANGED <<prev, height, stored>> /\ confirmed \subseteq confirmed'
  BY <1>7 DEF ReceiveReply
<1>8. ASSUME DropMessage PROVE UNCHANGED <<prev, height, stored, confirmed>>
  BY <1>8 DEF DropMessage
<1>9. ASSUME UNCHANGED vars PROVE UNCHANGED <<prev, height, stored, confirmed>>
  BY <1>9 DEF vars
<1>10. UNCHANGED <<prev, height, stored>> /\ confirmed \subseteq confirmed' => Grows
  BY DEF Grows
<1> QED
  BY <1>1, <1>2, <1>3, <1>4, <1>5, <1>6, <1>7, <1>8, <1>9, <1>10 DEF Next, NodeNext, MessageNext

\* Who commits to a block has the one below it: it is the hash the node drew on.
LEMMA BelowKeeps ==
    ASSUME TypeOK, InvAsked, InvCommits, InvBelow, Grows,
           \A d \in Block : \A x \in CommitsMade(d)' :
             x \in CommitsMade(d) \/ (Produced(d) /\ prev[d] \in stored[x.from] /\ x.from \in Node)
    PROVE  InvBelow'
<1> SUFFICES ASSUME NEW d \in Block, NEW x \in CommitsMade(d)'
             PROVE  prev'[d] \in stored'[x.from]
  BY DEF InvBelow
<1>1. Produced(d) /\ prev[d] \in stored[x.from] /\ x.from \in Node
  BY CommittedProduced, MadeType DEF InvBelow, Commit
<1> QED
  BY <1>1 DEF Grows

\* Steps of a single node that touch the chains.
LEMMA LedgerKept ==
    ASSUME TypeOK, InvLedger, UNCHANGED <<prev, height, cur, stored>>,
           confirmed \subseteq confirmed',
           \A n \in Node : draw'[n].hash \in {draw[n].hash, cur[n], NoHash}
    PROVE  InvLedger'
<1>1. \A b : Published(b) => Published(b)'
  BY DEF Published
<1>2. \A n \in Node : draw'[n].hash \in stored[n] \cup {NoHash}
  BY DEF InvLedger
<1>3. \A n \in Node : \A b \in stored[n] : /\ Produced(b)' /\ height[b] <= Height(n)
                                           /\ b = Genesis \/ Published(b)'
  BY <1>1 DEF InvLedger, Produced
<1>4. \A n \in Node : Height(n)' = Height(n)
  BY DEF Height
<1> QED
  BY <1>2, <1>3, <1>4 DEF InvLedger, Produced

LEMMA CreateLedger ==
    ASSUME TypeOK, InvLedger, NEW n \in Stable, CreateBlock(n)
    PROVE  InvLedger'
<1> DEFINE h == draw[n].hash
<1>1. PICK b \in Unused(n) : /\ prev' = [prev EXCEPT ![b] = h]
                             /\ height' = [height EXCEPT ![b] = height[h] + 1]
  BY DEF CreateBlock, Pack
<1>2. /\ UNCHANGED <<cur, stored, draw, confirmed>> /\ ~Produced(b) /\ b \in Block
      /\ n \in Node /\ h = cur[n] /\ h \in Block
  BY NodesAssumption DEF CreateBlock, Unused, Produced, chainVars, TypeOK
<1>3. Produced(h) /\ h # b /\ Produced(Genesis) /\ Genesis # b /\ Genesis \in Block
  BY <1>2, BlocksAssumption DEF InvLedger, Produced
<1>4. height[h] \in Nat
  BY <1>2, <1>3 DEF TypeOK, Produced
<1>5. /\ \A d \in Block \ {b} : prev'[d] = prev[d] /\ height'[d] = height[d]
      /\ prev'[b] = h /\ height'[b] = height[h] + 1
  BY <1>1, <1>2 DEF TypeOK
<1> HIDE DEF h
<1>6. Produced(b)' /\ \A d \in Block \ {b} : Produced(d)' <=> Produced(d)
  BY <1>4, <1>5 DEF Produced
<1>7. \A d \in Block : d # Genesis /\ Produced(d)' =>
         prev'[d] \in Block /\ Produced(prev[d])' /\ height'[d] = height'[prev'[d]] + 1
  <2> SUFFICES ASSUME NEW d \in Block, d # Genesis, Produced(d)'
               PROVE  prev'[d] \in Block /\ height'[prev'[d]] # -1
                      /\ height'[d] = height'[prev'[d]] + 1
    BY DEF Produced
  <2>1. CASE d = b
    BY <1>2, <1>3, <1>5, <2>1 DEF Produced
  <2>2. CASE d # b
    <3>1. prev[d] \in Block /\ Produced(prev[d]) /\ height[d] = height[prev[d]] + 1
      BY <1>6, <2>2 DEF InvLedger
    <3>2. prev[d] # b
      BY <1>2, <3>1
    <3> QED
      BY <1>5, <2>2, <3>1, <3>2 DEF Produced
  <2> QED
    BY <2>1, <2>2
<1>8. \A m \in Node : \A d \in stored[m] : d \in Block \ {b} /\ cur[m] \in Block \ {b}
  BY <1>2 DEF InvLedger, TypeOK
<1>9. \A m \in Node : \A d \in stored[m] :
        Produced(d)' /\ height'[d] <= height'[cur[m]] /\ (d = Genesis \/ Published(d)')
  BY <1>2, <1>5, <1>6, <1>8 DEF InvLedger, Height, Published
<1>10. height'[Genesis] = 1 /\ prev'[Genesis] = NoHash
  BY <1>3, <1>5 DEF InvLedger
<1>11. \A m \in Node : cur'[m] \in stored'[m] /\ draw'[m].hash \in stored'[m] \cup {NoHash}
  BY <1>2 DEF InvLedger
<1> QED
  BY <1>2, <1>7, <1>9, <1>10, <1>11 DEF InvLedger, Produced, Height

\* A published block was committed to, hence produced.
LEMMA PublishedProduced ==
    ASSUME TypeOK, InvAsked, InvCommits, InvReplies, InvCounted, NEW c \in confirmed
    PROVE  Produced(c.block)
<1>1. c.block \in Block
  BY DEF TypeOK
<1>2. PICK y \in c.replies : TRUE
  BY FS_EmptySet, NeededType DEF InvCounted
<1>3. y \in RepliesMade(c.block)
  BY InRepliesMade
<1>4. PICK x \in y.commits : TRUE
  BY <1>1, <1>3, FS_EmptySet, NeededType DEF InvReplies
<1>5. x \in CommitsMade(c.block)
  BY <1>3, InCommitsMade
<1> QED
  BY <1>1, <1>5, CommittedProduced

LEMMA StoreLedger ==
    ASSUME TypeOK, InvAsked, InvCommits, InvReplies, InvCounted, InvLedger,
           NEW n \in Stable, StoreBlock(n)
    PROVE  InvLedger'
<1>1. PICK c \in confirmed : /\ prev[c.block] = cur[n]
                             /\ cur' = [cur EXCEPT ![n] = c.block]
                             /\ stored' = [stored EXCEPT ![n] = @ \cup {c.block}]
  BY DEF StoreBlock
<1>2. UNCHANGED <<prev, height, draw, confirmed>> /\ n \in Node
      /\ c.block \in Block /\ cur[n] \in Block /\ cur[n] # NoHash
  BY NodesAssumption, BlocksAssumption DEF StoreBlock, blockVars, TypeOK
<1>3. Produced(c.block) /\ c.block # Genesis
  BY <1>1, <1>2, PublishedProduced DEF InvLedger
<1>4. height[c.block] = height[cur[n]] + 1
  BY <1>1, <1>2, <1>3 DEF InvLedger
<1>5. \A d \in stored[n] : height[d] <= height[c.block]
  <2> TAKE d \in stored[n]
  <2>1. d \in Block /\ height[d] <= height[cur[n]]
    BY <1>2 DEF InvLedger, Height, TypeOK
  <2>2. height[d] \in Nat \cup {-1} /\ height[cur[n]] \in Nat \cup {-1}
    BY <1>2, <2>1 DEF TypeOK
  <2> QED
    BY <1>4, <2>1, <2>2
<1>6. /\ \A m \in Node \ {n} : cur'[m] = cur[m] /\ stored'[m] = stored[m]
      /\ cur'[n] = c.block /\ stored'[n] = stored[n] \cup {c.block}
  BY <1>1, <1>2 DEF TypeOK
<1>7. height[c.block] <= height[c.block] /\ Published(c.block)
  <2>1. height[c.block] \in Nat \cup {-1}
    BY <1>2 DEF TypeOK
  <2> QED
    BY <2>1 DEF Published
<1>8. \A m \in Node :
         /\ cur'[m] \in stored'[m] /\ draw[m].hash \in stored'[m] \cup {NoHash}
         /\ \A b \in stored'[m] : /\ Produced(b) /\ height[b] <= height[cur'[m]]
                                  /\ b = Genesis \/ Published(b)
  <2> TAKE m \in Node
  <2>1. CASE m = n
    BY <1>3, <1>5, <1>6, <1>7, <2>1 DEF InvLedger
  <2>2. CASE m # n
    BY <1>6, <2>2 DEF InvLedger, Height
  <2> QED
    BY <2>1, <2>2
<1> QED
  BY <1>2, <1>8 DEF InvLedger, Produced, Published, Height

-----------------------------------------------------------------------------
(* The inductive invariant.                                                 *)

LEMMA InitIInv == Init => IInv
<1> SUFFICES ASSUME Init PROVE IInv
  OBVIOUS
<1>1. TypeOK
  BY InitType
<1>2. /\ preprepares = {} /\ prepares = {} /\ commits = {} /\ replies = {} /\ prepared = {}
      /\ confirmed = {} /\ collectQ = [n \in Node |-> {}]
      /\ pbuf = [n \in Node |-> Empty] /\ cbuf = [n \in Node |-> Empty]
      /\ rbuf = [n \in Node |-> [r \in Requester |-> Empty]]
      /\ prev = [b \in Block |-> NoHash] /\ cur = [n \in Node |-> Genesis]
      /\ height = [b \in Block |-> IF b = Genesis THEN 1 ELSE -1]
      /\ stored = [n \in Node |-> {Genesis}] /\ draw = [n \in Node |-> NoDraw]
  BY DEF Init
<1>3. Empty.got = {} /\ IsFiniteSet({}) /\ NoDraw.hash = NoHash
  BY FS_EmptySet DEF Empty, NoDraw
<1>4. \A b : RepliesMade(b) = {}
  BY <1>2, <1>3, InRepliesMade
<1>5. \A b : CommitsMade(b) = {}
  BY <1>2, <1>3, <1>4, InCommitsMade
<1>6. InvAsked /\ InvPrepares
  BY <1>2, <1>3 DEF InvAsked, InvPrepares
<1>7. InvCommits /\ InvReplies /\ InvBelow
  BY <1>4, <1>5 DEF InvCommits, InvReplies, InvBelow
<1>8. InvDelivery /\ InvCounted
  BY <1>2, <1>3 DEF InvDelivery, InvCounted
<1>9. InvLedger
  <2>1. height[Genesis] = 1 /\ prev[Genesis] = NoHash
    BY <1>2, BlocksAssumption
  <2>2. \A b \in Block : Produced(b) => b = Genesis
    BY <1>2 DEF Produced
  <2>3. \A n \in Node : cur[n] = Genesis /\ stored[n] = {Genesis} /\ draw[n].hash = NoHash
    BY <1>2, <1>3
  <2>4. Produced(Genesis) /\ height[Genesis] <= height[Genesis]
    BY <2>1 DEF Produced
  <2> QED
    BY <2>1, <2>2, <2>3, <2>4 DEF InvLedger, Height
<1> QED
  BY <1>1, <1>6, <1>7, <1>8, <1>9 DEF IInv

\* The three rounds of messages.
Rounds == InvPrepares /\ InvCommits /\ InvDelivery /\ InvReplies /\ InvCounted

LEMMA StepRounds ==
    ASSUME IInv, [Next]_vars
    PROVE  /\ Rounds' /\ InvAsked'
           /\ \A d \in Block : \A x \in CommitsMade(d)' :
                \/ x \in CommitsMade(d)
                \/ \E p \in prepares : ReceivePrepare(p) /\ p.block = d /\ p.to = x.from
<1> USE DEF IInv, Rounds
<1> Stable \subseteq Node
  BY NodesAssumption
<1> DEFINE Quiet == UNCHANGED <<prepares, commits, replies, pbuf, cbuf, rbuf, prepared, confirmed>>
<1>1. ASSUME NEW n \in Stable, VoteOfBlocker(n) \/ StoreBlock(n)
      PROVE  Quiet /\ UNCHANGED <<preprepares, height, collectQ>>
  BY <1>1 DEF VoteOfBlocker, StoreBlock, blockVars, blockerVars, endorserVars, requesterVars
<1>2. ASSUME NEW n \in Stable, CreateBlock(n) \/ CollectEndorsement(n) PROVE Quiet
  BY <1>2 DEF CreateBlock, CollectEndorsement, endorserVars, requesterVars
<1>3. ASSUME NEW q \in preprepares, PrePrepareRefused(q)
      PROVE  Quiet /\ preprepares' \subseteq preprepares /\ UNCHANGED <<height, collectQ>>
  BY <1>3 DEF PrePrepareRefused, blockVars, blockerVars, endorserVars, requesterVars
<1>4. ASSUME NEW n \in Stable, Restart(n)
      PROVE  UNCHANGED <<preprepares, prepared, height>>
             /\ \A m \in Node : collectQ'[m] \subseteq collectQ[m]
  BY <1>4 DEF Restart, blockVars, TypeOK
<1>5. ASSUME \/ \E p \in prepares : ReceivePrepare(p)
             \/ \E c \in commits : ReceiveCommit(c)
             \/ \E r \in replies : ReceiveReply(r)
             \/ DropMessage
      PROVE  UNCHANGED <<preprepares, prepared, height, collectQ>>
  BY <1>5 DEF ReceivePrepare, ReceiveCommit, ReceiveReply, DropMessage, blockVars, blockerVars,
              endorserVars
<1>6. CASE UNCHANGED vars
  <2>1. Quiet /\ UNCHANGED <<preprepares, height, collectQ>>
    BY <1>6 DEF vars, blockVars, blockerVars, endorserVars, requesterVars
  <2> QED
    BY <2>1, QuietKeeps, OtherAsked
<1>7. ASSUME NEW n \in Stable, VoteOfBlocker(n) \/ StoreBlock(n)
      PROVE  Rounds' /\ InvAsked' /\ \A d \in Block : CommitsMade(d)' \subseteq CommitsMade(d)
  BY <1>1, <1>7, QuietKeeps, OtherAsked
<1>8. ASSUME NEW n \in Stable, CreateBlock(n) \/ CollectEndorsement(n)
      PROVE  Rounds' /\ InvAsked' /\ \A d \in Block : CommitsMade(d)' \subseteq CommitsMade(d)
  BY <1>2, <1>8, QuietKeeps, CreateAsked, CollectAsked
<1>9. ASSUME NEW n \in Stable, Restart(n)
      PROVE  Rounds' /\ InvAsked' /\ \A d \in Block : CommitsMade(d)' \subseteq CommitsMade(d)
  BY <1>4, <1>9, RestartKeeps, OtherAsked
<1>10. ASSUME NEW q \in preprepares, PrePrepare(q)
       PROVE  Rounds' /\ InvAsked' /\ \A d \in Block : CommitsMade(d)' \subseteq CommitsMade(d)
  <2>1. UNCHANGED <<commits, replies, cbuf, rbuf, confirmed>>
    BY <1>10 DEF PrePrepare, requesterVars
  <2>2. \A d : CommitsMade(d)' \subseteq CommitsMade(d)
    BY <2>1, RepliesFewer, CommitsFewer
  <2>3. InvCounted'
    BY <2>1 DEF InvCounted, RepliesNeeded
  <2> QED
    BY <1>10, <2>2, <2>3, PrePrepareKeeps
<1>11. ASSUME NEW q \in preprepares, PrePrepareRefused(q)
       PROVE  Rounds' /\ InvAsked' /\ \A d \in Block : CommitsMade(d)' \subseteq CommitsMade(d)
  BY <1>3, <1>11, QuietKeeps, OtherAsked
<1>12. ASSUME NEW p \in prepares, ReceivePrepare(p)
       PROVE  /\ Rounds' /\ InvAsked'
              /\ \A d \in Block : \A x \in CommitsMade(d)' :
                   x \in CommitsMade(d) \/ (d = p.block /\ x.from = p.to)
  <2>1. UNCHANGED <<rbuf, cbuf, confirmed>>
    BY <1>12 DEF ReceivePrepare, requesterVars
  <2>2. InvCounted'
    BY <2>1 DEF InvCounted, RepliesNeeded
  <2> QED
    BY <1>5, <1>12, <2>2, ReceivePrepareKeeps, OtherAsked
<1>13. ASSUME NEW c \in commits, ReceiveCommit(c)
       PROVE  Rounds' /\ InvAsked' /\ \A d \in Block : CommitsMade(d)' \subseteq CommitsMade(d)
  BY <1>5, <1>13, ReceiveCommitKeeps, OtherAsked
<1>14. ASSUME NEW r \in replies, ReceiveReply(r)
       PROVE  Rounds' /\ InvAsked' /\ \A d \in Block : CommitsMade(d)' \subseteq CommitsMade(d)
  BY <1>5, <1>14, ReceiveReplyKeeps, OtherAsked
<1>15. ASSUME DropMessage
       PROVE  Rounds' /\ InvAsked' /\ \A d \in Block : CommitsMade(d)' \subseteq CommitsMade(d)
  BY <1>5, <1>15, DropKeeps, OtherAsked
<1> HIDE DEF Rounds, IInv
<1> QED
  BY <1>6, <1>7, <1>8, <1>9, <1>10, <1>11, <1>12, <1>13, <1>14, <1>15
     DEF Next, NodeNext, MessageNext

LEMMA StepLedger ==
    ASSUME IInv, [Next]_vars
    PROVE  InvLedger'
<1> USE DEF IInv, blockVars, chainVars
<1> Stable \subseteq Node
  BY NodesAssumption
<1> DEFINE Kept == UNCHANGED <<prev, height, cur, stored>>
<1>1. ASSUME NEW n \in Stable, VoteOfBlocker(n) \/ Restart(n)
      PROVE  InvLedger'
  <2>1. Kept /\ confirmed' = confirmed
    BY <1>1 DEF VoteOfBlocker, Restart
  <2>2. \A m \in Node : draw'[m].hash \in {draw[m].hash, cur[m], NoHash}
    <3>1. \A m \in Node : draw'[m] = draw[m] \/ m = n
      BY <1>1 DEF VoteOfBlocker, Restart, TypeOK
    <3>2. CASE Restart(n)
      BY <3>1, <3>2 DEF Restart, TypeOK, NoDraw
    <3>3. CASE draw' = [draw EXCEPT ![n] = [hash |-> cur[n], index |-> 0]]
      BY <3>1, <3>3 DEF TypeOK
    <3>4. CASE draw' = [draw EXCEPT ![n].index = @ + 1]
      <4>1. draw'[n] = [draw[n] EXCEPT !.index = @ + 1]
        BY <3>4 DEF TypeOK
      <4>2. draw[n] \in [hash : Block, index : 0 .. MaxIndex] \cup {NoDraw}
        BY DEF TypeOK
      <4>3. draw'[n].hash = draw[n].hash
        BY <4>1, <4>2 DEF NoDraw
      <4> QED
        BY <3>1, <4>3
    <3> QED
      BY <1>1, <3>2, <3>3, <3>4 DEF VoteOfBlocker
  <2> QED
    BY <2>1, <2>2, LedgerKept
<1>2. ASSUME NEW n \in Stable, CollectEndorsement(n)
      PROVE  Kept /\ UNCHANGED <<confirmed, draw>>
  BY <1>2 DEF CollectEndorsement
<1>3. ASSUME NEW q \in preprepares, PrePrepare(q) \/ PrePrepareRefused(q)
      PROVE  Kept /\ UNCHANGED <<confirmed, draw>>
  BY <1>3 DEF PrePrepare, PrePrepareRefused
<1>4. ASSUME NEW p \in prepares, ReceivePrepare(p) PROVE Kept /\ UNCHANGED <<confirmed, draw>>
  BY <1>4 DEF ReceivePrepare
<1>5. ASSUME NEW c \in commits, ReceiveCommit(c) PROVE Kept /\ UNCHANGED <<confirmed, draw>>
  BY <1>5 DEF ReceiveCommit
<1>6. ASSUME NEW r \in replies, ReceiveReply(r)
      PROVE  Kept /\ draw' = draw /\ confirmed \subseteq confirmed'
  BY <1>6 DEF ReceiveReply
<1>7. ASSUME DropMessage PROVE Kept /\ UNCHANGED <<confirmed, draw>>
  BY <1>7 DEF DropMessage
<1>8. ASSUME UNCHANGED vars PROVE Kept /\ UNCHANGED <<confirmed, draw>>
  BY <1>8 DEF vars
<1>9. ASSUME Kept, draw' = draw, confirmed \subseteq confirmed' PROVE InvLedger'
  BY <1>9, LedgerKept
<1> QED
  BY <1>1, <1>2, <1>3, <1>4, <1>5, <1>6, <1>7, <1>8, <1>9, CreateLedger, StoreLedger
     DEF Next, NodeNext, MessageNext

LEMMA StepIInv == IInv /\ [Next]_vars => IInv'
<1> SUFFICES ASSUME IInv, [Next]_vars PROVE IInv'
  OBVIOUS
<1>1. TypeOK'
  BY NextType DEF IInv
<1>2. Rounds' /\ InvAsked'
  BY StepRounds
<1>3. InvLedger'
  BY StepLedger
<1>4. InvBelow'
  <2>1. ASSUME NEW p \in prepares, ReceivePrepare(p)
        PROVE  p.to \in Node /\ Produced(p.block) /\ prev[p.block] \in stored[p.to]
    <3>1. /\ p.to \in Node /\ draw[p.to].hash # NoHash /\ prev[p.block] = draw[p.to].hash
      BY <2>1 DEF ReceivePrepare, FitsDraw, IInv, TypeOK
    <3>2. prev[p.block] \in stored[p.to]
      BY <3>1 DEF IInv, InvLedger
    <3>3. p.from \in Preparers(p.block)
      BY DEF IInv, InvPrepares
    <3> QED
      BY <3>1, <3>2, <3>3 DEF Preparers, IInv, InvAsked
  <2>2. \A d \in Block : \A x \in CommitsMade(d)' :
          x \in CommitsMade(d) \/ (Produced(d) /\ prev[d] \in stored[x.from] /\ x.from \in Node)
    BY <2>1, StepRounds
  <2>3. Grows
    BY GrowsStep DEF IInv
  <2> QED
    BY <2>2, <2>3, BelowKeeps DEF IInv
<1> QED
  BY <1>1, <1>2, <1>3, <1>4 DEF IInv, Rounds

\* What the proofs rest on: one commit and one answer per node and block.
THEOREM InvariantHolds == Spec => []IInv
<1>1. Init => IInv
  BY InitIInv
<1>2. IInv /\ [Next]_vars => IInv'
  BY StepIInv
<1> QED
  BY <1>1, <1>2, PTL DEF Spec

\* Every variable keeps its type, and a counter is emptied when it is full
\* (PbftPrepare, PbftCommit, EndorsementRequest4Future).
THEOREM TypeCorrect == Spec => []TypeOK
<1>1. IInv => TypeOK
  BY DEF IInv
<1> QED
  BY <1>1, InvariantHolds, PTL

LEMMA CertificateFollows == IInv => CertificateIsReal
<1> SUFFICES ASSUME IInv, NEW c \in confirmed
             PROVE  CertificateIsReal!(c)
  BY DEF CertificateIsReal
<1> USE DEF IInv
<1>1. c.block \in Block
  BY DEF TypeOK
<1>2. \A r \in c.replies : r \in RepliesMade(c.block)
  BY InRepliesMade
<1>3. Cardinality({r.from : r \in c.replies}) >= F + 1
  <2>1. \A r, s \in c.replies : r.from = s.from => r = s
    BY <1>1, <1>2 DEF InvReplies
  <2>2. Cardinality({r.from : r \in c.replies}) = Cardinality(c.replies)
    BY <2>1, SendersCounted DEF InvCounted
  <2> QED
    BY <2>2 DEF InvCounted, RepliesNeeded
<1>4. ASSUME NEW r \in c.replies
      PROVE  /\ Cardinality({x.from : x \in r.commits}) >= 2 * F + 1
             /\ \A x \in r.commits : x \in CommitsMade(c.block)
  <2>1. \A x \in r.commits : x \in CommitsMade(c.block)
    BY <1>2, InCommitsMade
  <2>2. \A x, y \in r.commits : x.from = y.from => x = y
    BY <1>1, <2>1 DEF InvCommits
  <2>3. IsFiniteSet(r.commits) /\ Cardinality(r.commits) >= CommitsNeeded
    BY <1>1, <1>2 DEF InvReplies
  <2>4. Cardinality({x.from : x \in r.commits}) = Cardinality(r.commits)
    BY <2>2, <2>3, SendersCounted
  <2> QED
    BY <2>1, <2>3, <2>4 DEF CommitsNeeded
<1>5. ASSUME NEW x \in CommitsMade(c.block)
      PROVE  /\ Cardinality(x.prepares) >= 2 * F /\ Creator[c.block] \notin x.prepares
             /\ x.prepares \subseteq Vouched(c.block)
  <2>1. Cardinality(x.prepares) >= PreparesNeeded /\ x.prepares \subseteq Preparers(c.block)
    BY <1>1 DEF InvCommits
  <2>2. Creator[c.block] \notin Preparers(c.block)
    BY DEF Preparers, InvAsked
  <2>3. Preparers(c.block) \subseteq Vouched(c.block)
    BY DEF Preparers, Vouched
  <2> QED
    BY <2>1, <2>2, <2>3 DEF PreparesNeeded
<1> QED
  BY <1>3, <1>4, <1>5

\* A published block carries the answers of F + 1 different nodes, each with the
\* commits of 2F + 1 different nodes, each with the prepares of 2F nodes that did
\* prepare exactly this block (PbftPrepare, PbftCommit, EndorsementRequest4Future).
THEOREM CertificatesAreReal == Spec => []CertificateIsReal
<1>1. IInv => CertificateIsReal
  BY CertificateFollows
<1> QED
  BY <1>1, InvariantHolds, PTL

-----------------------------------------------------------------------------
(* PBFT implements QuorumLedger.                                            *)

\* The refinement mapping of a published block.
AsApproved(c) == [block |-> c.block, parent |-> prev[c.block], height |-> height[c.block]]
Approved == {AsApproved(c) : c \in confirmed}
Quorums == {Q \in SUBSET Node : Cardinality(Q) >= 2 * F + 1}

\* A published block lies on a block of 2F + 1 ledgers.
OnQuorum(c) ==
    /\ c.block \in Block /\ c.block # Genesis /\ prev[c.block] \in Block
    /\ height[c.block] = height[prev[c.block]] + 1
    /\ height[prev[c.block]] \in Nat
    /\ \/ prev[c.block] = Genesis /\ height[Genesis] = 1
       \/ Published(prev[c.block])
    /\ \E Q \in Quorums : \A n \in Q : prev[c.block] \in stored[n]

AllOnQuorum == \A c \in confirmed : OnQuorum(c)

LEMMA QuorumBelow == IInv => AllOnQuorum
<1> SUFFICES ASSUME IInv, NEW c \in confirmed PROVE OnQuorum(c)
  BY DEF AllOnQuorum
<1> USE DEF IInv
<1>1. c.block \in Block /\ Produced(c.block)
  BY PublishedProduced DEF TypeOK
<1>2. PICK r \in c.replies : TRUE
  BY FS_EmptySet, NeededType DEF InvCounted
<1> DEFINE Q == {x.from : x \in r.commits}
<1>3. r \in RepliesMade(c.block) /\ \A x \in r.commits : x \in CommitsMade(c.block)
  BY InRepliesMade, InCommitsMade
<1>4. Q \in SUBSET Node /\ Cardinality(Q) >= 2 * F + 1
  <2>1. Q \in SUBSET Node
    BY <1>3, MadeType DEF Commit
  <2>2. CertificateIsReal
    BY CertificateFollows
  <2> QED
    BY <2>1, <2>2 DEF CertificateIsReal
<1>5. \A n \in Q : prev[c.block] \in stored[n]
  BY <1>1, <1>3 DEF InvBelow
<1>6. PICK n \in Q : TRUE
  <2>1. r.commits # {}
    BY <1>1, <1>3, FS_EmptySet, NeededType DEF InvReplies
  <2> QED
    BY <2>1
<1>7. prev[c.block] \in stored[n] /\ n \in Node
  BY <1>4, <1>5, <1>6
<1>8. prev[c.block] \in Block
  BY <1>7 DEF TypeOK
<1>9. c.block # Genesis /\ height[Genesis] = 1
  BY <1>8, BlocksAssumption DEF InvLedger
<1>10. height[c.block] = height[prev[c.block]] + 1 /\ Produced(prev[c.block])
  BY <1>1, <1>9 DEF InvLedger
<1>11. height[prev[c.block]] \in Nat
  BY <1>8, <1>10 DEF TypeOK, Produced
<1>12. prev[c.block] = Genesis \/ Published(prev[c.block])
  BY <1>7 DEF InvLedger
<1>13. \E P \in Quorums : \A m \in P : prev[c.block] \in stored[m]
  <2> HIDE DEF Q
  <2>1. Q \in Quorums
    BY <1>4 DEF Quorums
  <2> QED
    BY <1>5, <2>1
<1> QED
  BY <1>1, <1>8, <1>9, <1>10, <1>11, <1>12, <1>13 DEF OnQuorum

\* What a step may do to the variables the mapping reads.
LEMMA StepOfLedger ==
    ASSUME TypeOK, [Next]_vars
    PROVE  \/ UNCHANGED <<cur, stored, confirmed>>
           \/ /\ UNCHANGED <<cur, stored, prev, height>>
              /\ \E c : confirmed' = confirmed \cup {c}
           \/ /\ UNCHANGED <<prev, height, confirmed>>
              /\ \E n \in Node : \E c \in confirmed :
                   /\ prev[c.block] = cur[n]
                   /\ cur' = [cur EXCEPT ![n] = c.block]
                   /\ stored' = [stored EXCEPT ![n] = @ \cup {c.block}]
<1> USE DEF blockVars, chainVars
<1> Stable \subseteq Node
  BY NodesAssumption
<1> DEFINE Kept == UNCHANGED <<cur, stored, confirmed>>
<1>1. ASSUME NEW n \in Stable, VoteOfBlocker(n) \/ CreateBlock(n) \/ CollectEndorsement(n)
                               \/ Restart(n)
      PROVE  Kept
  BY <1>1 DEF VoteOfBlocker, CreateBlock, CollectEndorsement, Restart
<1>2. ASSUME NEW q \in preprepares, PrePrepare(q) \/ PrePrepareRefused(q) PROVE Kept
  BY <1>2 DEF PrePrepare, PrePrepareRefused
<1>3. ASSUME NEW p \in prepares, ReceivePrepare(p) PROVE Kept
  BY <1>3 DEF ReceivePrepare
<1>4. ASSUME NEW c \in commits, ReceiveCommit(c) PROVE Kept
  BY <1>4 DEF ReceiveCommit
<1>5. ASSUME DropMessage PROVE Kept
  BY <1>5 DEF DropMessage
<1>6. ASSUME UNCHANGED vars PROVE Kept
  BY <1>6 DEF vars
<1>7. ASSUME NEW r \in replies, ReceiveReply(r)
      PROVE  /\ UNCHANGED <<cur, stored, prev, height>>
             /\ confirmed' = confirmed \/ \E c : confirmed' = confirmed \cup {c}
  <2> DEFINE n == Creator[r.block]
             x0 == [from |-> r.from, commits |-> r.commits]
             buf == Count(rbuf[n][r.path], r.block, x0)
             publish == /\ Cardinality(buf.got) >= RepliesNeeded /\ coll[n] = r.block
                        /\ prev[r.block] = cur[n]
  <2>1. /\ UNCHANGED <<cur, stored, prev, height>>
        /\ confirmed' = confirmed \cup {c \in [block : {r.block}, replies : {buf.got}] : publish}
    BY <1>7 DEF ReceiveReply
  <2> HIDE DEF buf, publish, n
  <2>2. CASE publish
    <3>1. {c \in [block : {r.block}, replies : {buf.got}] : publish}
            = {[block |-> r.block, replies |-> buf.got]}
      BY <2>2
    <3> QED
      BY <2>1, <3>1
  <2>3. CASE ~publish
    BY <2>1, <2>3
  <2> QED
    BY <2>2, <2>3
<1>8. ASSUME NEW n \in Stable, StoreBlock(n)
      PROVE  /\ UNCHANGED <<prev, height, confirmed>>
             /\ \E c \in confirmed :
                   /\ prev[c.block] = cur[n]
                   /\ cur' = [cur EXCEPT ![n] = c.block]
                   /\ stored' = [stored EXCEPT ![n] = @ \cup {c.block}]
  BY <1>8 DEF StoreBlock
<1> HIDE DEF Kept
<1>9. Kept \/ (\E n \in Stable : StoreBlock(n)) \/ (\E r \in replies : ReceiveReply(r))
  BY <1>1, <1>2, <1>3, <1>4, <1>5, <1>6 DEF Next, NodeNext, MessageNext
<1> QED
  BY <1>7, <1>8, <1>9 DEF Kept

LEMMA InitRefines == Init => Ledger!Init
<1> SUFFICES ASSUME Init PROVE Ledger!Init
  OBVIOUS
<1>1. confirmed = {} /\ stored = [n \in Node |-> {Genesis}] /\ cur = [n \in Node |-> Genesis]
  BY DEF Init
<1> QED
  BY <1>1 DEF Ledger!Init

LEMMA StepRefines == IInv /\ IInv' /\ [Next]_vars => [Ledger!Next]_Ledger!vars
<1>0. IInv' => AllOnQuorum'
  BY QuorumBelow, PTL
<1> SUFFICES ASSUME IInv, IInv', [Next]_vars PROVE [Ledger!Next]_Ledger!vars
  OBVIOUS
<1>1. /\ Grows
      /\ \A c \in confirmed : prev'[c.block] = prev[c.block] /\ height'[c.block] = height[c.block]
  <2>1. Grows
    BY GrowsStep DEF IInv
  <2>2. \A c \in confirmed : c.block \in Block /\ Produced(c.block)
    BY PublishedProduced DEF IInv, TypeOK
  <2> QED
    BY <2>1, <2>2 DEF Grows
<1>2. CASE UNCHANGED <<cur, stored, confirmed>>
  <2>1. Approved' = Approved
    BY <1>1, <1>2 DEF Approved, AsApproved
  <2>2. UNCHANGED Ledger!vars
    BY <1>2, <2>1 DEF Ledger!vars, Approved, AsApproved
  <2> QED
    BY <2>2
<1>3. ASSUME UNCHANGED <<cur, stored, prev, height>>, NEW c, confirmed' = confirmed \cup {c}
      PROVE  Ledger!Next
  <2> DEFINE b == c.block
             p == prev[c.block]
             h == height[c.block]
  <2>1. OnQuorum(c)'
    BY <1>0, <1>3 DEF AllOnQuorum
  <2>2. /\ b \in Block /\ b # Genesis /\ p \in Block /\ h = height[p] + 1 /\ height[p] \in Nat
        /\ (p = Genesis /\ height[p] = 1) \/ \E d \in confirmed' : d.block = p
        /\ \E Q \in Quorums : \A n \in Q : p \in stored[n]
    BY <1>3, <2>1 DEF OnQuorum, Published, Quorums
  <2>3. (p = Genesis /\ height[p] = 1) \/ \E d \in confirmed : d.block = p
    <3>1. p # b
      BY <2>2
    <3> QED
      BY <1>3, <2>2, <3>1
  <2>4. Approved' = Approved \cup {[block |-> b, parent |-> p, height |-> h]}
    BY <1>3 DEF Approved, AsApproved
  <2>5. h \in Ledger!NextHeights(p)
    <3>1. CASE p = Genesis /\ height[p] = 1
      BY <2>2, <3>1 DEF Ledger!NextHeights
    <3>2. ASSUME NEW d \in confirmed, d.block = p PROVE h \in Ledger!NextHeights(p)
      <4>1. AsApproved(d).block = p /\ AsApproved(d).height = height[p]
        BY <3>2 DEF AsApproved
      <4> QED
        BY <2>2, <4>1 DEF Ledger!NextHeights, AsApproved
    <3> QED
      BY <2>3, <3>1, <3>2
  <2>6. \A a \in Approved : a.block = b => a.parent = p /\ a.height = h
    BY DEF Approved, AsApproved
  <2>7. Ledger!Approve(b, p, h)
    <3>1. UNCHANGED <<stored, cur>>
      BY <1>3
    <3> HIDE DEF b, p, h
    <3> QED
      BY <2>2, <2>4, <2>6, <3>1 DEF Ledger!Approve, Approved, AsApproved, Quorums
  <2>8. b \in Block /\ p \in Block
    BY <2>2
  <2> HIDE DEF b, p, h
  <2>9. \E x, y \in Block : \E z \in Ledger!NextHeights(y) : Ledger!Approve(x, y, z)
    BY <2>5, <2>7, <2>8 DEF Ledger!NextHeights, Ledger!Approve
  <2> QED
    BY <2>9 DEF Ledger!Next
<1>4. ASSUME UNCHANGED <<prev, height, confirmed>>, NEW n \in Node, NEW c \in confirmed,
             prev[c.block] = cur[n], cur' = [cur EXCEPT ![n] = c.block],
             stored' = [stored EXCEPT ![n] = @ \cup {c.block}]
      PROVE  Ledger!Next
  <2>1. OnQuorum(c)
    BY QuorumBelow DEF AllOnQuorum
  <2>2. c.block \notin stored[n]
    <3>1. height[c.block] = Height(n) + 1 /\ Height(n) \in Nat
      BY <1>4, <2>1 DEF OnQuorum, Height
    <3>2. \A d \in stored[n] : height[d] <= Height(n)
      BY DEF IInv, InvLedger
    <3>3. ~(Height(n) + 1 <= Height(n))
      BY <3>1
    <3> QED
      BY <3>1, <3>2, <3>3
  <2>3. AsApproved(c).block = c.block /\ AsApproved(c).parent = cur[n]
    BY <1>4 DEF AsApproved
  <2>4. Approved' = Approved /\ AsApproved(c) \in Approved
    BY <1>4 DEF Approved, AsApproved
  <2>5. Ledger!Extend(n, AsApproved(c))
    BY <1>4, <2>2, <2>3, <2>4 DEF Ledger!Extend, Approved, AsApproved
  <2> QED
    BY <2>4, <2>5 DEF Ledger!Next, Approved, AsApproved
<1> QED
  BY <1>2, <1>3, <1>4, StepOfLedger DEF IInv

\* PBFT keeps the promise of QuorumLedger with quorums of 2F + 1 nodes: a block
\* is published only on top of a block that such a quorum holds, one level above
\* it, and every ledger grows by published blocks from its own tip
\* (EndorsementRequest4Future, ConfirmOfBlockOfPBFT).
THEOREM RefinesQuorumLedger == Spec => ImplementsLedger
<1>1. Init => Ledger!Init
  BY InitRefines
<1>2. IInv /\ IInv' /\ [Next]_vars => [Ledger!Next]_Ledger!vars
  BY StepRefines
<1> QED
  BY <1>1, <1>2, InvariantHolds, PTL DEF Spec, ImplementsLedger
=============================================================================
