------------------------------ MODULE RaftChain ------------------------------
(***************************************************************************)
(* The RAFT-like consensus of RepChain, the one the configuration selects:  *)
(* the node drawn on a block produces the next TermLength blocks alone and  *)
(* publishes them without any endorsement; then every node draws on the     *)
(* last of them.                                                            *)
(*                                                                          *)
(* A node has a voter, a blocker, a confirmer, a storager and a requester   *)
(* of the synchronisation, which share the database and PeerExtension (pe). *)
(* All vote nodes are in the cluster: with fewer this requester does        *)
(* nothing.  Gathering the answers and fetching the blocks is one step here *)
(* and taken apart in ChainSync; storing a block is taken apart in          *)
(* BlockStore.                                                              *)
(***************************************************************************)
EXTENDS Integers, FiniteSets

CONSTANTS
    Node,        \* the vote nodes
    Block,       \* block hashes
    Genesis,     \* the block of height 1, stored by every node
    NoHash,      \* "" as a hash, null as a block
    Creator,     \* [Block -> Node]: the node that produces the block
    DrawnOn,     \* [Block -> Node]: the first candidate the hash draws
    TermLength,  \* SystemProfile.getBlockNumberOfRaft
    Missed,      \* [Block -> SUBSET Node]: the nodes that may miss the block
    MaxRestarts  \* bound, [Node -> Nat]: restarts of each node

ASSUME NodesAssumption == IsFiniteSet(Node)
ASSUME BlocksAssumption ==
    /\ IsFiniteSet(Block) /\ Genesis \in Block /\ NoHash \notin Block
    /\ Creator \in [Block -> Node] /\ DrawnOn \in [Block -> Node]
    /\ Missed \in [Block -> SUBSET Node]
ASSUME BoundsAssumption == TermLength \in Nat \ {0} /\ MaxRestarts \in [Node -> Nat]

VARIABLES
    prev,      \* what is in a block: the hash of the block below it
    height,    \* ... and its height; -1 as long as nobody produced the block
    chain,     \* history: the blocks that the hashes lead to, down to the first one
    tip,       \* pe.getCurrentBlockHash of each node
    saved,     \* the top of the database; pe may show another block
    term,      \* the hash of the voter's draw, and its height
    startVote, \* pe.getStartVoteInfo, kept up to the first vote: nobody asks later
    confirmed, \* pe.getConfirmHeight
    create,    \* is a CreateBlock message on its way to the blocker?
    packing,   \* is the blocker in CreateBlockHandler, collecting transactions?
    preblock,  \* BlockerOfRAFT.preblock
    published, \* the blocks published so far
    mail,      \* ... and those on their way to each node
    cache,     \* pe.getBlockCacheMgr: blocks waiting for the storager
    sync,      \* is a StartSync message on its way to the requester?
    started,   \* did the requester let the module manager start the voter?
    restarts   \* how often a node was restarted

blockVars == <<prev, height, chain>>
chainVars == <<tip, saved>>
voterVars == <<term, startVote>>
blockerVars == <<packing, preblock>>
storerVars == <<mail, cache>>
lifeVars == <<started, restarts>>
vars == <<blockVars, chainVars, voterVars, confirmed, create, blockerVars, published,
          storerVars, sync, lifeVars>>

-----------------------------------------------------------------------------
Hash == Block \cup {NoHash}
NoTerm == [hash |-> NoHash, height |-> 0]

\* The block at a height of the chain that ends in b, or NoHash.
At(b, h) == IF \E x \in chain[b] : height[x] = h
            THEN CHOOSE x \in chain[b] : height[x] = h ELSE NoHash

\* Is a block in the chain that ends in b?
InChain(x, b) == At(b, height[x]) = x

Height(n) == height[tip[n]]

Init ==
    /\ prev = [b \in Block |-> NoHash]
    /\ height = [b \in Block |-> IF b = Genesis THEN 1 ELSE -1]
    /\ chain = [b \in Block |-> {b}]
    /\ tip = [n \in Node |-> Genesis]
    /\ saved = [n \in Node |-> Genesis]
    /\ term = [n \in Node |-> NoTerm]
    /\ startVote = [n \in Node |-> Genesis]
    /\ confirmed = [n \in Node |-> 0]
    /\ create = [n \in Node |-> FALSE]
    /\ packing = [n \in Node |-> FALSE]
    /\ preblock = [n \in Node |-> NoHash]
    /\ published = {}
    /\ mail = [n \in Node |-> {}]
    /\ cache = [n \in Node |-> {}]
    /\ sync = [n \in Node |-> FALSE]
    /\ started = [n \in Node |-> TRUE]
    /\ restarts = [n \in Node |-> 0]

-----------------------------------------------------------------------------
(* The voter (VoterOfRAFT).  Its timer and the storager send VoteOfBlocker  *)
(* again and again; the pool is taken to hold enough transactions.          *)

Drawn(n) == term[n].hash # NoHash /\ DrawnOn[term[n].hash] = n

\* getMaxHeight4SimpleRaft: a published block counts before it is stored.
MaxHeight(n) == IF confirmed[n] > Height(n) THEN confirmed[n] ELSE Height(n)

\* Mutant: the term counts from the highest block, not from the one drawn on.
ResetBlocker_FromTop(n, b) ==
    /\ term' = [term EXCEPT ![n] = [hash |-> b, height |-> MaxHeight(n)]]
    /\ confirmed' = [confirmed EXCEPT ![n] = 0]
    /\ create' = [create EXCEPT ![n] = @ \/ DrawnOn[b] = n]

\* resetBlocker, and NoticeBlockerMsg to the node's own blocker if it is drawn.
ResetBlocker(n, b) ==
    /\ term' = [term EXCEPT ![n] = [hash |-> b, height |-> height[b]]]
    /\ confirmed' = [confirmed EXCEPT ![n] = 0]
    /\ create' = [create EXCEPT ![n] = @ \/ DrawnOn[b] = n]

\* The first vote draws on the highest block seen by the start synchronisation.
VoteFirst(n) ==
    /\ started[n] /\ term[n] = NoTerm
    /\ ResetBlocker(n, IF startVote[n] = NoHash THEN tip[n] ELSE startVote[n])
    /\ startVote' = [startVote EXCEPT ![n] = NoHash]
    /\ UNCHANGED <<blockVars, chainVars, blockerVars, published, storerVars, sync,
                   lifeVars>>

\* Mutant: one block more than a term has.
TermOver_Late(n) == term[n] # NoTerm /\ term[n].height + TermLength < MaxHeight(n)

TermOver(n) == term[n] # NoTerm /\ term[n].height + TermLength <= MaxHeight(n)
Turn(n) == At(saved[n], term[n].height + TermLength)

\* The term is over: draw on its last block, or ask for it.
VoteNextTerm(n) ==
    /\ started[n] /\ TermOver(n)
    /\ \/ /\ Turn(n) # NoHash
          /\ ResetBlocker(n, Turn(n))
          /\ UNCHANGED sync
       \/ /\ Turn(n) = NoHash
          /\ sync' = [sync EXCEPT ![n] = TRUE]
          /\ UNCHANGED <<term, confirmed, create>>
    /\ UNCHANGED <<blockVars, chainVars, startVote, blockerVars, published, storerVars, lifeVars>>

\* The term goes on: the drawn node's blocker is told again.
VoteAgain(n) ==
    /\ started[n] /\ ~TermOver(n) /\ Drawn(n)
    /\ create' = [create EXCEPT ![n] = TRUE]
    /\ UNCHANGED <<blockVars, chainVars, voterVars, confirmed, blockerVars, published,
                   storerVars, sync, lifeVars>>

-----------------------------------------------------------------------------
(* The blocker (BlockerOfRAFT).  It asks pe for the draw and the hash in its  *)
(* guard, and for the hash and the height when it has the transactions.      *)

\* Mutant: the block made earlier on the same hash is not looked at.
CreateBlock_Always(n) ==
    /\ create[n] /\ ~packing[n]
    /\ create' = [create EXCEPT ![n] = FALSE]
    /\ packing' = [packing EXCEPT ![n] = Drawn(n)]
    /\ UNCHANGED <<blockVars, chainVars, voterVars, confirmed, preblock, published, storerVars,
                   sync, lifeVars>>

\* receive CreateBlock.
CreateBlock(n) ==
    /\ create[n] /\ ~packing[n]
    /\ create' = [create EXCEPT ![n] = FALSE]
    /\ packing' = [packing EXCEPT ![n] =
                     Drawn(n) /\ (preblock[n] # NoHash => prev[preblock[n]] # tip[n])]
    /\ UNCHANGED <<blockVars, chainVars, voterVars, confirmed, preblock, published, storerVars,
                   sync, lifeVars>>

\* The blocks that n may still produce.
Unused(n) == {b \in Block : height[b] = -1 /\ Creator[b] = n}

\* PackedBlock and CreateBlockHandler: the block goes on what pe shows by now; it
\* is signed and published.  Which hash it gets is all one.
PackBlock(n) ==
    LET b == CHOOSE b \in Unused(n) : TRUE IN
    /\ packing[n] /\ Unused(n) # {}
    /\ packing' = [packing EXCEPT ![n] = FALSE]
    /\ prev' = [prev EXCEPT ![b] = tip[n]]
    /\ height' = [height EXCEPT ![b] = Height(n) + 1]
    /\ chain' = [chain EXCEPT ![b] = chain[tip[n]] \cup {b}]
    /\ preblock' = [preblock EXCEPT ![n] = b]
    /\ published' = published \cup {b}
    /\ \E D \in SUBSET Missed[b] :
         mail' = [m \in Node |-> mail[m] \cup {x \in {b} : m \notin D}]
    /\ UNCHANGED <<chainVars, voterVars, confirmed, create, cache, sync, lifeVars>>

-----------------------------------------------------------------------------
(* The confirmer (IConfirmOfBlock, ConfirmBlockOfRAFT) and the storager     *)
(* (IStorager, StoragerOfRAFT).                                             *)

\* A block reaches the node; one block of a height replaces another.
Confirm(n) ==
    \E b \in mail[n] :
        /\ mail' = [mail EXCEPT ![n] = @ \ {b}]
        /\ \/ /\ height[b] > Height(n)
              /\ cache' = [cache EXCEPT ![n] = {x \in @ : height[x] # height[b]} \cup {b}]
              /\ confirmed' = [confirmed EXCEPT ![n] = height[b]]
           \/ height[b] <= Height(n) /\ UNCHANGED <<cache, confirmed>>
        /\ UNCHANGED <<blockVars, chainVars, voterVars, create, blockerVars, published, sync,
                       lifeVars>>

\* Mutant: the block right above the node's height is left out.
Fetched_SkipsFirst(n, r, from, to) ==
    {At(saved[r], h) : h \in (from + 1 .. to) \ {height[c] : c \in cache[n]}} \ {NoHash}

\* getBlockDatas: the blocks of r from one height to another go to the storager,
\* but for the heights that are in the cache already.
Fetched(n, r, from, to) ==
    {At(saved[r], h) : h \in (from .. to) \ {height[c] : c \in cache[n]}} \ {NoHash}

\* The storager is between the commit and the new chain status of pe.
Saving(n) == height[saved[n]] > Height(n)

\* The storager looks at the lowest cached block.
Lowest(n, b) == b \in cache[n] /\ \A x \in cache[n] : height[b] <= height[x]

\* Mutant: the previous hash is not compared.
Fits_AnyParent(n, b) == height[b] = Height(n) + 1

\* RestoreBlock asks for the height and the previous hash that pe shows.
Fits(n, b) == height[b] = Height(n) + 1 /\ prev[b] = tip[n]

\* SaveBlock: the block that fits is committed, if it fits the database too ...
Commit(n) ==
    \E b \in cache[n] :
        /\ Lowest(n, b) /\ Fits(n, b) /\ saved[n] = tip[n]
        /\ saved' = [saved EXCEPT ![n] = b]
        /\ UNCHANGED <<blockVars, tip, voterVars, confirmed, create, blockerVars, published,
                       storerVars, sync, lifeVars>>

\* ... and then shown by pe, and taken out of the cache.
Show(n) ==
    /\ Saving(n)
    /\ tip' = [tip EXCEPT ![n] = saved[n]]
    /\ cache' = [cache EXCEPT ![n] = {b \in @ : height[b] # height[saved[n]]}]
    /\ UNCHANGED <<blockVars, saved, voterVars, confirmed, create, blockerVars, published, mail,
                   sync, lifeVars>>

\* RestoreBlock: a block that does not fit leaves the cache, and if only its
\* previous hash is wrong the requester is told.
Refuse(n) ==
    \E b \in cache[n] :
        /\ Lowest(n, b) /\ height[b] <= Height(n) + 1 /\ ~Saving(n)
        /\ ~(Fits(n, b) /\ saved[n] = tip[n])
        /\ cache' = [cache EXCEPT ![n] = @ \ {b}]
        /\ sync' = [sync EXCEPT ![n] = @ \/ (height[b] = Height(n) + 1 /\ prev[b] # tip[n])]
        /\ UNCHANGED <<blockVars, chainVars, voterVars, confirmed, create, blockerVars, published,
                       mail, lifeVars>>

\* NoticeSyncModule: blocks are missing below the lowest cached one, and the
\* requester fetches them from the node that produced it.
Gap(n) ==
    \E b, c \in cache[n] :
        /\ Lowest(n, b) /\ height[b] > Height(n) + 1 /\ ~Saving(n)
        /\ \A x \in cache[n] : height[x] <= height[c]
        /\ cache' = [cache EXCEPT ![n] = @ \cup Fetched(n, Creator[b], Height(n) + 1, height[c])]
        /\ UNCHANGED <<blockVars, chainVars, voterVars, confirmed, create, blockerVars, published,
                       mail, sync, lifeVars>>

-----------------------------------------------------------------------------
(* The requester (SynchRequesterOfRAFT, ISynchRequester, and the analysis   *)
(* of IRAFTSynchAnalyzer).                                                  *)

Highest(r) == \A m \in Node : height[saved[m]] <= height[saved[r]]

\* receive StartSync: follow one of the nodes with the highest answer.  With its
\* own block in that chain, the node fetches what is above.  With another block
\* on the same parent, its own is rolled back, but pe still shows it, and what
\* is fetched will not fit.  Otherwise the synchronisation just ends.
StartSync(n) ==
    \E r \in Node :
        LET top == saved[r]
            same == At(top, Height(n)) = tip[n]
            sibling == ~same /\ prev[At(top, Height(n))] = prev[tip[n]]
            follows == height[top] >= Height(n) /\ (same \/ sibling)
            from == IF same THEN Height(n) + 1 ELSE Height(n)
        IN
        /\ sync[n] /\ Highest(r)
        /\ sync' = [sync EXCEPT ![n] = FALSE]
        /\ started' = [started EXCEPT ![n] = TRUE]
        /\ startVote' = [startVote EXCEPT ![n] = IF follows /\ term[n] = NoTerm THEN top ELSE @]
        /\ saved' = [saved EXCEPT ![n] = IF follows /\ sibling THEN prev[tip[n]] ELSE @]
        /\ cache' = [cache EXCEPT ![n] =
                       @ \cup {b \in Fetched(n, r, from, height[top]) : follows}]
        /\ UNCHANGED <<blockVars, tip, term, confirmed, create, blockerVars, published, mail,
                       restarts>>

\* The process stops and starts again: only the database is left, and the start
\* synchronisation comes first.
Restart(n) ==
    /\ restarts[n] < MaxRestarts[n]
    /\ restarts' = [restarts EXCEPT ![n] = @ + 1]
    /\ tip' = [tip EXCEPT ![n] = saved[n]]
    /\ term' = [term EXCEPT ![n] = NoTerm]
    /\ startVote' = [startVote EXCEPT ![n] = NoHash]
    /\ confirmed' = [confirmed EXCEPT ![n] = 0]
    /\ create' = [create EXCEPT ![n] = FALSE]
    /\ packing' = [packing EXCEPT ![n] = FALSE]
    /\ preblock' = [preblock EXCEPT ![n] = NoHash]
    /\ mail' = [mail EXCEPT ![n] = {}]
    /\ cache' = [cache EXCEPT ![n] = {}]
    /\ sync' = [sync EXCEPT ![n] = TRUE]
    /\ started' = [started EXCEPT ![n] = FALSE]
    /\ UNCHANGED <<blockVars, saved, published>>

-----------------------------------------------------------------------------
Next == \E n \in Node :
    \/ VoteFirst(n) \/ VoteNextTerm(n) \/ VoteAgain(n)
    \/ CreateBlock(n) \/ PackBlock(n)
    \/ Confirm(n) \/ Commit(n) \/ Show(n) \/ Refuse(n) \/ Gap(n)
    \/ StartSync(n) \/ Restart(n)

Spec == Init /\ [][Next]_vars

\* Every actor goes on: messages are handled, the voter's timer rings again and
\* again, and the pool fills up.  Nobody has to restart.
Fairness == \A n \in Node :
    /\ WF_vars(VoteFirst(n) \/ VoteNextTerm(n) \/ VoteAgain(n))
    /\ WF_vars(CreateBlock(n) \/ PackBlock(n))
    /\ WF_vars(Confirm(n)) /\ WF_vars(Commit(n) \/ Show(n) \/ Refuse(n) \/ Gap(n)) /\ WF_vars(StartSync(n))

FairSpec == Spec /\ Fairness

-----------------------------------------------------------------------------
(* Properties.                                                              *)

\* Every variable has its type; a draw is on a published block and counts from
\* its height.
TypeOK ==
    /\ prev \in [Block -> Hash] /\ height \in [Block -> {-1} \cup 1 .. Cardinality(Block)]
    /\ chain \in [Block -> SUBSET Block]
    /\ tip \in [Node -> Block] /\ saved \in [Node -> Block]
    /\ term \in [Node -> {NoTerm} \cup {[hash |-> b, height |-> height[b]] :
                                         b \in published \cup {Genesis}}]
    /\ startVote \in [Node -> Hash] /\ confirmed \in [Node -> Nat]
    /\ create \in [Node -> BOOLEAN] /\ sync \in [Node -> BOOLEAN]
    /\ packing \in [Node -> BOOLEAN]
    /\ preblock \in [Node -> Hash] /\ published \subseteq Block
    /\ mail \in [Node -> SUBSET published] /\ cache \in [Node -> SUBSET published]
    /\ started \in [Node -> BOOLEAN] /\ restarts \in [Node -> Nat]

\* The block that ends the term below a height, in the chain below b.
TermEnd(b) == At(b, 1 + TermLength * ((height[b] - 2) \div TermLength))

\* A block of the node drawn on the end of the term before, on a block one lower.
InTerm(b) ==
    b # Genesis => /\ height[b] = height[prev[b]] + 1
                   /\ TermEnd(b) # NoHash /\ Creator[b] = DrawnOn[TermEnd(b)]

\* What the comment of BlockerOfRAFT.PackedBlock asks for: a block is built by
\* the result of the draw.  The code reads the chain status anew instead.
BuiltInTerm == \A b \in published : InTerm(b)

\* While every block is built by the result of the draw, and no producer was
\* restarted, no two blocks of a height are published, although nobody endorses
\* a block: the voters agree on whose turn it is, and the blocker remembers the
\* block it made (VoterOfRAFT.vote, BlockerOfRAFT.receive).
AgreeInTerm ==
    (BuiltInTerm /\ \A b \in published : restarts[Creator[b]] = 0)
        => \A b, c \in published : height[b] = height[c] => b = c

\* What a node has stored is never given up for another branch: only a rollback
\* takes the top block away (StoragerOfRAFT, SynchRequesterOfRAFT).
ChainGrows == [][\A n \in Node : InChain(tip[n], tip'[n]) \/ saved[n] = prev[tip[n]]]_vars

\* While every block is built by the result of the draw, every node comes level
\* with the blocks that reach it, whatever it missed below them (IStorager.Handler,
\* SynchRequesterOfRAFT.receive).
FollowersComeLevel ==
    []<>(BuiltInTerm => \A b \in published, n \in Node :
                           n \notin Missed[b] /\ restarts[n] = 0 => InChain(b, tip[n]))

\* The term is handed over: once its last block is published, the node drawn on
\* that block takes its turn, unless a block was built out of turn or that node
\* draws from a restart (VoterOfRAFT.vote).
TermIsHandedOver ==
    []<>(BuiltInTerm => \A b \in published :
           (height[b] - 1) % TermLength = 0 /\ restarts[DrawnOn[b]] = 0
               => term[DrawnOn[b]].height >= height[b])
=============================================================================
