------------------------------ MODULE ChainSync ------------------------------
(***************************************************************************)
(* How one node, Me, follows the chain of the others: the storager with its *)
(* block cache, the confirmer that fills the cache, the synchronisation     *)
(* requester with the analysis of the answers (CFRD and PBFT take the same  *)
(* one), and the responders of all the nodes, Me included.                  *)
(*                                                                          *)
(* The storager, the confirmer and the requester are three actors of Me     *)
(* that share the database, PeerExtension (pe), the block cache and the     *)
(* flag isSynching.  A database is the block on its top, since a block      *)
(* fixes the chain below it; storing and rolling back one block is atomic   *)
(* here and taken apart in BlockStore.                                      *)
(***************************************************************************)
EXTENDS Integers, Sequences, FiniteSetsExt, ConsensusCondition

CONSTANTS
    Node,        \* the vote nodes, all of them stable
    Me,          \* the node whose actors are modelled
    Seed,        \* the node that makes the genesis block
    Block,       \* the blocks there are
    NoBlock,     \* the top of an empty database
    Parent,      \* [Block -> Block \cup {NoBlock}]
    Main,        \* the blocks the consensus agrees on: a chain
    Starts,      \* where a behaviour may begin: the databases, and is Me past its start?
    Scale,       \* number_of_endorsement
    Reliable,    \* does every answer come in time?
    Lossy,       \* may the publication of a block miss Me?
    MaxPrompts,  \* bound: StartSync(false) sent by voter, endorser and blocker
    MaxRestarts  \* bound: restarts of Me

Top == Block \cup {NoBlock}

ASSUME NodeAssumption == IsFiniteSet(Node) /\ Me \in Node /\ Seed \in Node
ASSUME TreeAssumption == /\ IsFiniteSet(Block) /\ Block # {} /\ NoBlock \notin Block
                         /\ Parent \in [Block -> Top]
                         /\ Starts \subseteq [tip : [Node -> Top], running : BOOLEAN]
ASSUME BoundAssumption == /\ Scale \in Nat /\ MaxPrompts \in Nat /\ MaxRestarts \in Nat
                          /\ Reliable \in BOOLEAN /\ Lossy \in BOOLEAN

VARIABLES
    tip,       \* the database of each node
    pe,        \* Me: the chain status in PeerExtension; NoBlock if not read yet
    cache,     \* Me: pe.getBlockCacheMgr, by height
    inbox,     \* Me: BlockRestore messages from the requester to the storager
    batch,     \* Me: is a BatchStore message waiting?
    storer,    \* Me: the storager's progress in Handler
    reqs,      \* Me: messages to the requester
    sync,      \* Me: the requester's progress
    retry,     \* Me: the messages the requester's timer will send (at most one)
    joined,    \* Me: MemberListener.isStartSynch
    started,   \* Me: was startup_Consensus sent?
    published, \* ConfirmedBlock messages on their way to Me
    prompts, restarts

store == <<cache, inbox, batch, storer>>
life  == <<joined, started, restarts>>
vars  == <<tip, pe, store, reqs, sync, retry, life, published, prompts>>
-----------------------------------------------------------------------------
Below(b) == IF b = NoBlock THEN NoBlock ELSE Parent[b]

\* With a block S has the one below it.
Closed(S) == \A x \in S : Parent[x] \in S \cup {NoBlock}

\* Chain[b]: the blocks of the database whose top is b, the least closed set with b.
Chain == [b \in Top |-> {x \in Block : /\ b # NoBlock
                                      /\ \A S \in SUBSET Block : b \in S /\ Closed(S) => x \in S}]

\* A block has the hash of the one below it in its own.
ASSUME NoCycles == \A b \in Block : b \notin Chain[Parent[b]]

\* The agreed blocks are one chain, and the other nodes begin with a part of it.
ASSUME MainAssumption ==
    /\ Main \subseteq Block /\ Closed(Main)
    /\ \A x, y \in Main : x \in Chain[y] \/ y \in Chain[x]
    /\ \A s \in Starts : \A n \in Node \ {Me} : s.tip[n] \in Main \cup {NoBlock}

Height(b) == Cardinality(Chain[b])
Heights == {Height(b) : b \in Block}

\* The block at a height of a database, the previous hash of a top.
At(b, h) == IF h \in 1 .. Height(b) THEN CHOOSE x \in Chain[b] : Height(x) = h ELSE NoBlock
Agreed(n) == ConsensusConditionChecked("CFRD", Cardinality(Node), Scale, n)

NoAnswer == [top |-> NoBlock, at |-> NoBlock, come |-> FALSE]
IdleSync == [at |-> "idle", startup |-> FALSE, lh |-> 0, answers |-> [n \in Node |-> NoAnswer],
             to |-> 0, next |-> 1, end |-> 0, server |-> Me, again |-> FALSE]
IdleStorer == [at |-> "idle", loop |-> 1, max |-> 0, local |-> 0]

Synching == sync.at # "idle"
StartSync(f) == [kind |-> "start", startup |-> f, server |-> Me, max |-> 0]
StorageRequest(r, h) == [kind |-> "storage", startup |-> FALSE, server |-> r, max |-> h]

Cached == {h \in Heights : cache[h] # NoBlock}
EmptyCache == [h \in Heights |-> NoBlock]

Init ==
    /\ \E s \in Starts :
         /\ tip = s.tip /\ joined = s.running /\ started = s.running
         /\ pe = (IF s.running THEN s.tip[Me] ELSE NoBlock)
    /\ cache = EmptyCache /\ inbox = <<>> /\ batch = FALSE
    /\ storer = IdleStorer /\ sync = IdleSync
    /\ reqs = {} /\ retry = {}
    /\ published = {} /\ prompts = 0 /\ restarts = 0
-----------------------------------------------------------------------------
(* The other nodes.                                                         *)

Known == UNION {Chain[tip[n]] : n \in Node}
Held(b) == {n \in Node : b \in Chain[tip[n]]}

\* The consensus adds a block: r stores it and publishes it.  The block below
\* is at a quorum (CFRD, ParentHeldByQuorum).
Produce(r) ==
    \E b \in Main \ Known :
        /\ r # Me /\ Parent[b] = tip[r]
        /\ Parent[b] # NoBlock => Agreed(Cardinality(Held(Parent[b])))
        /\ Parent[b] = NoBlock => r = Seed
        /\ tip' = [tip EXCEPT ![r] = b]
        /\ \/ published' = published \cup {b}
           \/ Lossy /\ UNCHANGED published
    /\ UNCHANGED <<pe, store, reqs, sync, retry, life, prompts>>

\* Another node stores a block that exists.
Follow(r) ==
    \E b \in Main \cap Known :
        /\ r # Me /\ Parent[b] = tip[r]
        /\ tip' = [tip EXCEPT ![r] = b]
    /\ UNCHANGED <<pe, store, reqs, sync, retry, life, published, prompts>>

-----------------------------------------------------------------------------
(* The confirmer and the storager of Me.                                    *)

\* handler: a confirmed block goes into the cache, over what is there.
Confirm(b) ==
    /\ b \in published
    /\ published' = published \ {b}
    /\ cache' = [cache EXCEPT ![Height(b)] = b]
    /\ batch' = TRUE
    /\ UNCHANGED <<tip, pe, inbox, storer, reqs, sync, retry, life, prompts>>

\* Handler begins: it reads the keys of the cache once.
HandlerFrom(c) ==
    LET keys == {h \in Heights : c[h] # NoBlock} IN
    /\ pe' = IF pe = NoBlock THEN tip[Me] ELSE pe
    /\ storer' = IF keys = {} THEN storer
                 ELSE [at |-> "loop", loop |-> Min(keys), max |-> Max(keys),
                       local |-> Height(pe')]

\* receive BatchStore.
ReceiveBatchStore ==
    /\ storer.at = "idle" /\ batch
    /\ batch' = FALSE
    /\ HandlerFrom(cache)
    /\ UNCHANGED <<tip, cache, inbox, reqs, sync, retry, life, published, prompts>>

\* receive BlockRestore, from the requester.
ReceiveBlockRestore ==
    /\ storer.at = "idle" /\ inbox # <<>>
    /\ cache' = [cache EXCEPT ![Height(Head(inbox))] = Head(inbox)]
    /\ inbox' = Tail(inbox)
    /\ HandlerFrom(cache')
    /\ UNCHANGED <<tip, batch, reqs, sync, retry, life, published, prompts>>

\* Mutant: one round too many.
NextRound_Past(local) ==
    storer' = IF storer.loop > storer.max THEN IdleStorer
              ELSE [storer EXCEPT !.loop = @ + 1, !.local = local]

\* One round of the loop is over; after the last one Handler ends.
NextRound(local) ==
    storer' = IF storer.loop = storer.max THEN IdleStorer
              ELSE [storer EXCEPT !.loop = @ + 1, !.local = local]

\* Mutant: the block stays in the cache.
RemoveFromCache_Not == UNCHANGED cache

RemoveFromCache == cache' = [cache EXCEPT ![storer.loop] = NoBlock]

\* The block is not in the cache (any more): the exception ends Handler.
StoreMissing ==
    /\ storer.at = "loop" /\ cache[storer.loop] = NoBlock
    /\ storer' = IdleStorer
    /\ UNCHANGED <<tip, pe, cache, inbox, batch, reqs, sync, retry, life, published, prompts>>

\* Mutant: the requester is not told.
StoreGap_Silent ==
    /\ storer.at = "loop" /\ cache[storer.loop] # NoBlock /\ storer.loop > storer.local + 1
    /\ storer' = IdleStorer
    /\ UNCHANGED <<tip, pe, cache, inbox, batch, reqs, sync, retry, life, published, prompts>>

\* Blocks below the cached one are missing: NoticeSyncModule, unless the node
\* synchronises.  The requester shall ask the node the block came from, which
\* has at least the block below it.
StoreGap ==
    /\ storer.at = "loop" /\ cache[storer.loop] # NoBlock /\ storer.loop > storer.local + 1
    /\ \/ Synching /\ UNCHANGED reqs
       \/ /\ ~Synching
          /\ \E r \in Node \ {Me} :
               /\ Height(tip[r]) >= storer.loop - 1
               /\ reqs' = reqs \cup {StorageRequest(r, Max(Cached))}
    /\ storer' = IdleStorer
    /\ UNCHANGED <<tip, pe, cache, inbox, batch, sync, retry, life, published, prompts>>

\* RestoreBlock.
Restore ==
    LET b == cache[storer.loop] IN
    /\ storer.at = "loop" /\ b # NoBlock /\ storer.loop <= storer.local + 1
    /\ \/ /\ Height(b) = Height(pe) + 1 /\ Parent[b] = pe
          /\ RemoveFromCache
          /\ \/ /\ Parent[b] = tip[Me]
                /\ tip' = [tip EXCEPT ![Me] = b] /\ pe' = b
                /\ NextRound(Height(b))
             \/ /\ Parent[b] # tip[Me]
                /\ NextRound(storer.local) /\ UNCHANGED <<tip, pe>>
          /\ UNCHANGED reqs
       \/ /\ Height(b) = Height(pe) + 1 /\ Parent[b] # pe
          /\ RemoveFromCache
          /\ reqs' = reqs \cup {StartSync(FALSE)}
          /\ NextRound(storer.local) /\ UNCHANGED <<tip, pe>>
       \/ /\ Height(b) < Height(pe) + 1
          /\ RemoveFromCache
          /\ NextRound(storer.local) /\ UNCHANGED <<tip, pe, reqs>>
       \/ /\ Height(b) > Height(pe) + 1
          /\ NextRound(storer.local) /\ UNCHANGED <<tip, pe, reqs, cache>>
    /\ UNCHANGED <<inbox, batch, sync, retry, life, published, prompts>>

Storager == ReceiveBatchStore \/ ReceiveBlockRestore \/ StoreMissing \/ StoreGap \/ Restore

-----------------------------------------------------------------------------
(* The synchronisation requester of Me, which blocks while it waits.        *)

\* receive StartSync: clearSched cancels a retry that is pending; then every
\* node is asked for its chain and for the block at the local height.  With
\* too few stable nodes the message is dropped.
ReceiveStartSync ==
    \E q \in reqs :
        /\ sync.at = "idle" /\ q.kind = "start"
        /\ reqs' = reqs \ {q}
        /\ retry' = {}
        /\ pe' = IF pe = NoBlock THEN tip[Me] ELSE pe
        /\ \/ sync' = [IdleSync EXCEPT !.at = "asking", !.startup = q.startup, !.lh = Height(pe')]
           \/ ~Reliable /\ UNCHANGED sync
        /\ UNCHANGED <<tip, store, life, published, prompts>>

\* receive SyncRequestOfStorager.
ReceiveSyncRequest ==
    \E q \in reqs :
        /\ sync.at = "idle" /\ q.kind = "storage"
        /\ reqs' = reqs \ {q}
        /\ sync' = [IdleSync EXCEPT !.at = "fetching", !.server = q.server,
                                    !.next = Height(pe) + 1, !.end = q.max]
        /\ UNCHANGED <<tip, pe, store, retry, life, published, prompts>>

\* SynchronizeResponser of node n: its last block, and the block at the asked
\* height if that is below it.
Answer(n) ==
    /\ sync.at = "asking" /\ ~sync.answers[n].come
    /\ sync' = [sync EXCEPT !.answers[n] =
                  [top |-> tip[n], come |-> TRUE,
                   at |-> IF sync.lh < Height(tip[n]) THEN At(tip[n], sync.lh) ELSE NoBlock]]
    /\ UNCHANGED <<tip, pe, store, reqs, retry, life, published, prompts>>

Answered == {n \in Node : sync.answers[n].come}
AtTop(a) == {n \in Answered : sync.answers[n].top = a}
AtHeight(h) == {n \in Answered : Height(sync.answers[n].top) = h}
Leading(h, l) == {n \in AtHeight(h) : sync.answers[n].at = l}
AgreedBy(S) == Agreed(Cardinality(S))

\* What the analysis may come to.
Stop(again) == sync' = [sync EXCEPT !.at = "end", !.again = again]
Fetch(low, high, s) == sync' = [sync EXCEPT !.at = "fetching", !.next = low + 1, !.end = high,
                                            !.server = s]
Roll(to, low, high, s) == sync' = [sync EXCEPT !.at = "rolling", !.to = to, !.next = low + 1,
                                               !.end = high, !.server = s]

\* Mutant: the block below the last one is not compared.
GreaterThanLocalHeight_Unchecked(a) ==
    \E l \in Top :
        /\ AgreedBy(Leading(Height(a), l))
        /\ \E s \in AtTop(a) : IF l = pe THEN Fetch(Height(pe), Height(a), s)
                               ELSE Roll(Height(pe) - 1, Height(pe), Height(a), s)

\* The agreed height is above the local one: the block that the others have at
\* the asked height is compared with the last local block, read only now.
GreaterThanLocalHeight(a) ==
    IF pe = NoBlock THEN \E s \in AtHeight(Height(a)) : Fetch(0, Height(a), s)
    ELSE \/ /\ ~\E l \in Top : AgreedBy(Leading(Height(a), l))
            /\ Stop(FALSE)
         \/ \E l \in Top :
              /\ AgreedBy(Leading(Height(a), l))
              /\ \/ /\ l = pe
                    /\ \E s \in AtTop(a) \cap Leading(Height(a), l) : Fetch(Height(pe), Height(a), s)
                 \/ /\ l # pe /\ Below(pe) = Below(l)
                    /\ \E s \in AtTop(a) \cap Leading(Height(a), l) :
                         Roll(Height(pe) - 1, Height(pe), Height(a), s)
                 \/ l # pe /\ Below(pe) # Below(l) /\ Stop(FALSE)

\* The agreed height is the local one.
EqualLocalHeight(a) ==
    \/ /\ pe = NoBlock
       /\ \/ Seed \in AtHeight(1) /\ Fetch(0, 1, Seed)
          \/ Seed \notin AtHeight(1) /\ Stop(FALSE)
    \/ pe # NoBlock /\ pe = a /\ Stop(FALSE)
    \/ /\ pe # NoBlock /\ pe # a /\ Below(pe) = Below(a)
       /\ \E s \in AtTop(a) : Roll(Height(pe) - 1, Height(pe) - 1, Height(a), s)
    \/ pe # NoBlock /\ pe # a /\ Below(pe) # Below(a) /\ Stop(FALSE)

\* The agreed height is below the local one: looked at when the node starts.
LessThanLocalHeight(a) ==
    IF sync.startup /\ a # NoBlock /\ a \in Chain[tip[Me]] THEN Roll(Height(a), 0, 0, Me)
    ELSE Stop(FALSE)

\* Parser: an answer that has not come is one that timed out.
Analyze ==
    /\ sync.at = "asking"
    /\ Reliable => Answered = Node
    /\ \/ ~AgreedBy(Answered) /\ Stop(FALSE)
       \/ /\ AgreedBy(Answered)
          /\ ~\E h \in 0 .. Cardinality(Block) : AgreedBy(AtHeight(h))
          /\ Stop(TRUE)
       \/ \E h \in 0 .. Cardinality(Block) :
            /\ AgreedBy(AtHeight(h))
            /\ ~\E a \in Top : AgreedBy(AtTop(a))
            /\ Stop(FALSE)
       \/ \E a \in Top :
            /\ AgreedBy(AtTop(a))
            /\ \/ Height(a) > Height(pe) /\ GreaterThanLocalHeight(a)
               \/ Height(a) = Height(pe) /\ EqualLocalHeight(a)
               \/ Height(a) < Height(pe) /\ LessThanLocalHeight(a)
    /\ UNCHANGED <<tip, pe, store, reqs, retry, life, published, prompts>>

\* Mutant: `loop >= toHeight` for `loop > toHeight`.
Rollback_OneMore ==
    /\ sync.at = "rolling"
    /\ tip' = [tip EXCEPT ![Me] = IF Height(@) >= sync.to THEN At(@, sync.to - 1) ELSE @]
    /\ sync' = [sync EXCEPT !.at = IF sync.server = Me /\ sync.end = 0 THEN "reset" ELSE "fetching"]
    /\ UNCHANGED <<pe, store, reqs, retry, life, published, prompts>>

\* Handler: rollbackToheight ...
Rollback ==
    /\ sync.at = "rolling"
    /\ tip' = [tip EXCEPT ![Me] = IF Height(@) > sync.to THEN At(@, sync.to) ELSE @]
    /\ sync' = [sync EXCEPT !.at = IF sync.server = Me /\ sync.end = 0 THEN "reset" ELSE "fetching"]
    /\ UNCHANGED <<pe, store, reqs, retry, life, published, prompts>>

\* Mutant: pe keeps the block that was rolled back.
ResetStatus_Skipped ==
    /\ sync.at = "reset"
    /\ sync' = [sync EXCEPT !.at = "end"]
    /\ UNCHANGED <<tip, pe, store, reqs, retry, life, published, prompts>>

\* ... and pe is read anew, but only if there is nothing to fetch.
ResetStatus ==
    /\ sync.at = "reset"
    /\ pe' = tip[Me]
    /\ sync' = [sync EXCEPT !.at = "end"]
    /\ UNCHANGED <<tip, store, reqs, retry, life, published, prompts>>

\* getBlockDatas: a block that is in the cache is skipped, one that does not
\* come is asked for twice.
FetchBlock ==
    LET b == At(tip[sync.server], sync.next) IN
    /\ sync.at = "fetching" /\ sync.next <= sync.end
    /\ \/ /\ cache[sync.next] # NoBlock
          /\ UNCHANGED inbox
       \/ /\ cache[sync.next] = NoBlock /\ b # NoBlock
          /\ inbox' = Append(inbox, b)
       \/ /\ cache[sync.next] = NoBlock /\ (Reliable => b = NoBlock)
          /\ UNCHANGED inbox
    /\ sync' = [sync EXCEPT !.next = @ + 1]
    /\ UNCHANGED <<tip, pe, cache, batch, storer, reqs, retry, life, published, prompts>>

\* Mutant: no other try.
SyncEnd_Once ==
    /\ sync.at = "end" \/ (sync.at = "fetching" /\ sync.next > sync.end)
    /\ started' = (started \/ (sync.startup /\ ~sync.again))
    /\ sync' = IdleSync
    /\ UNCHANGED <<tip, pe, store, reqs, retry, joined, restarts, published, prompts>>

\* The end of receive: startup_Consensus, or another try in five seconds.
SyncEnd ==
    /\ sync.at = "end" \/ (sync.at = "fetching" /\ sync.next > sync.end)
    /\ started' = (started \/ (sync.startup /\ ~sync.again))
    /\ retry' = IF sync.again THEN {StartSync(sync.startup)} ELSE retry
    /\ sync' = IdleSync
    /\ UNCHANGED <<tip, pe, store, reqs, joined, restarts, published, prompts>>

Retry ==
    /\ retry # {}
    /\ reqs' = reqs \cup retry /\ retry' = {}
    /\ UNCHANGED <<tip, pe, store, sync, life, published, prompts>>

Requester == ReceiveStartSync \/ ReceiveSyncRequest \/ Analyze \/ Rollback \/ ResetStatus
             \/ FetchBlock \/ SyncEnd

-----------------------------------------------------------------------------
\* MemberListener: enough nodes are stable for the first time.
Join ==
    /\ ~joined /\ joined' = TRUE
    /\ reqs' = reqs \cup {StartSync(TRUE)}
    /\ UNCHANGED <<tip, pe, store, sync, retry, started, restarts, published, prompts>>

\* The voter (nothing stored yet), an endorser or a requester of endorsements
\* (another node is ahead) asks for a synchronisation.
Prompt ==
    /\ prompts < MaxPrompts /\ prompts' = prompts + 1
    /\ tip[Me] = NoBlock \/ \E n \in Node : Height(tip[n]) > Height(pe)
    /\ reqs' = reqs \cup {StartSync(FALSE)}
    /\ UNCHANGED <<tip, pe, store, sync, retry, life, published>>

\* Me stops and starts: what is in memory is gone.
Restart ==
    /\ restarts < MaxRestarts /\ restarts' = restarts + 1
    /\ pe' = NoBlock /\ cache' = EmptyCache /\ inbox' = <<>> /\ batch' = FALSE
    /\ storer' = IdleStorer /\ sync' = IdleSync /\ reqs' = {} /\ retry' = {}
    /\ joined' = FALSE /\ started' = FALSE
    /\ UNCHANGED <<tip, published, prompts>>

Next ==
    \/ \E n \in Node : Produce(n) \/ Follow(n) \/ Answer(n)
    \/ \E b \in Block : Confirm(b)
    \/ Storager \/ Requester \/ Retry \/ Join \/ Prompt \/ Restart

\* Every actor of Me handles what is in its mailbox, timers fire, the nodes
\* answer, and the others store the blocks that exist.
Fairness ==
    /\ \A n \in Node : WF_vars(Follow(n)) /\ WF_vars(Answer(n))
    /\ \A b \in Block : WF_vars(Confirm(b))
    /\ WF_vars(Storager) /\ WF_vars(Requester) /\ WF_vars(Retry) /\ WF_vars(Join)

Spec == Init /\ [][Next]_vars
FairSpec == Spec /\ Fairness
-----------------------------------------------------------------------------
(* Properties.                                                              *)

Hgt == 0 .. Cardinality(Block)
Request == [kind : {"start", "storage"}, startup : BOOLEAN, server : Node, max : Hgt]
StorerType == [at : {"idle", "loop"}, loop : Heights, max : Hgt, local : Hgt]
AnswerType == [top : Top, at : Top, come : BOOLEAN]
SyncType == [at : {"idle", "asking", "rolling", "reset", "fetching", "end"}, startup : BOOLEAN,
             lh : Hgt, answers : [Node -> AnswerType], to : Hgt, next : Nat, end : Hgt,
             server : Node, again : BOOLEAN]

\* Every variable keeps its type: cached blocks lie at their height, the
\* storager's loop stays within the heights there are, and at most one retry
\* is scheduled.
TypeOK ==
    /\ tip \in [Node -> Top] /\ pe \in Top
    /\ cache \in [Heights -> Top] /\ \A h \in Heights : cache[h] = NoBlock \/ Height(cache[h]) = h
    /\ inbox \in Seq(Block) /\ batch \in BOOLEAN
    /\ storer \in StorerType /\ sync \in SyncType
    /\ storer.at = "loop" => storer.max \in Heights /\ storer.loop <= storer.max
    /\ reqs \subseteq Request /\ retry \subseteq Request /\ Cardinality(retry) <= 1
    /\ joined \in BOOLEAN /\ started \in BOOLEAN
    /\ published \subseteq Main /\ prompts \in Nat /\ restarts \in Nat

\* Outside the synchronisation at the start no block of the agreed chain is
\* rolled back, although the answers tell of the block at the height that Me
\* had when it asked and are compared with the block it has now
\* (ISynchAnalyzer.greaterThanLocalHeight).  The exception is a node whose
\* chain was empty when it asked: AgreedBlockStays.
AgreedBlockKept ==
    [][\A b \in Main : b \in Chain[tip[Me]] /\ b \notin Chain[tip'[Me]]
                       => sync.at = "rolling" /\ (sync.startup \/ sync.lh = 0)]_vars

\* The same without that exception, which TLC refutes: asked for height 0 the
\* others name no block, genesis has none below it, and so the genesis block
\* that was stored in the meantime counts as forked and is rolled back.
AgreedBlockStays ==
    [][\A b \in Main : b \in Chain[tip[Me]] /\ b \notin Chain[tip'[Me]]
                       => sync.at = "rolling" /\ sync.startup]_vars

\* Unless it resets the status just now, PeerExtension shows the top of the
\* database, or has not read it yet, or still shows a forked block that was
\* rolled back, as it does when a rollback is followed by a fetch
\* (ISynchRequester.Handler, IStorager), or the database is empty, as the
\* rollback of AgreedBlockStays leaves it.
StatusIsTop ==
    sync.at # "reset" => \/ pe \in {NoBlock, tip[Me]}
                         \/ pe \notin Main /\ Height(tip[Me]) < Height(pe)
                         \/ tip[Me] = NoBlock

\* Me does not synchronise for its start.
Settled == [](~sync.startup)

\* A block whose publication reaches a running Me is stored by Me in the end,
\* with all the blocks below it (IStorager.Handler, SynchRequesterOfCFRD).
PublishedIsStored == Settled => \A b \in Block : b \in published ~> b \in Chain[tip[Me]]

\* No block stays in the cache for ever: it is stored or given up
\* (NoticeSyncModule asks for what is missing below it).
CacheDrains == Settled => \A h \in Heights : (cache[h] # NoBlock) ~> (cache[h] = NoBlock)

\* The start of the consensus modules is asked for in the end.
ConsensusStarts == <>started

\* ... but only once Me has the chain that the others agreed on when asked.
StartAfterSync ==
    [][~started /\ started' =>
         \E a \in Top : AgreedBy(AtTop(a)) /\ Height(a) <= Height(tip[Me])]_vars
=============================================================================
