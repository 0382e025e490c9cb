--------------------------- MODULE TransactionPool ---------------------------
(***************************************************************************)
(* The transaction pool of one node, Me, and the actors that work on it:    *)
(* the pool actor and its threads put transactions in, the blocker copies   *)
(* them out to make a block, the storager removes the transactions of every *)
(* block it has stored, and the pool is saved when the node is shut down.   *)
(*                                                                          *)
(* TransactionPoolMgr guards every single operation by one lock, so an      *)
(* operation is a step; what its callers have read before is not guarded.   *)
(* The pool is ordered by the time of entry, taken to be different for any  *)
(* two entries.  A block holds a transaction at most once: those of other   *)
(* nodes, and those of Me once endorsed, have passed the endorsers' check   *)
(* against their databases (Endorser4Future.checkRepeatOfTrans).            *)
(***************************************************************************)
EXTENDS Integers, SequencesExt

CONSTANTS
    Tx,            \* transactions
    Size,          \* [Tx -> Nat]: bytes
    Elsewhere,     \* the transactions that other nodes may put into their blocks
    Worker,        \* threads of the pool actor (ITransactionPool.works)
    Modes,         \* is_use_validator as "pool" (TRUE) or "worker" (FALSE)
    CheckOnEntry,  \* has_preload_trans_of_api
    MaxCache,      \* max_cache_num; 0: no limit
    Limit,         \* trans_num_limit
    Least,         \* trans_num_min
    BlockLength,   \* block_length
    Persist,       \* is_persistence_tx_to_db
    MaxReceived, MaxFaults, MaxStops  \* bounds: transactions received; failed saves; stops

ASSUME PoolAssumption ==
    /\ Size \in [Tx -> Nat \ {0}] /\ Elsewhere \subseteq Tx /\ IsFiniteSet(Worker) /\ Modes \subseteq {"pool", "worker"}
    /\ CheckOnEntry \in BOOLEAN /\ Persist \in BOOLEAN
    /\ MaxCache \in Nat /\ Limit \in Nat \ {0} /\ Least \in Nat \ {0} /\ BlockLength \in Nat
    /\ MaxReceived \in Nat /\ MaxFaults \in Nat /\ MaxStops \in Nat

VARIABLES
    mode,      \* a setting, the same in a whole behaviour
    status,    \* "up", "leaving" once the pool is saved, or "down"
    pool,      \* transactions, transKeys, transNumber
    aged,      \* those in the pool that have waited too long
    tasks,     \* the queue of the threads
    work,      \* each thread's progress
    chain,     \* the database: the transactions of each block
    pe,        \* the height in pe's chain status
    draw,      \* the voter's draw: the height it is on, and is Me drawn?
    pack,      \* the blocker's progress in CreateBlockHandler
    preblock,  \* BlockerOfCFRD.preblock
    blocks,    \* history: the blocks made by Me
    storer,    \* the storager's progress in SaveBlock
    saved,     \* the pool saved in the database
    counts     \* what is bounded

entry == <<tasks, work>>
block == <<draw, pack, preblock, blocks>>
base  == <<chain, pe, storer>>
vars  == <<mode, status, pool, aged, entry, base, block, saved, counts>>
-----------------------------------------------------------------------------
Idle == [at |-> "idle", tx |-> {}]
IdlePack == [at |-> "idle", start |-> 0, txs |-> <<>>, from |-> 0]
NoBlock == [on |-> 0, txs |-> <<>>, from |-> 0]
IdleStorer == [at |-> "idle", txs |-> {}, kept |-> <<>>]

\* A sequence without the elements of S: the other positions, in ascending order.
Without(s, S) ==
    LET left == {i \in DOMAIN s : s[i] \notin S}
        Rank(i) == Cardinality({j \in left : j <= i})
    IN [k \in 1 .. Cardinality(left) |-> s[CHOOSE i \in left : Rank(i) = k]]

StoredTo(h) == UNION {chain[i] : i \in 1 .. h}
Stored == StoredTo(Len(chain))

Init ==
    /\ mode \in Modes /\ status = "up"
    /\ pool = <<>> /\ aged = {} /\ saved = <<>>
    /\ tasks = <<>> /\ work = [w \in Worker |-> Idle]
    /\ chain = <<{}>> /\ pe = 1          \* the genesis block
    /\ storer = IdleStorer
    /\ draw = [on |-> 0, me |-> FALSE] /\ pack = IdlePack
    /\ preblock = NoBlock /\ blocks = {}
    /\ counts = [received |-> 0, faults |-> 0, stops |-> 0]

Count(c, max) == counts[c] < max /\ counts' = [counts EXCEPT ![c] = @ + 1]
-----------------------------------------------------------------------------
(* Entry: ITransactionPool and TransactionPoolWorker.                       *)

\* Mutant: one more than max_cache_num.
HasRoom_AtLimit == MaxCache = 0 \/ Len(pool) <= MaxCache

HasRoom == MaxCache = 0 \/ Len(pool) < MaxCache

\* Mutant: transKeys is not asked.
PutTran_Again(s, t) == Append(s, t)

\* putTran.
PutTran(s, t) == IF t \in ToSet(s) THEN s ELSE Append(s, t)

\* receive Transaction: put by the actor itself, or left to a thread.
Receive(t) ==
    /\ status # "down" /\ Count("received", MaxReceived)
    /\ \/ mode = "pool" /\ pool' = (IF HasRoom THEN PutTran(pool, t) ELSE pool) /\ UNCHANGED tasks
       \/ mode = "worker" /\ tasks' = Append(tasks, t) /\ UNCHANGED pool
    /\ UNCHANGED <<mode, status, aged, work, base, block, saved>>

\* DoWork: a thread checks the transaction against pool and database ...
WorkCheck(w) ==
    /\ work[w].at = "idle" /\ tasks # <<>>
    /\ tasks' = Tail(tasks)
    /\ work' = IF CheckOnEntry /\ Head(tasks) \in ToSet(pool) \cup Stored THEN work
               ELSE [work EXCEPT ![w] = [at |-> "checked", tx |-> {Head(tasks)}]]
    /\ UNCHANGED <<mode, status, pool, aged, base, block, saved, counts>>

\* ... then the number of transactions in the pool ...
WorkRoom(w) ==
    /\ work[w].at = "checked"
    /\ work' = [work EXCEPT ![w] = IF HasRoom THEN [@ EXCEPT !.at = "room"] ELSE Idle]
    /\ UNCHANGED <<mode, status, pool, aged, tasks, base, block, saved, counts>>

\* ... and puts it into the pool, whatever happened since.
WorkPut(w) ==
    /\ work[w].at = "room"
    /\ \E t \in work[w].tx : pool' = PutTran(pool, t)
    /\ work' = [work EXCEPT ![w] = Idle]
    /\ UNCHANGED <<mode, status, aged, tasks, base, block, saved, counts>>

\* Time passes: the oldest transaction has waited for transcation_waiting.
Age ==
    /\ Without(pool, aged) # <<>>
    /\ aged' = aged \cup {Head(Without(pool, aged))}
    /\ UNCHANGED <<mode, status, pool, entry, base, block, saved, counts>>

-----------------------------------------------------------------------------
(* Making a block: CreateBlockHandler and PackedBlock of the blocker.       *)

\* The voter draws on pe's hash, if there are enough transactions.
Vote(me) ==
    /\ status # "down" /\ Len(pool) >= Least
    /\ draw' = [on |-> pe, me |-> me]
    /\ UNCHANGED <<mode, status, pool, aged, entry, base, pack, preblock, blocks, saved, counts>>

\* receive CreateBlock: Me is drawn and has no block on this hash yet.
CreateBlock ==
    /\ status # "down" /\ pack.at = "idle"
    /\ draw.me /\ draw.on = pe /\ preblock.on # draw.on
    /\ pack' = [IdlePack EXCEPT !.at = "collecting"]
    /\ UNCHANGED <<mode, status, pool, aged, entry, base, draw, preblock, blocks, saved, counts>>

\* Mutant: the database is not asked.
Fresh_Unchecked == Without(pool, aged)

\* getTransListClone: the entries that are neither too old nor stored, from a
\* position on; `count <= num` lets one more than num pass.
Fresh == Without(pool, aged \cup Stored)
Page(start, num) ==
    SubSeq(Fresh, start + 1, IF Len(Fresh) < start + num + 1 THEN Len(Fresh) ELSE start + num + 1)

\* Mutant: only the database is looked at, not the time of entry.
Purged_KeepsAged(start, num) == ToSet(pool) \cap Stored

\* ... and the others it met on the way are removed.
Purged(start, num) ==
    LET last == start + num + 1 IN
    {pool[i] : i \in {j \in 1 .. Len(pool) :
        /\ pool[j] \in aged \cup Stored
        /\ Len(Fresh) >= last => \E k \in (j + 1) .. Len(pool) : pool[k] = Fresh[last]}}

\* CollectedTransOfBlock takes the first ones, a third of the block's length.
Fitting(page) ==
    LET Bytes(n) == MapThenSumSet(LAMBDA i : Size[page[i]], 1 .. n)
    IN SubSeq(page, 1, Cardinality({n \in 1 .. Len(page) : 3 * Bytes(n) <= BlockLength}))

\* CollectedTransOfBlock.  If not even the first transaction fits, it goes on
\* `num` positions later, without those in between.
Collect ==
    LET page == Page(pack.start, Limit)
        txs == Fitting(page)
    IN
    /\ pack.at = "collecting"
    /\ pool' = Without(pool, Purged(pack.start, Limit))
    /\ aged' = aged \cap ToSet(pool')
    /\ pack' = IF txs = <<>> /\ Len(page) >= Least THEN [pack EXCEPT !.start = @ + Limit]
               ELSE IF Len(txs) >= Least
               THEN [pack EXCEPT !.at = "collected", !.txs = txs, !.from = Len(chain)]
               ELSE IdlePack
    /\ UNCHANGED <<mode, status, entry, base, draw, preblock, blocks, saved, counts>>

\* PackedBlock reads the draw and lets the block be executed, which is done on
\* pe's hash only.
Pack ==
    /\ pack.at = "collected" /\ draw.on = pe
    /\ preblock' = [on |-> draw.on, txs |-> pack.txs, from |-> pack.from]
    /\ blocks' = blocks \cup {preblock'}
    /\ pack' = IdlePack
    /\ UNCHANGED <<mode, status, pool, aged, entry, base, draw, saved, counts>>

\* The execution fails or does not answer: PackedBlock tries the next ones.
PackAgain ==
    /\ pack.at = "collected"
    /\ pack' = [IdlePack EXCEPT !.at = "collecting", !.start = pack.start + Len(pack.txs)]
    /\ UNCHANGED <<mode, status, pool, aged, entry, base, draw, preblock, blocks, saved, counts>>

-----------------------------------------------------------------------------
(* The storager: RestoreBlock and SaveBlock on a block that was agreed on.  *)

Begin(txs) ==
    /\ status # "down" /\ storer.at = "idle" /\ txs \cap Stored = {}
    /\ storer' = [IdleStorer EXCEPT !.at = "open", !.txs = txs]
    /\ UNCHANGED <<mode, status, pool, aged, entry, chain, pe, block, saved, counts>>

\* A block of Me on the last block, or a block of another node.
BeginOwn == \E b \in blocks : b.on = Len(chain) /\ Begin(ToSet(b.txs))
BeginOther == \E txs \in SUBSET Elsewhere \ {{}} : Begin(txs)

\* restoreBlock commits: also what was put into its transaction meanwhile.
SaveCommit ==
    /\ storer.at = "open"
    /\ chain' = Append(chain, storer.txs)
    /\ saved' = IF storer.kept # <<>> THEN storer.kept ELSE saved
    /\ storer' = [storer EXCEPT !.at = "saved", !.kept = <<>>]
    /\ UNCHANGED <<mode, status, pool, aged, entry, pe, block, counts>>

\* Mutant: the transactions are removed from the pool whether or not the block
\* was saved.
SaveFail_Removes ==
    /\ storer.at = "open" /\ Count("faults", MaxFaults)
    /\ pool' = Without(pool, storer.txs) /\ aged' = aged \ storer.txs
    /\ storer' = IdleStorer
    /\ UNCHANGED <<mode, status, entry, chain, pe, block, saved>>

\* ... or fails: its transaction is given up.
SaveFail ==
    /\ storer.at = "open" /\ Count("faults", MaxFaults)
    /\ storer' = IdleStorer
    /\ UNCHANGED <<mode, status, pool, aged, entry, chain, pe, block, saved>>

\* removeTrans, then pe's chain status.
RemoveTrans ==
    /\ storer.at = "saved"
    /\ pool' = Without(pool, storer.txs) /\ aged' = aged \ storer.txs
    /\ storer' = [storer EXCEPT !.at = "removed"]
    /\ UNCHANGED <<mode, status, entry, chain, pe, block, saved, counts>>

SetStatus ==
    /\ storer.at = "removed"
    /\ pe' = Len(chain)
    /\ storer' = IdleStorer
    /\ UNCHANGED <<mode, status, pool, aged, entry, chain, block, saved, counts>>

-----------------------------------------------------------------------------
(* ClusterSystem.terminateOfSystem, and the start of the node.              *)

\* saveTransaction: into the database, or into the storager's transaction.
SavePool ==
    /\ status = "up" /\ counts.stops < MaxStops
    /\ status' = "leaving"
    /\ \/ ~Persist /\ UNCHANGED <<saved, storer>>
       \/ Persist /\ storer.at # "open" /\ saved' = pool /\ UNCHANGED storer
       \/ Persist /\ storer.at = "open" /\ storer' = [storer EXCEPT !.kept = pool] /\ UNCHANGED saved
    /\ UNCHANGED <<mode, pool, aged, entry, chain, pe, block, counts>>

\* The process ends, in order or not.
Stop ==
    /\ status # "down" /\ Count("stops", MaxStops)
    /\ status' = "down"
    /\ pool' = <<>> /\ aged' = {} /\ tasks' = <<>> /\ work' = [w \in Worker |-> Idle]
    /\ draw' = [on |-> 0, me |-> FALSE] /\ pack' = IdlePack /\ preblock' = NoBlock
    /\ storer' = IdleStorer
    /\ UNCHANGED <<mode, chain, pe, blocks, saved>>

\* readTransaction, and pe takes the height from the database.
Start ==
    /\ status = "down" /\ status' = "up"
    /\ pool' = saved /\ saved' = <<>>
    /\ pe' = Len(chain)
    /\ UNCHANGED <<mode, aged, entry, chain, storer, block, counts>>

-----------------------------------------------------------------------------
Pool == \E w \in Worker : WorkCheck(w) \/ WorkRoom(w) \/ WorkPut(w)
Blocker == Collect \/ Pack \/ PackAgain
Storager == SaveCommit \/ SaveFail \/ RemoveTrans \/ SetStatus
Process == SavePool \/ Stop \/ Start

Next == \/ \E t \in Tx : Receive(t)
        \/ \E me \in BOOLEAN : Vote(me)
        \/ Pool \/ Age \/ CreateBlock \/ Blocker \/ BeginOwn \/ BeginOther \/ Storager \/ Process

\* The actors handle what is in their mailboxes; time passes; Me is drawn now and
\* then, and the message CreateBlock that follows comes in time; a block of Me is
\* endorsed, unless it repeats a transaction.
Fairness == /\ WF_vars(Age) /\ WF_vars(Vote(TRUE)) /\ SF_vars(CreateBlock) /\ WF_vars(Blocker)
            /\ SF_vars(BeginOwn) /\ WF_vars(Storager) /\ WF_vars(Start)

Spec == Init /\ [][Next]_vars
FairSpec == Spec /\ Fairness
-----------------------------------------------------------------------------
(* Properties.                                                              *)

\* Every variable keeps its type, and the pool no transaction twice.
TypeOK ==
    /\ mode \in Modes /\ status \in {"up", "leaving", "down"}
    /\ pool \in Seq(Tx) /\ IsInjective(pool) /\ aged \subseteq ToSet(pool)
    /\ saved \in Seq(Tx) /\ IsInjective(saved)
    /\ tasks \in Seq(Tx)
    /\ work \in [Worker -> [at : {"idle", "checked", "room"}, tx : SUBSET Tx]]
    /\ chain \in Seq(SUBSET Tx) /\ pe \in 1 .. Len(chain)
    /\ draw \in [on : 0 .. pe, me : BOOLEAN]
    /\ pack \in [at : {"idle", "collecting", "collected"}, start : Nat, txs : Seq(Tx), from : Nat]
    /\ preblock \in [on : Nat, txs : Seq(Tx), from : Nat]
    /\ blocks \subseteq [on : 1 .. pe, txs : Seq(Tx), from : 1 .. Len(chain)]
    /\ storer \in [at : {"idle", "open", "saved", "removed"}, txs : SUBSET Tx, kept : Seq(Tx)]
    /\ counts \in [received : 0 .. MaxReceived, faults : 0 .. MaxFaults, stops : 0 .. MaxStops]

\* The pool outgrows max_cache_num by no more than one transaction for every
\* thread but one, over all stops and starts, although each thread looks at
\* the number before it puts (TransactionPoolWorker.DoWork).
PoolWithinLimit ==
    MaxCache > 0 =>
        Len(pool) <= IF mode = "pool" THEN MaxCache ELSE MaxCache + Cardinality(Worker) - 1

\* While the node runs, a transaction leaves its pool only if it is in the
\* database or has waited too long (getTransListClone, removeTrans).
LeavesStoredOrAged ==
    [][status' # "down" => ToSet(pool) \ ToSet(pool') \subseteq Stored' \cup aged]_vars

\* A block of Me repeats no transaction of the blocks stored when it was
\* collected, although the storager commits before it cleans the pool and a
\* thread may put a stored transaction back: it repeats at most those of blocks
\* that overtook it (IBlocker.PackedBlock).
FreshUnlessOvertaken ==
    \A b \in blocks : ToSet(b.txs) \cap StoredTo(b.from) = {}

\* A block of Me has at most trans_num_limit transactions.
BlockWithinLimit == \A b \in blocks : Len(b.txs) <= Limit

\* A block of Me that repeats a stored transaction and is on the current hash:
\* nobody endorses it, and Me makes no other one there.
Overtaken == preblock.on = pe /\ ToSet(preblock.txs) \cap Stored # {}

\* Every transaction leaves the pool in the end, also one that is too long for
\* any block and those behind it, unless Me waits for others to replace a block
\* of its own (getTransListClone, CollectedTransOfBlock).
PoolDrains == \A t \in Tx : t \in ToSet(pool) ~> t \notin ToSet(pool) \/ Overtaken
=============================================================================
