------------------------------- MODULE Preload -------------------------------
(***************************************************************************)
(* Execution of blocks in one node, before they are agreed on.  The blocker *)
(* executes its block under the tag "preload", the endorsers those of the   *)
(* others under "endors".  A preloader takes a block apart into groups of   *)
(* transactions of one contract and sends each to the dispatcher of the     *)
(* contract, which knows whether the contract is deployed and passes the    *)
(* group to the contract's serial sandbox.  Sandboxes write into an overlay *)
(* of LevelDB that all executions under one tag share, and return, for each *)
(* transaction, a log of its writes.  What the storager later puts into     *)
(* LevelDB are these logs.                                                  *)
(*                                                                          *)
(* A transaction is a step, and so is what a dispatcher does with a group:  *)
(* its delay is that of the request.  A tx id stands for the code it        *)
(* deploys.  A contract adds its code, a number, to its one data item, which*)
(* makes every execution that is lost or done twice visible.  pe's chain    *)
(* status changes with LevelDB.  Contracts of type CODE_SCALA_PARALLEL and  *)
(* executions for the API are left out.                                     *)
(***************************************************************************)
EXTENDS Integers, SequencesExt

CONSTANTS
    Preloader,     \* the routees of DispatchOfPreload
    Nobody,        \* stands for a preloader that does not wait any more
    Tag,           \* db_identifier
    Contract,      \* chaincode ids: a name and a version
    Name,          \* [Contract -> names]: the versions of a contract share its keys
    Block, Genesis,
    Parent,        \* [Block -> Block \cup {Genesis}]
    Txs,           \* [Block -> Seq(Transaction)]
    None,          \* the value of a key that is not there
    World0,        \* world state of the genesis block
    MaxStarts, MaxStores, MaxRollbacks, MaxFaults  \* bounds: executions, saves, rollbacks; timeouts and failures

Names == {Name[c] : c \in Contract}

\* Types of a transaction; three kinds of CHAINCODE_INVOKE: one that calls setVal, one that calls
\* setPoints, and one that throws after it has called setVal.
Invokes == {"invoke", "points", "throw"}
Op == {"deploy", "state"} \cup Invokes

Transactions == UNION {ToSet(Txs[b]) : b \in Block}
Signers == {tx.signer : tx \in Transactions} \cup {World0[<<"coder", n>>] : n \in Names}

\* IdxPrefix and Shim: deploying transaction and enabled state of a contract; coder, a value and
\* points of a name; and the key under which setPoints logs.
Key == ({"tx", "state"} \X Contract) \cup ({"coder", "data", "points", "bare"} \X Names)

\* What can be under a key.
Values(k) == {None} \cup (IF k[1] = "state" THEN BOOLEAN ELSE IF k[1] = "coder" THEN Signers ELSE Nat)

IsWorld(w) == w = [k \in Key |-> w[k]] /\ \A k \in Key : w[k] \in Values(k)

ASSUME PreloadAssumption ==
    /\ Nobody \notin Preloader /\ Genesis \notin Block /\ None \notin Nat \cup BOOLEAN
    /\ Parent \in [Block -> Block \cup {Genesis}]
    /\ \A b \in Block : Txs[b] \in Seq(Transactions) /\ Txs[b] # <<>>
    /\ \A tx \in Transactions : /\ tx.op \in Op /\ tx.cid \in Contract
                                /\ tx.code \in Nat \ {0} /\ tx.enable \in BOOLEAN
    /\ IsWorld(World0)
    /\ MaxStarts \in Nat /\ MaxStores \in Nat /\ MaxRollbacks \in Nat /\ MaxFaults \in Nat

VARIABLES
    world,     \* the world state in LevelDB
    chain,     \* the blocks above the genesis block, with their logs and (history) the world before
    overlay,   \* ImpDataPreload of every tag: the keys it holds
    dstate,    \* SandboxDispatcher.ContractState of every contract
    class,     \* Compiler.classCache: the code each contract's class was made of
    sbq,       \* the groups in the mailbox of every serial sandbox
    job,       \* each preloader's progress
    tainted,   \* history: the tags whose overlay holds writes of no running execution
    counts     \* what is bounded

vars == <<world, chain, overlay, dstate, class, sbq, job, tainted, counts>>

Count(c, max) == counts[c] < max /\ counts' = [counts EXCEPT ![c] = @ + 1]
-----------------------------------------------------------------------------
(* The world state, the logs of operations, and what a tag sees.            *)

NoWrites == [k \in {} |-> None]

\* What is seen through f: g, below what f holds.
Over(f, g) == [k \in DOMAIN f \cup DOMAIN g |-> IF k \in DOMAIN f THEN f[k] ELSE g[k]]

\* ImpDataPreload.Get: LevelDB, as it is now, below what the tag has written.
View(t) == Over(overlay[t], world)

OperLog(k, old, new) == [key |-> k, oldValue |-> old, newValue |-> new]

\* The logs of all results, in order.
Logs(rs) ==
    LET upTo[i \in 0 .. Len(rs)] == IF i = 0 THEN <<>> ELSE upTo[i - 1] \o rs[i].ol
    IN  upTo[Len(rs)]

\* The last of the operations on k; 0 if there is none.
LastOn(k, ol) == Max({0} \cup {i \in DOMAIN ol : ol[i].key = k})

\* WriteOperLogToDBWithRestoreBlock.
Apply(w, ol) == [k \in DOMAIN w |-> LET i == LastOn(k, ol) IN IF i = 0 THEN w[k] ELSE ol[i].newValue]

\* rollbackWorldState goes through the operations in the order of the writes, so that it is again the
\* last one on a key whose old value remains.
Undo(w, ol) == [k \in DOMAIN w |-> LET i == LastOn(k, ol) IN IF i = 0 THEN w[k] ELSE ol[i].oldValue]
-----------------------------------------------------------------------------
(* One transaction in the sandbox.                                          *)

\* Sandbox.ContraceIsExist and IsCurrentSigner.
Exists(tx, view) == view[<<"state", tx.cid>>] # None
ByCoder(tx, view) == view[<<"coder", Name[tx.cid]>>] \in {None, tx.signer}

\* getContractEnableValueFromLevelDB: the state in LevelDB, whatever the view says.
Enabled(tx, w, mode) ==
    LET state == w[<<"state", tx.cid>>] IN IF state = None THEN mode = "snapshot" ELSE state

\* Sandbox.checkTransaction; mode is the dispatcher's state.
Checked(tx, view, w, mode) ==
    \/ tx.op = "deploy" /\ mode # "leveldb" /\ ByCoder(tx, view)
    \/ tx.op = "state" /\ Exists(tx, view) /\ ByCoder(tx, view)
    \/ tx.op \in Invokes /\ Exists(tx, view) /\ Enabled(tx, w, mode)

\* SandboxScala.LoadClass, Compiler.compilef: a class that was made once is never made again.
Loaded(cls, tx, w) ==
    IF cls[tx.cid] # None THEN cls[tx.cid]
    ELSE IF tx.op = "deploy" THEN tx.code ELSE w[<<"tx", tx.cid>>]

\* DoDeploy: no old values.
Deploy(tx) ==
    <<OperLog(<<"tx", tx.cid>>, None, tx.code),
      OperLog(<<"state", tx.cid>>, None, TRUE),
      OperLog(<<"coder", Name[tx.cid]>>, None, tx.signer)>>

\* CHAINCODE_SET_STATE logs the new value as the old one.
SetState(tx) == <<OperLog(<<"state", tx.cid>>, tx.enable, tx.enable)>>

Sum(old, code) == (IF old = None THEN 0 ELSE old) + code

\* Mutant: the new value is logged as the old one.
SetVal_NewAsOld(tx, view, code) ==
    LET k == <<"data", Name[tx.cid]>> IN <<OperLog(k, Sum(view[k], code), Sum(view[k], code))>>

\* Shim.setVal, setState.
SetVal(tx, view, code) ==
    LET k == <<"data", Name[tx.cid]>> IN <<OperLog(k, view[k], Sum(view[k], code))>>

\* Shim.setPoints: put under one key, logged under another.
SetPoints(tx, view, code) ==
    LET old == view[<<"points", Name[tx.cid]>>]
    IN  <<OperLog(<<"bare", Name[tx.cid]>>, old, Sum(old, code))>>

Writes(tx, view, code) ==
    CASE tx.op = "deploy" -> Deploy(tx)
      [] tx.op = "state"  -> SetState(tx)
      [] tx.op = "points" -> SetPoints(tx, view, code)
      [] OTHER            -> SetVal(tx, view, code)

\* The key a write is put under.
PutKey(tx, l) == IF tx.op = "points" THEN <<"points", Name[tx.cid]>> ELSE l.key

Refusal(c) == [code |-> c, ol |-> <<>>]

\* Sandbox.onTransaction and SandboxScala.doTransaction: the result.
Execute(tx, view, w, mode, code) ==
    IF ~Checked(tx, view, w, mode) THEN Refusal(101)
    ELSE IF tx.op = "throw" \/ (tx.op \in Invokes /\ code = None) THEN Refusal(102)
    ELSE [code |-> 0, ol |-> Writes(tx, view, code)]

\* TransactionOfDataPreload.update: what the operations put; each on a key of its own.
Puts(tx, ol) ==
    [k \in {PutKey(tx, ol[i]) : i \in DOMAIN ol} |-> ol[CHOOSE i \in DOMAIN ol : PutKey(tx, ol[i]) = k].newValue]

\* Mutant: what a transaction that failed has written is kept.
Commit_All(tx, ol, r, ov) == Over(Puts(tx, ol), ov)

\* TransactionOfDataPreload.commit, or roolback when the contract throws.
Commit(tx, ol, r, ov) == IF r.code = 0 THEN Over(Puts(tx, ol), ov) ELSE ov

\* isSameContractInvoke: the transaction goes with the one before.
Joins(txs, i) == i > 1 /\ txs[i].op \in Invokes /\ txs[i].cid = txs[i - 1].cid

\* SetContractState: what the dispatcher takes the contract for.
Door(known, tx, view, w) ==
    LET there == view[<<"tx", tx.cid>>] # None IN
    IF known = "leveldb" \/ w[<<"tx", tx.cid>>] # None THEN "leveldb"
    ELSE IF (tx.op = "deploy") = there THEN "refused" ELSE "snapshot"
-----------------------------------------------------------------------------
(* The reference: a block executed alone, on a world that nobody changes,   *)
(* by contracts that remember nothing.                                      *)

\* One transaction: its result, what is visible afterwards, the classes that are made, and
\* what its group's dispatcher saw.
IsolatedStep(w, txs, s, i) ==
    LET tx   == txs[i]
        mode == IF Joins(txs, i) THEN s.mode ELSE Door("none", tx, s.view, w)
        code == Loaded(s.cls, tx, w)
        r    == IF mode = "refused" THEN Refusal(105) ELSE Execute(tx, s.view, w, mode, code)
    IN  [rs   |-> Append(s.rs, r),
         view |-> Over(Puts(tx, r.ol), s.view),
         cls  |-> IF r.code \in {0, 102} /\ tx.op # "state" THEN [s.cls EXCEPT ![tx.cid] = code] ELSE s.cls,
         mode |-> mode]

Isolated(w, b) ==
    LET after[i \in 0 .. Len(Txs[b])] ==
            IF i = 0 THEN [rs |-> <<>>, view |-> w, cls |-> [c \in Contract |-> None], mode |-> "none"]
            ELSE IsolatedStep(w, Txs[b], after[i - 1], i)
    IN  after[Len(Txs[b])]
-----------------------------------------------------------------------------
IdleJob == [at |-> "idle", block |-> Genesis, tag |-> None, rs |-> <<>>, alone |-> FALSE]

Init ==
    /\ world = World0 /\ chain = <<>>
    /\ overlay = [t \in Tag |-> NoWrites] /\ tainted = {}
    /\ dstate = [c \in Contract |-> "none"] /\ class = [c \in Contract |-> None]
    /\ sbq = [c \in Contract |-> <<>>]
    /\ job = [p \in Preloader |-> IdleJob]
    /\ counts = [starts |-> 0, stores |-> 0, rollbacks |-> 0, faults |-> 0]

Tip == IF chain = <<>> THEN Genesis ELSE Last(chain).block

Busy(t) == {p \in Preloader : job[p].at # "idle" /\ job[p].tag = t}

\* History: what happened now disturbs the executions of P.
Disturbed(P) == [p \in Preloader |-> IF p \in P THEN [job[p] EXCEPT !.alone = FALSE] ELSE job[p]]

\* PreTransBlock: the router gives the block to any preloader that is free, which takes
\* it only on the tip.
Start(p, b, t) ==
    /\ job[p].at = "idle" /\ Parent[b] = Tip
    /\ Count("starts", MaxStarts)
    /\ job' = [Disturbed(Busy(t)) EXCEPT ![p] =
                   [at |-> "next", block |-> b, tag |-> t, rs |-> <<>>,
                    alone |-> Busy(t) = {} /\ t \notin tainted]]
    /\ UNCHANGED <<world, chain, overlay, dstate, class, sbq, tainted>>

TxsOf(p) == Txs[job[p].block]

\* getSameCid: the transactions that follow the results there are.
Group(p) ==
    LET i == Len(job[p].rs) + 1
    IN  SubSeq(TxsOf(p), i, Max({j \in i .. Len(TxsOf(p)) : \A k \in i + 1 .. j : Joins(TxsOf(p), k)}))

\* Mutant: the state is set before the contract is looked up in the overlay.
Remember_Refused(c, mode) == [dstate EXCEPT ![c] = mode]

Remember(c, mode) == IF mode = "refused" THEN dstate ELSE [dstate EXCEPT ![c] = mode]

Answered(p, rs) == [job[p] EXCEPT !.at = "next", !.rs = @ \o rs]

\* createErrorData: every transaction of the group is refused.
Refused(p) == Answered(p, [i \in DOMAIN Group(p) |-> Refusal(105)])

\* ExecuteTransactions and Dispatchs: a group goes to its contract's dispatcher, which refuses
\* all of it or passes it on.
Dispatch(p) ==
    LET group == Group(p)
        c == group[1].cid
        mode == Door(dstate[c], group[1], View(job[p].tag), world)
    IN
    /\ job[p].at = "next" /\ Len(job[p].rs) < Len(TxsOf(p))
    /\ dstate' = Remember(c, mode)
    /\ IF mode = "refused" THEN job' = [job EXCEPT ![p] = Refused(p)] /\ UNCHANGED sbq
       ELSE /\ sbq' = [sbq EXCEPT ![c] = Append(@, [owner |-> p, tag |-> job[p].tag, mode |-> mode,
                                                    txs |-> group, rs |-> <<>>])]
            /\ job' = [job EXCEPT ![p].at = "asked"]
    /\ UNCHANGED <<world, chain, overlay, class, tainted, counts>>

\* Sandbox.onTransactions: the next transaction of the first group; the last one sends the results,
\* which go nowhere if nobody waits for them.
SandboxStep(c) ==
    LET e    == Head(sbq[c])
        tx   == e.txs[Len(e.rs) + 1]
        view == View(e.tag)
        code == Loaded(class, tx, world)
        r    == Execute(tx, view, world, e.mode, code)
        rs   == Append(e.rs, r)
        late == e.owner = Nobody
    IN
    /\ sbq[c] # <<>>
    /\ class' = IF r.code \in {0, 102} /\ tx.op # "state" THEN [class EXCEPT ![c] = code] ELSE class
    /\ overlay' = [overlay EXCEPT ![e.tag] = Commit(tx, Writes(tx, view, code), r, @)]
    /\ IF Len(rs) < Len(e.txs) THEN sbq' = [sbq EXCEPT ![c][1].rs = rs]
                               ELSE sbq' = [sbq EXCEPT ![c] = Tail(@)]
    /\ job' = IF late THEN Disturbed(Busy(e.tag))
              ELSE IF Len(rs) < Len(e.txs) THEN job ELSE [job EXCEPT ![e.owner] = Answered(e.owner, rs)]
    /\ tainted' = IF late /\ r.code = 0 THEN tainted \cup {e.tag} ELSE tainted
    /\ UNCHANGED <<world, chain, dstate, counts>>

\* AskTimeoutException, TimeoutException: the group's results are errors; the sandbox goes on.
TimeoutGroup(p) ==
    /\ job[p].at = "asked" /\ Count("faults", MaxFaults)
    /\ sbq' = [c \in Contract |-> [i \in DOMAIN sbq[c] |->
                  IF sbq[c][i].owner = p THEN [sbq[c][i] EXCEPT !.owner = Nobody] ELSE sbq[c][i]]]
    /\ job' = [job EXCEPT ![p] = [Answered(p, [i \in DOMAIN Group(p) |-> Refusal(103)]) EXCEPT !.alone = FALSE]]
    /\ UNCHANGED <<world, chain, overlay, dstate, class, tainted>>

\* Handler and receive when a request throws: the block fails and the overlay is not freed.
Fail(p) ==
    /\ job[p].at = "next" /\ Len(job[p].rs) < Len(TxsOf(p))
    /\ Count("faults", MaxFaults)
    /\ job' = [job EXCEPT ![p] = IdleJob]
    /\ tainted' = IF overlay[job[p].tag] = NoWrites THEN tainted ELSE tainted \cup {job[p].tag}
    /\ UNCHANGED <<world, chain, overlay, dstate, class, sbq>>

\* Mutant: the overlay is not freed after a success either.
Free_Nothing(t) == overlay

\* ImpDataPreloadMgr.Free.
Free(t) == [overlay EXCEPT ![t] = NoWrites]

\* AssembleTransResult: all transactions have results.
Finish(p) ==
    /\ job[p].at = "next" /\ Len(job[p].rs) = Len(TxsOf(p))
    /\ job' = [job EXCEPT ![p] = IdleJob]
    /\ overlay' = Free(job[p].tag) /\ tainted' = tainted \ {job[p].tag}
    /\ UNCHANGED <<world, chain, dstate, class, sbq, counts>>

\* MultiDBMgr.clear: an overlay that was not used for a minute is dropped, whoever needs it.
Expire(t) ==
    /\ overlay[t] # NoWrites /\ Count("faults", MaxFaults)
    /\ overlay' = Free(t) /\ tainted' = tainted \ {t}
    /\ job' = Disturbed(Busy(t))
    /\ UNCHANGED <<world, chain, dstate, class, sbq>>

\* The storager saves a block, as its blocker executed it: alone.
Store(b) ==
    LET ol == Logs(Isolated(world, b).rs) IN
    /\ Parent[b] = Tip /\ Count("stores", MaxStores)
    /\ world' = Apply(world, ol)
    /\ chain' = Append(chain, [block |-> b, ol |-> ol, was |-> world])
    /\ job' = Disturbed(Preloader)
    /\ UNCHANGED <<overlay, dstate, class, sbq, tainted>>

\* Rollback4Storager: the last block is taken back.
Rollback ==
    /\ chain # <<>> /\ Count("rollbacks", MaxRollbacks)
    /\ world' = Undo(world, Last(chain).ol)
    /\ chain' = Front(chain)
    /\ job' = Disturbed(Preloader)
    /\ UNCHANGED <<overlay, dstate, class, sbq, tainted>>

Next ==
    \/ \E p \in Preloader, b \in Block, t \in Tag : Start(p, b, t)
    \/ \E p \in Preloader : Dispatch(p)
    \/ \E p \in Preloader : TimeoutGroup(p)
    \/ \E p \in Preloader : Fail(p)
    \/ \E p \in Preloader : Finish(p)
    \/ \E c \in Contract : SandboxStep(c)
    \/ \E t \in Tag : Expire(t)
    \/ \E b \in Block : Store(b)
    \/ Rollback

Spec == Init /\ [][Next]_vars
-----------------------------------------------------------------------------
(* Properties.                                                              *)

LogsOn(keys, values) == [key : keys, oldValue : values \cup {None}, newValue : values \cup {None}]
OperLogs == LogsOn({"state"} \X Contract, BOOLEAN) \cup LogsOn({"coder"} \X Names, Signers)
            \cup LogsOn(({"tx"} \X Contract) \cup ({"data", "points", "bare"} \X Names), Nat)
Results == [code : {0, 101, 102, 103, 105}, ol : Seq(OperLogs)]

\* A group that a sandbox has got and not finished.
Requests == [owner : Preloader \cup {Nobody}, tag : Tag, mode : {"snapshot", "leveldb"},
             txs : Seq(Transactions), rs : Seq(Results)]
Jobs == [at : {"next", "asked"}, block : Block, tag : Tag, rs : Seq(Results), alone : BOOLEAN]

\* Types: the world and every overlay hold values of their keys, no job has more results than transactions,
\* and a dispatcher's ContractState is one of its three.
TypeOK ==
    /\ IsWorld(world)
    /\ chain \in Seq([block : Block, ol : Seq(OperLogs), was : {chain[i].was : i \in DOMAIN chain}])
    /\ \A i \in DOMAIN chain : IsWorld(chain[i].was)
    /\ DOMAIN overlay = Tag
    /\ \A t \in Tag : \A k \in DOMAIN overlay[t] : k \in Key /\ overlay[t][k] \in Values(k)
    /\ dstate \in [Contract -> {"none", "snapshot", "leveldb"}]
    /\ class \in [Contract -> Nat \cup {None}]
    /\ sbq \in [Contract -> Seq(Requests)]
    /\ \A c \in Contract : \A i \in DOMAIN sbq[c] : Len(sbq[c][i].rs) < Len(sbq[c][i].txs)
    /\ job \in [Preloader -> Jobs \cup {IdleJob}]
    /\ \A p \in Preloader : job[p].at # "idle" => Len(job[p].rs) <= Len(TxsOf(p))
    /\ tainted \subseteq Tag

\* The results p has so far, with those its group's sandbox still holds.
Done(p) ==
    job[p].rs \o IF job[p].at # "asked" THEN <<>>
                 ELSE (CHOOSE e \in ToSet(sbq[Group(p)[1].cid]) : e.owner = p).rs

Cids(b) == {Txs[b][i].cid : i \in DOMAIN Txs[b]}

\* The node's contracts remember what belongs to the chain: no dispatcher takes for deployed what
\* a rollback took back, no class was made of code that another block deployed, and no rollback
\* has left the state of a contract whose code it took back.
Remembers(b) ==
    \A c \in Cids(b) : /\ dstate[c] = "leveldb" => world[<<"tx", c>>] # None
                       /\ class[c] # None => Isolated(world, b).cls[c] \in {None, class[c]}
                       /\ world[<<"state", c>>] # None => world[<<"tx", c>>] # None

Alone(p) == job[p].at # "idle" /\ job[p].alone

\* The results of an execution are those of the block on its parent's world state, with nothing else
\* going on (PreloaderForTransaction, SandboxDispatcher): what was executed before, under this or
\* another tag, leaves no trace, however the dispatchers' and sandboxes' work interleaves, unless
\* another execution shared the overlay, a write came late, the chain moved, or a contract
\* remembers another chain.
ResultsAreIsolated ==
    \A p \in Preloader : Alone(p) /\ Remembers(job[p].block) =>
        Done(p) = SubSeq(Isolated(world, job[p].block).rs, 1, Len(Done(p)))

HasPoints(b) == \E i \in DOMAIN Txs[b] : Txs[b][i].op = "points"

Replays(p) == Apply(world, Logs(Done(p))) = View(job[p].tag)

\* Two accounts of the same writes agree: LevelDB with the logs of the results so far, which is what
\* every node will store, shows what the contracts see in the overlay (SandboxScala.doTransaction,
\* WriteOperLogToDBWithRestoreBlock), also after transactions that failed half way; points apart.
LogsReplayToView == \A p \in Preloader : Alone(p) /\ ~HasPoints(job[p].block) => Replays(p)

\* The same for all transactions, as peer.proto has it of OperLog.  It does not hold: setPoints
\* puts under one key and logs another.
LogsReplay == \A p \in Preloader : Alone(p) => Replays(p)

WritesTwice(b) ==
    \E i, j \in DOMAIN Txs[b] : /\ i < j /\ Name[Txs[b][i].cid] = Name[Txs[b][j].cid]
                                /\ Txs[b][i].op = "invoke" /\ Txs[b][j].op = "invoke"

\* What the old values cannot restore: a changed state, a state or a coder that was there before, a key
\* that is written twice, points.
Irrevocable(e) ==
    \/ WritesTwice(e.block) \/ HasPoints(e.block)
    \/ \E i \in DOMAIN Txs[e.block] :
          LET tx == Txs[e.block][i] IN
          \/ tx.op = "state"
          \/ tx.op = "deploy" /\ (\/ e.was[<<"coder", Name[tx.cid]>>] = tx.signer
                                  \/ e.was[<<"state", tx.cid>>] # None)

\* The world state is what the block made of the one before, not what a rollback left of a later one.
MadeWorld(e) == world = Apply(e.was, e.ol)

\* A rollback brings back the world state before the block, from nothing but the old values its
\* execution logged (Shim.setState, Rollback4Storager.rollbackWorldState), unless Irrevocable.
RollbackRestores ==
    [][Rollback /\ MadeWorld(Last(chain)) /\ ~Irrevocable(Last(chain)) => world' = Last(chain).was]_vars

\* StateSpec has it that a contract cannot be invoked once it is disabled.  It does not hold
\* within a block: the sandbox asks LevelDB, not the overlay.
DisabledIsRefused ==
    [][\A c \in Contract :
          SandboxStep(c) /\ View(Head(sbq[c]).tag)[<<"state", c>>] = FALSE
          /\ Head(sbq[c]).txs[Len(Head(sbq[c]).rs) + 1].op \in Invokes => overlay' = overlay]_vars
=============================================================================
