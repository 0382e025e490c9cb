# A TLA+ model of RepChain

RepChain is a permissioned blockchain written in Scala on Akka. Every node runs
the same set of actors; vote nodes agree on blocks of transactions, store them
in LevelDB and in block files, and follow each other's chains. This directory
holds TLA+ modules of the node's core, the TLC configurations that check them
on small instances, and proofs for TLAPS of what matters most.

All paths below are relative to `src/src/main/scala/rep/`. `PROJECT.json` maps
every definition that models code to the lines it models, and lists the runs,
the mutants, the findings, the hazards and the theorems.

    tlc -workers 2 -config CFRD_redraw.cfg MC_CFRD      a run
    tlapm CFRD_proofs.tla                               a proof module

## 1. The system

### Parts, state, operations

| Part | State | Operations |
| --- | --- | --- |
| Voter (`consensus/common/vote`, `consensus/cfrd/vote`) | the draw `Blocker` (node, index, hash, height), the candidates | `VoteOfBlocker` (timer, storager), `SpecifyVoteHeight` (endorser) |
| Blocker (`consensus/common/block/IBlocker`, `cfrd/block/BlockerOfCFRD`) | `preblock`, `blockerInfo` | `CreateBlock`: collect transactions, execute, sign, ask for endorsement |
| Collector and requesters (`cfrd/block`) | block, received endorsements, nodes to ask again, number of resends | `CollectEndorsement`, result of a requester, `ResendEndorseInfo`, its timer |
| Endorsers (`cfrd/endorse`) | none but pe | `EndorsementInfo`: compare with the own draw, check, execute, sign |
| Confirmer (`confirmblock`) | none but the block cache | `ConfirmedBlock`: check signatures, put into the cache |
| Storager (`persistence`) | block cache by height | `BatchStore`, `BlockRestore`: store what fits, ask for what is missing |
| Synchroniser (`sync`) | flag `isSynching`, retry timer | `StartSync`, `SyncRequestOfStorager`; the responder answers others |
| Database and files (`storage`) | LevelDB (indexes, world state), one write batch, block files, two maps of index entries | `restoreBlock`, `rollbackToheight`, `verify4Storage` at start, queries |
| Transaction pool (`cache`, `tools/transpool`) | transactions by time of entry | entry, copy for a block, removal, save and read |
| Execution (`transaction`, `sc`) | overlay databases, sandboxes per contract, compiled classes | `PreTransBlock`, `DoTransactions` |
| Shared state `pe` (`tools/PeerExtension`) | chain status, draw, cache, pool, set of stable nodes | read and written by all the actors of a node |
| Membership (`cluster`, `tools/NodeMgr`) | members, stable nodes, those waiting to become stable, timers | cluster events, `Recollection`; asks for the first synchronisation |
| RAFT (`consensus/raft`, `confirmblock/raft`, `sync/*/raft`) | the draw of a term, the start of the vote, the highest block confirmed | draw for a term of blocks, publish without endorsement, follow the highest answer; the one that `system.conf` selects |
| PBFT (`consensus/pbft`, `confirmblock/pbft`) | as CFRD, and three buffers that count messages of one block | pre-prepare, prepare, commit, answer, publish |
| Events and the page of the network (`log`, `ui`, `resources/web`) | a stage per socket; the nodes, links and colours drawn | `sendEvent`, push or drop, draw |

### How they work together

The voter draws a blocker from the hash of the last block and puts the draw into
`pe`. The blocker, if it is the node itself, takes transactions from the pool,
has them executed against an overlay of the database, and hands the block to the
collector, which asks every stable node to endorse it. An endorser compares the
block with its own draw, looks for repeated transactions, executes the block and
signs. With enough signatures the collector publishes the block; every node's
confirmer puts it into the cache, its storager saves it, removes its
transactions from the pool, shows the new status in `pe` and lets the voter
draw again. Blocks that do not fit make the storager ask the synchroniser, which asks all
nodes for their chains, may roll back the last block and fetches what is missing.

The other two protocols replace the middle of this. In RAFT the node drawn on a block
publishes the next blocks alone, and the others follow. In PBFT the answer to a
pre-prepare goes to all nodes, and it takes two more rounds until the requesters of the
blocker hear back. The membership decides who is in the cluster, and with how many
stable nodes everything starts. Events about members and blockers go to a topic and
from there to the page, through stages that drop what does not fit.

### What is hard here

* Actors of one node are sequential each, but share `pe`, the pool, the cache and
  the database, and read them several times in one handler: the hash and the
  height of a vote, of a block, of a comparison with others' answers.
* Endorsers keep no memory of what they signed; only their own draw, which
  changes after a block timeout and is gone after a restart, limits them.
* Answers come late, not at all, or after the collector has gone on.
* Saving and rolling back write to two stores, LevelDB and files, with one batch
  shared by all; the process may stop anywhere.
* Cache, synchroniser and storager wait for each other; timers are cancelled by
  later messages.
* Pool threads check and then put; the blocker copies while the storager removes.
* Executions share overlays under constant tags and go on after a timeout.
* In RAFT nothing but the order of draws, stores and messages keeps two nodes from
  publishing at one height: the voter looks into the database, the blocker at `pe`.
* PBFT's buffers count the messages of one block until a message of another block
  empties them; what comes before a node has drawn is lost.
* News about a member come one by one to every node, while timers that were set for
  earlier members ring and cancel each other.
* The page gets the same event from every node, late, or not at all.
* Two maps with a capacity of their own must describe the same blocks.

The hazards in `PROJECT.json` list these one by one, each at its line.

### What makes each part correct

* Consensus: a published block was really endorsed by enough nodes; blocks on the
  same parent exclude each other or at least leave a witness; a block sits
  exactly one above its parent, which a quorum holds.
* Ledger: all nodes agree on the block of a height, as long as what the protocol
  relies on holds (section 5 says what that is).
* Storage: at any moment, also after a crash, the database describes one chain and
  the world state of that chain, and the files hold its blocks.
* Synchronisation: agreed blocks are never rolled back; what is published gets
  stored in the end; the start ends.
* Pool: bounded; no transaction leaves it before it is stored or too old; blocks
  repeat nothing; every transaction leaves in the end.
* Execution: a block's result depends on its parent's state and its transactions only.
* PBFT: what is published was prepared by 2F nodes as seen by 2F + 1, and the certificate proves it.
* RAFT: no two blocks at a height as long as everybody builds by the draw; what a node
  has it keeps; nodes come level, and a term is handed over.
* Membership: who is lost does not become stable; who stays does; the synchronisation is asked for.
* Page: what is drawn is what is counted and linked, and the blocker is green.

## 2. Modules

| Module | What it is |
| --- | --- |
| `ConsensusCondition` | How many signatures and nodes are enough (`consensus/byzantium/ConsensusCondition`). |
| `QuorumLedger` | Abstract: what a consensus promises to the ledgers. |
| `CFRD` | Voter, blocker, collector, requesters, endorsers, confirmer and storager of every node. |
| `ChainLog` | Abstract: a chain that changes at its end, and the world state it produces. |
| `BlockStore` | Saving, rolling back, crash and check at start of one node's storage. |
| `ChainSync` | Confirmer, storager loop, requester, analyzer and responders seen from one node. |
| `TransactionPool` | Pool, pool threads, blocker and storager of one node. |
| `Preload` | Execution of blocks in overlays, and the contracts' states. |
| `PBFT` | Draw, the four rounds of messages, publication and storage in the PBFT variant. |
| `RaftChain` | Voter, blocker, confirmer, storager and requester of every node in the RAFT variant. |
| `Membership` | What a node makes of the news about its cluster. |
| `EventPage` | The page of the network, fed by the events of `Membership`. |
| `MC_*` | Small instances for TLC. |
| `CFRD_proofs` | Theorems about `CFRD`: types, blocks and quorums; the ledgers. |
| `PBFT_proofs`, `RaftChain_proofs` | Theorems about the other two protocols. |
| `BlockStore_proofs`, `ChainSync_proofs`, `TransactionPool_proofs` | Theorems about the storage, the synchronisation and the pool. |
| `Preload_proofs` | Theorems about the execution of blocks. |
| `EventPage_proofs` | Theorems about `Membership` and `EventPage`. |

`CFRD` EXTENDS `ConsensusCondition` and instantiates `QuorumLedger`; `BlockStore`
instantiates `ChainLog`; `ChainSync` EXTENDS `ConsensusCondition`; `PBFT` EXTENDS
it too and instantiates `QuorumLedger` with quorums of 2F + 1; `EventPage` EXTENDS
`Membership` and composes it with the page. The other modules
meet at their borders: `CFRD` stores a block in one step, `ChainSync` takes the
storager's loop apart, `BlockStore` the saving of one block; `ChainSync` takes
from `CFRD` that the parent of a block is at a quorum (`ParentHeldByQuorum`);
`TransactionPool` sees the blocker's and the storager's handlers from the side
of the pool; `RaftChain` takes a whole synchronisation as one step, of which `ChainSync`
shows the inside; `Membership` ends where the requester takes the first `StartSync`,
with which `ChainSync` begins.

### CFRD

One action is the part of a handler between two reads of shared state that
another actor can change. Variables carry the names of the fields (`blocker` is
`pe.getBlocker`, `coll` the fields of `EndorseCollector`, `cache`
`pe.getBlockCacheMgr`); `seen` is the local `currentblockhash` of a running vote.
A block is its hash; who signs it first and what is drawn on top of it are fixed
by the hash and so are constants (`Creator`, `Candidates`); its previous hash and
height are what the blocker wrote and are state.

| Code | Actions |
| --- | --- |
| `VoterOfCFRD.vote`, `IVoter` | `VoteOfBlocker`, `SpecifyVoteHeight`, `CleanVoteInfo` |
| `BlockerOfCFRD.receive`, `IBlocker.PackedBlock` | `CreateBlock`, `PackHash`, `PackHeight`, `PackFail`, `PackDone` |
| `EndorseCollector.receive` | `CollectEndorsement`, `CheckAndFinish`, `DelayResend`, `Resend` |
| `EndorsementRequest4Future` | `ReceiveEndorsement`, `AskTimeout` |
| `Endorser4Future` | `EndorseSuccess`, `EndorseVerifyError`, `EndorseHeightError`, `EndorseSynching` |
| `ConfirmOfBlock`, `IStorager.RestoreBlock` | `Confirm`, `Store` |
| start of the process | `Restart` |

Abstractions. While `pe.isSynching` holds, messages are dropped: a drop is always
possible. Negative answers reach the requester at once, as they leave only a
resend behind. The length of an execution is a late answer. The set `confirmed`
delivers a published block any time, often or never, and so also stands for
blocks that the synchroniser fetches. The pool holds enough transactions. The
timer message of a resend that was scheduled for an earlier block is not kept
apart from that for the current one. The guard of `CreateBlock` is one step; the
races behind it are those of `PackHash` and `PackHeight`, which read a later
draw. Requests that are equal are one. Rollbacks are in `ChainSync`.

### BlockStore

`db` is LevelDB, `batch` the one `WriteBatch` of `IDataAccess`, `file` the block
files as sequences of cells, `cache` the index cache, `saver` and `roller` the
progress of the two actors. An action ends at the next effect on the batch, the
database or a file, so that a crash may fall between any two. LevelDB writes a
batch at once; a file write may be torn. A block that cannot be read is an
exception, as in the code. `pe` is
updated with the commit; `ChainSync` has these apart. Two variables are history: `cut`
names the heights at which a rollback stopped between truncation and commit, and
`halfway` tells whether a rollback of several blocks stopped between two of them
(`StoppedHalfway`): `pe` is not read anew then and keeps a block that the database gave up.

`IdxCache` is two maps: `cache` (`fileIdxs`) by height and `known` (`hashcaches`) from the
hash to the height. Each gives up an entry of its own when it holds `CacheSize` of them (`Kept`,
`CachePut`). Which one, depends on what was read last; since a lookup by hash touches both
maps and one by height one, any older entry may be it. A lookup by height of a block
that `cache` lost reads the hash from LevelDB and looks it up; if `known` still has the hash,
this leads back to the height (`Returns`). Where the code looks up, the action needs
`Returns`; otherwise the StackOverflowError ends the process (`Overflow`).

### ChainSync

One node `Me`; a database is its top block. The requester blocks in `Handler`
while its futures run, so its own progress is one variable (`sync`), and the
storager may do any number of steps in between. Its mailbox is a set. Storing and
rolling back a block are steps. Two tries to fetch a block are one. The node that
`StoreGap` names for the request is any that holds the block below the cached one, which is
what the publisher of that block holds. The other nodes follow `Main`, the agreed
chain, as `CFRD` lets them (`Produce` needs the parent at a quorum). `Me` produces
nothing. The message `VoteOfBlocker` after storing is not modelled. The analyzers
of CFRD and PBFT are the same lines; that of RAFT is not modelled.

### TransactionPool

`TransactionPoolMgr` locks each operation, so one operation is one step, and what
its callers read before is state of theirs (`work`, `pack`, `storer`). `mode`
tells whether the actor itself or its threads put. A block is taken to be executed
only on `pe`'s hash, as `PreloaderForTransaction` answers only then; otherwise
the blocker goes on to the next transactions (`PackAgain`). `getTransListClone`
asks the database at one moment. The chain does not roll back here. What
`saveTransaction` puts while the storager's batch is open goes with that batch:
it is committed with the block or lost. Transactions accepted after the save are
lost at the shutdown.

### Preload

| Code | Definitions |
| --- | --- |
| `DispatchOfPreload`, `PreloaderForTransaction.receive`, `getSameCid` | `Start`, `Group` |
| `ExecuteTransactions`, `SandboxDispatcher.Dispatchs`, `SetContractState` | `Dispatch`, `Door`, `Remember`, `TimeoutGroup`, `Fail` |
| `Sandbox.onTransactions`, `checkTransaction`, `SandboxScala.doTransaction`, `Shim` | `SandboxStep`, `Checked`, `Execute`, `Writes` |
| `TransactionOfDataPreload`, `ImpDataPreload`, `MultiDBMgr` | `Commit`, `View`, `Free`, `Expire` |
| `AssembleTransResult` | `Finish` |
| `WriteOperLogToDBWithRestoreBlock`, `rollbackWorldState` | `Store`, `Apply`, `Rollback`, `Undo` |

`world` is the part of LevelDB that contracts see, `overlay` what each tag has written,
`dstate` and `class` what dispatchers and the compiler remember, `sbq` the mailboxes of the
serial sandboxes. One transaction is one step. Contracts add a number to a counter, so that an
execution done twice, lost, or done with other code shows. `Isolated` is the reference: the
block executed alone on a given world by contracts that remember nothing. It shares the operators
of a single transaction with the actions; what it leaves out is everything concurrent and
everything remembered. `job[p].alone`, `tainted` and `chain[i].was` are history.

`ResultsAreIsolated` names what an execution must not meet: another execution under its tag, a
write of one that has timed out or failed, a chain that moves, an expired overlay, its own timeout, a
dispatcher or a class from another chain, the enabled state of a contract that a rollback left
behind. Without these conditions the property is false (section 5). So it is without those
in `Irrevocable`; and `MadeWorld` has a rollback start from the world state the block made,
which it does not when the rollback of the block above left something.

### PBFT

| Code | Actions |
| --- | --- |
| `VoterOfPBFT`, `BlockerOfPBFT` | `VoteOfBlocker`, `CreateBlock` (with `Pack`) |
| `EndorseCollector` | `CollectEndorsement` |
| `EndorsementRequest4Future` | `PrePrepareRefused`, `ReceiveReply` |
| `Endorser4Future` | `PrePrepare`, `ReceivePrepare`, `ReceiveCommit`, `DropMessage` |
| `PbftPrepare`, `PbftCommit` | `Count`, `Counted` in the last two |
| `ConfirmBlockOfPBFT`, `IStorager` | `StoreBlock` |
| start of the process | `Restart` |

`pbuf`, `cbuf` and `rbuf` are the buffers: the block counted for and what was counted. A
message of another block empties the buffer (`Count`), and so does reaching the number
(`Counted`). A prepare, commit or answer carries the path to the requester that
asked; a node's commit goes with the path of the prepare it counted last, so that the
answers of one block spread over requesters. `RequesterOf` is the router of the
collector. `prepared` and `missed` are history: who prepared a block under which draw,
and which blocks had a message refused for good. The number of a draw is kept apart from
the hash, as in CFRD. All endorsers of a node count as one, as their messages
go through the one handler of the node's `PbftPrepare` and `PbftCommit`.

### RaftChain

| Code | Actions |
| --- | --- |
| `VoterOfRAFT.vote` | `VoteFirst`, `VoteNextTerm`, `VoteAgain` |
| `BlockerOfRAFT` | `CreateBlock`, `PackBlock` |
| `IConfirmOfBlock`, `ConfirmBlockOfRAFT` | `Confirm` |
| `IStorager`, `StoragerOfRAFT` | `Commit`, `Show`, `Refuse`, `Gap` |
| `SynchRequesterOfRAFT`, `IRAFTSynchAnalyzer` | `StartSync` |
| start of the process | `Restart` |

`saved` is the top of the database and `tip` what `pe` shows: between `Commit` and `Show` the
voter may already draw on a block on which the blocker does not build yet. `term` is the draw: the
hash and its height; `confirmed` is `pe.getConfirmHeight`, by which a published block ends a
term before it is stored. `startVote` is kept up to the first vote only, as nobody asks for it
later. The draw is a constant (`DrawnOn`), as a RAFT term has no block timeout. `PackBlock` takes
some unused block of the producer: which one is all the same. `chain` is history: the blocks that a
block's previous hashes lead to, which the lookups by height (`At`) search.

### Membership and EventPage

`Membership` has the listener's maps (`nodes`, `stable`, `preload`), the number of
`Recollection` messages that are scheduled (`timers`) and whether `schedulerLink` is one of
them (`linked`): a new member overwrites it without a cancel, a ring cancels whichever it is.
The cluster is external: it tells a node once of each member that comes up, and of the loss, the
return and the removal of those it told of. `Recollection(n, old)` makes any members old
enough; fairness says that in the end all are. A process that stops loses everything.

`EventPage` has the page of `rep_graph.js` and `g1.html`: the fixed nodes are the centre and the
four topics, `gone` how many of them were cut off from the front, `count` the number that the
page shows, `blocker` and `broker` the variable and the CSS class. An event comes in any order,
as each node publishes it, or is lost in a stage (`EventActor4Stage`).

## 3. Runs

| Run | Instance | Question |
| --- | --- | --- |
| `cfrd_chain` | 4 vote nodes, 3 stable, 4 blocks, one draw per hash, one resend, one restart of one node; 0.8 M states | types, agreement, one block per blocker, refinement of `QuorumLedger`, over two heights |
| `cfrd_redraw` | 4 vote nodes, 3 stable, 3 blocks, two draws per hash; 1.0 M states | certificates, witnesses, parents at a quorum, the inductive invariant |
| `store_crash` | 5 blocks up to height 4, one fork, files of 3 cells, maps of 2 entries, 3 faults, 3 rollbacks; 1.9 M states | one chain indexed, blocks readable, cache true to the index, refinement of `ChainLog` |
| `store_lookup` | the same, no fault and no rollback | `LookupReturns` is violated (finding) |
| `sync_safe` | 3 nodes, chain of 3 and a fork, a start with and without blocks, lost publications and answers, restart; 765 k states | no agreed block rolled back, status follows the database |
| `sync_live` | 3 nodes, chain of 4, reliable answers; 12 k states | published blocks are stored, the cache drains, the consensus starts |
| `pool` | 3 transactions, one too long; 2 threads; pool of 1; a failed save, stops and starts; 173 k states | bound of the pool, freshness, what leaves, draining |
| `preload` | 2 preloaders and tags, 3 blocks on a chain and a fork, 2 executions, 2 saves, a rollback, a fault; 1.4 M states | results depend on parent and transactions only; logs say what was written and how to undo it |
| `pbft_chain` | F = 1, 4 vote nodes, 3 stable, 2 blocks of one producer, one requester, a restart of another node; 1.0 M states | certificates are real, refinement of `QuorumLedger` |
| `pbft_live` | the same nodes, 1 block, a requester for every node, two draws; 521 k states | a block that is collected for gets published |
| `raft` | 2 nodes, terms of 2, 3 blocks; one node may miss the first block of the term and be restarted; 189 k states | agreement, no change of branch, followers come level, the term is handed over |
| `graph` | the server and another member, each stops once, one loss, page with one fixed node to lose; 344 k states | who becomes stable and when; what the page draws |

Why the bounds are enough. Four vote nodes are the fewest that
`IRandomAlgorithmOfVote` draws candidates from, and with three of them stable every quorum is tight: it needs all three, so each
lost or late answer matters. Two blocks of one producer and one of another allow
a second block on the same hash, by redraw or restart, and a block on top of a
block. Index 1 gives the redraw after a timeout. In `BlockStore` files of three
cells and blocks of one and two give files with one and with two blocks, a block
that opens a file, and a fork whose child is of another size. In `ChainSync` three nodes
with quorum two let two answers differ and still agree; a chain of four
lets a published block lie two above what `Me` has. In `TransactionPool` one
place and two threads reach the overshoot, and the long transaction the skipped page.
In `Preload` two executions are one that leaves something behind, or goes on too long, and
one that would suffer; the blocks deploy the same contract with different code on a fork, deploy
a new version by its coder and by another, disable a contract and invoke it in one block,
and let a contract throw.

In `PBFT` three nodes of four for F = 1 make every prepare and every commit count; two
blocks of one producer let messages of one block meet the buffers of the other, and one requester
for all or one for each are the two extremes of the router. In `RaftChain` two nodes
are the fewest that hand a term over, two blocks the shortest term with an inner
block, and a third block begins the next term. In `Membership` two members have
timers that overlap when the second comes up before the first is old enough, and that are
left when both are gone; one more stop or loss repeats this. In the index cache two entries
of three heights are the smallest maps that evict.

No run uses symmetry: the instances fix who produces which block. Deadlock is not
checked, as every instance ends where its bounds are used up.

Each property of a passing run has a mutant: a change of one definition as a
plausible bug would make it, under which TLC finds the property violated.

### Fairness

`sync_live` assumes that every actor of `Me` in the end handles what
is in its mailbox (Akka), that the retry timer fires, that nodes answer and that
the other nodes store the blocks there are. Strong fairness is not needed.
`pool` assumes that time passes, that the voter, which reschedules itself, draws
`Me` now and then, and that the blocker and the storager go on; strong
fairness is assumed where a step is possible again and again but not all the time:
that a `CreateBlock` comes while `Me` is drawn, and that a block of `Me`
gets endorsed if nothing speaks against it. Nothing is assumed of the arrival of
transactions, of other nodes' blocks or of faults.
`pbft_live` assumes that the voter draws on the current hash, that the collector and the storager of a
stable node go on, and that a message sent is handled, be it that it is refused; not that it comes at the
right time, nor that a block is created or times out.
`raft` assumes the same of the five actors of a node, that the voter's
timer rings, and that the pool fills; nothing of restarts or of
publications that are missed. `graph` assumes that the cluster tells each listener about members that came
up and that were removed, that a process that was started joins, and that a timer rings and
in the end finds all members old enough (their age is compared with a setting, and clocks go on).
All of these are weak.

## 4. Proofs

Of `CFRD`, for every number of nodes, of blocks, of draws, of resends and of restarts:

| Theorem | States |
| --- | --- |
| `CFRD_proofs!TypeCorrect` | `CFRD`'s type invariant, with the bounds of index and resends |
| `InvariantHolds` | the inductive invariant `IInv` |
| `CertificatesAreReal` | every published block was endorsed by enough nodes, each for this very block |
| `HeightsFollowParents` | an endorsed block is exactly one above its parent |
| `ParentsHeldByQuorum` | the parent of a stored block is at a quorum |
| `ForksLeaveWitness` | two published blocks on one parent were both signed by some node |
| `RefinesQuorumLedger` | `CFRD` implements `QuorumLedger` |
| `OneBlockForAHash` | a producer that was not restarted has one block endorsed on a hash |
| `LedgersAgreeWithoutRedraw` | while nobody draws twice on a hash nor is restarted, the ledgers agree on every height |

The assumptions are those named in `CFRD` (finite sets of nodes, a genesis block,
at least one candidate on every hash, settings in their types). The quorum
theorems rest on `QuorumsMeet`: two sets of signers that pass the
condition intersect, which follows from the number of signatures being more than
half of the vote nodes.

Why `IInv`. None of the properties is inductive. That heights follow
parents needs to know, of every place where a block or a draw waits, that its
height belongs to its hash as long as that hash is the tip: the voter may hold an
old hash and the blocker may hold one from an earlier draw. `InvDraw` says that a draw
on the current hash has the current height, and that a vote that holds a replaced
hash goes with a draw that is not on the new one; `InvPack` says what the blocker may
combine; `InvOwn` that a block which fits the producer's tip has its height. An endorser
compares the previous hash with its own draw, hence with a block it holds
(`InvSigned`), so that counting real endorsements (`InvAsks`, `InvColl`,
`CertificateIsReal`) puts the parent at a quorum. `InvLedger` and `InvCertified`
tie the ledgers to the published blocks. The proof has one lemma per part and, in
it, one step per action that can disturb it; the refinement proof maps `Confirm`,
which puts a block into a cache, to a stutter, `Store` to `Extend` and the last
endorsement to `Approve`.

The agreement of the ledgers takes more (`AInv` in `CFRD_proofs`). What keeps a
producer from a second block on a hash is its memory of the last one and nothing else, and
that is of use only while the block it remembers is on its tip; so `InvOnce` says of every place in which a
hash waits for the blocker (its draw, a running vote, the block under way) that all blocks the node
made are below it. `InvDrawn` ties the producer of an endorsed block to the draw. The agreement is then
carried from step to step: a node stores a block on a tip that the others have at that
height too, it was endorsed under the first draw there, and the node drawn has one block for it.

Of `Membership` and `EventPage`, for every set of members and of listeners, and every number of stops, losses and
fixed nodes gone:

| Theorem | States |
| --- | --- |
| `EventPage_proofs!TypeCorrect` | the type invariant of both modules |
| `LostStayUnstable` | no step of a running node makes a member stable that it sees unreachable |
| `PageIsTrue` | the page counts and links what it draws, and the blocker is green |

Their assumptions are that the set of members is finite and that the server is a member. The
type invariant carries what the other two need: a node knows of a loss only for members it was told
of, and nobody who is lost waits in `preload`, so that whatever a timer picks from those who wait is
not lost; and what has a colour or the class of the blocker is drawn, so that taking a member out
leaves no colour behind. `PageMatches` is inductive on top of it: a second `up` of a member changes
nothing, and a second `down` takes a fixed node, which ends the claim about the count.

Of `PBFT`, for every number of blocks and of requesters, and every set of at most 4F nodes:

| Theorem | States |
| --- | --- |
| `PBFT_proofs!TypeCorrect` | the type invariant |
| `CertificatesAreReal` | the answers, commits and prepares behind a published block are real and from different nodes |
| `RefinesQuorumLedger` | `PBFT` implements `QuorumLedger` with quorums of 2F + 1 |

The counters never look at the sender of a message, and empty their buffer whenever the number is
reached: what they count is right only if no message comes to be counted twice. So the invariant
follows every message on its whole way. A prepare is on its way to a node or in the node's buffer, never both
(`InvPrepares`). A node that has committed to a block did so on 2F prepares that it will not see again,
and two sets of 2F nodes meet when the producer does not prepare and there are at most 4F nodes: it cannot
commit twice (`InvCommits`, `PreparersMeet`). The same argument, one round later, says that a node answers
once for a block (`InvReplies`, `CommittersMeet`) and that all commits of a node go to one requester
(`InvDelivery`). `InvBelow` and `InvLedger` put the parent of what is committed to at the committers.
`FaultsAssumption`, that there are at most 4F nodes, is what the configuration has (four nodes, F = 1); with five
the theorem is false (section 5).

Of `RaftChain`, for every set of nodes and of blocks, every length of a term, and every choice of who misses what:

| Theorem | States |
| --- | --- |
| `RaftChain_proofs!TypeCorrect` | the type invariant: a draw is on a published block and has its height |
| `OneBlockOfAHeight` | no two blocks of a height while every block is built by the result of the draw and no producer was restarted |
| `ChainsGrow` | no node leaves the branch it stored, but for the top block that a rollback takes |

The invariant says that the published blocks form chains without gaps (`InvBlocks`), that `pe` and the
database of a node are a block apart at most (`InvNodes`), and that a producer has made nothing above the block
that would be on its tip, and this one only if it remembers it and is not at work on another (`InvOnce`). Agreement does not
follow from it step by step, as the premise speaks of whole chains: take the least height with two blocks. Both
of their terms end at the same lower height (`TermBelow`), so with the same block; hence one node was drawn for both, and it made one
(`OneAbove`).

Of `BlockStore`, for every tree of blocks, every size of files, blocks and maps, every number of
faults and rollbacks, under `Apart` (a save and a rollback do not overlap, and `pe` is read anew after a rollback):

| Theorem | States |
| --- | --- |
| `IndexesAreAChain` | heights, hashes, transactions and files are indexed as one chain describes them |
| `BelowTheTipIsReadable` | what is indexed below the last block is read back, but where a rollback stopped after the truncation |
| `CacheIsFaithful` | what the cache holds of an indexed height is what the database says |
| `WorldIsReplayed` | the world state is the one that the stored blocks' logs produce, until `halfway` |
| `RefinesChainLog` | the storage implements `ChainLog` |

Without either half of `Apart` TLC refutes the first of them (section 5). The invariant `IInv` says what the one
shared batch holds at each point of a save or a rollback (`InvTurn`), that the stored blocks are a chain
(`InvChain`) whose places in the files ascend (`InvFiles`, `InvBytes`), that counting the
indexed transactions gives the count (`InvTx`), that the cache agrees with the database up to its last height
(`InvCache`; what a failed save leaves above that is overwritten by the next one), and that `pe` shows the last block unless a rollback is
under way (`InvStatus`). It holds unless `halfway`, for the reason in section 5. `NoRepeat` says
of the blocks of one chain that they share no transaction, which is what endorsers check
(`Endorser4Future.scala:208`), and is needed for the index of the transactions only.
The last two theorems also assume `OldValues`: the logs of a block name the values that the chain below it left. The instance of
`store_crash` has such logs and `MCLogsTwice` has not; which blocks the sandboxes log in this way is what `Preload` says
(`Irrevocable`, `Rollback_Restores`). The proof then goes commit by commit: nothing else changes the database
(`CommitsOnly`), a saved block extends the chain and one that is rolled back leaves it, and `Replay` of the longer chain is that of the
shorter one with one block's logs after it (`ReplayExtend`).

Of `ChainSync`, for every tree of blocks, set of nodes and number of restarts:

| Theorem | States |
| --- | --- |
| `ChainSync_proofs!TypeCorrect` | the type invariant |
| `StatusShowsTop` | `pe` shows the last block of the database, with the exceptions that `StatusIsTop` names |
| `AgreedBlocksAreKept` | no block of the agreed chain is rolled back, but in the first synchronisation or by an answer computed for an empty database |

`MainAssumption`, that the agreed blocks are one chain and the others begin with a part of it, is what `CFRD`
shows (`AgreeWithoutRedraw`, `ParentHeldByQuorum`); `NoCycles` holds as a block has the hash of the one below in its
own. The invariant keeps, from the question to the rollback that is decided on the
answers, that the answers were true of chains of the others, which only grow, and that the height compared with
is that of `Me` at that time: a block that is stored meanwhile is above it.

Of `TransactionPool`, for every set of transactions and threads, all sizes and settings, and any number of stops and failed saves:

| Theorem | States |
| --- | --- |
| `TransactionPool_proofs!TypeCorrect` | the type invariant: no pool, in use or saved, has a transaction twice |
| `PoolBounded` | the pool outgrows `max_cache_num` by one transaction for every thread but one at most |
| `FreshBlocks` | a block repeats nothing that was stored when it was collected |
| `LeavesAreStoredOrAged` | while the node runs, a transaction leaves the pool only if it is stored or has waited too long |

The limit is inductive only if a thread that has seen room counts as if it had put already, and if the pools that
were saved, or wait in the storager's transaction, keep to it as well (`InvLimit`): this is what a start
takes over. What was collected for a block is compared with the chain as it was then (`InvPack`), and `ChainType` says that
this part of the chain stays. `InvStorer` says that the storager has committed what it is about to remove, and
`InvDown` that nothing runs in a node that is down. `WithoutFacts` carries the proofs about sequences: removing
elements keeps the others, and none of them twice; it counts the positions that are left instead of recursing.

Of `Preload`, for every set of preloaders, tags, contracts and blocks, every content of the blocks, every world state to
begin with, and any number of executions, saves, rollbacks, timeouts and failures:

| Theorem | States |
| --- | --- |
| `Preload_proofs!TypeCorrect` | the type invariant: what can be under a key is of the key's type, in LevelDB and in every overlay |
| `InvariantHolds` | the inductive invariant `IInv` |
| `LogsReplay_ToView` | LevelDB with an execution's logs shows what its contracts see |
| `Results_AreIsolated` | results depend on the parent's world state and the block, with the exceptions that `ResultsAreIsolated` names |
| `Rollback_Restores` | the old values bring the world back, unless `Irrevocable` |

Of the constants they assume types, that no block is empty, that `None` is no value, and that `Nobody` is no preloader.
`InvRequests` says to whom a group in a mailbox belongs: a preloader waits for one group, which is the
one that follows its results, and has none when it does not wait. `InvAlone` and `InvFree` say that the overlay of an
execution that is alone holds its own writes and nothing else. `InvIsolated` carries the claim: at every
transaction such an execution agrees with the reference in all that the next step depends on, which is
what it sees, what the dispatcher took the contract for, and the classes the reference has made, besides the
results. One lemma for each way a step can touch an execution (it begins, is passed on, refused, executes, is left alone)
shows that it still does, and that the logs still say what the overlay holds. `InvChain` has a stored block's
logs be those of its isolated execution; `Rollback_Restores` follows from what such logs look like (`Restorable`): as long as
nothing is irrevocable, every key is logged once, with the value it had before.

`Isolated` and `Logs` are recursive functions over the transactions of a block and the results. No induction theorem of the
library can be used, as each takes the formula as a parameter; `UpTo` does the induction over a set of numbers, by its
least missing one, and `LogsDef` and `IsolatedDef` unfold the two functions with it. `ReplayDef` does the same for
`Replay` of `ChainLog`.

Only model-checked: liveness, which the prover cannot do: `PublishedIsStored`, `CacheDrains` and `ConsensusStarts` of `ChainSync`,
`PoolDrains`, `BlockIsPublished` of `PBFT`, `FollowersComeLevel` and `TermIsHandedOver` of `RaftChain`, and `MembersBecomeStable`.

## 5. Findings, and what the code does not guarantee

A finding, which a run shows:

* `store_lookup`: the two maps of the index cache evict on their own. When the one by height has
  lost a block whose hash the other one has, the lookup by height and the one by hash call each
  other until the stack is full (`ImpDataAccess.scala:183`). It takes a chain longer
  than the cache and no fault.

Definitions that state what one might expect and that TLC refutes, without a run
of their own (the instance that does it in brackets):

* `CFRD!LedgersAgree` (that of `cfrd_redraw`): after a block timeout endorsers sign a second block on the
  same hash, and two nodes store different blocks at one height (`Endorser4Future.scala:357`).
  `ForkLeavesWitness` is what remains, and `AgreeWithoutRedraw` says when agreement holds.
* `BlockStore!BlocksReadable` (that of `store_crash`): a rollback truncates the file before it commits
  (`Rollback4Storager.scala:62`), and a crash in between leaves an index entry without its bytes.
* `BlockStore!ChainIndexed`, `BelowTipReadable`, `CacheFollowsIndex` and `ImplementsLog` without their exception `halfway` (that
  of `store_crash`): a rollback of several blocks that stops between two of them is only logged
  (`ISynchRequester.scala:176`), `pe` keeps a block that is rolled back, and the next block is stored on it: `restoreBlock`
  finds the block below in the cache (`ImpDataAccess.scala:771`), and the database has a gap. The same with `FollowUp` =
  {"fetch"} and no fault: `pe` is not read anew after the rollback either.
* `BlockStore!SavedIsStored` (`Overlap` TRUE, `FollowUp` = {"fetch"}, one rollback, no fault): a save and a rollback
  share the one batch and exclude each other by locks of different objects; a save reports success
  and stored nothing.
* `ChainSync!PublishedIsStored` (that of `sync_live`, `Me` starting on a fork): after the rollback of a forked
  block `pe` keeps it (`ISynchRequester.scala:169`), and nothing is stored any more until a restart.
* `ChainSync!AgreedBlockStays` (that of `sync_safe`): a node without blocks asks, stores the genesis block that comes
  meanwhile, and takes it away again: asked for height 0 the others name no block, which counts as a fork
  (`ISynchAnalyzer.scala:94`).
* `PBFT!CertificateIsReal` with five nodes and F = 1, which `FaultsAssumption` rules out: F is a constant of the code
  (`SystemProfile.scala:70`) while the configuration may name more vote nodes, of which 2F + 1 are no quorum any more.
* `Preload!LogsReplay` (that of `preload`): `setPoints` logs another key than it writes (`Shim.scala:88`), so that
  points are lost once their block is stored.
* `Preload!ResultsAreIsolated` without the third condition of `Remembers` (one block that deploys a contract and sets
  its state, another that deploys a version of it and invokes the first): the set state logs its new value as the
  old one (`SandboxScala.scala:125`), so a rollback of the first block leaves the state of a contract whose code it took
  back. The invocation is then accepted, and it runs on a node that still has the class (`Compiler.scala:166`) and fails on
  one that has not.
* `RaftChain!BuiltInTerm` (nothing missed, no restart): the comment of `BlockerOfRAFT.PackedBlock`
  (`BlockerOfRAFT.scala:45`) says that a block is built by the result of the vote; the code reads the chain
  status (46), which may be one block behind the draw or ahead of it.
* `PBFT!CollectedIsPublished` (that of `pbft_live`): a prepare or commit that reaches a node before it has drawn is
  dropped for good, as only pre-prepares are sent again, and a block may stay without enough.
* `Membership!StableIsReachable` (that of `graph`, as the next three): the snapshot at the start makes members stable that have
  stopped and are not removed yet.
* `Membership!SyncBegins`: the first `StartSync` is dropped when a node has gone again by then, and
  `isStartSynch` keeps it from being repeated.
* `EventPage!FixedNodesStay`: removing a node that is not drawn removes the first node, though the page
  expects repeated messages (`rep_graph.js:23`).
* `EventPage!OnlyBlockerIsGreen`: a blocker drawn late keeps its colour when the next one is set.
* `CFRD!EndorseOnTip`: an endorser compares with its draw, which may be behind its tip.
* `CFRD!ResendsWithinLimit`: a collector resends once more than the setting.
* `BlockStore!WorldIsReplay` with `MCLogsTwice`: a rollback restores old values in
  the order of the writes, so that a key written twice keeps the value of the first write.
* `BlockStore!StoredOnLast` with `Overlap` or after a rollback that stopped halfway, and `FileRebuildsChain` after a failed save,
  whose bytes stay in the file.
* `BlockStore!RefusedIsDamaged`: the check at start divides by zero for a file with one
  block and refuses a sound storage.
* `TransactionPool!BlockWithinLimit`: a page, and so a block, may hold one transaction more than
  `trans_num_limit` (`system.conf:131`).
* `Preload!DisabledIsRefused`: a contract disabled in a block is still invoked in it, as the sandbox asks
  LevelDB and not the overlay; `StateSpec` expects otherwise.
* `ChainSync!StartAfterSync`: with answers missing the first synchronisation ends
  without having reached the others' height, and the consensus starts.

Also seen while modelling, without a definition: with `number_of_endorsement` 1 or 3
no number of signatures passes the condition and nothing is published
(`ConsensusCondition.scala:19-33`), while `system.conf:116` offers both; answers that are older than the
blocks stored since make the start roll back a block that the others hold too; an entry that
leaves the cache during the storager's loop ends it with a swallowed exception, and the
rest waits for the next message; a `StartSync` that is dropped has already
cancelled the retry. Without the exception `Overtaken`, `PoolDrains` does not
hold: a block packed on a later draw may repeat transactions of a block that
overtook it; nobody endorses it and the node makes no other one on that hash.

Not reached within the bounds: in `PBFT` a fork after a block timeout takes two full rounds of
messages on one hash (`CFRD` has such forks); in `RaftChain` forks deeper than one block (`ChainSync`
rolls back further). In RAFT a node that is drawn, misses the last block of the term and gets nothing
after it does not take its turn, and nobody else does: `Missed` leaves this out of the run, as nothing in
the code would end it. A restarted RAFT node draws on whatever height it has
(`VoterOfRAFT.scala:62`), out of step with the terms of the others, which is why the liveness properties
except it.

## 6. Not modelled

* Signatures, certificates and hashes: a signature is what its signer made, a hash is the block.
* Parallel sandboxes, executions for the API, compilation and the class files on disk.
* Contracts in `sc/tpl`: programs of users. `ContractCert`, whose writes also change the
  certificate cache, is one of them: the cache belongs to the signatures.
* REST interface, logging, alerts and statistics: they read, or hand a transaction to the
  pool, which is where `TransactionPool` begins.
* Configuration and start of the actors: settings are constants.
* The restart of a node that learns of its own removal (`MemberListener`), members that are no
  candidates, and clusters too small for RAFT's synchroniser, which then does nothing.
* The consensus modules keep the set of stable nodes constant; `Membership` has the changes.
* Nearly all JavaScript of the repository is libraries of others: jQuery, jQuery UI, protobuf.js,
  Swagger UI and d3. They hold no logic of RepChain and are left aside; the one script of its own,
  `rep_graph.js`, is in `EventPage` as far as it keeps nodes, links and colours.

`PROJECT.json` has a note for each component.

## 7. Plan

The modules are written, and every safety property that a run checks is proved. What is left is to state and prove
which of the facts the modules take from each other hold in the other's terms: that the
`MainAssumption` of `ChainSync` follows from `AgreeWithoutRedraw` and `ParentHeldByQuorum` of `CFRD`, and that a chain whose blocks
are not `Irrevocable` has the `OldValues` that `BlockStore` asks for.
