# A verification model of Cascadeth

Cascadeth is a fork of go-ethereum that turns the chain into a broadcast-based
payment system. There is no single chain to agree on. Every validator extends a
chain of its own, sealed by the clique engine, and a transaction in a
validator's block is that validator's acknowledgement (*ack*) of it, weighted by
the validator's stake. A node adds up the acks it sees; once more than 4/5 of
the stake has acked a transaction, the node executes it on its own *detached*
state. A correct validator acks at most one transaction per sender and nonce
(a *slot*), and that is what stands between the users and a double spend.

These modules model the protocol and the parts of the node around it as the code
implements them. TLC checks small instances, and TLAPS proves the central safety
properties for every instance.

## 1. The system: parts, modules, state, actions

One module models one part. Variables carry the names of the fields they model,
actions the names of the functions. `PROJECT.json` maps each definition to its
source lines and lists the hazards of the code.

**The payment protocol**

| module | code | what it models |
| --- | --- | --- |
| `Transfers` | `core/state_transition.go` | transactions, slots, account states; when a transfer applies and what it does. Fees are burned |
| `Cascade` | `core/state_processor.go`, `core/tx_pool.go`, `core/blockchain.go` | the network of nodes: ack counting, both loops of `Process`, head and detached state, the miner reduced to which acks reach a block |
| `Settlement` | | the abstract specification: what the network promises its users |
| `Worker` | `miner/worker.go` | the four goroutines of the miner, their channels, sealing in the background, siblings of the own head |
| `MinerControl` | `miner/miner.go`, `miner/worker.go` | starting and stopping around synchronisations, interrupts, the resubmit interval |
| `TxPool` | `core/tx_pool.go`, `core/tx_list.go`, `core/tx_journal.go` | pending and queued lists, replacement, promotion, truncation, eviction, the price heap, the journal, the reorg scheduler |
| `Multishot` | `core/tx_pool.go` | proposals and decisions about rivals; the contract is external |
| `Restart` | `core/blockchain.go`, `core/tx_pool.go` | what a node keeps and forgets in a shutdown and in a crash |
| `Clique` | `consensus/clique` | signer snapshots, votes, checkpoints, header verification, `Prepare`, `Seal` |

**Storage**

| module | code | what it models |
| --- | --- | --- |
| `World`, `StateDB` | `core/state` | plain states with checkpoints, and the state database with objects, caches, journal and copies |
| `TrieDB` | `trie/database.go`, `core/blockchain.go` | reference counts, flush-list, batches, and the collection of old states |
| `Snapshot` | `core/state/snapshot` | diff layers, capping, flattening, persisting, generation, journal |
| `FreezerTable` | `core/rawdb/freezer_table.go` | one table: index, data files, appends, truncation, repair |
| `Freezer` | `core/rawdb/freezer.go`, `database.go` | moving old blocks to the tables and deleting them from the key-value store |

**Network and interfaces**

| module | code | what it models |
| --- | --- | --- |
| `Peers` | `eth/handler.go`, `eth/peerset.go` | registering, serving and removing connections, `Stop` |
| `Broadcast` | `eth/protocols/eth` | a peer's bounded queues of blocks, announcements and transactions |
| `BlockFetcher`, `TxFetcher` | `eth/fetcher` | announcements, requests, time-outs, the import queue |
| `Feed`, `TypeMux` | `event` | subscription, sending and cancelling |
| `Server` | `p2p/server.go`, `p2p/dial.go` | the run loop, its checkpoints, the dial scheduler |
| `UDPv4`, `DiscTable`, `Lookup` | `p2p/discover` | requests and replies, one bucket, an iterative lookup |
| `RPCClient` | `rpc` | calls, reconnects, subscriptions, `Close` |
| `Filters` | `eth/filters` | installing, polling, and timing out filters |

How they interact: the miner fills a block and calls `ApplyTransaction`, which
acks the transaction in the pool and, if this ack confirms it, queues it in
`confirmed`. The engine seals the block, `resultLoop` writes it (the head moves,
the state does not) and broadcasts it. At every other node the fetcher hands it
to `insertChain`; `Process` counts its transactions as acks of its author,
executes those that are confirmed and applicable, then retries the confirmed
list, and the resulting state becomes the node's state. A new head resets the
pool. `Process` and `ApplyTransaction` hold the pool's mutex; imports and writes
hold the chain's.

Some correspondences that are not obvious:

- **Cascade.** A block is named by its content: author, the lists of its
  ancestors, its own list; two blocks that differ only in their time stamp are
  one block. `Process` is split into `ProcessStart`, one `ProcessAck` per
  transaction, `ProcessAcksDone`, one `ProcessConfirmed` per entry and
  `ProcessDone`; an error sets the call to `Idle` and leaves the pool as it is.
  Every other action of the node that needs a mutex waits for `Idle`. Faulty
  signers have no actions: any block of theirs with a body from `FaultyBodies`
  may arrive at any node at any time, different ones at different nodes. Blocks
  of correct validators stay available after their broadcast and may arrive in
  any order, repeatedly, or never. `counted` is a history variable. A list that
  was sealed and is then extended and sealed again as a sibling is left to
  `Worker`: the repeated acks in it count nowhere, `voted` has them.
- **Settlement.** `chosen` grows by transactions that conflict with nothing
  chosen; a replica executes chosen transactions, leaving no gap in any sender's
  nonces. `Cascade` maps `chosen` to what some correct node has a quorum for and
  `done[n]` to the confirmed transactions whose nonce the state of `n` consumed.
- **Worker.** Channels are variables: tokens in `startCh` (one is there from the
  start), counted head events, announced transactions, the request on the
  unbuffered `newWorkCh`, the bounded `resultCh`. Filling a block is one step per
  transaction; how an ack comes out beyond the nonce check depends on pool and
  state and is left open. Senders are offered in any order. Uncles are only
  counted: the engine drops them, but they make mainLoop commit again.
- **StateDB** is compared with `World`, a stack of plain maps: what is read
  through objects, caches, journal and reverts is what the map has.
  Objects hold errors of their own (`dbErr`), which a copy does not take over.
  Two nested checkpoints are taken, so that one revert ends inside another.
- **Freezer, FreezerTable.** In a crash a file loses some suffix of what was
  not synced, also a file that was closed when it was full; `holed` are the items
  that lost their bytes so, and the index still counts them where a later item
  is whole. Truncations persist, and key-value writes are durable when they return.
  `DiskFills` lets an append be cut short while the process lives on.
- **TrieDB** has two chains, the node's own and the one its state comes from, and
  either may be any number of blocks ahead within the bound.
- **Broadcast.** `BroadcastBlock` takes the list of peers, queues the block and marks
  it in three steps (`listed`, `queued`, done), in one goroutine for a mined block and
  in two for an imported one; the peer's own messages come in between. `crossed` is
  a history variable: the blocks of which both goroutines had taken the list
  before either marked. A block is not imported again while it is still being
  broadcast.
- **TxFetcher.** `Notify` filters in the caller's goroutine, against a pool that
  changes before the loop takes the announcement (`notices`) and runs `notify`.
- **Snapshot.** A state root is the sequence of changes that made it. `Layers`
  and `GenLayers` stand for the 128 layers kept and the 8 during a generation.
  `diffToDisk` on a layer that is stale already panics, after it has waited for
  the generator if the layer had one.
- **Server, UDPv4.** A dial task has a destination (`dest`), which resolving a record
  changes in the running task alone, and knows whether it is still in the list of
  static nodes (`listed`). Time is abstracted to which timers may fire, in UDPv4 to
  small relative deadlines; packets are lost, duplicated and reordered.
- **DiscTable** is one bucket; whether an address limit admits a node is open.
  **Lookup** names nodes by their distance to the target.

## 2. The instances

`MCCascade` and `MCWorker` extend their component. `MCCore`, `MCStorage`,
`MCNetwork`, `MCDelivery` and `MCEndings` each hold several components that
share no state. Interleaving the steps of such components would multiply
states and show nothing more about any of them, so a variable `focus`, chosen in
the initial state, names the one that moves in the behaviour.

`MCCore`, `MCStorage` and `MCNetwork` EXTEND the components that are proved about
(`Multishot`, `MinerControl`; `Freezer`, `FreezerTable`; `Peers`, `Broadcast`, `Feed`,
`TypeMux`, `RPCClient`, `Filters`), so that a run checks, and a theorem states, the
very same definition: `TallySound`, `FreezerSound` and so on. Such a definition also
contains the component's type invariant and its inductive invariant. All other
components are instantiated, and a property of theirs is a conjunction of
`focus = "x" => X!P`, where each `P` is stated and explained in its own module. The
assumptions on constants are `ASSUME`d for the instances used.

Modules that are extended together share one name space, hence names such as
`FeedInit`, `ControlNext` or `peersVars` in them. Where two of them declare a constant
of one name (`Txs`, `None`), it has one value in the run.

Every run stops at its bounds and some parts really end (a closed server, a
cancelled subscription, a stopped node), hence `CHECK_DEADLOCK FALSE`; where
somebody must not wait for ever, a liveness property says so (`delivery`,
`endings`).

## 3. What is checked

Each property of a passing run is paired in `PROJECT.json` with a plausible bug in
the code, defined next to the definition it replaces, that makes TLC find it
violated.

| run | instance | checks |
| --- | --- | --- |
| `equivocation` | stakes 4, 1, 5; the third signer is faulty; two rivals; one block per chain | `Agreement`, `AckInv` |
| `forks` | the same, one miner, two sibling blocks, gas prices that differ by node | `Settles` |
| `ledger` | stakes 1, 1, 8; one correct node; two payments of one payer and one that its beneficiary makes | `TypeOK`, `CompactionBehind`, `ExecutionBacked`, `LedgerExact`, `Settles` |
| `miner` | two rivals and a follower; two blocks; `resultCh` of one | `TypeOK`, `NoEquivocation`, `AcksInOrder` |
| `core` | restarts (2 instances), pool (2), clique, decisions, control of the miner (2) | `RestartSound`, `PoolSound`, `CliqueSound`, `TallySound`, `RivalsOnlyByDecision`, `MinerControlled` |
| `storage` | a table, the freezer, the state database (2), tries, the snapshot (2) | `TableSound`, `FreezerSound`, `Implements`, `TriesSound`, `SnapshotSound` |
| `network` | fetchers, peers, broadcast (2), feed, mux, server (3), discovery (4), RPC client, filters | `BlocksSound`, `TransactionsSound`, `PeersSound`, `BroadcastSound`, `FeedSound`, `MuxSound`, `ServerSound`, `DiscoverySound`, `ClientSound`, `FiltersSound` |
| `delivery` | pool (2), fetchers, broadcast, dialer, lookup, under fairness | `PoolDelivers`, `FetchersDeliver`, `NetworkGoesOn` |
| `endings` | peers, server, feed, mux, discovery (2), RPC client, filters, under fairness | `NodeStops`, `SubscriptionsEnd`, `DiscoveryEnds`, `ClientsServed` |
| `bad_block` | three correct nodes | `BadBlockIsFaulty` is violated |
| `lost_tx` | one node; the others send one block each, with the same two payments | `ConfirmedKept` is violated |
| `lost_ack` | as `miner` | `AckReachesBlock` is violated |

What the properties of the protocol say:

- *Agreement*: rivals never both have a quorum, at any correct nodes.
- *AckInv*: tallies are stakes of sets, sets of rivals are disjoint, and a
  correct validator's ack was counted by itself first, once per slot.
- *Settles*: the refinement of `Settlement`.
- *CompactionBehind*, *ExecutionBacked*: the confirmed list and the state hold
  nothing without a quorum, also during the compaction, on the copy of the state
  that a block runs on, and after rejected blocks.
- *LedgerExact*: balances are exactly what the executed transactions give.
- *NoEquivocation*, *AcksInOrder*: what a node publishes never contains rivals
  and follows the order of nonces along every chain of its blocks.
- *RestartSound*: a stop or a crash may forget executions, never repeat or mix
  them.
- *PoolSound*: lookup, lists, nonces and heartbeats of the pool
  agree at every interleaving of `add` with `runReorg`, and every run of it leaves
  the lists within their limits and the local transactions in place.
- *CliqueSound*: snapshots in memory and on disk are what the headers give, and
  what `Prepare` and `Seal` make is accepted.
- *TallySound*, *RivalsOnlyByDecision*: whatever the unlocked decision handler
  overwrites, a confirmation has a quorum or a decision behind it, and rivals are
  both confirmed only through a decision.
- *MinerControlled*: the worker rests during a synchronisation and then does what
  the user asked for last; a block is cut short only for a newer request; the
  resubmit interval stays the user's. The branch of `recalcRecommit` that
  lengthens the interval is never reached.

- *TableSound*, *FreezerSound*: an open table returns what was appended and keeps
  what reached the disk, at whatever step a crash comes, and only items of a file
  that was closed before a sync may be gone; the freezer loses no block of
  the node's own chain, and its two stores meet after every restart.
- *PeersSound*: a connection whose handler has returned is not in the peer set.
- *BroadcastSound*: a block goes to a peer at most once in full and at most once as
  a hash, both only if the two goroutines of an import crossed, and never to the peer
  it came from; no transaction hash is left waiting in a queue that nobody empties.
- *FeedSound*, *MuxSound*: a send reaches every subscriber once, nobody sends on a
  closed channel, and nothing comes after `Unsubscribe` or `Stop` has returned.
- *ClientSound*: responses, read errors, reconnects and `Close`, which race for a
  response channel, close it once and never write to it afterwards.
- *FiltersSound*: successive polls return what happened since the installation,
  once and in order.

The properties of the other runs are explained where they are defined, in
`MCStorage`, `MCNetwork`, `MCDelivery` and `MCEndings`.

Three runs show a disagreement between the code and its comments.

- *bad_block* (`core/state_processor.go:111`). A node's own ack confirms a
  transaction and queues it. A later ack for it, in the block of another correct
  validator, "confirms" it again: the first loop applies it, the second loop,
  validating against the state from before the block, applies it again, fails,
  and the block is rejected.
- *lost_tx* (`core/state_processor.go:119`). A transaction is confirmed and
  applied by a block that is rejected because of another one, as in
  *bad_block*. It has its quorum, but the state is dropped and it is not in the
  confirmed list; only the ack of a validator not counted yet could confirm it
  again. `vb` and `vc` are in `Faulty` only to keep the instance small: each can
  send a single block, the one a correct validator would send, and the gas
  suffices for all executions.
- *lost_ack* (`miner/worker.go:747`). An ack is recorded when its block is
  filled; the block is discarded or superseded. `expectedAckNonce` has moved on,
  so the ack reaches no block.

**Bounds.** `MaxHeight` bounds the height of chains and `MaxBlocks` the blocks a
node seals; acks per slot are bounded by the set of validators, and two blocks
per chain are what a fork needs. Two rivals are what agreement is about; a
second nonce and a payment that depends on another exercise the confirmed list.
The stakes are such that the quorum is crossed by the last or by the second-last
ack. `MaxStarts`, `MaxStops`, `MaxCrashes`, `MaxRestarts`, `MaxFailures` and
`MaxFaults` bound what comes from outside to one or two, so that one can hit
another that is not finished. Queues, buckets, slots and layers have room for one
to three entries where the code has 4 to 4096, so that their limits are within
reach: a queue of one is full, a bucket of two has a first and a last, and files
of two bytes break within three items. Two peers, senders, connections or
subscriptions are what a race needs; the third connection in `Peers` is the node
that comes back. The instances with the largest numbers of states (pool, blocks,
snapshot) were chosen as large as a run of a few minutes allows.

**Fairness** is used in `delivery` and `endings` only; all other properties are
safety properties. Weak fairness of an action says that a goroutine which can go
on does: Go schedules every runnable goroutine, timers fire, mutexes are handed
on. Strong fairness stands for a `select` that is entered again and again with the
same case ready: Go chooses among ready cases at random. It is used for
`MinerControl`, `UDPv4` and `Filters`. What the environment may refuse is not fair:
receivers of events, peers that are not assumed honest, servers that do not
answer, writes that block, users that stop asking. Per module:

| module | assumed to happen |
| --- | --- |
| `TxPool` | the scheduler starts requested runs, runs end, events are taken; a mining node keeps sealing, as clique does every period |
| `BlockFetcher`, `TxFetcher` | timers run out, the loops run, imports finish, honest peers that stay connected answer |
| `Broadcast` | the goroutines run; a write to the connection may take for ever |
| `Server` | dials and handshakes have timeouts, history expires, the protocols of a disconnected peer return |
| `Lookup`, `DiscTable` | queries, pings and lookups end, which `UDPv4` checks |
| `UDPv4` | time passes, the loop's select is fair |
| `Peers` | handlers and calls go on; only a disconnected connection must end |
| `Feed`, `TypeMux` | calls that have begun go on where they can; nobody has to receive |
| `RPCClient`, `Filters` | callers and loops run; the server need not answer |

## 4. What is proved

Eight modules hold theorems, for every value of the constants. Each rests on named
assumptions, which TLC evaluates for the instances of the runs. A proof module
extends the modules it is about.

| module | theorem | states | assumes beyond the types of constants |
| --- | --- | --- | --- |
| `CascadeProofs` | `TypeCorrect` | `[]TypeOK` | |
| (`Cascade`, `Settlement`) | `CompactionStaysBehind` | `[]CompactionBehind` | |
| | `NoDoubleSpend` | `[]Agreement` | `WeightAssumption`, `FaultBound` |
| | `AcksAccounted` | `[]AckInv` | `WeightAssumption` |
| | `ExecutionHasQuorum` | `[]ExecutionBacked` | `WeightAssumption` |
| | `NetworkSettles` | `Spec => Settles` | `WeightAssumption`, `FaultBound` |
| `WorkerProofs` | `TypeCorrect` | `[]TypeOK` | |
| | `NodeNeverEquivocates` | `[]NoEquivocation` | |
| | `NodeAcksInOrder` | `[]AcksInOrder` | |
| `CoreProofs` | `ConfirmedHasStake` | `[]TallySound` | additive weights |
| (`Multishot`, | `RivalsNeedDecision` | `[]RivalsOnlyByDecision` | additive weights, `FaultBound` |
| `MinerControl`, | `MinerIsControlled` | `[]MinerControlled` | time ratios are at most 1 |
| `Freezer`) | `FreezerKeepsChain` | `[]FreezerSound` | the own chain is not another's; there is a table |
| `TableProofs` | `TableIsSound` | `[]TableSound` | items are not empty and fit into a file; `~DiskFills` |
| `HandlerProofs` | `SetHasNoGhosts` | `[]PeersSound` | |
| (`Peers`, `Broadcast`) | `BroadcastIsSound` | `[]BroadcastSound` | finite sets of blocks and transactions |
| `FeedProofs` | `FeedIsSound` | `FeedSpec => FeedSound` | |
| `TypeMuxProofs` | `MuxIsSound` | `MuxSpec => MuxSound` | |
| `ClientProofs` | `ClientIsSound` | `[]ClientSound` | |
| (`RPCClient`, `Filters`) | `FiltersAreSound` | `[]FiltersSound` | |

`WeightAssumption`: the stake of a set of nodes is additive, and the stake of all is
at most `TotalStake`. `FaultBound`: the faulty signers' stake plus the total is at
most twice the quorum stake plus one, that is, less than what two quorums share.
`~DiskFills`: no write is cut short while the process lives on. When the disk is
full, the code does not keep the property (`ReadableAfterFailure` in section 5). A
crash in the middle of an append or a truncation, and the loss of any unsynced
part of the index and of all files, are in the theorem; what it promises after them
is what was on disk, which is less than what `Sync` is meant to put there
(`SyncReachesDisk` in section 5).

The arguments:

- **TypeCorrect, CompactionStaysBehind** (`Cascade`). `TypeOK` is not inductive alone: the in-place write of
  `ProcessConfirmed` is typed only because the write index stays behind the read
  index, which is `CompactionBehind`.
- **NoDoubleSpend.** The inductive invariant is `AckInv`: agreement speaks of sums,
  and a sum says nothing about who was counted. `AddAckBacked` shows what
  recording one ack does to it, `QuietStep` covers the steps that record none.
  `QuorumsMeet` is the counting argument: two quorums for rivals overlap in more
  stake than the faulty signers have, so a correct validator would be counted
  for both at itself, which disjointness forbids.
- **ExecutionHasQuorum.** That the state of a node holds nothing without a quorum is
  not inductive; `ExecutionBacked` also covers the confirmed list and the copy of
  the state a block runs on; quorums only grow. No bound on the faulty signers is
  needed.
- **NetworkSettles.** Initial states map to initial states; every step maps to a
  choice, an execution or a stutter. That nothing executed is taken back needs
  `RunAhead`: while `Process` runs, the copy it works on is never behind the node's
  own state, so installing it in `ProcessDone` only adds. A choice conflicts with
  nothing chosen by `Agreement`.
- **Worker.** `PipelineInv` ranges over everything that may still become a block:
  the block being filled, the sealing task, the results and what was written.
  Each is ordered along its chain, behind `expectedAckNonce`, and free of rivals
  of the others. What is published is part of it.
- **Multishot.** `TallyInv` says which sums stay exact while the handler writes
  without the lock: all but those of the decided transaction, including the
  weight a call has read and not written back yet.
- **Peers.** `NoGhosts` needs `RegistryInv`: the server runs one connection per id,
  and an id stays free from the removal of a connection until its handler
  returned, whichever of several concurrent `removePeer` calls did it.
- **Freezer.** `FreezerSound` says that no block of the node's own chain is lost, that
  the tables agree between batches, and that a restart finds no gap. It needs
  `BatchInv`: where each table is in the middle of a batch, that nothing is
  deleted before all tables are synced, and that only side blocks are followed.
- **MinerControl.** `ControlInv` ties `running`, `canStart`
  and `shouldStart` to the user's last wish, and shows why the interval never
  moves: no new transactions are counted while a block is filled, so a
  resubmission never interrupts, and the feedback sent can only shorten an
  interval that is already at its minimum.
- **FreezerTable.** `Readable` says what `Retrieve` returns and `SyncedKept` what is
  left after a crash (`kept`: the items whose entry and bytes were on disk); neither
  is inductive. `IndexInv` describes the index alone:
  each entry lies right behind the one before it or at the start of the next file,
  so cutting the index anywhere leaves a table. `HeadInv` ties the files and the
  counters in memory to it, at each step of `Append` and `truncate` too, and
  `SyncInv` says what the disk is sure to have. `repair` is the hard step: it drops
  entries until the last one fits its file, and ends because entry 0 always fits;
  that it stops no earlier than the items kept is `SyncInv`, also where a closed file
  has holes below them.
- **Broadcast.** What was queued is in `knownBlocks`, or its goroutine is about to mark
  it, and stays there as long as that set does not overflow (`KnownInv`); a goroutine
  that took its list before can still queue a block the other one has queued, which
  is what `crossed` records, and a block the peer sent is on nobody's list.
  `QueueMoves` is inductive with the types: a writer that has cut its queue to a
  packet has something in flight.
- **Feed.** `Send` keeps the channels it has served behind a shrinking prefix of
  `sendCases`, and a removal in the middle moves the prefix. `ListInv`: a channel is
  in `inbox` or in `sendCases`, once, exactly while its subscription lives.
  `PrefixInv`: whoever is owed the value is in the prefix, and whoever is in the
  prefix has not got it. `CatOnce`, `DeletedOnce` and `SwappedOnce` say of lists what
  a concatenation, a removal and a swap hold and that they repeat nothing; they
  carry both invariants through every step.
- **TypeMux.** `DeliverInv`: whoever delivers holds the read lock of a subscription
  whose `postC` is nil once its channel is closed. `CloseInv`: a subscription is in
  the list until it is closed or about to be, and whoever closes it is its own
  `Unsubscribe`, or `Stop` before it returns. The second half of `MuxSound` is an action
  property: after `Stop` nothing is received, except through a subscription inside
  its own `Unsubscribe` (see `StopWaits` below).
- **RPCClient.** `ClientInv`: the caller that writes is the one `dispatch` has in
  flight, and its result is still out; what waits for a response was not told yet;
  and while `dispatch` changes the connection nobody tells the operation in flight.
  Each of the four that may close a response channel therefore finds it open.
- **Filters.** `FilterInv` says where an event can be: with the loop, with the
  filter's goroutine, in its buffer or polled. Put together in this order they are
  the events since the installation, also before the API knows the filter.

All these invariants, except `RunAhead` and `PipelineInv`, which are internal to their
proofs, are conjuncts of what the runs check.

Only model-checked:

- Liveness (`delivery`, `endings`), which the prover does not reach.
- What a recursive definition or a fold computes, which needs induction over
  data: `LedgerExact` (sums of balances), `CliqueSound`, `BlocksSound`,
  `TransactionsSound` and `Implements` (folds), `RestartSound`, `SnapshotSound`,
  `TriesSound` and `PoolSound` (recursive operators, with which the prover loses its
  SMT backend).
- `DiscoverySound`: `Lookup` sorts, and `UDPv4` and `DiscTable` filter lists by a
  predicate; what the library's operators for this return is again a matter of
  induction.
- `ServerSound`: nothing of this kind stands in the way, but the names of new
  connections are chosen by rank and the bounds are cardinalities of changing sets;
  it is not proved so far.

## 5. Disagreements met while modelling

Besides the three runs above, these properties state what a comment, a field or
a document of the repository says, and the model of the code reaches states that
break them. They are defined in the modules named, each with the words it takes from
the code, and no passing run lists them; TLC shows each on an instance of its
module of about the size used in the runs. "With" names a constant that matters.

| property | code | what the code does |
| --- | --- | --- |
| `Restart!OneAckPerSlot` | `core/tx_pool.go:324` | `expectedAckNonce` ("Nonces that we have already acked") is restored from nothing, so a restarted node acks nonce 0 of each sender again, also for a rival |
| `Restart!Recovers` | `core/blockchain.go:536` | without the state of the head on disk `NewBlockChain` calls `SetHead`, which panics; only `Stop` writes that state (gcmode "full") |
| `Restart!StakeIsTotal` | `core/tx_pool.go:1577` | after a restart the weights are the balances at the head, which need not add up to `totalStake` |
| `TxPool!Promotes` | `core/tx_pool.go:924` | a transaction learned from a block is queued without a promotion being requested; with no block period (`EmptyBlocks` FALSE) it may wait for ever |
| `TxPool!NoGapInFront` | `core/tx_pool.go:1838` | promotion starts at the nonce of the state, demotion at `expectedAckNonce`: the gap that "should never happen" can stay |
| `TxPool!JournalSurvives` | `core/tx_pool.go:347` | the journal is loaded into a pool with an empty `expectedAckNonce`, so nonces above 0 are rejected and then rotated out |
| `TxPool!LocalSendersMarked` | `core/tx_pool.go:857` | a local transaction that replaces a pending one does not mark its sender as local |
| `TxPool!StalesExact` | `core/tx_list.go:471` | a transaction added again revives its stale heap entry, and the counter stays |
| `BlockFetcher!InOrderImported` | `eth/fetcher/block_fetcher.go:393` | imports start concurrently; a child that looks for its parent too early is dropped, although the two were delivered in order |
| `BlockFetcher!FetchEnds` | `eth/fetcher/block_fetcher.go:345` | the expiry of fetches is commented out |
| `BlockFetcher!AnnouncesBounded` | `eth/fetcher/block_fetcher.go:478` | an announcement is taken off the peer's count twice |
| `TxFetcher!TracesRemoved` | `eth/fetcher/tx_fetcher.go:652` | a dropped peer stays among the alternates of other peers' requests |
| `TxFetcher!AnnouncesBounded` | `eth/fetcher/tx_fetcher.go:373` | at the limit the slice kept has the size of the excess, not of the room left. With four hashes and `maxTxAnnounces` 2 |
| `Multishot!DecisionKept` | `core/tx_pool.go:514` | a decision on a transaction not seen yet adds to a nil weight and panics |
| `Multishot!Launched` | `core/tx_pool.go:1024` | `Propose` is called without a signer, and fails |
| `Multishot!DecisionTakesEffect` | `core/tx_pool.go:514` | `potentialTx` is set in a copy, so a decision only adds weight, which nothing looks at once all have acked |
| `MinerControl!Submits` | `miner/worker.go:886` | `mainLoop` sending feedback and `newWorkLoop` offering work can wait for each other once `resubmitAdjustCh` is full |
| `Peers!ServedIsRegistered` | `eth/handler.go:390` | `removePeer` finds a connection and removes by id: a node that came back meanwhile is served unregistered |
| `Peers!HandlerAlwaysStops` | `eth/handler.go:432` | `Stop` disconnects the connections in the set and waits for all; one that is served unregistered is not told |
| `Broadcast!MinedReachesPeer` | `eth/protocols/eth/peer.go:346` | a block that meets full queues is dropped, and there is no synchronisation to make up for it |
| `TypeMux!StopWaits` | `event/event.go:108` | `Stop` does not wait for a subscription that `Unsubscribe` has taken out and not closed yet |
| `FreezerTable!SyncReachesDisk` | `core/rawdb/freezer_table.go:499` | a full file is closed without a sync, and `Sync` syncs the index and the head file only |
| `FreezerTable!ReadableAfterFailure` | `core/rawdb/freezer_table.go:511` | after a short write the next item is written behind the remains. With `DiskFills` |
| `Freezer!HeadsKept` | `core/rawdb/freezer.go:443` | freezing deletes the chains of the other validators as dangling side chains |
| `Freezer!StartsAgain` | `core/blockchain.go:341` | `NewBlockChain` panics when the freezer holds anything |
| `StateDB!ErrorStopsCommit` | `core/state/statedb.go:923` | a read error in an account that is not modified does not reach `Commit` |
| `TrieDB!StateNeverCollected` | `core/blockchain.go:1644` | states are collected by block number, whichever chain they are of: once the own chain is `TriesInMemory` blocks longer, the node's own state is dropped. `TriesSound` has the other case |
| `TrieDB!ChildrenSizeExact` | `trie/database.go:829` | `Commit` takes the size of reference maps off the wrong counter |
| `Snapshot!LinksLive` | `core/state/snapshot/snapshot.go:353` | a second child of the layer persisted last keeps linking to the old object |
| `Snapshot!StopReturns` | `core/state/snapshot/journal.go:286` | journalling an old disk layer waits for its aborted generator |
| `Server!StaticDialed` | `p2p/dial.go:396` | a record without TCP port takes a static node out of the dialer for good. With "udp" in `Resolved` |
| `UDPv4!DispatchedToAll` | `p2p/discover/v4_udp.go:469` | removing a completed matcher ends the walk over the list |
| `DiscTable!SeedsAged` | `p2p/discover/table.go:622` | a bumped entry has `addedAt` zero and is stored as a seed at once |
| `Lookup!EnoughOthers` | `p2p/discover/lookup.go:154` | `bucketLen` and `delete` are two critical sections; queries that fail together all delete |
| `RPCClient!QuitSignals` | `rpc/client.go:575` | a read error forgets the request being written, and nothing closes its channel |
| `RPCClient!CallAlwaysReturns` | `rpc/client.go:286` | when `dispatch` is held up as below, a call that waits for its turn does not return |
| `RPCClient!CloseAlwaysEnds` | `rpc/client.go:251` | nor does `Close`, which waits for `dispatch` |
| `RPCClient!UnsubscribeEnds` | `rpc/subscription.go:258` | `Unsubscribe` calls the server inside `quitOnce`, which `dispatch` needs to go on |

## 6. Not modelled

- `Cascade`: contract code, gas refunds, a gas price changed while transactions
  wait in the confirmed list; future blocks and receipt import. Import of side
  chains and reorganisations panic in this fork.
- `Worker`: the 0-period mode and the snapshot kept for the RPC.
- `Clique`: signatures, the RPC interface, and the branch of `snapshot` that trusts a
  checkpoint without its parents. It asks for 90000 headers in a row without a
  stored snapshot, or for a checkpoint whose parent is missing: snapshots are stored
  every 1024 headers, and a canonical chain has no such hole.
- `StateDB`: preimages, `SetBalance` and `SetStorage` for simulated calls, the
  prefetcher, read errors of accounts. `TrieDB`: the clean cache, preimages.
  `Snapshot`: iterators, the recovery mode.
- `TypeMux`: the check for events older than a subscription. `Feed`: `Resubscribe`.
- `Server`: handshakes, IP throttling, net restrictions, `peerOp`. `UDPv4`,
  `DiscTable`: discovery version 5, the node database, address limits.
- `RPCClient`: notifications, HTTP, batches, the server side. `Filters`: matching of
  logs, the stop of the event system. `eth/handler`: answers to requests of other
  nodes.
- Left out for good: the EVM, key-value stores, p2p transport, accounts and
  commands, which are upstream libraries or I/O beside the protocol, and the
  downloader, light clients and snap sync, which the permissioned network does not
  use.
