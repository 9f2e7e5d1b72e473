# A TLA+ model of the Marabu node

This directory holds TLA+ modules that model the Marabu full node, TLC
configurations that check them on small instances, and TLAPS proofs of what can
be proved for every instance. Paths such as `internal/core/db.go` are relative
to the Go sources of the repository. `PROJECT.json` maps every definition to the
lines it models and lists runs, mutants, findings, hazards and theorems.

## The system

| Component | State | Operations | What makes it hard | What makes it correct |
|---|---|---|---|---|
| Validation (`core/validation.go`) | none; reads objects, UTXO sets, chaintip, mempool index | `ValidateTransaction`, `ValidateCoinbase`, `ValidateBlock` | order of checks, transactions applied in order, fees | a UTXO set is what its chain left unspent; no double spend; bounded supply |
| Store (`core/manager.go`, `core/db.go`) | LevelDB: objects, UTXO set per block, chaintip, saved mempool. Memory: mempool, index of spent inputs, pending blocks | `CommitObject`, `commitTransaction`, `commitBlock`, `CleanMempool`, `HandleReorg`, `InitializeMempool`, pending blocks | no lock spans two of these writes; every peer has a goroutine; a crash falls between any two writes | the store is closed under references; sets never change; the chaintip is backed, highest, and only rises; the mempool is minable and free of conflict; no parked block is forgotten |
| Object handlers (`peer/handlers.go`, `peer/objects.go`) | the call stack of `resolvePendingBlocks` | `handleObject`, `acceptObject`, `rejectObject`, `resolvePendingBlocks` | check, then act; recursion | blocks that wait are revalidated |
| Wallet (`wallet/wallet.go`) | aliases | `GetBalance`, `SendPicabus` | builds on a balance that other goroutines change | its transactions obey the same rules |
| Connection registry (`peer/connections.go`) | map by address, three counters, ban rules | `Add`, `Remove`, `BanPeer`, `UnbanPeer` | several goroutines disconnect one peer; addresses are reused | counters exact; cap holds; live peers registered; bans take effect |
| Connection (`peer/peer.go`, `handleHello`, `handleChainTip`) | socket, `done`, handshake, agent | accept, dial, read loop, `Disconnect` | closing a channel twice; messages buffered past a ban | no panic; dead connections are removed |
| Topology (`peer/topology.go`) | tickers | `replenishOutbound`, `churnRandomPeer` | concurrent dials, outages | outbound connections come back |
| Discovery (`discovery/discovery.go`) | `KnownPeers`, `DeadPeers`, `peers.csv` | `AppendPeers`, `UpdatePeer`, `RemovePeer`, `savePeers`, `DeadPeersTimer`, `SelectRecentPeers` | a crash during a save | the file holds the table |
| Miner (`miner/miner.go`) | channels, two contexts, the template | `StartMining`, `BuildBlock`, `Mine`, `mineWorker` | cancellation against blocked sends; a template of two reads | a cancelled round returns; a round that is not stopped works on the chaintip; no send on a closed channel; workers end |
| Synchronisation (`SyncNodeState`) | `isSynced`, `chaintipsReceived` | a ticker against a one-shot timeout | the timeout fires once; connections break and nodes restart meanwhile | the node is eventually synced; nodes end on the same height |
| Sending (`peer/sendMessages.go`) | a mutex and a write deadline per connection | `SendMessage`, `Broadcast`, the `Send...` functions | many goroutines write on a connection; readers wait for writes | messages stay whole; nobody blocks for good |

Components interact by calls and shared state: each connection has a reader
goroutine that runs the handlers to their end; handlers, wallet and miner call
the Manager, which validates against the store and then writes it in several
steps; `commitBlock` cancels the miner's round; the topology manager dials what
discovery selects, asks for chaintips and missing objects, and removes from the
table what does not answer; nodes exchange ids and objects, every goroutine
writing on any connection; the handshake
records peers in discovery; a block without proof of work makes the handler ban
its peer in the registry.

## Modules

| Module | Models |
|---|---|
| `Ledger` | objects and validation, as operators on the parts of the state that the code reads |
| `LedgerStore` | abstract specification: objects validated and stored one after the other |
| `LongestChain` | abstract specification: what the chaintip may do |
| `Node` | goroutines of peers, wallet and miner over store, mempool and pending blocks, with crashes |
| `Reorg` | the body of `HandleReorg`, as an algorithm on the state of `Node` |
| `Sync` | a network of nodes: gossip handlers, tickers, initial synchronisation, lost connections, restarts |
| `Wire` | `SendMessage`, `Broadcast` and the readers over socket buffers of bounded size |
| `Connections` | registry, life of a connection, handshake, bans, churn |
| `Discovery` | routing table, `peers.csv`, rounds of dials |
| `Mining` | one mining round: orchestrator, workers, telemetry |
| `MCLedger`, `MCNode`, `MCConnections`, `MCDiscovery`, `MCSync`, `MCWire` | instances for TLC (`Mining` needs none) |
| `LedgerProofs`, `LedgerStoreProofs`, `NodeProofs`, `ConnectionsProofs`, `WireProofs`, `DiscoveryProofs`, `SyncProofs` | lemmas and theorems (those of `Mining` are in it) |

### Ledger

An object is identified with its id; its fields are constant functions of the
id. What unmarshalling guarantees is the assumption `FieldTypes`. Signatures and
proof of work are constants, the clock is the constant `Now`: a block that is
rejected as too early could be offered again later, which is a different
instance. The checks are in the order of the code, since the first failure
decides the error code and with it whether a block is parked. The map `utxos` of
`ValidateBlock` is given in closed form (`UnspentAfter`); the sums use
arbitrary-precision integers, as `Picabu` does. Two oddities of the code are
kept: a transaction with an unknown input leaves `MissingID` empty, because
`leveldb.ErrNotFound` is not the `ErrNotFound` tested for, and a parent id that
names a transaction ends in a failed type assertion (`PANIC`). `Readable` is a
third: a transaction that arrives without the key `inputs` is never looked at by
`TxInputs.UnmarshalJSON`, is validated with no inputs and stored with
`"inputs": null`, which `getObject` then refuses for want of one
(`types/unmarshal.go:279`). The store has such an id and can give it to nobody:
a block with it is rejected with `INTERNAL_ERROR`, a transaction that spends it
is taken to have an unknown input, a `getobject` for it is not answered, and a
sweep of the mempool passes over it. And an input without an outpoint, which
unmarshalling lets through, has a nil index that `ValidateTransaction`
dereferences (`core/validation.go:79`): its entry in `Sig` is `"absent"`, and the
outcome `PANIC`.

### Node

Threads are the goroutines of connected peers, the one of the user's commands
and the one of `StartMining`. `pc` gives the next step, named for the call it is about to make; a
step is one LevelDB read or write or one section under `mempoolMutex` or
`pendingMutex`.

| Action | Code |
|---|---|
| `HandleObject`, `Dispatch` | `handleObject`, `rejectObject` |
| `BuildTx`, `ValidateOwnTx` | `SendPicabus` |
| `AcceptObject`, `PutObject`, `Committed` | `acceptObject`, `CommitObject` |
| `CheckSpent`, `CheckActive`, `PoolPutDisk`, `PoolAdd` | `commitTransaction`, `addMempoolEntry` |
| `StartMining`, `BuildOnTip`, `BuildOfPool`, `FindNonce`, `AbortMining`, `ValidateOwnBlock` | `StartMining`, `BuildBlock`, `Mine` |
| `SetMiningCores` | the command `cores` |
| `PutUTXO`, `ReadTip`, `PutChaintip`, `CancelMining`, `UnpoolDisk`, `UnpoolMem`, `CleanMempool` | `commitBlock`, `removeMempoolEntry`, `CleanMempool` |
| `FetchPendingBlocks`, `Revalidate`, `AddPendingBlock` | `resolvePendingBlocks` |
| `ExpirePending` | `CleanupPendingBlocks` |
| `CrashRestart`, `InitializeMempool` | kill of the process; start of `main` |

Abstractions. A validation is one step: objects and UTXO sets only grow, so its
outcome is that of its last read; for a transaction with several inputs the
lookups in the mempool index count as one. `frames` is the stack of
`resolvePendingBlocks`, whose blocks are taken in any order. Which pending blocks
are old enough to expire is nondeterministic. The fee records (`fee-<txid>`) are
written and deleted and never decide anything here; they are left out. A block
without proof of work closes its connection: in `Node` the thread is free for
another connection, and the ban is in `Connections`. The workers of a round are
in `Mining`; here a nonce is found or the context of the round, the variable
`cancelled`, is done. `StoreObject` and `ValidateObject` of a mined block, two
writes and reads apart, are two steps. `HandleReorg` is called with the outer, empty `oldTip` (the `:=` in
`commitBlock` declares another variable), finds no UTXO set for it and returns:
`CancelMining` goes on to the step that models that. A crash is a kill of the process; LevelDB loses
nothing that a returned `Put` has written.

### Reorg

`HandleReorg` does nothing when it is called as `commitBlock` calls it, so its
body is modelled apart: the walk of two ids to their common ancestor as a
recursive function on pairs of ids (`Walk`), the saved mempool it leaves (`Repooled`) and the
mempools that `InitializeMempool` may make of it (`Rebuilt`), which depend on
the order in which LevelDB and the sweep take the entries (`Ledger!Sweeps`).
`ReorgExact` compares them, in every state of `Node` that is at rest and for any
two committed blocks, with the chains of `LedgerStore`; `NodeProofs` proves that
they agree.

### Sync

Each node has the state of `Node` without its goroutines: a handler is one step,
except that `resolvePendingBlocks` takes a block in a step, during which the node
handles no other message, and that a kill may fall into a commit. So the
goroutines of a node store one object at a time; what happens when they do not
is in `Node`, and "Known deviations" has what it breaks (`tip_race`, `stranded`,
`pool_race`). `CommitObject` and `Validate` are the operators of
`Ledger` on a record with the node's store, in which `sets` are the blocks whose
UTXO set is written. The set itself is a function
of the block (`UTXO`), which `UTXOChained` of `Node` justifies. A stream
`<<n, m>>` carries messages in order; `Drop` loses the connection with what is in
flight. `Restart` is a kill, or a panic, and a start with `InitializeMempool`. The
disk it starts from is any of `Left`: that between two handlers, or that after
each write of a commit under way, of a received object, a parked block, a payment
or a mined block (`Cuts`). Cut before `putUTXO` or `putChaintip`, a commit leaves
a block that is never stored again: the history variable `torn` notes the node.
A mempool may have transactions at first (`Pooled`). `Mine` and
`SendPicabus` make new objects while nodes synchronise. Error messages are only
logged where they arrive and are left out. The gossip ticker fires
on a connection that is quiet: its period, a minute, is long against an exchange
of messages. The watchdog, every ten seconds, may ask again while an answer is on
its way, up to the bound `MaxInFlight`. The code's `> 3` chaintips is
`> EnoughTips`; the counter stops where it makes no more difference.

| Action | Code |
|---|---|
| `Connect`, `Drop` | `Greet`; the network |
| `HandleGetChainTip`, `HandleChainTip`, `HandleIHaveObject`, `HandleGetObject`, `HandleObject`, `HandleGetMempool`, `HandleMempool` | the handlers of these names |
| `Revalidate` | a turn of the loop of `resolvePendingBlocks` |
| `GossipTick`, `FetchMissingDependencies`, `CleanupPendingBlocks` | tickers of `StartTopologyManager` and of the manager |
| `SyncTick`, `SyncTimeout` | the two cases of `SyncNodeState` |
| `Mine`, `SendPicabus`, `Restart` | the miner, the wallet, `main` |

### Wire

A message is two segments, so that a write can stop in its middle; `Cap` is what
the socket buffers of a stream hold. A goroutine's handler sends nothing, an
answer, a broadcast, or both (`sends`); a broadcast runs one call of
`SendMessage` for each connection side by side, and the goroutine goes on when
all have returned. A call takes `networkMutex`, sets the deadline of the
connection, writes, clears the deadline and releases the mutex, one step each. A
write into full buffers may end at its deadline, also in the middle of a message
(`torn`); the decoder of the other end takes what follows for invalid JSON and
disconnects. `Dial` makes a new connection, with a mutex of its own.

### Connections

A connection is identified with its `Peer` struct; `Addr` and `Host` are
constants, so that several connections may share an address. Threads are the
reader goroutines and the user's goroutine. `Disconnect` is four steps (the
select, `close(done)`, `Remove`, `conn.Close`), the hello two (ban check,
assignment). The decoder hands out what it has buffered after the socket is
closed. A stream that turns into invalid JSON on an open socket takes the same way
to `Disconnect` as one that ends, and nothing after it is decoded; it is covered
by `RemoteClose`. The three `IsBanned` lookups of `handleHello` are one step, and the
unsynchronised field `agent` is read and written atomically. Muting only affects
the log.

### Discovery

All operations hold `KnownPeersMutex`; the file is truncated in one step and
written in another, and a crash in between leaves any part of it; `os.Create`, whose
failure would only be logged, is taken to succeed. `reachable` is
the network. A record's agent is left out.

### Mining

Hashing is a choice. `resultCh` is unbuffered, so that a send and its receipt
are one step; of `hashTracker` the number of buffered reports is kept.

## Runs

`tlc -config <run>.cfg <module>`. Every property of a passing run has a mutant
of the code's model that breaks it (the operators with a suffix, such as
`PutUTXO_TipHeight`).

| Run | Module | Checks |
|---|---|---|
| `ledger` | `MCLedger` | `UTXOExact`, `NoDoubleSpend`, `SupplyBounded` |
| `race` | `MCNode` | `TypeOK`, `StoreClosed`, `UTXOChained`, `TipBacked`, `TemplateFresh`, `UTXOStable`, `SerialLedger` |
| `single` | `MCNode` | `TipHighest`, `NoStranded`, `MempoolConflictFree`, `SpentCovers`, `DiskCovers`, `ReorgExact`, `TipPolicy`, `HeaviestAdopted` |
| `pool` | `MCNode` | `MempoolActive`, `EvictOnlyDead` |
| `registry` | `MCConnections` | `TypeOK`, `LiveRegistered`, `HostBanHolds`, `CountsExact`, `RegisteredServed`, `DeadRemoved` |
| `table` | `MCDiscovery` | `TypeOK`, `TableSaved` |
| `mining` | `Mining` | `NoSendOnClosed`, `CancelReturns`, `ReportsAccepted` |
| `sync` | `MCSync` | `TypeOK`, `OfferBacked`, `Converged`, `SyncDone` |
| `wire` | `MCWire` | `TypeOK`, `DeadlineHeld`, `Framed`, `SendsEnd`, `TornCloses` |
| `tip_race` | `MCNode` | `TipOnlyRises`, violated |
| `reorg` | `MCNode` | `MempoolActive`, violated |
| `double_close` | `MCConnections` | `NoPanic`, violated |

One more configuration passes: `rejoin` (`Reconnects`, see below).

What they show. *Objects and UTXO sets are safe*: with a peer, the miner, the
wallet and crashes the concurrent node is an implementation of the serial `LedgerStore`
(`SerialLedger`, proved for any threads), although two goroutines may commit one block twice. *The
chaintip, the pending blocks and the mempool are not*: with one peer and no
crash `single` shows the longest-chain rule (`TipPolicy`, a refinement of
`LongestChain`), the highest block adopted in the end, no forgotten block and a
sound mempool index; a second goroutine breaks each of these, and a crash the
highest tip, the pending blocks and the minable mempool. Where blocks form one chain the mempool also
loses nothing that could still be mined (`EvictOnlyDead` in `pool`). The body of
`HandleReorg` is right (`ReorgExact`), only its argument is not. *The miner
follows the chaintip*: a round that is not stopped builds on it (`TemplateFresh`),
because the context is handed out before the chaintip is read and cancelled after
it is written; its transactions may still be stale. *The registry is exact*: however disconnects, bans and reuses of an address
interleave, counters, cap and host bans hold, and at rest every registered connection has a
reader (`RegisteredServed`), but a double disconnect may panic.
*The routing table is saved*, except for a crash in the middle of a save. *A
mining round can always be cancelled*, but workers may be left behind. *Nodes
converge*: a lost connection, a restart between two commits or the expiry of
pending blocks only delays a node (`Converged`), since the gossip ticker asks for
the chaintip again, whoever announces a block has stored it and can give out its
parent and its transactions (`OfferBacked`), and
pending blocks are asked for step by step; the watchdog is not needed for it.
This holds as long as no transaction conflicts with a node's mempool (`split`).
A kill inside the commit of a block may lose the block for good: `Converged`
exempts the node that is torn so, while the others still reach the height of its
chaintip.
Nor can everything that is announced be fetched: a transaction without inputs is
pooled and listed, and `getObject` refuses it (`OfferServed`, below).
*Sending cannot block for good*: a write deadline is always set while a write is
in progress, although senders share it, and it is what ends the wait of two
readers for each other; the price is a cut message, after which the other end
closes the connection.

Bounds. `ledger` has a block and a transaction for each check of validation that
can fail, and two branches with blocks of several transactions; objects are
stored in every order. `race` has a chain of three blocks, the second with a
coinbase and the third with a transaction: enough for parking on a parent and on
a transaction, and for each pair of steps of two commits. `single` has a fork of
different lengths (a tie and a reorganisation) and two conflicting transactions;
`pool` a chain that mines one of the two, a block whose parent is the placeholder id and one whose parent
is a transaction. It has no crash: killed between `putUTXO` and `putChaintip`,
the node ignores the block from then on, the block's child does not extend the
chaintip and so looks like a reorganisation, and `HandleReorg` leaves the
transactions of the block in the mempool. The wallet is one goroutine since the user
interface runs one command at a time. `race` has the miner, who can mine the second
block of the chain, the peer bringing the same one. `registry` has an inbound
and an outbound connection of one address and one buffered message; that the cap
on outbound connections holds with any number of them is a theorem. `sync` has a node with the
genesis block and a pooled transaction without inputs and one with nothing, a
block to mine, a transaction to send and
one fault, the watchdog asking with at most one message in flight (`OfferBacked` is a theorem for any number of faults):
enough for a chaintip that arrives before its block's coinbase, a pending block
lost by a restart, an answer lost with its connection, a kill after each write of
each commit; it has 151,438 states and takes about
two minutes. With `EnoughTips` 0 one chaintip is enough for a node with one peer;
`never_synced` sets it to 1. `wire` has one connection and buffers of one
segment, half a message, so that every message can fill them and every write can
stop in the middle (the run passes with two segments as well); `table` has one bootstrap peer and others and a clock
of 2; `mining` two workers, and a channel of the capacity the code gives it.
Symmetry is used for peers in safety runs only.

Fairness. `Node!FairSpec`: a goroutine in the middle of a handler goes on, and a
peer offers each object again and again (peers answer `getchaintip` every
minute and `getobject` from the watchdog every ten seconds, and `SF` is needed
because an offer is possible only while the thread is idle).
`Connections!FairSpec`: goroutines that can run do. `Mining!Spec`: the same, with
strong fairness for workers because senders blocked on a channel are served in
order. `Sync`:
handlers run, connections are made again (the topology manager dials), timers
fire, and the gossip ticker, which goes on whatever else happens, finds a
connection that is quiet again and again at one of its ticks (`SF`); nothing is
assumed of the watchdog, which asks random peers, nor of mining and faults.
`Wire`: goroutines that can run do; `sync.Mutex` hands itself to a starved waiter,
hence `SF` for `Lock`; the deadline passes. `Discovery`: tickers fire, and Go's mutex, which hands itself to a
starved waiter, justifies strong fairness for what waits for it.

## Known deviations

Three runs above expect a violation; `PROJECT.json` says what each shows. The
other configurations below also end in a counterexample (`rejoin.cfg`, under
which neighbours go on gossiping, shows the same `Reconnects` to hold).

| Configuration | Property | What the code does |
|---|---|---|
| `tip_race` | `TipOnlyRises` | the tip decision is taken by validation and applied later (`core/manager.go:166`): the lower of two blocks may be written last |
| `reorg` | `MempoolActive` | `oldTip` is shadowed (`core/manager.go:161`), so `HandleReorg` does nothing |
| `stranded` | `NoStranded` | an object arrives between the validation that missed it and `AddPendingBlock` (`peer/objects.go:45`) |
| `double_close` | `NoPanic` | `Disconnect` tests and closes `done` in two steps (`peer/peer.go:159`) |
| `pool_race` | `MempoolConflictFree` | `commitTransaction` checks and adds without a lock (`core/manager.go:126`): "Check for double spends in current mempool" |
| `pool_stale` | `MempoolActive` | the same with a block committed in between (`core/manager.go:135`): "Ensure it belongs to our active chaintip" |
| `spent_leak` | `SpentExact` | `removeMempoolEntry` deletes an entry before it looks up its inputs (`core/db.go:367`), which stay "already being spent" (`core/validation.go:92`) |
| `crash_tip` | `TipHighest` | after a crash between `putUTXO` and `putChaintip` (`core/manager.go:166`) the block exists and is ignored for ever |
| `crash_tip`, with `NoStranded` as its invariant | `NoStranded` | after a crash between `putObject` and `putUTXO` no child of the block is ever accepted (`core/validation.go:238`) |
| `pool`, with `CrashEnabled = TRUE` | `MempoolActive` | the block after one that a crash cut off from the chaintip looks like a reorganisation, and the mempool keeps what it has spent (`core/manager.go:162`) |
| `panic` | `NoPanic` | a second commit of the genesis block dereferences its nil `Previd` (`core/manager.go:162`) |
| `side_block` | `EvictOnlyDead` | a block that is not the tip removes its transactions from the mempool (`core/manager.go:180`); without forks the property holds |
| `withheld` | `HeaviestAdopted` | a transaction that conflicts with the mempool is refused by validation (`core/validation.go:90`) and not stored, although `core/manager.go:142` says "saved, but withheld from mempool"; blocks with it wait for ever |
| `split` | `Converged` | the same between two nodes: two wallets spend one output, and neither node ever accepts the block with the other's transaction (`core/validation.go:90`) |
| `tx_lost` | `MempoolSpreads` | a transaction that reaches a node before the output it spends is dropped: `MissingID` is empty, it is not kept, and an id is announced once (`core/validation.go:98`) |
| `sync`, with `OfferServed` as its invariant | `OfferServed` | a transaction without inputs passes `IsInputInUTXO` and is pooled and announced (`core/manager.go:246`), but `getObject` refuses it (`types/unmarshal.go:279`) |
| `never_synced` | `SyncDone` | the timeout finds a block pending and never fires again (`core/manager.go:451`); with too few peers the node stays unsynced |
| `template_stale` | `TemplateMinable` | the miner is stopped before the mempool is cleaned (`core/manager.go:170`): the next round takes transactions that the new block has spent |
| `torn` | `NoTornStream` | a write that times out leaves a part of a message on a connection that stays in use (`peer/sendMessages.go:34`) |
| `ban_race` | `AgentBanHolds` | a ban falls between the check and the assignment of the agent (`peer/handlers.go:31`) |
| `hello_agent` | `NoPanic` | a hello without the optional agent (`peer/handlers.go:27`) |
| `server_stops` | `ServerListens` | the accept loop returns when an address is still registered (`peer/peer.go:284`) |
| `banned_served` | `BannedIgnored` | buffered messages are handled after a ban (`peer/peer.go:149`) |
| `chaintips` | `ChaintipsDistinct` | a reconnecting peer is counted again (`peer/handlers.go:182`), although `core/manager.go:438` says "from distinct peers" |
| `isolated` | `Reconnects` | an outage empties the table for good (`peer/topology.go:139`) |
| `crash_save` | `RestartKeeps` | `peers.csv` is truncated before it is written (`discovery/discovery.go:87`) |
| `source` | `SourceRecorded` | the record with the source "direct" is overwritten (`discovery/discovery.go:201`) |
| `worker_leak` | `WorkersEnd` | a worker blocks on `resultCh` after the round (`miner/miner.go:180`) |

## Proofs

`tlapm <module>` for each of the eight modules below; every theorem holds for
any objects, threads, peers, connections and bounds that satisfy the assumptions
of the model's module. TLC evaluates those in the runs: `IdsDisjoint` and
`FieldTypes` (`Ledger`), `ThreadsAssumption` (`Node`), `ConnectionsAssumption`,
`DiscoveryAssumption`, `MiningAssumption`, `WireAssumption`, `SyncAssumption`
and `UTXOAssumption` (`Sync`: stores are closed at first, there are finitely
many ids, and, since no block is its own ancestor, each block has a UTXO set).

### Validation and the serial ledger

`LedgerProofs` has lemmas about the operators of `Ledger`: what a validation
that passes has found (`TransactionResult`, `BlockResult`), and the converse,
that these findings alone let it pass (`TransactionPasses`, `BlockPasses`), so
that an object once accepted stays so while the store grows (`TransactionKept`,
`BlockKept`); and that the id a block is parked on is not stored, or has no UTXO
set (`MissingObject`). It also has the arithmetic of sums over finite sets. The
community module defines such a sum by a recursive function on sets; `TotalDef`
and `TotalSums` give it a value for every finite set, by way of the functions on
the subsets of a set that satisfy its equation: one exists and two agree, since a
smallest set on which they would not has a predecessor (`SmallestSet`). From that
come the sum of a set with one element more or less, of a union, a difference, a
disjoint family and an image (`TotalAdd`, `TotalUnion`, `TotalDiff`,
`TotalFamily`, `TotalMap`).

`LedgerStoreProofs`: **`SetsExact`** (`UTXOExact`) and **`SpendsUnique`**
(`NoDoubleSpend`). `ValidateBlock` only sees the parent's set; the properties
are about whole chains. The invariant `LedgerInv` says of every committed block
that its set is what its chain made and did not spend, that the chain has spent
only what it made, that every coinbase carries its block's height, and that
nothing on it is spent twice. The core is that no transaction occurs twice on a
chain (`NothingRepeats`): a second occurrence would need its inputs made again,
hence a still earlier transaction repeated, down to a coinbase, whose height
tells its block. There is no induction along a chain in it: each step extends a
chain by one block, and for the block itself the least repeated position is
taken. `Chain` is the recursive function of the model, whose value `ChainIs`
gives for every block that is reached.

**`SupplyLimited`** (`SupplyBounded`). `SupplyInv` is the bound for every
committed block. For the step (`SupplyStep`), the set of a new block is the
parent's without what its transactions spend and with what they leave: everything
spent is in the parent's set or made by an earlier transaction of the block,
nothing is spent twice, and nothing made was there before (`NothingRepeats`
again). So its value grows by the value of the coinbase less the fees, the
differences between the inputs and the outputs of the transactions, and
validation has bounded the coinbase by the reward and the fees.

### The node

For any number of peers, the wallet, the miner, and crashes:

- **`TypeCorrect`** (`TypeOK`). `TypeInv` adds `PcOK`: which kind of object a
  thread has in hand at each step. Without it `PutUTXO` could be about a
  transaction.
- **`StoreIntegrity`** (`StoreClosed`, `UTXOChained`, `TipBacked`; the first and
  the last also as **`NothingDangles`** and **`TipAlwaysBacked`**). `StoreInv`
  adds `HandOK`: what validation established of the object in a thread's hand
  (all it refers to is stored; its result follows from the stored set of its
  parent) is still true when the thread gets to write it. It is, because the
  store only grows (`GrowKeeps`), and it only grows because a second commit of a
  block writes the same set (`ThreadGrows`). So `StoreInv` and `Grows` are
  proved together.
- **`SetsNeverChange`** (`UTXOStable`), from the same induction.
- **`CommitsSerial`** (`SerialLedger`): the refinement. The abstract store is
  the objects without the blocks whose set is not written yet. `PutObject` of a
  transaction or coinbase and `PutUTXO` of a block are the steps of the serial
  ledger; every other one stutters. What makes it go through is `StillAccepted`:
  the object in a thread's hand would be accepted by a validation now, although
  it was validated against an older store.
- **`NodeLedgerExact`**: with `CommitsSerial`, the theorems about the serial
  ledger hold of the node's sets: `UTXOExact`, `NoDoubleSpend`, `SupplyBounded`.
- **`ReorgSound`** (`DiskCovers => ReorgExact`). `Walk` is a recursive function;
  `WalkBetween` gives its value for any two committed blocks: a fixed point of its
  equation exists on pairs of ids (`WalkUnfolds`), and of the pairs on which it
  would be wrong, one has the least sum of heights, from which a turn of the walk
  leads to a smaller one. Chains go down one height a turn and end in the genesis
  block (`ChainsDescend`, from `LedgerInv`). For the mempool, `StoredInv`: what is
  pooled, saved or about to be is stored, and what is stored would be accepted
  again, so that the sweep takes back all it can; what is spendable on a chain is
  not mined on it, because it has inputs and they would be spent
  (`SpendableIsNew`). The sweep starts from the saved mempool, hence the
  hypothesis.
- **`MiningFresh`** (`TemplateFresh`): inductive relative to `TypeInv`. Only
  `PutChaintip` moves the chaintip, and it puts its thread between the write and
  `minerCancel`, which the property exempts; `CancelMining` then stops the
  round; a round starts with a new context before it reads the chaintip
  (`FreshStep`). There is one miner at most, since `SetMiningCancel` keeps one
  function.

For a node on which one goroutine at a time handles objects. The hypothesis is
`Alone`, one thread. It is needed: TLC violates `MempoolConflictFree`,
`DiskCovers`, `TipHighest`, `NoStranded` and `TipPolicy` on the instance of
`single` with two peers, and `SpentCovers` where two conflicting transactions
share only a part of their inputs (the one that goes stale takes its inputs out
of the index while the other is pooled). "Known deviations" lists the
configurations kept for the races of the mempool, the tip and the parked blocks;
none is kept for `SpentCovers` and `DiskCovers`.

- **`PoolConflictFree`** (`MempoolConflictFree`) and **`IndexCovers`**
  (`SpentCovers`), with crashes. `PoolInv` adds that nothing pooled spends the
  inputs of a transaction that is on its way into the mempool.
- **`SavedCovers`** (`DiskCovers`), with crashes. `DiskInv` names the one entry
  that may be in memory only: the one being removed from both. With it,
  **`ReorgAlone`** (`ReorgExact`), with crashes.
- **`TipRises`** (`TipOnlyRises`, which `tip_race` violates with two threads),
  with crashes, from `RiseInv`: the decision `isNewTip` is still right when
  `commitBlock` acts on it.
- **`TipFollowsPolicy`** (`TipPolicy`, the refinement of `LongestChain`), with
  crashes, from `RiseInv` too.
- **`TipIsHighest`** (`TipHighest`), without crashes. `HighInv`: a block with a
  set is no higher than the chaintip, unless it is about to become the chaintip.
- **`NothingStranded`** (`NoStranded`), with a peer only and without crashes.
  `ParkInv`: what a parked block waits for is not stored, or its waiting blocks
  are about to be fetched; stored blocks have sets, or are about to get theirs.
- **`PoolMinable`** (`MempoolActive`), with a peer only, without crashes and
  where no two blocks have one parent (`NoForks`). `LineInv`: the committed
  blocks are a line up to the chaintip, so that no commit looks like a
  reorganisation. Without `NoForks` the run `reorg` has the counterexample.
- **`PoolKeepsLive`** (`EvictOnlyDead`), under the same hypotheses. `UnpoolInv`:
  while `commitBlock` removes ids from the mempool, they are ids of the chaintip's
  block. Such a transaction has inputs, since validation has read it back
  (`Legible`), and they are spent on the chaintip, since its set is exact
  (`MinedIsDead`). Without `NoForks`, `side_block` has the counterexample.

### Connections, sending, discovery, mining

- **`ConnectionTypes`** (`TypeOK`), **`LiveStayRegistered`** (`LiveRegistered`),
  **`CountersExact`** (`CountsExact`) and **`CapHolds`** (`OutboundCapped`).
  `ConnInv` adds `Removing`: only the goroutine that closed `done` gets to
  `Remove`, one for each connection, so that an entry is taken out and counted
  down once.
- **`HostBans`** (`HostBanHolds`). `BanInv` says who is after whom: a registered
  connection of a banned host that has, or is about to have, shaken hands is
  being disconnected by some thread (`Pursuit`), and one whose `done` is closed
  is being removed (`Ending`). What keeps it is that the hello is checked after
  the connection is registered: an earlier ban is seen there, a later one finds
  the connection in the registry.
- **`ReadersServe`** (`RegisteredServed`), the safety half of `DeadRemoved`.
  `Ending` as above, and `Manned`: what is registered has had its reader started,
  and a reader that has ended has found `done` closed, so that somebody is about to
  remove its connection.
- **`WireTypes`** (`TypeOK`: above all, no buffer holds more than it can, and both
  directions of a connection are closed together).
- **`DeadlinesHeld`** (`DeadlineHeld`). `LockInv` adds that the holder of the
  mutex is the only call between `Lock` and `Unlock`.
- **`MessagesWhole`** (`Framed`). `WholeInv`: on an intact stream heads and tails
  alternate, counted from what the decoder has taken, and their number is odd
  only while a call is between the two halves.
- **`DiscoveryTypes`** (`TypeOK`) and **`RecordsSaved`** (`TableSaved`), with
  crashes.
- **`NobodySendsOnClosed`** (`NoSendOnClosed`, in `Mining`). `ClosedInv`: once the
  channel is closed all workers are gone.

### The network

**`SyncTypes`** (`TypeOK`) and **`OffersBacked`** (`OfferBacked`), for any number
of nodes, lost connections and restarts, with a kill after any write of a commit.
The invariant `SyncInv` is that every
store is closed under references, with its mempool, saved mempool and chaintip
in it, that what its blocks refer to can be read back (`Served`), and that a
stream carries only messages whose ids its sender has
(`Carries`). Stores only gain objects, so that messages in flight stay honest
(`CarriesGrows`); what is validated is closed (`ValidateSync`), so that committing
it keeps the store closed (`CommitOK`), and `acceptObject` announces it after
that (`ProcessStep`). A commit that is cut off leaves the store closed as well
(`CutsOK`, `LeftOK`): an object is written before anything that names it. That the
chaintip is highest is not a theorem here: a cut commit breaks it.

### Only model-checked

All liveness (`HeaviestAdopted`, `DeadRemoved`, `CancelReturns`,
`ReportsAccepted`, `Converged`, `SyncDone`, `SendsEnd`, `TornCloses`): it needs
`ENABLED`, and measures on data, which the prover does not do. Every invariant
and every action property of the passing runs is a theorem.

## Not modelled

User interface, logging, start-up code and test programs (no state of the
node's own, or presentation; the commands that change the node are actions of
the component they call); parsing, canonical JSON, hashing and signatures
(character-level; their guarantees are `FieldTypes`); the wallet's address book
and its choice of outputs (any choice is allowed); the list of mined blocks and
the hash rate (displayed); `SelectRandomPeers` and `SelectRandomPeersPerSource`
(not called).

## Plan

Every safety property of the passing runs is proved. What is left:

1. `Sync`: that it implements `LedgerStore` at every node, so that its UTXO sets
   are those of the node; `Node` restricted to one thread against a node of
   `Sync`.
2. Several threads: how much of the mempool's properties survives with two peers
   (the saved mempool, the index). `ReorgSound` already holds of it.
