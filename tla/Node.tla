-------------------------------- MODULE Node --------------------------------
(***************************************************************************)
(* One Marabu node: the goroutines that validate and commit objects        *)
(* (internal/peer/objects.go, handleObject, internal/wallet) and the miner *)
(* (internal/miner) over the shared store (internal/core/manager.go and    *)
(* db.go).                                                                 *)
(*                                                                         *)
(* Each goroutine is a thread with a program counter.  A step is one call  *)
(* that reads or writes the shared state: a LevelDB get or put, or one     *)
(* section under mempoolMutex or pendingMutex; nothing makes two of them   *)
(* atomic.  A validation is one step: what it reads of objects and UTXO    *)
(* sets only grows, so its outcome is the one of its last read.            *)
(***************************************************************************)
EXTENDS Ledger

CONSTANTS
  Peers,        \* the goroutines of the connected peers
  Wallet,       \* the goroutine that runs the user's commands ({} or one)
  Miner,        \* the goroutine of StartMining ({} or one)
  CrashEnabled  \* whether the process may be killed and started again

Thread == Peers \cup Wallet \cup Miner

ASSUME ThreadsAssumption ==
  /\ Peers \cap Wallet = {} /\ Peers \cap Miner = {} /\ Wallet \cap Miner = {}
  /\ \A m, n \in Miner : m = n
  /\ CrashEnabled \in BOOLEAN

VARIABLES
  \* LevelDB
  objects,             \* ids of the stored objects
  utxo,                \* "utxo-<id>": the UTXO set of each block, or NoUTXO
  chaintip,            \* "chaintip", or NoTip
  mempoolDisk,         \* "mempool-<id>": the transactions of the saved mempool
  \* memory of the process
  mempool,             \* transactions of db.mempool
  mempoolSpentInputs,  \* keys of db.mempoolSpentInputs
  pendingBlocks,       \* db.pendingBlocks: <<missing id, block>>
  up,                  \* FALSE once a goroutine has panicked
  cancelled,           \* whether the context of the mining round is done
  \* locals of the goroutines
  pc,                  \* next step
  obj,                 \* the object in hand
  res,                 \* its ValidationResult
  frames,              \* blocks left to revalidate, one set per
                       \* resolvePendingBlocks on the call stack
  todo,                \* txids left to remove from the mempool
  isReorg,             \* local of commitBlock
  template             \* the block that the miner works on

disk   == <<objects, utxo, chaintip, mempoolDisk>>
memory == <<mempool, mempoolSpentInputs, pendingBlocks, up>>
mining == <<cancelled, template>>
local  == <<pc, obj, res, frames, todo, isReorg>>
vars   == <<disk, memory, local, mining>>

PC == {"idle", "built", "accept", "commit", "spent", "active", "poolDisk",
       "poolAdd", "putUTXO", "readTip", "putTip", "cancel", "unpoolDisk",
       "unpoolMem", "clean", "resolve", "revalidate", "pend", "buildTip",
       "buildPool", "mining", "mined"}

Objects == Tx \cup Coinbase \cup Block

Validate(x) == ValidateObject(x, objects, utxo, chaintip, mempoolSpentInputs)

(* IsInputInUTXO: all inputs are in the UTXO set of the chaintip.          *)
InActiveUTXO(t) ==
  /\ chaintip # NoTip
  /\ utxo[chaintip.id] # NoUTXO
  /\ Ins(t) \subseteq utxo[chaintip.id].utxos

(* A block to be mined: its parent, its height and the transactions after  *)
(* the coinbase.                                                           *)
Template   == [prev : Block \cup {nil}, height : Nat, txs : SUBSET Tx]
NoTemplate == [prev |-> nil, height |-> 0, txs |-> {}]

-----------------------------------------------------------------------------
NodeInit ==
  /\ objects = {} /\ utxo = [b \in Block |-> NoUTXO]
  /\ chaintip = NoTip /\ mempoolDisk = {}
  /\ mempool = {} /\ mempoolSpentInputs = {} /\ pendingBlocks = {}
  /\ up = TRUE /\ cancelled = FALSE /\ template = NoTemplate
  /\ pc = [t \in Thread |-> "idle"] /\ obj = [t \in Thread |-> nil]
  /\ res = [t \in Thread |-> Valid] /\ frames = [t \in Thread |-> <<>>]
  /\ todo = [t \in Thread |-> <<>>] /\ isReorg = [t \in Thread |-> FALSE]

At(t, label) == up /\ pc[t] = label

Goto(t, label) == pc' = [pc EXCEPT ![t] = label]

(* The call that t is in returns: to the loop of resolvePendingBlocks that *)
(* made it, or to the goroutine's wait for the next message.               *)
Return(t, stack) ==
  /\ frames' = [frames EXCEPT ![t] = stack]
  /\ IF stack = <<>>
     THEN /\ Goto(t, "idle")
          /\ obj' = [obj EXCEPT ![t] = nil] /\ res' = [res EXCEPT ![t] = Valid]
     ELSE Goto(t, "revalidate") /\ UNCHANGED <<obj, res>>

(* A runtime panic in any goroutine ends the process.                      *)
Panic == up' = FALSE /\ UNCHANGED local

(* Mutant: any object with a missing dependency is parked.                 *)
Dispatch_ParkAny(t, x, r, stack) ==
  /\ obj' = [obj EXCEPT ![t] = x] /\ res' = [res EXCEPT ![t] = r]
  /\ frames' = [frames EXCEPT ![t] = stack]
  /\ UNCHANGED <<todo, isReorg, up>>
  /\ \/ r.code = "NONE" /\ Goto(t, "accept")
     \/ r.code = "UNKNOWN_OBJECT" /\ Goto(t, "pend")

(* What a peer goroutine does with the outcome r of validating x: accept   *)
(* it, park a block whose dependency is missing, or drop it with an error  *)
(* message.  A block without proof of work also closes the connection; the *)
(* thread then stands for the next connection.                             *)
Dispatch(t, x, r, stack) ==
  \/ r.code = "PANIC" /\ Panic
  \/ /\ r.code = "NONE"
     /\ Goto(t, "accept")
     /\ obj' = [obj EXCEPT ![t] = x] /\ res' = [res EXCEPT ![t] = r]
     /\ frames' = [frames EXCEPT ![t] = stack]
     /\ UNCHANGED <<todo, isReorg, up>>
  \/ /\ r.code = "UNKNOWN_OBJECT" /\ r.missing # DUMMY_HASH /\ x \in Block
     /\ Goto(t, "pend")
     /\ obj' = [obj EXCEPT ![t] = x] /\ res' = [res EXCEPT ![t] = r]
     /\ frames' = [frames EXCEPT ![t] = stack]
     /\ UNCHANGED <<todo, isReorg, up>>
  \/ /\ r.code \notin {"PANIC", "NONE"}
     /\ ~ (r.code = "UNKNOWN_OBJECT" /\ r.missing # DUMMY_HASH /\ x \in Block)
     /\ Return(t, stack)
     /\ UNCHANGED <<todo, isReorg, up>>

(* handleObject.                                                           *)
HandleObject(t, x) ==
  /\ At(t, "idle") /\ t \in Peers
  /\ Dispatch(t, x, Validate(x), <<>>)
  /\ UNCHANGED <<disk, mempool, mempoolSpentInputs, pendingBlocks, mining>>

(* SendPicabus: the wallet builds a transaction of unspent outputs of the  *)
(* active chain (GetBalance), and validates it in a later step.            *)
BuildTx(t) ==
  /\ At(t, "idle") /\ t \in Wallet
  /\ \E x \in Tx :
       /\ Inputs[x] # <<>> /\ InActiveUTXO(x)
       /\ Ins(x) \cap mempoolSpentInputs = {}
       /\ \A k \in DOMAIN Sig[x] : Sig[x][k] = "valid"
       /\ obj' = [obj EXCEPT ![t] = x]
  /\ Goto(t, "built")
  /\ UNCHANGED <<disk, memory, res, frames, todo, isReorg, mining>>

ValidateOwnTx(t) ==
  /\ At(t, "built")
  /\ IF Validate(obj[t]).code = "NONE"
     THEN Goto(t, "commit") /\ UNCHANGED <<obj, res, frames>>
     ELSE Return(t, <<>>)
  /\ UNCHANGED <<disk, memory, todo, isReorg, mining>>

-----------------------------------------------------------------------------
(* A round of StartMining: a new context, whose cancel function is given   *)
(* to SetMiningCancel; BuildBlock, which reads the chaintip and then the   *)
(* mempool; and the search for a nonce.                                    *)
StartMining(t) ==
  /\ At(t, "idle") /\ t \in Miner
  /\ cancelled' = FALSE
  /\ Goto(t, "buildTip")
  /\ UNCHANGED <<disk, memory, obj, res, frames, todo, isReorg, template>>

BuildOnTip(t) ==
  /\ At(t, "buildTip")
  /\ template' = [prev |-> chaintip.id, height |-> chaintip.height + 1, txs |-> {}]
  /\ Goto(t, "buildPool")
  /\ UNCHANGED <<disk, memory, obj, res, frames, todo, isReorg, cancelled>>

(* Mutant: the round gets its context when the template is built.          *)
BuildOfPool_Context(t) ==
  /\ At(t, "buildPool")
  /\ template' = [template EXCEPT !.txs = mempool]
  /\ cancelled' = FALSE
  /\ Goto(t, "mining")
  /\ UNCHANGED <<disk, memory, obj, res, frames, todo, isReorg>>

BuildOfPool(t) ==
  /\ At(t, "buildPool")
  /\ template' = [template EXCEPT !.txs = mempool]
  /\ Goto(t, "mining")
  /\ UNCHANGED <<disk, memory, obj, res, frames, todo, isReorg, cancelled>>

(* The blocks that some nonce makes of the template; what the coinbase     *)
(* pays, reward and fees of the entries, is left open.                     *)
MinedBlock ==
  {b \in Block :
     /\ PoW[b] /\ Previd[b] = template.prev
     /\ Txids[b] # <<>> /\ Txids[b][1] \in Coinbase
     /\ Height[Txids[b][1]] = template.height
     /\ {Txids[b][i] : i \in 2 .. Len(Txids[b])} = template.txs
     /\ Len(Txids[b]) = Cardinality(template.txs) + 1}

(* A worker finds a nonce, which may still win against a context that is   *)
(* done; the coinbase is stored, without validation.                       *)
FindNonce(t) ==
  /\ At(t, "mining")
  /\ \E b \in MinedBlock :
       /\ obj' = [obj EXCEPT ![t] = b]
       /\ objects' = objects \cup {Txids[b][1]}
  /\ Goto(t, "mined")
  /\ UNCHANGED <<utxo, chaintip, mempoolDisk, memory, res, frames, todo,
                 isReorg, mining>>

AbortMining(t) ==
  /\ At(t, "mining") /\ cancelled
  /\ Return(t, <<>>)
  /\ UNCHANGED <<disk, memory, todo, isReorg, mining>>

(* The rest of Mine; CommitObject does not ask whether the block is        *)
(* stored.                                                                 *)
ValidateOwnBlock(t) ==
  /\ At(t, "mined")
  /\ LET r == Validate(obj[t])
     IN  IF r.code = "NONE"
         THEN /\ Goto(t, "commit") /\ res' = [res EXCEPT ![t] = r]
              /\ UNCHANGED <<obj, frames>>
         ELSE Return(t, <<>>)
  /\ UNCHANGED <<disk, memory, todo, isReorg, mining>>

(* SetMiningCores, a command of the user, stops the round too.             *)
SetMiningCores ==
  /\ up /\ Miner # {} /\ ~ cancelled
  /\ cancelled' = TRUE
  /\ UNCHANGED <<disk, memory, local, template>>

-----------------------------------------------------------------------------
(* acceptObject returns at once if the object is already stored.           *)
AcceptObject(t) ==
  /\ At(t, "accept")
  /\ IF obj[t] \in objects
     THEN Return(t, frames[t])
     ELSE Goto(t, "commit") /\ UNCHANGED <<obj, res, frames>>
  /\ UNCHANGED <<disk, memory, todo, isReorg, mining>>

-----------------------------------------------------------------------------
(* Mutant: pending blocks are not looked at.                               *)
Committed_NoResolve(t) == Return(t, frames[t])

(* CommitObject and what follows it.  A peer's acceptObject goes on to     *)
(* resolvePendingBlocks; the wallet and the miner do not.                  *)
Committed(t) ==
  IF t \in Peers
  THEN Goto(t, "resolve") /\ UNCHANGED <<obj, res, frames>>
  ELSE Return(t, <<>>)

(* Mutant: the chaintip is moved without the UTXO set.                     *)
PutObject_TipFirst(t) ==
  /\ At(t, "commit")
  /\ objects' = objects \cup {obj[t]}
  /\ IF obj[t] \in Coinbase
     THEN Committed(t)
     ELSE /\ Goto(t, IF obj[t] \in Tx THEN "spent" ELSE "readTip")
          /\ UNCHANGED <<obj, res, frames>>
  /\ UNCHANGED <<utxo, chaintip, mempoolDisk, memory, todo, isReorg, mining>>

PutObject(t) ==
  /\ At(t, "commit")
  /\ objects' = objects \cup {obj[t]}
  /\ IF obj[t] \in Coinbase
     THEN Committed(t)
     ELSE /\ Goto(t, IF obj[t] \in Tx THEN "spent" ELSE "putUTXO")
          /\ UNCHANGED <<obj, res, frames>>
  /\ UNCHANGED <<utxo, chaintip, mempoolDisk, memory, todo, isReorg, mining>>

(* commitTransaction: the double-spend check, the check against the active *)
(* chain, and AddToMempool, which writes the disk and then the memory.     *)
CheckSpent(t) ==
  /\ At(t, "spent")
  /\ IF Ins(obj[t]) \cap mempoolSpentInputs # {}
     THEN Committed(t)
     ELSE Goto(t, "active") /\ UNCHANGED <<obj, res, frames>>
  /\ UNCHANGED <<disk, memory, todo, isReorg, mining>>

CheckActive(t) ==
  /\ At(t, "active")
  /\ IF InActiveUTXO(obj[t])
     THEN Goto(t, "poolDisk") /\ UNCHANGED <<obj, res, frames>>
     ELSE Committed(t)
  /\ UNCHANGED <<disk, memory, todo, isReorg, mining>>

(* Mutant: the saved mempool is not written.                               *)
PoolPutDisk_Skip(t) ==
  /\ At(t, "poolDisk")
  /\ Goto(t, "poolAdd")
  /\ UNCHANGED <<disk, memory, obj, res, frames, todo, isReorg, mining>>

PoolPutDisk(t) ==
  /\ At(t, "poolDisk")
  /\ mempoolDisk' = mempoolDisk \cup {obj[t]}
  /\ Goto(t, "poolAdd")
  /\ UNCHANGED <<objects, utxo, chaintip, memory, obj, res, frames, todo, isReorg, mining>>

(* Mutant: the inputs are not recorded as spent.                           *)
PoolAdd_NoIndex(t) ==
  /\ At(t, "poolAdd")
  /\ mempool' = mempool \cup {obj[t]}
  /\ Committed(t)
  /\ UNCHANGED <<disk, mempoolSpentInputs, pendingBlocks, up, todo, isReorg, mining>>

PoolAdd(t) ==
  /\ At(t, "poolAdd")
  /\ mempool' = mempool \cup {obj[t]}
  /\ mempoolSpentInputs' = mempoolSpentInputs \cup Ins(obj[t])
  /\ Committed(t)
  /\ UNCHANGED <<disk, pendingBlocks, up, todo, isReorg, mining>>

(* Mutant: the height is counted from the chaintip.                        *)
PutUTXO_TipHeight(t) ==
  /\ At(t, "putUTXO")
  /\ utxo' = [utxo EXCEPT ![obj[t]] =
                [utxos |-> res[t].utxos, height |-> chaintip.height + 1]]
  /\ Goto(t, IF res[t].isNewTip THEN "readTip" ELSE "unpoolDisk")
  /\ todo' = [todo EXCEPT ![t] = Txids[obj[t]]]
  /\ UNCHANGED <<objects, chaintip, mempoolDisk, memory, obj, res, frames, isReorg, mining>>

(* commitBlock.  The tip decision is the one validation made.              *)
PutUTXO(t) ==
  /\ At(t, "putUTXO")
  /\ utxo' = [utxo EXCEPT ![obj[t]] =
                [utxos |-> res[t].utxos, height |-> res[t].height]]
  /\ Goto(t, IF res[t].isNewTip THEN "readTip" ELSE "unpoolDisk")
  /\ todo' = [todo EXCEPT ![t] = Txids[obj[t]]]
  /\ UNCHANGED <<objects, chaintip, mempoolDisk, memory, obj, res, frames, isReorg, mining>>

(* oldTip != *blk.Previd: with a tip, the nil Previd of the genesis block  *)
(* is dereferenced.                                                        *)
ReadTip(t) ==
  /\ At(t, "readTip")
  /\ IF chaintip # NoTip /\ Previd[obj[t]] = nil
     THEN Panic
     ELSE /\ isReorg' = [isReorg EXCEPT ![t] =
                           chaintip # NoTip /\ chaintip.id # Previd[obj[t]]]
          /\ Goto(t, "putTip")
          /\ UNCHANGED <<obj, res, frames, todo, up>>
  /\ UNCHANGED <<disk, mempool, mempoolSpentInputs, pendingBlocks, mining>>

(* HandleReorg, which commitBlock calls with the outer, never assigned     *)
(* oldTip: the empty id has no UTXO set, so that the walk to the common    *)
(* ancestor returns in its first turn and nothing is changed.              *)
HandleReorg(t) == Committed(t) /\ todo' = [todo EXCEPT ![t] = <<>>]

PutChaintip(t) ==
  /\ At(t, "putTip")
  /\ chaintip' = [id |-> obj[t], height |-> res[t].height]
  /\ Goto(t, "cancel")
  /\ UNCHANGED <<objects, utxo, mempoolDisk, memory, obj, res, frames, todo,
                 isReorg, mining>>

(* minerCancel, if StartMining has set it, and what commitBlock does to    *)
(* the mempool after it.                                                   *)
CancelMining(t) ==
  /\ At(t, "cancel")
  /\ cancelled' = (Miner # {})
  /\ isReorg' = [isReorg EXCEPT ![t] = FALSE]
  /\ IF isReorg[t]
     THEN HandleReorg(t)
     ELSE Goto(t, "unpoolDisk") /\ UNCHANGED <<obj, res, frames, todo>>
  /\ UNCHANGED <<disk, memory, template>>

(* RemoveFromMempool for each txid of the block, disk before memory.  The  *)
(* entry is deleted before it is looked up, so that its inputs stay in     *)
(* mempoolSpentInputs.  Then CleanMempool.                                 *)
UnpoolDisk(t) ==
  /\ At(t, "unpoolDisk")
  /\ IF todo[t] = <<>>
     THEN Goto(t, "clean") /\ UNCHANGED mempoolDisk
     ELSE Goto(t, "unpoolMem") /\ mempoolDisk' = mempoolDisk \ {Head(todo[t])}
  /\ UNCHANGED <<objects, utxo, chaintip, memory, obj, res, frames, todo, isReorg, mining>>

UnpoolMem(t) ==
  /\ At(t, "unpoolMem")
  /\ mempool' = mempool \ {Head(todo[t])}
  /\ todo' = [todo EXCEPT ![t] = Tail(todo[t])]
  /\ Goto(t, "unpoolDisk")
  /\ UNCHANGED <<disk, mempoolSpentInputs, pendingBlocks, up, obj, res, frames, isReorg, mining>>

(* Mutants: nothing is evicted; everything is; the whole index is cleared. *)
CleanMempool_Skip(t) ==
  /\ At(t, "clean") /\ Committed(t)
  /\ UNCHANGED <<disk, memory, todo, isReorg, mining>>

CleanMempool_Flush(t) ==
  /\ At(t, "clean")
  /\ mempool' = {} /\ mempoolSpentInputs' = {}
  /\ Committed(t)
  /\ UNCHANGED <<disk, pendingBlocks, up, todo, isReorg, mining>>

CleanMempool_ClearIndex(t) ==
  /\ At(t, "clean")
  /\ mempool' = {x \in mempool : InActiveUTXO(x)}
  /\ mempoolSpentInputs' = {}
  /\ Committed(t)
  /\ UNCHANGED <<disk, pendingBlocks, up, todo, isReorg, mining>>

CleanMempool(t) ==
  /\ At(t, "clean")
  /\ LET stale == IF chaintip = NoTip \/ utxo[chaintip.id] = NoUTXO THEN {}
                  ELSE {x \in mempool : ~ InActiveUTXO(x)}
     IN  /\ mempool' = mempool \ stale
         /\ mempoolSpentInputs' = mempoolSpentInputs \ UNION {Ins(x) : x \in stale}
  /\ Committed(t)
  /\ UNCHANGED <<disk, pendingBlocks, up, todo, isReorg, mining>>

-----------------------------------------------------------------------------
(* resolvePendingBlocks: fetch and clear the blocks that wait for the      *)
(* object just stored, then revalidate them one after the other.           *)
FetchPendingBlocks(t) ==
  /\ At(t, "resolve")
  /\ LET waiting == {b \in Block : <<obj[t], b>> \in pendingBlocks}
     IN  /\ pendingBlocks' = pendingBlocks \ ({obj[t]} \X waiting)
         /\ Return(t, IF waiting = {} THEN frames[t] ELSE <<waiting>> \o frames[t])
  /\ UNCHANGED <<disk, mempool, mempoolSpentInputs, up, todo, isReorg, mining>>

Revalidate(t) ==
  /\ At(t, "revalidate")
  /\ \E b \in Head(frames[t]) :
       LET rest == Head(frames[t]) \ {b}
       IN  Dispatch(t, b, Validate(b),
                    IF rest = {} THEN Tail(frames[t])
                    ELSE <<rest>> \o Tail(frames[t]))
  /\ UNCHANGED <<disk, mempool, mempoolSpentInputs, pendingBlocks, mining>>

(* rejectObject and resolvePendingBlocks: AddPendingBlock, after which the *)
(* missing object is asked for.                                            *)
AddPendingBlock(t) ==
  /\ At(t, "pend")
  /\ pendingBlocks' = pendingBlocks \cup {<<res[t].missing, obj[t]>>}
  /\ Return(t, frames[t])
  /\ UNCHANGED <<disk, mempool, mempoolSpentInputs, up, todo, isReorg, mining>>

(* CleanupPendingBlocks: any of the pending blocks may be the ones older   *)
(* than the timeout.                                                       *)
ExpirePending ==
  /\ up
  /\ \E old \in (SUBSET pendingBlocks) \ {{}} :
       pendingBlocks' = pendingBlocks \ old
  /\ UNCHANGED <<disk, mempool, mempoolSpentInputs, up, local, mining>>

InitializeMempool == Sweeps({x \in mempoolDisk : InActiveUTXO(x)}, objects)

(* The process is killed at any point, or has panicked, and is started     *)
(* again: main runs InitializeMempool before any other goroutine.          *)
CrashRestart ==
  /\ CrashEnabled
  /\ \E kept \in InitializeMempool :
       /\ mempool' = kept
       /\ mempoolDisk' = kept \cup {x \in mempoolDisk : ~ Readable(x)}
       /\ mempoolSpentInputs' = UNION {Ins(x) : x \in kept}
  /\ pendingBlocks' = {} /\ up' = TRUE
  /\ cancelled' = FALSE /\ template' = NoTemplate
  /\ pc' = [t \in Thread |-> "idle"] /\ obj' = [t \in Thread |-> nil]
  /\ res' = [t \in Thread |-> Valid] /\ frames' = [t \in Thread |-> <<>>]
  /\ todo' = [t \in Thread |-> <<>>] /\ isReorg' = [t \in Thread |-> FALSE]
  /\ UNCHANGED <<objects, utxo, chaintip>>

BusyStep(t) ==
  \/ ValidateOwnTx(t) \/ AcceptObject(t) \/ PutObject(t)
  \/ CheckSpent(t) \/ CheckActive(t)
  \/ PoolPutDisk(t) \/ PoolAdd(t)
  \/ PutUTXO(t) \/ ReadTip(t) \/ PutChaintip(t) \/ CancelMining(t)
  \/ UnpoolDisk(t) \/ UnpoolMem(t) \/ CleanMempool(t)
  \/ FetchPendingBlocks(t) \/ Revalidate(t) \/ AddPendingBlock(t)

MinerStep(t) ==
  \/ StartMining(t) \/ BuildOnTip(t) \/ BuildOfPool(t)
  \/ FindNonce(t) \/ AbortMining(t) \/ ValidateOwnBlock(t)

ThreadStep(t) ==
  \/ \E x \in Objects : HandleObject(t, x)
  \/ BuildTx(t) \/ MinerStep(t) \/ BusyStep(t)

NodeNext ==
  \/ \E t \in Thread : ThreadStep(t)
  \/ ExpirePending \/ SetMiningCores \/ CrashRestart

NodeSpec == NodeInit /\ [][NodeNext]_vars

-----------------------------------------------------------------------------
(* Type invariant of the node's state.                                     *)
TypeOK ==
  /\ objects \subseteq Objects
  /\ utxo \in [Block -> UTXOSet \cup {NoUTXO}]
  /\ chaintip \in Chaintip \cup {NoTip}
  /\ mempoolDisk \subseteq Tx /\ mempool \subseteq Tx
  /\ mempoolSpentInputs \subseteq Outpoint
  /\ pendingBlocks \subseteq HashID \X Block
  /\ up \in BOOLEAN
  /\ pc \in [Thread -> PC]
  /\ obj \in [Thread -> Objects \cup {nil}]
  /\ res \in [Thread -> ValidationResult]
  /\ frames \in [Thread -> Seq(SUBSET Block)]
  /\ todo \in [Thread -> Seq(HashID)]
  /\ isReorg \in [Thread -> BOOLEAN]
  /\ cancelled \in BOOLEAN /\ template \in Template

HasUTXO(b) == utxo[b] # NoUTXO

(* What an object depends on is stored: the parent and the transactions of *)
(* a block, the transactions whose outputs a transaction spends.           *)
Closed(x) ==
  /\ x \in Block => /\ Previd[x] = nil \/ Previd[x] \in objects
                    /\ Ids(x) \subseteq objects
  /\ x \in Tx => \A o \in Ins(x) : o[1] \in objects

(* CommitObject stores an object only after validation has found all it    *)
(* refers to, whatever the goroutines do meanwhile and wherever a crash    *)
(* cuts a commit: nothing stored ever refers to something that is not, so  *)
(* the lookups whose errors HandleReorg and the loop of ValidateBlock      *)
(* ignore cannot fail.                                                     *)
StoreClosed == \A x \in objects : Closed(x)

(* putUTXO stores for a block exactly what its parent's stored set becomes *)
(* by the block's transactions, one height above it, and the parent's set  *)
(* is there; only the genesis block has no parent.                         *)
Follows(b, u) ==
  IF Previd[b] = nil
  THEN b = genesisHash /\ u = [utxos |-> NewUTXOs(b, {}), height |-> 0]
  ELSE /\ Previd[b] \in Block /\ HasUTXO(Previd[b])
       /\ u = [utxos  |-> NewUTXOs(b, utxo[Previd[b]].utxos),
               height |-> utxo[Previd[b]].height + 1]

UTXOChained == \A b \in Block : HasUTXO(b) => b \in objects /\ Follows(b, utxo[b])

(* The chaintip always names a block whose UTXO set is stored, at the      *)
(* height recorded with it: IsInputInUTXO, CleanMempool and GetBalance,    *)
(* which give up silently when that set is missing, never have to.         *)
TipBacked ==
  chaintip # NoTip => HasUTXO(chaintip.id) /\ utxo[chaintip.id].height = chaintip.height

(* Two goroutines may commit the same block, each with the UTXO set of its *)
(* own validation; the second putUTXO never changes what the first stored. *)
UTXOStable == [][\A b \in Block : HasUTXO(b) => utxo'[b] = utxo[b]]_vars

-----------------------------------------------------------------------------
(* No goroutine is in the middle of a change.                              *)
Quiet == up /\ \A t \in Thread : pc[t] \in {"idle", "mining"}

(* No transaction of the mempool conflicts with another: commitTransaction *)
(* checks for double spends before it adds one, CleanMempool and a restart *)
(* forget and rebuild the index it checks against.                         *)
MempoolConflictFree ==
  \A x, y \in mempool : x # y => Ins(x) \cap Ins(y) = {}

(* The index of spent inputs covers the mempool, whatever was evicted.     *)
SpentCovers == \A x \in mempool : Ins(x) \subseteq mempoolSpentInputs

(* When the node is at rest the saved mempool covers the one in memory, so *)
(* that a restart finds all that was pooled.                               *)
DiskCovers == Quiet => mempool \subseteq mempoolDisk

(* When the node is at rest every pooled transaction can be mined on the   *)
(* chaintip: its inputs are unspent on the active chain.                   *)
MempoolActive == Quiet => \A x \in mempool : InActiveUTXO(x)

(* When the node is at rest an outpoint counts as spent only if a pooled   *)
(* transaction spends it.                                                  *)
SpentExact == Quiet => mempoolSpentInputs \subseteq UNION {Ins(x) : x \in mempool}

(* When the node is at rest no parked block waits for an object that is    *)
(* already stored: such a block would never be looked at again, since      *)
(* acceptObject ignores an object that it has.                             *)
NoStranded == Quiet => \A p \in pendingBlocks : p[1] \notin objects

(* When the node is at rest the chaintip is a highest block it has         *)
(* committed.                                                              *)
TipHighest ==
  Quiet => \A b \in Block : HasUTXO(b) => chaintip.height >= utxo[b].height

(* The chaintip never moves to a lower block.                              *)
TipOnlyRises == [][chaintip'.height >= chaintip.height]_vars

(* A round of mining that is not stopped works on the chaintip: whichever  *)
(* of the goroutines moves it, and however that falls between the reads of *)
(* BuildBlock, the round is stopped by the end of commitBlock's part of    *)
(* it.                                                                     *)
TemplateFresh ==
  \A t \in Miner :
    (/\ up /\ pc[t] \in {"buildPool", "mining"} /\ ~ cancelled
     /\ \A u \in Thread : pc[u] # "cancel")
    => template.prev = chaintip.id

(* When the node is at rest, what a round that is not stopped works on can *)
(* become a valid block: its transactions are unspent on the chaintip.     *)
TemplateMinable ==
  \A t \in Miner :
    Quiet /\ pc[t] = "mining" /\ ~ cancelled => \A x \in template.txs : InActiveUTXO(x)

(* No goroutine panics, which would end the process.                       *)
NoPanic == up

(* A running node drops a pooled transaction only when one of its inputs   *)
(* is not unspent on the active chain.                                     *)
EvictOnlyDead ==
  [][\A x \in mempool \ mempool' : ~ InActiveUTXO(x)]_vars

(* What a run of the node is to the tip policy: the heights of committed   *)
(* blocks and the block the chaintip names.                                *)
Tip == INSTANCE LongestChain WITH
         height <- [b \in Block |-> utxo[b].height], tip <- chaintip.id
TipPolicy == Tip!Spec

(* What a run of the node is to the serial ledger: a block counts as       *)
(* stored once its UTXO set is.                                            *)
Serial == INSTANCE LedgerStore WITH
            stored <- {x \in objects : x \in Block => HasUTXO(x)}, sets <- utxo
SerialLedger == Serial!Spec

-----------------------------------------------------------------------------
(* Goroutines are scheduled, and every peer goes on offering every object. *)
Fairness ==
  \A t \in Thread :
    /\ WF_vars(BusyStep(t))
    /\ \A x \in Objects : SF_vars(HandleObject(t, x))

FairSpec == NodeSpec /\ Fairness

(* The node ends up, for good, on a highest block of all there is, when    *)
(* all blocks there are are valid.                                         *)
HeaviestAdopted ==
  <>[](/\ chaintip # NoTip
       /\ \A b \in Block : chaintip.height >= Serial!Depth(b))
=============================================================================
