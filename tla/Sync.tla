-------------------------------- MODULE Sync --------------------------------
(***************************************************************************)
(* A network of Marabu nodes that bring each other up to date: the gossip  *)
(* handlers of internal/peer (handlers.go, objects.go), the tickers of     *)
(* topology.go and the initial synchronisation of core/manager.go.         *)
(*                                                                         *)
(* A handler is one step, except that resolvePendingBlocks revalidates one *)
(* block in a step, and that a node may be killed in the middle of a       *)
(* commit, between any two of its writes.  So the goroutines of one node   *)
(* store one object at a time, as they do with one connection; how they    *)
(* get in each other's way is the matter of Node.  Messages of a           *)
(* connection arrive in order, and those in flight are lost with it.       *)
(* Error messages are only logged where they arrive, and are left out.     *)
(***************************************************************************)
EXTENDS Ledger, SequencesExt

CONSTANTS
  Node,
  Stream,      \* pairs of nodes that may connect, both ways
  Seed,        \* Node: the objects it has stored at first
  Pooled,      \* Node: the transactions in its mempool at first
  Settled,     \* nodes whose SyncNodeState has returned at first
  EnoughTips,  \* chaintips that SyncNodeState wants to exceed
  MaxFaults,   \* connections lost and nodes restarted, all in all
  MaxInFlight  \* messages on a connection up to which the watchdog asks

Objects == Tx \cup Coinbase \cup Block

ASSUME SyncAssumption ==
  /\ Stream \subseteq {s \in Node \X Node : s[1] # s[2]}
  /\ \A s \in Stream : <<s[2], s[1]>> \in Stream
  /\ Seed \in [Node -> SUBSET Objects] /\ Settled \subseteq Node
  /\ Pooled \in [Node -> SUBSET Tx]
  /\ \A n \in Node :
       /\ Pooled[n] \subseteq Seed[n]
       /\ \A x, y \in Pooled[n] : x # y => Ins(x) \cap Ins(y) = {}
  /\ \A n \in Node : \A b \in Seed[n] \cap Block :
       /\ Ids(b) \cup ({Previd[b]} \ {nil}) \subseteq Seed[n]
       /\ \A x \in Ids(b) \cup {Previd[b]} : Readable(x)
  /\ IsFiniteSet(HashID)
  /\ EnoughTips \in Nat /\ MaxFaults \in Nat /\ MaxInFlight \in Nat

VARIABLES
  db,                 \* each node's store: see Store
  pendingBlocks,      \* each node's <<missing id, block>>
  resolving,          \* blocks that resolvePendingBlocks has left, and the
                      \* peer whose message they are handled for
  sentChainTip,       \* <<n, m>>: m has sent n a chaintip on this connection
  chaintipsReceived,  \* each node's count of them
  isSynced,           \* nodes whose SyncNodeState has returned
  timeout,            \* nodes whose time.After has not fired
  open,               \* streams of open connections
  chan,               \* the messages in flight on each stream
  made,               \* objects that exist anywhere
  torn,               \* history: nodes that a kill in a commit has left with
                      \* a block without its UTXO set, or above the chaintip
  faults

node == <<db, pendingBlocks, resolving>>
sync == <<sentChainTip, chaintipsReceived, isSynced, timeout>>
net  == <<open, chan>>
vars == <<node, sync, net, made, torn, faults>>

(* The sets are those blocks whose UTXO set is written.                    *)
Store == [objects : SUBSET Objects, sets : SUBSET Block,
          chaintip : Chaintip \cup {NoTip}, mempool : SUBSET Tx,
          mempoolDisk : SUBSET Tx, spent : SUBSET Outpoint]

-----------------------------------------------------------------------------
(* The UTXO set that is stored with a block (Node!UTXOChained).            *)
UTXO[b \in Block] ==
  IF Previd[b] \in Block
  THEN [utxos |-> NewUTXOs(b, UTXO[Previd[b]].utxos), height |-> UTXO[Previd[b]].height + 1]
  ELSE [utxos |-> NewUTXOs(b, {}), height |-> 0]

(* Ids are hashes: no block is its own ancestor, so that the recursion     *)
(* ends and each block has such a set.                                     *)
ASSUME UTXOAssumption == UTXO \in [Block -> UTXOSet]

Validate(d, x) ==
  ValidateObject(x, d.objects,
                 [b \in Block |-> IF b \in d.sets THEN UTXO[b] ELSE NoUTXO],
                 d.chaintip, d.spent)

IsInputInUTXO(d, t) ==
  d.chaintip.id \in d.sets /\ Ins(t) \subseteq UTXO[d.chaintip.id].utxos

CommitTransaction(d, t) ==
  IF Ins(t) \cap d.spent = {} /\ IsInputInUTXO(d, t)
  THEN [d EXCEPT !.objects = @ \cup {t}, !.mempool = @ \cup {t},
                 !.mempoolDisk = @ \cup {t}, !.spent = @ \cup Ins(t)]
  ELSE [d EXCEPT !.objects = @ \cup {t}]

TipAfter(d, b, r) == IF r.isNewTip THEN [id |-> b, height |-> r.height] ELSE d.chaintip

IsReorg(d, b, r) == r.isNewTip /\ d.chaintip # NoTip /\ d.chaintip.id # Previd[b]

(* A reorganisation leaves the mempool alone (Node!HandleReorg).           *)
CommitBlock(d, b, r) ==
  LET e     == [d EXCEPT !.objects = @ \cup {b}, !.sets = @ \cup {b},
                         !.chaintip = TipAfter(d, b, r)]
      rest  == d.mempool \ Ids(b)
      stale == {x \in rest : ~ IsInputInUTXO(e, x)}
  IN  IF IsReorg(d, b, r) THEN e
      ELSE [e EXCEPT !.mempool = rest \ stale, !.mempoolDisk = @ \ Ids(b),
                     !.spent = @ \ UNION {Ins(x) : x \in stale}]

CommitObject(d, x) ==
  IF x \in Tx THEN CommitTransaction(d, x)
  ELSE IF x \in Coinbase THEN [d EXCEPT !.objects = @ \cup {x}]
  ELSE CommitBlock(d, x, Validate(d, x))

(* The first k transactions of b are removed from the saved mempool.       *)
Unpooled(d, b, k) == [d EXCEPT !.mempoolDisk = @ \ ToSet(SubSeq(Txids[b], 1, k))]

(* What is on disk when CommitObject is cut off: after each write but the  *)
(* last, in their order.  What it does in memory is lost anyway, and a     *)
(* transaction whose entry of the mempool is written has all it needs.     *)
Cuts(d, x) ==
  LET r      == Validate(d, x)
      stored == [d EXCEPT !.objects = @ \cup {x}]
      valued == [stored EXCEPT !.sets = @ \cup {x}]
      tipped == [valued EXCEPT !.chaintip = TipAfter(d, x, r)]
  IN  IF x \notin Block THEN {stored}
      ELSE {stored, valued, tipped} \cup
           {Unpooled(tipped, x, k) : k \in IF IsReorg(d, x, r) THEN {} ELSE DOMAIN Txids[x]}

(* CommitObject's first result.                                            *)
Gossip(d, x) == x \in Block \/ (x \in Tx /\ x \in CommitObject(d, x).mempool)

-----------------------------------------------------------------------------
Msg(type)       == [type |-> type]
MsgOf(type, id) == [type |-> type, id |-> id]

Message ==
  [type : {"getchaintip", "getmempool"}]
    \cup [type : {"chaintip", "ihaveobject", "getobject", "object"}, id : HashID]
    \cup [type : {"mempool"}, txids : SUBSET Tx]

Rev(s) == <<s[2], s[1]>>

(* The message at the head of m's stream to n; n is not in the middle of   *)
(* resolvePendingBlocks.                                                   *)
Receives(n, m, type) ==
  /\ resolving[n].blocks = {} /\ <<m, n>> \in open
  /\ chan[<<m, n>>] # <<>> /\ Head(chan[<<m, n>>]).type = type

Received(n, m) == Head(chan[<<m, n>>])

Took(n, m) == [chan EXCEPT ![<<m, n>>] = Tail(@)]

(* The messages c in flight after n has sent all to every peer (Broadcast) *)
(* and then answers to m.                                                  *)
Sent(c, n, all, m, answers) ==
  [s \in Stream |->
     c[s] \o (IF s[1] = n /\ s \in open THEN all ELSE <<>>)
          \o (IF s = <<n, m>> /\ s \in open THEN answers ELSE <<>>)]

Answer(n, m, answers) == chan' = Sent(Took(n, m), n, <<>>, m, answers)

-----------------------------------------------------------------------------
(* Each node has a highest of its blocks as its tip, one that its pooled   *)
(* transactions may be mined on.                                           *)
Init ==
  /\ \E tip \in [Node -> Block \cup {nil}] :
       /\ \A n \in Node :
            IF Seed[n] \cap Block = {} THEN tip[n] = nil /\ Pooled[n] = {}
            ELSE /\ tip[n] \in Seed[n] \cap Block
                 /\ \A b \in Seed[n] \cap Block : UTXO[b].height <= UTXO[tip[n]].height
                 /\ \A x \in Pooled[n] : Ins(x) \subseteq UTXO[tip[n]].utxos
       /\ db = [n \in Node |->
                  [objects |-> Seed[n], sets |-> Seed[n] \cap Block,
                   chaintip |-> IF tip[n] = nil THEN NoTip
                                ELSE [id |-> tip[n], height |-> UTXO[tip[n]].height],
                   mempool |-> Pooled[n], mempoolDisk |-> Pooled[n],
                   spent |-> UNION {Ins(x) : x \in Pooled[n]}]]
  /\ pendingBlocks = [n \in Node |-> {}]
  /\ resolving = [n \in Node |-> [blocks |-> {}, via |-> n]]
  /\ sentChainTip = {} /\ chaintipsReceived = [n \in Node |-> 0]
  /\ isSynced = Settled /\ timeout = Node \ Settled
  /\ open = {} /\ chan = [s \in Stream |-> <<>>]
  /\ made = UNION {Seed[n] : n \in Node} /\ torn = {} /\ faults = 0

(* A connection is made; each end greets the other.                        *)
Connect(s) ==
  /\ s \notin open
  /\ open' = open \cup {s, Rev(s)}
  /\ chan' = [chan EXCEPT ![s] = <<Msg("getchaintip")>>,
                          ![Rev(s)] = <<Msg("getchaintip")>>]
  /\ sentChainTip' = sentChainTip \ {s, Rev(s)}
  /\ UNCHANGED <<node, chaintipsReceived, isSynced, timeout, made, torn, faults>>

HandleGetChainTip(n, m) ==
  /\ Receives(n, m, "getchaintip")
  /\ Answer(n, m, IF db[n].chaintip = NoTip THEN <<>>
                  ELSE <<MsgOf("chaintip", db[n].chaintip.id)>>)
  /\ UNCHANGED <<node, sync, open, made, torn, faults>>

(* Mutant: only the first chaintip of a connection is looked at.           *)
HandleChainTip_Once(n, m) ==
  /\ Receives(n, m, "chaintip")
  /\ sentChainTip' = sentChainTip \cup {<<n, m>>}
  /\ IF <<n, m>> \in sentChainTip
     THEN UNCHANGED chaintipsReceived /\ Answer(n, m, <<>>)
     ELSE /\ chaintipsReceived' =
               [chaintipsReceived EXCEPT ![n] = Min({@ + 1, EnoughTips + 1})]
          /\ Answer(n, m, IF Received(n, m).id \in db[n].objects THEN <<>>
                          ELSE <<MsgOf("getobject", Received(n, m).id)>>)
  /\ UNCHANGED <<node, isSynced, timeout, open, made, torn, faults>>

(* The count is kept up to where it makes no more difference.              *)
HandleChainTip(n, m) ==
  /\ Receives(n, m, "chaintip")
  /\ IF <<n, m>> \in sentChainTip
     THEN UNCHANGED chaintipsReceived
     ELSE chaintipsReceived' =
            [chaintipsReceived EXCEPT ![n] = Min({@ + 1, EnoughTips + 1})]
  /\ sentChainTip' = sentChainTip \cup {<<n, m>>}
  /\ Answer(n, m, IF Received(n, m).id \in db[n].objects THEN <<>>
                  ELSE <<MsgOf("getobject", Received(n, m).id)>>)
  /\ UNCHANGED <<node, isSynced, timeout, open, made, torn, faults>>

HandleIHaveObject(n, m) ==
  /\ Receives(n, m, "ihaveobject")
  /\ Answer(n, m, IF Received(n, m).id \in db[n].objects THEN <<>>
                  ELSE <<MsgOf("getobject", Received(n, m).id)>>)
  /\ UNCHANGED <<node, sync, open, made, torn, faults>>

HandleGetObject(n, m) ==
  /\ Receives(n, m, "getobject")
  /\ Answer(n, m, IF Received(n, m).id \in db[n].objects /\ Readable(Received(n, m).id)
                  THEN <<MsgOf("object", Received(n, m).id)>> ELSE <<>>)
  /\ UNCHANGED <<node, sync, open, made, torn, faults>>

HandleGetMempool(n, m) ==
  /\ Receives(n, m, "getmempool")
  /\ Answer(n, m, <<[type |-> "mempool", txids |-> db[n].mempool]>>)
  /\ UNCHANGED <<node, sync, open, made, torn, faults>>

HandleMempool(n, m) ==
  /\ Receives(n, m, "mempool")
  /\ LET absent == SetToSeq(Received(n, m).txids \ db[n].objects)
     IN  Answer(n, m, [i \in DOMAIN absent |-> MsgOf("getobject", absent[i])])
  /\ UNCHANGED <<node, sync, open, made, torn, faults>>

(* FetchPendingBlocks: the blocks that wait for x, and what is then left.  *)
Waiting(n, x) == {b \in Block : <<x, b>> \in pendingBlocks[n]}

Cleared(n, x) == pendingBlocks[n] \ ({x} \X Waiting(n, x))

(* Mutant: rejectObject parks whatever has an unknown dependency.          *)
Parks_Any(x, r) == r.code = "UNKNOWN_OBJECT" /\ r.missing # DUMMY_HASH

(* Whether rejectObject parks x.                                           *)
Parks(x, r) == r.code = "UNKNOWN_OBJECT" /\ x \in Block /\ r.missing # DUMMY_HASH

(* What validating x, for a message of m, makes n do, c being the messages *)
(* in flight and rest the blocks that wait for their turn: acceptObject    *)
(* with resolvePendingBlocks, rejectObject, or an error message.  A        *)
(* transaction with an unknown input has an empty MissingID: it is not     *)
(* parked, and the getobject with the empty id is answered by an error.    *)
(* A panic ends the process; what follows it is a Restart.                 *)
Process(n, m, x, c, rest) ==
  LET r == Validate(db[n], x)
  IN  \/ /\ r.code = "NONE" /\ x \notin db[n].objects
         /\ db' = [db EXCEPT ![n] = CommitObject(@, x)]
         /\ chan' = Sent(c, n, IF Gossip(db[n], x) THEN <<MsgOf("ihaveobject", x)>>
                               ELSE <<>>, m, <<>>)
         /\ pendingBlocks' = [pendingBlocks EXCEPT ![n] = Cleared(n, x)]
         /\ resolving' = [resolving EXCEPT ![n] =
                            [blocks |-> rest \cup Waiting(n, x), via |-> m]]
      \/ /\ Parks(x, r)
         /\ pendingBlocks' = [pendingBlocks EXCEPT ![n] = @ \cup {<<r.missing, x>>}]
         /\ chan' = Sent(c, n, <<>>, m, <<MsgOf("getobject", r.missing)>>)
         /\ resolving' = [resolving EXCEPT ![n] = [blocks |-> rest, via |-> m]]
         /\ UNCHANGED db
      \/ /\ r.code # "PANIC" /\ ~ Parks(x, r) /\ ~ (r.code = "NONE" /\ x \notin db[n].objects)
         /\ chan' = c
         /\ resolving' = [resolving EXCEPT ![n] = [blocks |-> rest, via |-> m]]
         /\ UNCHANGED <<db, pendingBlocks>>

HandleObject(n, m) ==
  /\ Receives(n, m, "object")
  /\ Process(n, m, Received(n, m).id, Took(n, m), {})
  /\ UNCHANGED <<sync, open, made, torn, faults>>

Revalidate(n) ==
  /\ \E b \in resolving[n].blocks :
       Process(n, resolving[n].via, b, chan, resolving[n].blocks \ {b})
  /\ UNCHANGED <<sync, open, made, torn, faults>>

-----------------------------------------------------------------------------
(* The tickers of StartTopologyManager.  The period of the gossip ticker,  *)
(* a minute, is longer than a connection takes to become quiet; the        *)
(* watchdog's, ten seconds, may end while answers are still on their way.  *)
InFlight(s) == Len(chan[s]) + Len(chan[Rev(s)])

GossipTick(n, m) ==
  /\ <<n, m>> \in open /\ InFlight(<<n, m>>) = 0
  /\ chan' = [chan EXCEPT ![<<n, m>>] = <<Msg("getchaintip")>>]
  /\ UNCHANGED <<node, sync, open, made, torn, faults>>

(* GetMissingDependencies: the ids that blocks wait for.  Each of the two  *)
(* random peers is asked in a step of its own; fewer than ten ids are      *)
(* missing.                                                                *)
FetchMissingDependencies(n, m) ==
  /\ <<n, m>> \in open /\ InFlight(<<n, m>>) <= MaxInFlight
  /\ pendingBlocks[n] # {}
  /\ LET missing == SetToSeq({p[1] : p \in pendingBlocks[n]})
     IN  chan' = [chan EXCEPT ![<<n, m>>] = @ \o
                    [i \in DOMAIN missing |-> MsgOf("getobject", missing[i])]]
  /\ UNCHANGED <<node, sync, open, made, torn, faults>>

(* CleanupPendingBlocks: any of them may be old enough.                    *)
CleanupPendingBlocks(n) ==
  /\ \E old \in (SUBSET pendingBlocks[n]) \ {{}} :
       pendingBlocks' = [pendingBlocks EXCEPT ![n] = @ \ old]
  /\ UNCHANGED <<db, resolving, sync, net, made, torn, faults>>

(* SyncNodeState sets isSynced, asks all peers for their mempools          *)
(* (BroadcastGetMempool) and returns.                                      *)
Synced(n) ==
  /\ isSynced' = isSynced \cup {n}
  /\ chan' = Sent(chan, n, <<Msg("getmempool")>>, n, <<>>)

(* Mutant: the loop ends with the timeout, also when blocks are pending.   *)
SyncTick_UntilTimeout(n) ==
  /\ n \notin isSynced /\ n \in timeout
  /\ chaintipsReceived[n] > EnoughTips /\ pendingBlocks[n] = {}
  /\ Synced(n)
  /\ UNCHANGED <<node, sentChainTip, chaintipsReceived, timeout, open, made, torn, faults>>

SyncTick(n) ==
  /\ n \notin isSynced
  /\ chaintipsReceived[n] > EnoughTips /\ pendingBlocks[n] = {}
  /\ Synced(n)
  /\ UNCHANGED <<node, sentChainTip, chaintipsReceived, timeout, open, made, torn, faults>>

(* time.After delivers once; with blocks pending the loop goes on.         *)
SyncTimeout(n) ==
  /\ n \notin isSynced /\ n \in timeout
  /\ timeout' = timeout \ {n}
  /\ IF pendingBlocks[n] = {} THEN Synced(n) ELSE UNCHANGED <<isSynced, chan>>
  /\ UNCHANGED <<node, sentChainTip, chaintipsReceived, open, made, torn, faults>>

-----------------------------------------------------------------------------
(* Mine: a nonce is found for the block of a template, whose coinbase is   *)
(* stored; the block is stored and broadcast as an object if it is valid.  *)
(* Node has the steps of it.                                               *)
Found(n) ==
  {b \in Block \ made :
     /\ PoW[b] /\ Previd[b] = db[n].chaintip.id
     /\ Txids[b] # <<>> /\ Head(Txids[b]) \in Coinbase
     /\ Height[Head(Txids[b])] = db[n].chaintip.height + 1
     /\ ToSet(Tail(Txids[b])) = db[n].mempool}

WithCoinbase(n, b) == [db[n] EXCEPT !.objects = @ \cup {Head(Txids[b])}]

Mined(n) == {b \in Found(n) : Validate(WithCoinbase(n, b), b).code = "NONE"}

Mine(n, b) ==
  /\ b \in Found(n)
  /\ IF b \in Mined(n)
     THEN /\ db' = [db EXCEPT ![n] = CommitObject(WithCoinbase(n, b), b)]
          /\ chan' = Sent(chan, n, <<MsgOf("object", b)>>, n, <<>>)
     ELSE db' = [db EXCEPT ![n] = WithCoinbase(n, b)] /\ UNCHANGED chan
  /\ made' = made \cup {b, Head(Txids[b])}
  /\ UNCHANGED <<pendingBlocks, resolving, sync, open, torn, faults>>

(* SendPicabus: GetBalance leaves the wallet transactions of unspent       *)
(* outputs.                                                                *)
Payable(n, t) == t \notin made /\ Inputs[t] # <<>> /\ IsInputInUTXO(db[n], t)

SendPicabus(n, t) ==
  /\ Payable(n, t) /\ Validate(db[n], t).code = "NONE"
  /\ db' = [db EXCEPT ![n] = CommitObject(@, t)]
  /\ made' = made \cup {t}
  /\ chan' = Sent(chan, n, <<MsgOf("object", t)>>, n, <<>>)
  /\ UNCHANGED <<pendingBlocks, resolving, sync, open, torn, faults>>

(* A connection breaks, and what is in flight on it is lost.               *)
Drop(s) ==
  /\ s \in open /\ faults < MaxFaults /\ faults' = faults + 1
  /\ open' = open \ {s, Rev(s)}
  /\ chan' = [chan EXCEPT ![s] = <<>>, ![Rev(s)] = <<>>]
  /\ UNCHANGED <<node, sync, made, torn>>

(* The objects that n is storing: what it has just received, a block that  *)
(* has its turn in resolvePendingBlocks, or a payment of its own.          *)
Storing(n) ==
  {x \in Objects \ db[n].objects :
     /\ \/ \E m \in Node : Receives(n, m, "object") /\ Received(n, m).id = x
        \/ x \in resolving[n].blocks
        \/ x \in Tx /\ Payable(n, x)
     /\ Validate(db[n], x).code = "NONE"}

(* What a kill may find on the disk of n, and a panic too: the store       *)
(* between two handlers, or one that a commit has only begun to change.    *)
Left(n) ==
  {db[n]} \cup {WithCoinbase(n, b) : b \in Found(n)}
    \cup (UNION {Cuts(db[n], x) : x \in Storing(n)})
    \cup (UNION {Cuts(WithCoinbase(n, b), b) : b \in Mined(n)})

(* A block in d that was not stored before is lost: it will not be stored  *)
(* again, and without its UTXO set it has no children, while above the     *)
(* chaintip it is not announced.                                           *)
Loses(n, d) ==
  \E b \in (d.objects \ db[n].objects) \cap Block :
    b \notin d.sets \/ UTXO[b].height > d.chaintip.height

(* InitializeMempool on the disk d.                                        *)
Started(d, kept) ==
  [d EXCEPT !.mempool = kept, !.mempoolDisk = kept \cup {x \in @ : ~ Readable(x)},
            !.spent = UNION {Ins(x) : x \in kept}]

(* A node is killed, or panics, and is started again.                      *)
Restart(n) ==
  LET own == {s \in Stream : n \in {s[1], s[2]}}
  IN  /\ faults < MaxFaults /\ faults' = faults + 1
      /\ \E d \in Left(n) :
           /\ \E kept \in Sweeps({x \in d.mempoolDisk : IsInputInUTXO(d, x)}, d.objects) :
                db' = [db EXCEPT ![n] = Started(d, kept)]
           /\ made' = made \cup d.objects
           /\ torn' = IF Loses(n, d) THEN torn \cup {n} ELSE torn
      /\ pendingBlocks' = [pendingBlocks EXCEPT ![n] = {}]
      /\ resolving' = [resolving EXCEPT ![n] = [blocks |-> {}, via |-> n]]
      /\ chaintipsReceived' = [chaintipsReceived EXCEPT ![n] = 0]
      /\ isSynced' = isSynced \ {n} /\ timeout' = timeout \cup {n}
      /\ open' = open \ own
      /\ chan' = [s \in Stream |-> IF s \in own THEN <<>> ELSE chan[s]]
      /\ UNCHANGED sentChainTip

HandleMessage(n, m) ==
  \/ HandleGetChainTip(n, m) \/ HandleChainTip(n, m)
  \/ HandleIHaveObject(n, m) \/ HandleGetObject(n, m) \/ HandleObject(n, m)
  \/ HandleGetMempool(n, m) \/ HandleMempool(n, m)

Next ==
  \/ \E s \in Stream : \/ Connect(s) \/ Drop(s) \/ HandleMessage(s[1], s[2])
                       \/ GossipTick(s[1], s[2])
                       \/ FetchMissingDependencies(s[1], s[2])
  \/ \E n \in Node : \/ Revalidate(n) \/ CleanupPendingBlocks(n)
                     \/ SyncTick(n) \/ SyncTimeout(n) \/ Restart(n)
                     \/ \E b \in Block : Mine(n, b)
                     \/ \E t \in Tx : SendPicabus(n, t)

(* Goroutines are scheduled and timers fire.  The gossip ticker goes on    *)
(* whatever else happens: a connection that is quiet again and again is so *)
(* at one of its ticks.  Connections that may be made are made again.      *)
(* Nothing is asked of FetchMissingDependencies.                           *)
Fairness ==
  /\ \A s \in Stream : /\ WF_vars(Connect(s)) /\ WF_vars(HandleMessage(s[1], s[2]))
                       /\ SF_vars(GossipTick(s[1], s[2]))
  /\ \A n \in Node : /\ WF_vars(Revalidate(n))
                     /\ WF_vars(SyncTick(n)) /\ WF_vars(SyncTimeout(n))

Spec == Init /\ [][Next]_vars /\ Fairness

-----------------------------------------------------------------------------
(* Type invariant of the network.                                          *)
TypeOK ==
  /\ db \in [Node -> Store]
  /\ pendingBlocks \in [Node -> SUBSET (HashID \X Block)]
  /\ resolving \in [Node -> [blocks : SUBSET Block, via : Node]]
  /\ sentChainTip \subseteq Stream
  /\ chaintipsReceived \in [Node -> 0 .. EnoughTips + 1]
  /\ isSynced \subseteq Node /\ timeout \subseteq Node
  /\ open \subseteq Stream /\ \A s \in open : Rev(s) \in open
  /\ chan \in [Stream -> Seq(Message)]
  /\ \A s \in Stream \ open : chan[s] = <<>>
  /\ made \subseteq Objects /\ torn \subseteq Node /\ faults \in 0 .. MaxFaults

(* The ids that a message says its sender has.                             *)
Offered(msg) ==
  CASE msg.type \in {"chaintip", "ihaveobject", "object"} -> {msg.id}
    [] msg.type = "mempool" -> msg.txids
    [] OTHER -> {}

(* While a message that offers an id is in flight its sender has stored    *)
(* that id, over restarts too that fall into a commit; and the parent and  *)
(* the transactions of a block, which its receiver asks for in turn, it    *)
(* can also give out: getObject can read them back.                        *)
OfferBacked ==
  \A s \in Stream : \A i \in DOMAIN chan[s] : \A x \in Offered(chan[s][i]) :
    /\ x \in db[s[1]].objects
    /\ x \in Block => \A y \in Ids(x) \cup ({Previd[x]} \ {nil}) :
                        y \in db[s[1]].objects /\ Readable(y)

(* Whatever is offered can be fetched.  It is not so: a transaction        *)
(* without inputs is pooled and announced, and getObject refuses it.       *)
OfferServed ==
  \A s \in Stream : \A i \in DOMAIN chan[s] : \A x \in Offered(chan[s][i]) : Readable(x)

(* The blocks of n that its peers should come to know: a torn node does    *)
(* not announce what it has above its chaintip.                            *)
Announced(n) ==
  {b \in db[n].sets : n \in torn => UTXO[b].height <= db[n].chaintip.height}

(* Lost messages, expired blocks and restarts that lose no block only      *)
(* delay it: in the end each node is, for good, as high as what the nodes  *)
(* that it may connect to announce.  A kill that tears a block apart       *)
(* exempts its own node; the others still get all that it announces.       *)
Converged ==
  <>[](\A s \in Stream : s[1] \notin torn =>
         \A b \in Announced(s[2]) : db[s[1]].chaintip.height >= UTXO[b].height)

(* Every node that is started gets done with its initial synchronisation,  *)
(* if it has enough peers, unless a kill has torn a block of it apart.     *)
SyncDone == \A n \in Node : []<>(n \in isSynced \cup torn)

(* A transaction that some node has pooled and that stays minable there    *)
(* reaches the mempool of every node.                                      *)
MempoolSpreads ==
  \A n, m \in Node : \A t \in Tx :
    []<>(t \in db[n].mempool => t \in db[m].mempool)
=============================================================================
