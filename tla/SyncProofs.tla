----------------------------- MODULE SyncProofs -----------------------------
(***************************************************************************)
(* Proofs about Sync, for any nodes, connections and objects and with any  *)
(* number of faults: its types, and that what a node announces or sends it *)
(* has stored, and can give out all that this depends on.                  *)
(***************************************************************************)
EXTENDS Sync, LedgerProofs, FiniteSetTheorems

(* What a block refers to.                                                 *)
Deps(b) == Ids(b) \cup ({Previd[b]} \ {nil})

(* It can be given out of objs.                                            *)
Served(b, objs) == Deps(b) \subseteq objs /\ \A y \in Deps(b) : Readable(y)

(* A store in which nothing refers to something that is not there, and no  *)
(* block to something that cannot be read back.                            *)
StoreOK(d) ==
  /\ d \in Store
  /\ d.mempool \cup d.mempoolDisk \subseteq d.objects
  /\ d.chaintip # NoTip => d.chaintip.id \in d.objects
  /\ \A b \in d.objects \cap Block : Served(b, d.objects)

(* The messages that offer nothing but what n has stored in D, and streams *)
(* c of such messages.                                                     *)
Honest(D, n) == {msg \in Message : Offered(msg) \subseteq D[n].objects}

Carries(c, D) ==
  c \in [Stream -> Seq(Message)] /\ \A s \in Stream : c[s] \in Seq(Honest(D, s[1]))

(* Every store is closed, and all that is in flight is honest.             *)
SyncInv ==
  /\ TypeOK
  /\ \A n \in Node : StoreOK(db[n])
  /\ Carries(chan, db)

-----------------------------------------------------------------------------
(* A finite set has an enumeration.                                        *)
LEMMA SetToSeqType ==
  ASSUME NEW S, IsFiniteSet(S)
  PROVE  Cardinality(S) \in Nat /\ SetToSeq(S) \in [1 .. Cardinality(S) -> S]
<1>1. Cardinality(S) \in Nat /\ ExistsBijection(1 .. Cardinality(S), S)
  BY FS_CardinalityType
<1>2. \E f \in [1 .. Cardinality(S) -> S] : IsInjective(f)
  BY <1>1 DEF ExistsBijection, Bijection, Injection
<1>3. QED
  BY <1>1, <1>2 DEF SetToSeq

(* Sets of ids are finite.                                                 *)
LEMMA IdsFinite ==
  ASSUME NEW S \in SUBSET HashID
  PROVE  IsFiniteSet(S)
BY SyncAssumption, FS_Subset

(* The messages are of their types, and offer what they name.              *)
LEMMA MsgType ==
  /\ \A type \in {"getchaintip", "getmempool"} :
       Msg(type) \in Message /\ Offered(Msg(type)) = {}
  /\ \A type \in {"chaintip", "ihaveobject", "object"}, id \in HashID :
       MsgOf(type, id) \in Message /\ Offered(MsgOf(type, id)) = {id}
  /\ \A id \in HashID :
       MsgOf("getobject", id) \in Message /\ Offered(MsgOf("getobject", id)) = {}
  /\ \A txids \in SUBSET Tx :
       /\ [type |-> "mempool", txids |-> txids] \in Message
       /\ Offered([type |-> "mempool", txids |-> txids]) = txids
<1>1. \A type \in {"getchaintip", "getmempool"} :
        Msg(type) \in Message /\ Offered(Msg(type)) = {}
  BY DEF Msg, Message, Offered
<1>2. \A type \in {"chaintip", "ihaveobject", "object"}, id \in HashID :
        MsgOf(type, id) \in Message /\ Offered(MsgOf(type, id)) = {id}
  BY DEF MsgOf, Message, Offered
<1>3. \A id \in HashID :
        MsgOf("getobject", id) \in Message /\ Offered(MsgOf("getobject", id)) = {}
  BY DEF MsgOf, Message, Offered
<1>4. \A txids \in SUBSET Tx :
        /\ [type |-> "mempool", txids |-> txids] \in Message
        /\ Offered([type |-> "mempool", txids |-> txids]) = txids
  BY DEF Message, Offered
<1>5. QED
  BY <1>1, <1>2, <1>3, <1>4

(* What a message that has arrived names.                                  *)
LEMMA MsgFields ==
  ASSUME NEW msg \in Message
  PROVE  /\ msg.type \in {"chaintip", "ihaveobject", "getobject", "object"} => msg.id \in HashID
         /\ msg.type = "object" => Offered(msg) = {msg.id}
         /\ msg.type = "mempool" => msg.txids \in SUBSET Tx
BY DEF Message, Offered

(* The requests for each id of a set.                                      *)
LEMMA RequestsType ==
  ASSUME NEW S \in SUBSET HashID, NEW D, NEW n
  PROVE  [i \in DOMAIN SetToSeq(S) |-> MsgOf("getobject", SetToSeq(S)[i])] \in Seq(Honest(D, n))
<1> DEFINE q == SetToSeq(S)
           k == Cardinality(S)
<1>1. k \in Nat /\ q \in [1 .. k -> S]
  BY SetToSeqType, IdsFinite
<1> HIDE DEF q, k
<1>2. \A i \in 1 .. k : MsgOf("getobject", q[i]) \in Honest(D, n)
  BY <1>1, MsgType DEF Honest
<1>3. [i \in DOMAIN q |-> MsgOf("getobject", q[i])] \in [1 .. k -> Honest(D, n)]
  BY <1>1, <1>2
<1>4. QED
  BY <1>1, <1>3 DEF q

-----------------------------------------------------------------------------
(* Honest messages stay so while stores grow.                              *)
LEMMA CarriesGrows ==
  ASSUME NEW c, NEW D, NEW E, Carries(c, D), \A n \in Node : D[n].objects \subseteq E[n].objects
  PROVE  Carries(c, E)
<1>1. ASSUME NEW s \in Stream
      PROVE  c[s] \in Seq(Honest(E, s[1]))
  <2>1. s[1] \in Node
    BY SyncAssumption
  <2>2. Honest(D, s[1]) \subseteq Honest(E, s[1])
    BY <2>1 DEF Honest
  <2>3. c[s] \in Seq(Honest(D, s[1]))
    BY DEF Carries
  <2>4. QED
    BY <2>2, <2>3
<1>2. QED
  BY <1>1 DEF Carries

(* n sends honest messages.                                                *)
LEMMA SentCarries ==
  ASSUME NEW c, NEW D, Carries(c, D), NEW n, NEW m,
         NEW all \in Seq(Honest(D, n)), NEW answers \in Seq(Honest(D, n))
  PROVE  /\ Carries(Sent(c, n, all, m, answers), D)
         /\ \A s \in Stream \ open : Sent(c, n, all, m, answers)[s] = c[s]
<1> DEFINE f == Sent(c, n, all, m, answers)
<1>1. ASSUME NEW s \in Stream
      PROVE  f[s] \in Seq(Honest(D, s[1]))
  <2> DEFINE a == IF s[1] = n /\ s \in open THEN all ELSE <<>>
             b == IF s = <<n, m>> /\ s \in open THEN answers ELSE <<>>
  <2>1. c[s] \in Seq(Honest(D, s[1]))
    BY DEF Carries
  <2>2. a \in Seq(Honest(D, s[1])) /\ b \in Seq(Honest(D, s[1]))
    <3>1. <<>> \in Seq(Honest(D, s[1]))
      OBVIOUS
    <3>2. s[1] = n => all \in Seq(Honest(D, s[1]))
      OBVIOUS
    <3>3. s = <<n, m>> => answers \in Seq(Honest(D, s[1]))
      <4>1. s = <<n, m>> => s[1] = n
        OBVIOUS
      <4>2. QED
        BY <4>1
    <3>4. QED
      BY <3>1, <3>2, <3>3
  <2>3. f[s] = c[s] \o a \o b
    BY DEF Sent
  <2> HIDE DEF a, b, f
  <2>4. QED
    BY <2>1, <2>2, <2>3
<1>2. \A s \in Stream : Honest(D, s[1]) \subseteq Message
  BY DEF Honest
<1>3. f = [s \in Stream |-> f[s]]
  BY DEF Sent
<1>4. \A s \in Stream : f[s] \in Seq(Message)
  BY <1>1, <1>2
<1>5. ASSUME NEW s \in Stream \ open
      PROVE  f[s] = c[s]
  <2>1. f[s] = c[s] \o <<>> \o <<>>
    BY DEF Sent
  <2>2. c[s] \in Seq(Message)
    BY DEF Carries
  <2>3. QED
    BY <2>1, <2>2
<1> HIDE DEF f
<1>6. Carries(f, D)
  BY <1>1, <1>3, <1>4 DEF Carries
<1>7. QED
  BY <1>5, <1>6 DEF f

(* n takes a message; what is left is honest, and so is the message.       *)
LEMMA TookCarries ==
  ASSUME NEW D, Carries(chan, D), NEW n, NEW m, <<m, n>> \in Stream, chan[<<m, n>>] # <<>>
  PROVE  /\ Carries(Took(n, m), D) /\ Received(n, m) \in Honest(D, m)
         /\ \A s \in Stream \ {<<m, n>>} : Took(n, m)[s] = chan[s]
<1> DEFINE q == chan[<<m, n>>]
<1>1. chan \in [Stream -> Seq(Message)] /\ q \in Seq(Honest(D, m)) /\ q \in Seq(Message)
  BY DEF Carries
<1>2. Tail(q) \in Seq(Honest(D, m)) /\ Tail(q) \in Seq(Message) /\ Head(q) \in Honest(D, m)
  BY <1>1
<1>3. Took(n, m) = [chan EXCEPT ![<<m, n>>] = Tail(q)]
  BY DEF Took
<1> HIDE DEF q
<1>4. Took(n, m) \in [Stream -> Seq(Message)]
  BY <1>1, <1>2, <1>3
<1>5. ASSUME NEW s \in Stream
      PROVE  Took(n, m)[s] \in Seq(Honest(D, s[1]))
  <2>1. CASE s = <<m, n>>
    <3>1. Took(n, m)[s] = Tail(q) /\ s[1] = m
      BY <1>1, <1>3, <2>1
    <3>2. QED
      BY <1>2, <3>1
  <2>2. CASE s # <<m, n>>
    <3>1. Took(n, m)[s] = chan[s]
      BY <1>1, <1>3, <2>2
    <3>2. QED
      BY <3>1 DEF Carries
  <2>3. QED
    BY <2>1, <2>2
<1>6. QED
  BY <1>1, <1>2, <1>3, <1>4, <1>5 DEF Carries, Received, q

-----------------------------------------------------------------------------
(* Validation against a closed store: a block that passes has all it       *)
(* refers to there, and one that lacks something names it.                 *)
LEMMA ValidateSync ==
  ASSUME NEW d \in Store, NEW x \in Objects
  PROVE  /\ Validate(d, x) \in ValidationResult
         /\ x \in Block /\ Validate(d, x).code = "UNKNOWN_OBJECT" => Validate(d, x).missing \in HashID
         /\ x \in Block /\ Validate(d, x).code = "NONE" => Served(x, d.objects)
<1> DEFINE sets == [b \in Block |-> IF b \in d.sets THEN UTXO[b] ELSE NoUTXO]
<1>1. sets \in [Block -> UTXOSet \cup {NoUTXO}]
  BY UTXOAssumption
<1>2. Validate(d, x) = ValidateObject(x, d.objects, sets, d.chaintip, d.spent)
  BY DEF Validate
<1> HIDE DEF sets
<1>3. CASE x \in Tx
  BY <1>2, <1>3, TransactionResult, IdsDisjoint DEF ValidateObject
<1>4. CASE x \in Coinbase
  BY <1>2, <1>4, ValidType, IdsDisjoint DEF ValidateObject, ValidateCoinbase
<1>5. CASE x \in Block
  <2> DEFINE r == ValidateBlock(x, d.objects, sets, d.chaintip)
  <2>1. Validate(d, x) = r
    BY <1>2, <1>5, IdsDisjoint DEF ValidateObject
  <2>2. /\ r \in ValidationResult
        /\ r.code = "UNKNOWN_OBJECT" => r.missing \in HashID
        /\ r.code = "NONE" =>
             /\ HeaderError(x, d.objects, sets) = "NONE" /\ Ids(x) \subseteq d.objects
             /\ \A i \in DOMAIN Txids[x] : TxidError(x, i, d.objects, ParentUTXOs(x, sets),
                                                     NewHeight(x, sets)) = "NONE"
    BY <1>1, <1>5, BlockResult
  <2> HIDE DEF r
  <2>3. HeaderError(x, d.objects, sets) = "NONE" =>
          Previd[x] = nil \/ (Previd[x] \in d.objects /\ Readable(Previd[x]))
    BY DEF HeaderError
  <2>4. ASSUME r.code = "NONE", NEW y \in Ids(x) PROVE Readable(y)
    <3>1. PICK i \in DOMAIN Txids[x] : y = Txids[x][i]
      BY DEF Ids
    <3>2. TxidError(x, i, d.objects, ParentUTXOs(x, sets), NewHeight(x, sets)) = "NONE"
      BY <2>2, <2>4
    <3>3. QED
      BY <3>1, <3>2 DEF TxidError
  <2>5. QED
    BY <2>1, <2>2, <2>3, <2>4 DEF Deps, Served
<1>6. QED
  BY <1>3, <1>4, <1>5 DEF Objects

(* A store stays closed when an object joins it whose dependencies it has, *)
(* whatever that does to the mempool and the tip.                          *)
LEMMA JoinOK ==
  ASSUME NEW d, StoreOK(d), NEW x \in Objects, x \in Block => Served(x, d.objects),
         NEW sets \in SUBSET Block, NEW tip \in Chaintip \cup {NoTip}, tip # NoTip => tip.id \in d.objects \cup {x},
         NEW pool \in SUBSET Tx, pool \subseteq d.objects \cup {x},
         NEW saved \in SUBSET Tx, saved \subseteq d.objects \cup {x},
         NEW spent \in SUBSET Outpoint
  PROVE  StoreOK([objects |-> d.objects \cup {x}, sets |-> sets, chaintip |-> tip, mempool |-> pool,
                  mempoolDisk |-> saved, spent |-> spent])
<1> DEFINE e == [objects |-> d.objects \cup {x}, sets |-> sets, chaintip |-> tip, mempool |-> pool,
                 mempoolDisk |-> saved, spent |-> spent]
<1>1. d.objects \in SUBSET Objects
  BY DEF StoreOK, Store
<1>2. e \in Store
  BY <1>1 DEF Store
<1>3. /\ e.objects = d.objects \cup {x} /\ e.chaintip = tip
      /\ e.mempool = pool /\ e.mempoolDisk = saved
  OBVIOUS
<1> HIDE DEF e
<1>4. \A b \in e.objects \cap Block : Served(b, e.objects)
  BY <1>3 DEF StoreOK, Served
<1>5. QED
  BY <1>2, <1>3, <1>4 DEF StoreOK, e

(* A coinbase is only added to the objects.                                *)
LEMMA GainOK ==
  ASSUME NEW d, StoreOK(d), NEW x \in Coinbase
  PROVE  /\ StoreOK([d EXCEPT !.objects = @ \cup {x}])
         /\ [d EXCEPT !.objects = @ \cup {x}].objects = d.objects \cup {x}
<1> DEFINE e == [d EXCEPT !.objects = @ \cup {x}]
<1>1. /\ d \in Store /\ d.mempool \cup d.mempoolDisk \subseteq d.objects
      /\ d.chaintip # NoTip => d.chaintip.id \in d.objects
  BY DEF StoreOK
<1>2. /\ d = [objects |-> d.objects, sets |-> d.sets, chaintip |-> d.chaintip,
              mempool |-> d.mempool, mempoolDisk |-> d.mempoolDisk, spent |-> d.spent]
      /\ d.objects \subseteq Objects /\ d.sets \in SUBSET Block /\ d.chaintip \in Chaintip \cup {NoTip}
      /\ d.mempool \in SUBSET Tx /\ d.mempoolDisk \in SUBSET Tx /\ d.spent \in SUBSET Outpoint
  BY <1>1 DEF Store
<1>3. x \in Objects /\ x \notin Block
  BY IdsDisjoint DEF Objects
<1>4. e = [objects |-> d.objects \cup {x}, sets |-> d.sets, chaintip |-> d.chaintip, mempool |-> d.mempool,
           mempoolDisk |-> d.mempoolDisk, spent |-> d.spent]
  BY <1>2
<1>5. e.objects = d.objects \cup {x}
  BY <1>4
<1> HIDE DEF e
<1>6. StoreOK(e)
  BY <1>1, <1>2, <1>3, <1>4, JoinOK
<1>7. QED
  BY <1>5, <1>6 DEF e

(* CommitObject keeps a store closed.                                      *)
LEMMA CommitOK ==
  ASSUME NEW d, StoreOK(d), NEW x \in Objects, Validate(d, x).code = "NONE"
  PROVE  /\ StoreOK(CommitObject(d, x))
         /\ CommitObject(d, x).objects = d.objects \cup {x}
<1>1. /\ d \in Store /\ d.mempool \cup d.mempoolDisk \subseteq d.objects
      /\ d.chaintip # NoTip => d.chaintip.id \in d.objects
  BY DEF StoreOK
<1>2. /\ d = [objects |-> d.objects, sets |-> d.sets, chaintip |-> d.chaintip,
              mempool |-> d.mempool, mempoolDisk |-> d.mempoolDisk, spent |-> d.spent]
      /\ d.objects \subseteq Objects /\ d.sets \in SUBSET Block /\ d.chaintip \in Chaintip \cup {NoTip}
      /\ d.mempool \in SUBSET Tx /\ d.mempoolDisk \in SUBSET Tx /\ d.spent \in SUBSET Outpoint
  BY <1>1 DEF Store
<1>3. CASE x \in Tx
  <2>1. CommitObject(d, x) = CommitTransaction(d, x)
    BY <1>3 DEF CommitObject
  <2>2. x \notin Block
    BY <1>3, IdsDisjoint
  <2>3. CASE Ins(x) \cap d.spent = {} /\ IsInputInUTXO(d, x)
    <3>1. CommitTransaction(d, x) =
            [objects |-> d.objects \cup {x}, sets |-> d.sets, chaintip |-> d.chaintip, mempool |-> d.mempool \cup {x},
             mempoolDisk |-> d.mempoolDisk \cup {x}, spent |-> d.spent \cup Ins(x)]
      BY <1>2, <2>3 DEF CommitTransaction
    <3>2. d.spent \cup Ins(x) \in SUBSET Outpoint
      BY <1>2, InsType
    <3>3. StoreOK(CommitTransaction(d, x))
      BY <1>1, <1>2, <1>3, <2>2, <3>1, <3>2, JoinOK
    <3>4. QED
      BY <2>1, <3>1, <3>3
  <2>4. CASE ~ (Ins(x) \cap d.spent = {} /\ IsInputInUTXO(d, x))
    <3>1. CommitTransaction(d, x) =
            [objects |-> d.objects \cup {x}, sets |-> d.sets, chaintip |-> d.chaintip, mempool |-> d.mempool,
             mempoolDisk |-> d.mempoolDisk, spent |-> d.spent]
      BY <1>2, <2>4 DEF CommitTransaction
    <3>2. StoreOK(CommitTransaction(d, x))
      BY <1>1, <1>2, <2>2, <3>1, JoinOK
    <3>3. QED
      BY <2>1, <3>1, <3>2
  <2>5. QED
    BY <2>3, <2>4
<1>4. CASE x \in Coinbase
  <2>1. x \notin Block /\ x \notin Tx
    BY <1>4, IdsDisjoint
  <2>2. CommitObject(d, x) = [d EXCEPT !.objects = @ \cup {x}]
    BY <1>4, <2>1 DEF CommitObject
  <2>3. QED
    BY <1>4, <2>2, GainOK
<1>5. CASE x \in Block
  <2> DEFINE r == Validate(d, x)
             tip == TipAfter(d, x, r)
             objs == d.objects \cup {x}
             sets == d.sets \cup {x}
             e == [d EXCEPT !.objects = objs, !.sets = sets, !.chaintip = tip]
             rest == d.mempool \ Ids(x)
             stale == {y \in rest : ~ IsInputInUTXO(e, y)}
             pool == rest \ stale
             saved == e.mempoolDisk \ Ids(x)
             spent == e.spent \ UNION {Ins(y) : y \in stale}
             swept == [e EXCEPT !.mempool = pool, !.mempoolDisk = saved, !.spent = spent]
  <2>1. r \in ValidationResult /\ Served(x, d.objects) /\ sets \in SUBSET Block
    BY <1>1, <1>2, <1>5, ValidateSync
  <2>2. tip \in Chaintip \cup {NoTip} /\ (tip # NoTip => tip.id \in objs)
    BY <1>1, <1>2, <1>5, <2>1 DEF Chaintip, ValidationResult, TipAfter
  <2>3. CommitObject(d, x) = CommitBlock(d, x, r)
    BY <1>5, IdsDisjoint DEF CommitObject
  <2>4. CommitBlock(d, x, r) = e \/ CommitBlock(d, x, r) = swept
    BY DEF CommitBlock
  <2> HIDE DEF r, tip
  <2>5. e = [objects |-> objs, sets |-> sets, chaintip |-> tip, mempool |-> d.mempool,
             mempoolDisk |-> d.mempoolDisk, spent |-> d.spent]
    <3> DEFINE e1 == [d EXCEPT !.objects = objs]
               e2 == [e1 EXCEPT !.sets = sets]
    <3>1. e = [e2 EXCEPT !.chaintip = tip]
      OBVIOUS
    <3> HIDE DEF objs, sets, e
    <3>2. e1 = [objects |-> objs, sets |-> d.sets, chaintip |-> d.chaintip, mempool |-> d.mempool,
                mempoolDisk |-> d.mempoolDisk, spent |-> d.spent]
      BY <1>2
    <3> HIDE DEF e1
    <3>3. e2 = [objects |-> objs, sets |-> sets, chaintip |-> d.chaintip, mempool |-> d.mempool,
                mempoolDisk |-> d.mempoolDisk, spent |-> d.spent]
      BY <3>2
    <3> HIDE DEF e2
    <3>4. QED
      BY <3>1, <3>3
  <2>6. StoreOK(e) /\ e.objects = objs
    <3>1. e.objects = objs
      BY <2>5
    <3>2. QED
      BY <1>1, <1>2, <2>1, <2>2, <2>5, <3>1, JoinOK
  <2>7. StoreOK(swept) /\ swept.objects = objs
    <3>1. /\ pool \in SUBSET Tx /\ saved \in SUBSET Tx /\ spent \in SUBSET Outpoint
          /\ pool \subseteq objs /\ saved \subseteq objs
      BY <1>1, <1>2, <2>5
    <3> HIDE DEF rest, stale, pool, saved, spent
    <3>2. swept = [objects |-> objs, sets |-> sets, chaintip |-> tip, mempool |-> pool,
                   mempoolDisk |-> saved, spent |-> spent]
      <4> DEFINE e1 == [e EXCEPT !.mempool = pool]
                 e2 == [e1 EXCEPT !.mempoolDisk = saved]
      <4>1. swept = [e2 EXCEPT !.spent = spent]
        OBVIOUS
      <4> HIDE DEF objs, sets, e, swept
      <4>2. e1 = [objects |-> objs, sets |-> sets, chaintip |-> tip, mempool |-> pool,
                  mempoolDisk |-> d.mempoolDisk, spent |-> d.spent]
        BY <2>5
      <4> HIDE DEF e1
      <4>3. e2 = [objects |-> objs, sets |-> sets, chaintip |-> tip, mempool |-> pool,
                  mempoolDisk |-> saved, spent |-> d.spent]
        BY <4>2
      <4> HIDE DEF e2
      <4>4. QED
        BY <4>1, <4>3
    <3>3. swept.objects = objs
      BY <3>2
    <3>4. QED
      BY <2>1, <2>2, <3>1, <3>2, <3>3, JoinOK
  <2>8. QED
    BY <2>3, <2>4, <2>6, <2>7
<1>6. QED
  BY <1>3, <1>4, <1>5 DEF Objects

(* Wherever CommitObject is cut off, the store is closed.                  *)
LEMMA CutsOK ==
  ASSUME NEW d, StoreOK(d), NEW x \in Objects, Validate(d, x).code = "NONE", NEW e \in Cuts(d, x)
  PROVE  StoreOK(e) /\ d.objects \subseteq e.objects
<1> DEFINE r == Validate(d, x)
           tip == TipAfter(d, x, r)
           objs == d.objects \cup {x}
           sets == d.sets \cup {x}
           stored == [d EXCEPT !.objects = objs]
           valued == [stored EXCEPT !.sets = sets]
           tipped == [valued EXCEPT !.chaintip = tip]
           Saved(k) == tipped.mempoolDisk \ ToSet(SubSeq(Txids[x], 1, k))
<1>1. /\ d \in Store /\ d.mempool \cup d.mempoolDisk \subseteq d.objects
      /\ d.chaintip # NoTip => d.chaintip.id \in d.objects
  BY DEF StoreOK
<1>2. /\ d = [objects |-> d.objects, sets |-> d.sets, chaintip |-> d.chaintip,
              mempool |-> d.mempool, mempoolDisk |-> d.mempoolDisk, spent |-> d.spent]
      /\ d.objects \subseteq Objects /\ d.sets \in SUBSET Block /\ d.chaintip \in Chaintip \cup {NoTip}
      /\ d.mempool \in SUBSET Tx /\ d.mempoolDisk \in SUBSET Tx /\ d.spent \in SUBSET Outpoint
  BY <1>1 DEF Store
<1>3. x \in Block => Served(x, d.objects)
  BY <1>1, ValidateSync
<1>4. /\ x \notin Block => e = stored
      /\ x \in Block => \/ e \in {stored, valued, tipped}
                        \/ \E k : e = Unpooled(tipped, x, k)
  <2> HIDE DEF r, stored, valued, tipped
  <2>1. QED
    BY DEF Cuts, r, stored, valued, tipped
<1>5. x \in Block => /\ tip \in Chaintip \cup {NoTip} /\ (tip # NoTip => tip.id \in objs)
                     /\ sets \in SUBSET Block
  <2>1. r \in ValidationResult
    BY <1>1, ValidateSync
  <2>2. QED
    BY <1>1, <1>2, <2>1 DEF Chaintip, ValidationResult, TipAfter
<1>0. d.objects \subseteq objs
  OBVIOUS
<1>6. stored = [objects |-> objs, sets |-> d.sets, chaintip |-> d.chaintip, mempool |-> d.mempool,
                mempoolDisk |-> d.mempoolDisk, spent |-> d.spent]
  <2> HIDE DEF objs
  <2>1. QED
    BY <1>2
<1>7. StoreOK(stored) /\ stored.objects = objs
  <2>1. stored.objects = objs
    BY <1>6
  <2>2. QED
    BY <1>1, <1>2, <1>3, <1>6, <2>1, JoinOK
<1> HIDE DEF r, tip
<1>8. valued = [objects |-> objs, sets |-> sets, chaintip |-> d.chaintip, mempool |-> d.mempool,
                mempoolDisk |-> d.mempoolDisk, spent |-> d.spent]
  <2> HIDE DEF objs, sets, stored
  <2>1. QED
    BY <1>6
<1>9. tipped = [objects |-> objs, sets |-> sets, chaintip |-> tip, mempool |-> d.mempool,
                mempoolDisk |-> d.mempoolDisk, spent |-> d.spent]
  <2> HIDE DEF objs, sets, valued
  <2>1. QED
    BY <1>8
<1>10. x \in Block => StoreOK(valued) /\ valued.objects = objs
  <2>1. valued.objects = objs
    BY <1>8
  <2>2. QED
    BY <1>1, <1>2, <1>3, <1>5, <1>8, <2>1, JoinOK
<1>11. x \in Block => StoreOK(tipped) /\ tipped.objects = objs
  <2>1. tipped.objects = objs
    BY <1>9
  <2>2. QED
    BY <1>1, <1>2, <1>3, <1>5, <1>9, <2>1, JoinOK
<1>12. ASSUME x \in Block, NEW saved, saved \in SUBSET d.mempoolDisk,
              e = [tipped EXCEPT !.mempoolDisk = saved]
       PROVE  StoreOK(e) /\ e.objects = objs
  <2>1. e = [objects |-> objs, sets |-> sets, chaintip |-> tip, mempool |-> d.mempool,
             mempoolDisk |-> saved, spent |-> d.spent]
    <3> HIDE DEF objs, sets, tipped
    <3>1. QED
      BY <1>9, <1>12
  <2>2. e.objects = objs
    BY <2>1
  <2>3. saved \in SUBSET Tx /\ saved \subseteq d.objects \cup {x}
    BY <1>1, <1>2, <1>12
  <2>4. QED
    <3>1. x \in Block
      BY <1>12
    <3> HIDE DEF sets, tipped
    <3>2. StoreOK([objects |-> d.objects \cup {x}, sets |-> sets, chaintip |-> tip, mempool |-> d.mempool,
                   mempoolDisk |-> saved, spent |-> d.spent])
      BY <1>1, <1>2, <1>3, <1>5, <2>3, <3>1, JoinOK
    <3>3. QED
      BY <2>1, <2>2, <3>2
<1>13. \A k : Saved(k) \in SUBSET d.mempoolDisk
  BY <1>9
<1>14. \A k : Unpooled(tipped, x, k) = [tipped EXCEPT !.mempoolDisk = Saved(k)]
  BY DEF Unpooled
<1> HIDE DEF stored, valued, tipped, Saved, objs
<1>15. QED
  BY <1>0, <1>4, <1>7, <1>10, <1>11, <1>12, <1>13, <1>14

-----------------------------------------------------------------------------
(* What n sends to its open streams is honest, and on those only.          *)
LEMMA SendStep ==
  ASSUME SyncInv, NEW c, NEW D, Carries(c, D), \A s \in Stream \ open : c[s] = <<>>,
         NEW n, NEW m, NEW all \in Seq(Honest(D, n)), NEW answers \in Seq(Honest(D, n)),
         chan' = Sent(c, n, all, m, answers)
  PROVE  Carries(chan', D) /\ \A s \in Stream \ open : chan'[s] = <<>>
BY SentCarries

(* A handler that only answers sends honest messages on an open stream.    *)
LEMMA AnswerStep ==
  ASSUME SyncInv, NEW n, NEW m, NEW type, Receives(n, m, type),
         NEW answers \in Seq(Honest(db, n)), Answer(n, m, answers)
  PROVE  Carries(chan', db) /\ \A s \in Stream \ open : chan'[s] = <<>>
<1>1. <<m, n>> \in Stream /\ <<m, n>> \in open /\ chan[<<m, n>>] # <<>>
  BY DEF Receives, SyncInv, TypeOK
<1>2. PICK c : /\ c = Took(n, m) /\ Carries(c, db)
               /\ \A s \in Stream \ {<<m, n>>} : c[s] = chan[s]
  BY <1>1, TookCarries DEF SyncInv
<1>3. <<>> \in Seq(Honest(db, n))
  OBVIOUS
<1>4. \A s \in Stream \ open : c[s] = <<>>
  BY <1>1, <1>2 DEF SyncInv, TypeOK
<1>5. chan' = Sent(c, n, <<>>, m, answers)
  BY <1>2 DEF Answer
<1>6. QED
  BY <1>2, <1>3, <1>4, <1>5, SendStep

(* One honest message is an honest sequence.                               *)
LEMMA OneHonest ==
  ASSUME NEW D, NEW n, NEW msg \in Honest(D, n)
  PROVE  <<msg>> \in Seq(Honest(D, n))
OBVIOUS

(* Validating x for a message of m, and what follows, keeps n's store      *)
(* closed and has it announce only what it has then stored.                *)
LEMMA ProcessStep ==
  ASSUME SyncInv, NEW n \in Node, NEW m \in Node, NEW x \in Objects, NEW c, Carries(c, db),
         \A s \in Stream \ open : c[s] = <<>>, NEW rest \in SUBSET Block,
         Process(n, m, x, c, rest)
  PROVE  /\ db' \in [Node -> Store] /\ \A k \in Node : StoreOK(db'[k])
         /\ Carries(chan', db') /\ \A s \in Stream \ open : chan'[s] = <<>>
         /\ pendingBlocks' \in [Node -> SUBSET (HashID \X Block)]
         /\ resolving' \in [Node -> [blocks : SUBSET Block, via : Node]]
<1> DEFINE r == Validate(db[n], x)
<1>0. /\ db \in [Node -> Store] /\ StoreOK(db[n]) /\ db[n] \in Store
      /\ pendingBlocks \in [Node -> SUBSET (HashID \X Block)]
      /\ resolving \in [Node -> [blocks : SUBSET Block, via : Node]]
      /\ <<>> \in Seq(Honest(db, n)) /\ x \in HashID
  BY DEF SyncInv, TypeOK, Objects, HashID
<1>1. CASE /\ r.code = "NONE" /\ x \notin db[n].objects
           /\ db' = [db EXCEPT ![n] = CommitObject(db[n], x)]
           /\ chan' = Sent(c, n, IF Gossip(db[n], x) THEN <<MsgOf("ihaveobject", x)>>
                                 ELSE <<>>, m, <<>>)
           /\ pendingBlocks' = [pendingBlocks EXCEPT ![n] = Cleared(n, x)]
           /\ resolving' = [resolving EXCEPT ![n] =
                              [blocks |-> rest \cup Waiting(n, x), via |-> m]]
  <2>1. /\ StoreOK(CommitObject(db[n], x))
        /\ CommitObject(db[n], x).objects = db[n].objects \cup {x}
    BY <1>0, <1>1, CommitOK
  <2>2. db' \in [Node -> Store] /\ \A k \in Node : StoreOK(db'[k])
    BY <1>0, <1>1, <2>1 DEF SyncInv, StoreOK
  <2>3. /\ x \in db'[n].objects
        /\ \A k \in Node : db[k].objects \subseteq db'[k].objects
    BY <1>0, <1>1, <2>1
  <2>4. Carries(c, db')
    BY <2>3, CarriesGrows
  <2>5. MsgOf("ihaveobject", x) \in Honest(db', n)
    BY <1>0, <2>3, MsgType DEF Honest
  <2>6. <<MsgOf("ihaveobject", x)>> \in Seq(Honest(db', n)) /\ <<>> \in Seq(Honest(db', n))
    BY <2>5
  <2>7. (IF Gossip(db[n], x) THEN <<MsgOf("ihaveobject", x)>> ELSE <<>>) \in Seq(Honest(db', n))
    BY <2>6
  <2>8. Carries(chan', db') /\ \A s \in Stream \ open : chan'[s] = <<>>
    BY <1>1, <2>4, <2>6, <2>7, SendStep
  <2>9. Cleared(n, x) \in SUBSET (HashID \X Block) /\ Waiting(n, x) \in SUBSET Block
    BY <1>0 DEF Cleared, Waiting
  <2>10. QED
    BY <1>0, <1>1, <2>2, <2>8, <2>9
<1>2. CASE /\ r.code = "UNKNOWN_OBJECT" /\ x \in Block
           /\ pendingBlocks' = [pendingBlocks EXCEPT ![n] = @ \cup {<<r.missing, x>>}]
           /\ chan' = Sent(c, n, <<>>, m, <<MsgOf("getobject", r.missing)>>)
           /\ resolving' = [resolving EXCEPT ![n] = [blocks |-> rest, via |-> m]]
           /\ UNCHANGED db
  <2>1. r.missing \in HashID
    BY <1>0, <1>2, ValidateSync
  <2>2. MsgOf("getobject", r.missing) \in Honest(db, n)
    BY <2>1, MsgType DEF Honest
  <2>3. <<MsgOf("getobject", r.missing)>> \in Seq(Honest(db, n))
    BY <2>2
  <2>4. Carries(chan', db) /\ \A s \in Stream \ open : chan'[s] = <<>>
    BY <1>0, <1>2, <2>3, SendStep
  <2>5. pendingBlocks' \in [Node -> SUBSET (HashID \X Block)]
    BY <1>0, <1>2, <2>1
  <2>6. QED
    BY <1>0, <1>2, <2>4, <2>5 DEF SyncInv
<1>3. CASE /\ chan' = c
           /\ resolving' = [resolving EXCEPT ![n] = [blocks |-> rest, via |-> m]]
           /\ UNCHANGED <<db, pendingBlocks>>
  BY <1>0, <1>3 DEF SyncInv
<1>4. QED
  BY <1>1, <1>2, <1>3 DEF Process, Parks

-----------------------------------------------------------------------------
(* Nothing is in flight at first, and what is stored is closed.            *)
LEMMA SyncInit == Init => SyncInv
<1> SUFFICES ASSUME Init PROVE SyncInv
  OBVIOUS
<1>1. PICK tip \in [Node -> Block \cup {nil}] :
        /\ \A n \in Node : tip[n] # nil => tip[n] \in Seed[n] \cap Block
        /\ db = [n \in Node |->
                   [objects |-> Seed[n], sets |-> Seed[n] \cap Block,
                    chaintip |-> IF tip[n] = nil THEN NoTip
                                 ELSE [id |-> tip[n], height |-> UTXO[tip[n]].height],
                    mempool |-> Pooled[n], mempoolDisk |-> Pooled[n],
                    spent |-> UNION {Ins(x) : x \in Pooled[n]}]]
  BY DEF Init
<1>2. ASSUME NEW n \in Node
      PROVE  StoreOK(db[n])
  <2> DEFINE c == IF tip[n] = nil THEN NoTip ELSE [id |-> tip[n], height |-> UTXO[tip[n]].height]
  <2> DEFINE spent == UNION {Ins(x) : x \in Pooled[n]}
  <2>1. db[n] = [objects |-> Seed[n], sets |-> Seed[n] \cap Block, chaintip |-> c,
                 mempool |-> Pooled[n], mempoolDisk |-> Pooled[n], spent |-> spent]
    BY <1>1
  <2>6. Pooled[n] \in SUBSET Tx /\ Pooled[n] \subseteq Seed[n] /\ spent \in SUBSET Outpoint
    BY SyncAssumption, InsType
  <2>2. c \in Chaintip \cup {NoTip} /\ (c # NoTip => c.id \in Seed[n])
    <3>1. CASE tip[n] = nil
      BY <3>1
    <3>2. CASE tip[n] # nil
      <4>1. tip[n] \in Block /\ tip[n] \in Seed[n]
        BY <1>1, <3>2
      <4>2. UTXO[tip[n]].height \in Nat
        BY <4>1, UTXOAssumption DEF UTXOSet
      <4>3. QED
        BY <3>2, <4>1, <4>2 DEF Chaintip
    <3>3. QED
      BY <3>1, <3>2
  <2> HIDE DEF c
  <2>3. Seed[n] \subseteq Objects /\ \A b \in Seed[n] \cap Block : Served(b, Seed[n])
    BY SyncAssumption DEF Deps, Served
  <2> HIDE DEF spent
  <2>4. db[n] \in Store
    BY <2>1, <2>2, <2>3, <2>6 DEF Store
  <2>5. QED
    BY <2>1, <2>2, <2>3, <2>4, <2>6 DEF StoreOK
<1>3. db \in [Node -> Store]
  BY <1>1, <1>2 DEF StoreOK
<1>4. chan = [s \in Stream |-> <<>>]
  BY DEF Init
<1>5. Carries(chan, db) /\ chan \in [Stream -> Seq(Message)]
  BY <1>4 DEF Carries
<1>6. TypeOK
  <2>1. /\ pendingBlocks \in [Node -> SUBSET (HashID \X Block)]
        /\ resolving \in [Node -> [blocks : SUBSET Block, via : Node]]
        /\ chaintipsReceived \in [Node -> 0 .. EnoughTips + 1]
    BY SyncAssumption DEF Init
  <2>2. /\ sentChainTip \subseteq Stream /\ isSynced \subseteq Node /\ timeout \subseteq Node
        /\ open \subseteq Stream /\ \A s \in open : Rev(s) \in open
        /\ \A s \in Stream \ open : chan[s] = <<>>
        /\ made \subseteq Objects /\ torn \subseteq Node /\ faults \in 0 .. MaxFaults
    BY <1>4, SyncAssumption DEF Init
  <2>3. QED
    BY <1>3, <1>5, <2>1, <2>2 DEF TypeOK
<1>7. QED
  BY <1>2, <1>5, <1>6 DEF SyncInv

-----------------------------------------------------------------------------
(* A step that leaves the stores alone and answers a message.              *)
LEMMA Answered ==
  ASSUME SyncInv, NEW n, NEW m, NEW type, Receives(n, m, type),
         NEW answers \in Seq(Honest(db, n)), Answer(n, m, answers),
         sentChainTip' \subseteq Stream, chaintipsReceived' \in [Node -> 0 .. EnoughTips + 1],
         UNCHANGED <<node, isSynced, timeout, open, made, torn, faults>>
  PROVE  SyncInv'
<1>1. Carries(chan', db) /\ \A s \in Stream \ open : chan'[s] = <<>>
  BY AnswerStep
<1>2. db' = db /\ open' = open
  BY DEF node
<1>3. Carries(chan, db)'
  BY <1>1, <1>2 DEF Carries
<1>4. TypeOK'
  BY <1>1, <1>2 DEF SyncInv, TypeOK, node, Carries
<1>5. (\A k \in Node : StoreOK(db[k]))'
  BY <1>2 DEF SyncInv
<1>6. QED
  BY <1>3, <1>4, <1>5 DEF SyncInv

(* A step in which only what is in flight, and who is synchronised,        *)
(* changes.                                                                *)
LEMMA Flown ==
  ASSUME SyncInv, Carries(chan', db), \A s \in Stream \ open' : chan'[s] = <<>>,
         open' \subseteq Stream, \A s \in open' : Rev(s) \in open',
         sentChainTip' \subseteq Stream, isSynced' \subseteq Node, timeout' \subseteq Node,
         faults' \in 0 .. MaxFaults, UNCHANGED <<node, chaintipsReceived, made, torn>>
  PROVE  SyncInv'
<1>1. db' = db /\ pendingBlocks' = pendingBlocks /\ resolving' = resolving
  BY DEF node
<1>2. Carries(chan, db)'
  BY <1>1 DEF Carries
<1>3. chan' \in [Stream -> Seq(Message)]
  BY DEF Carries
<1>4. TypeOK'
  BY <1>1, <1>3 DEF SyncInv, TypeOK
<1>5. (\A k \in Node : StoreOK(db[k]))'
  BY <1>1 DEF SyncInv
<1>6. QED
  BY <1>2, <1>4, <1>5 DEF SyncInv

(* A step in which n stores what it has made, and may broadcast it.        *)
LEMMA Broadcast ==
  ASSUME SyncInv, NEW n \in Node, NEW e, StoreOK(e), db' = [db EXCEPT ![n] = e],
         db[n].objects \subseteq e.objects, NEW x \in HashID, x \in e.objects,
         chan' \in {chan, Sent(chan, n, <<MsgOf("object", x)>>, n, <<>>)},
         made' \subseteq Objects, UNCHANGED <<pendingBlocks, resolving, sync, open, torn, faults>>
  PROVE  SyncInv'
<1>1. db \in [Node -> Store] /\ Carries(chan, db) /\ \A s \in Stream \ open : chan[s] = <<>>
  BY DEF SyncInv, TypeOK
<1>2. db' \in [Node -> Store] /\ \A k \in Node : StoreOK(db'[k])
  BY <1>1 DEF SyncInv, StoreOK
<1>0. db'[n] = e /\ \A k \in Node : db[k].objects \subseteq db'[k].objects
  BY <1>1
<1>3. PICK D : D = db' /\ D[n] = e /\ \A k \in Node : db[k].objects \subseteq D[k].objects
  BY <1>0
<1>4. Carries(chan, D)
  BY <1>1, <1>3, CarriesGrows
<1>5. MsgOf("object", x) \in Honest(D, n)
  BY <1>3, MsgType DEF Honest
<1>6. <<MsgOf("object", x)>> \in Seq(Honest(D, n)) /\ <<>> \in Seq(Honest(D, n))
  BY <1>5
<1>7. Carries(chan', D) /\ \A s \in Stream \ open : chan'[s] = <<>>
  <2>1. CASE chan' = chan
    BY <1>1, <1>4, <2>1
  <2>2. CASE chan' = Sent(chan, n, <<MsgOf("object", x)>>, n, <<>>)
    BY <1>1, <1>4, <1>6, <2>2, SendStep
  <2>3. QED
    BY <2>1, <2>2
<1>8. Carries(chan, db)'
  BY <1>3, <1>7 DEF Carries
<1>9. TypeOK'
  BY <1>2, <1>7 DEF SyncInv, TypeOK, sync, Carries
<1>10. QED
  BY <1>2, <1>8, <1>9 DEF SyncInv

-----------------------------------------------------------------------------
(* What a message that n handles may say, and where it came from.          *)
LEMMA MessageOK ==
  ASSUME SyncInv, NEW n, NEW m, NEW type, Receives(n, m, type)
  PROVE  /\ <<m, n>> \in Stream /\ n \in Node /\ m \in Node
         /\ Received(n, m) \in Honest(db, m) /\ Received(n, m).type = type
         /\ Carries(Took(n, m), db)
         /\ \A s \in Stream \ open : Took(n, m)[s] = <<>>
<1>1. <<m, n>> \in Stream /\ <<m, n>> \in open /\ chan[<<m, n>>] # <<>>
  BY DEF Receives, SyncInv, TypeOK
<1>2. Received(n, m).type = type
  BY DEF Receives, Received
<1>3. n \in Node /\ m \in Node
  BY <1>1, SyncAssumption
<1>4. \A s \in Stream \ open : chan[s] = <<>>
  BY DEF SyncInv, TypeOK
<1>5. /\ Carries(Took(n, m), db) /\ Received(n, m) \in Honest(db, m)
      /\ \A s \in Stream \ {<<m, n>>} : Took(n, m)[s] = chan[s]
  BY <1>1, TookCarries DEF SyncInv
<1>6. QED
  BY <1>1, <1>2, <1>3, <1>4, <1>5

(* A request, if the id is one.                                            *)
LEMMA AskHonest ==
  ASSUME NEW id \in HashID, NEW D, NEW n, NEW asked \in BOOLEAN
  PROVE  (IF asked THEN <<>> ELSE <<MsgOf("getobject", id)>>) \in Seq(Honest(D, n))
<1>1. MsgOf("getobject", id) \in Honest(D, n)
  BY MsgType DEF Honest
<1>2. <<MsgOf("getobject", id)>> \in Seq(Honest(D, n)) /\ <<>> \in Seq(Honest(D, n))
  BY <1>1
<1>3. QED
  BY <1>2

(* A step that processes an object.                                        *)
LEMMA Processed ==
  ASSUME SyncInv, db' \in [Node -> Store], \A k \in Node : StoreOK(db'[k]),
         Carries(chan', db'), \A s \in Stream \ open : chan'[s] = <<>>,
         pendingBlocks' \in [Node -> SUBSET (HashID \X Block)],
         resolving' \in [Node -> [blocks : SUBSET Block, via : Node]],
         UNCHANGED <<sync, open, made, torn, faults>>
  PROVE  SyncInv'
<1>1. Carries(chan, db)'
  BY DEF Carries
<1>2. TypeOK'
  BY DEF SyncInv, TypeOK, sync, Carries
<1>3. QED
  BY <1>1, <1>2 DEF SyncInv

(* Each handler keeps the invariant.                                       *)
LEMMA HandleStep ==
  ASSUME SyncInv, NEW n, NEW m, HandleMessage(n, m)
  PROVE  SyncInv'
<1>0. /\ sentChainTip \subseteq Stream /\ chaintipsReceived \in [Node -> 0 .. EnoughTips + 1]
      /\ db \in [Node -> Store] /\ \A k \in Node : StoreOK(db[k])
  BY DEF SyncInv, TypeOK
<1>1. CASE HandleGetChainTip(n, m)
  <2> DEFINE a == IF db[n].chaintip = NoTip THEN <<>> ELSE <<MsgOf("chaintip", db[n].chaintip.id)>>
  <2>1. Receives(n, m, "getchaintip") /\ Answer(n, m, a)
    BY <1>1 DEF HandleGetChainTip
  <2>2. n \in Node
    BY <2>1, MessageOK
  <2>3. a \in Seq(Honest(db, n))
    <3>1. CASE db[n].chaintip = NoTip
      BY <3>1
    <3>2. CASE db[n].chaintip # NoTip
      <4>1. db[n].chaintip.id \in db[n].objects /\ db[n].chaintip.id \in HashID
        BY <1>0, <2>2, <3>2 DEF StoreOK, Store, Chaintip, HashID
      <4>2. MsgOf("chaintip", db[n].chaintip.id) \in Honest(db, n)
        BY <4>1, MsgType DEF Honest
      <4>3. QED
        BY <3>2, <4>2
    <3>3. QED
      BY <3>1, <3>2
  <2> HIDE DEF a
  <2>4. QED
    BY <1>0, <1>1, <2>1, <2>3, Answered DEF HandleGetChainTip, sync
<1>2. CASE HandleChainTip(n, m)
  <2> DEFINE a == IF Received(n, m).id \in db[n].objects THEN <<>>
                  ELSE <<MsgOf("getobject", Received(n, m).id)>>
  <2>1. Receives(n, m, "chaintip") /\ Answer(n, m, a)
    BY <1>2 DEF HandleChainTip
  <2>2. n \in Node /\ m \in Node /\ Received(n, m).id \in HashID
    <3>1. /\ n \in Node /\ m \in Node
          /\ Received(n, m) \in Honest(db, m) /\ Received(n, m).type \in {"chaintip", "ihaveobject", "getobject"}
      BY <2>1, MessageOK
    <3>2. Received(n, m) \in Message
      BY <3>1 DEF Honest
    <3>3. QED
      BY <3>1, <3>2, MsgFields
  <2>3. a \in Seq(Honest(db, n))
    BY <2>2, AskHonest
  <2> HIDE DEF a
  <2>4. sentChainTip' \subseteq Stream
    <3>1. <<m, n>> \in Stream
      BY <2>1, MessageOK
    <3>2. <<n, m>> \in Stream
      BY <3>1, SyncAssumption
    <3>3. QED
      BY <1>0, <1>2, <3>2 DEF HandleChainTip
  <2>5. chaintipsReceived' \in [Node -> 0 .. EnoughTips + 1]
    <3> DEFINE k == Min({chaintipsReceived[n] + 1, EnoughTips + 1})
    <3>1. chaintipsReceived[n] + 1 \in Nat /\ EnoughTips + 1 \in Nat
      BY <1>0, <2>2, SyncAssumption
    <3>2. k \in {chaintipsReceived[n] + 1, EnoughTips + 1} /\ k <= EnoughTips + 1
      <4>1. \E x \in {chaintipsReceived[n] + 1, EnoughTips + 1} :
              \A y \in {chaintipsReceived[n] + 1, EnoughTips + 1} : x <= y
        BY <3>1
      <4>2. QED
        BY <4>1 DEF Min
    <3>3. k \in 0 .. EnoughTips + 1
      BY <3>1, <3>2
    <3>4. \/ chaintipsReceived' = chaintipsReceived
          \/ chaintipsReceived' = [chaintipsReceived EXCEPT ![n] = k]
      BY <1>2 DEF HandleChainTip
    <3> HIDE DEF k
    <3>5. QED
      BY <1>0, <3>3, <3>4
  <2>6. UNCHANGED <<node, isSynced, timeout, open, made, torn, faults>>
    BY <1>2 DEF HandleChainTip
  <2>7. QED
    BY <2>1, <2>3, <2>4, <2>5, <2>6, Answered
<1>3. CASE HandleIHaveObject(n, m)
  <2> DEFINE a == IF Received(n, m).id \in db[n].objects THEN <<>>
                  ELSE <<MsgOf("getobject", Received(n, m).id)>>
  <2>1. Receives(n, m, "ihaveobject") /\ Answer(n, m, a)
    BY <1>3 DEF HandleIHaveObject
  <2>2. n \in Node /\ m \in Node /\ Received(n, m).id \in HashID
    <3>1. /\ n \in Node /\ m \in Node
          /\ Received(n, m) \in Honest(db, m) /\ Received(n, m).type \in {"chaintip", "ihaveobject", "getobject"}
      BY <2>1, MessageOK
    <3>2. Received(n, m) \in Message
      BY <3>1 DEF Honest
    <3>3. QED
      BY <3>1, <3>2, MsgFields
  <2>3. a \in Seq(Honest(db, n))
    BY <2>2, AskHonest
  <2> HIDE DEF a
  <2>4. QED
    BY <1>0, <1>3, <2>1, <2>3, Answered DEF HandleIHaveObject, sync
<1>4. CASE HandleGetObject(n, m)
  <2> DEFINE id == Received(n, m).id
             a == IF id \in db[n].objects /\ Readable(id)
                  THEN <<MsgOf("object", id)>> ELSE <<>>
  <2>1. Receives(n, m, "getobject") /\ Answer(n, m, a)
    BY <1>4 DEF HandleGetObject
  <2>2. n \in Node /\ m \in Node /\ id \in HashID
    <3>1. /\ n \in Node /\ m \in Node
          /\ Received(n, m) \in Honest(db, m) /\ Received(n, m).type \in {"chaintip", "ihaveobject", "getobject"}
      BY <2>1, MessageOK
    <3>2. Received(n, m) \in Message
      BY <3>1 DEF Honest
    <3>3. QED
      BY <3>1, <3>2, MsgFields
  <2> HIDE DEF id
  <2>3. a \in Seq(Honest(db, n))
    <3>1. CASE id \in db[n].objects
      <4>1. MsgOf("object", id) \in Honest(db, n)
        BY <2>2, <3>1, MsgType DEF Honest
      <4>2. <<MsgOf("object", id)>> \in Seq(Honest(db, n)) /\ <<>> \in Seq(Honest(db, n))
        BY <4>1
      <4>3. QED
        BY <4>2
    <3>2. CASE id \notin db[n].objects
      BY <3>2
    <3>3. QED
      BY <3>1, <3>2
  <2> HIDE DEF a
  <2>4. QED
    BY <1>0, <1>4, <2>1, <2>3, Answered DEF HandleGetObject, sync
<1>5. CASE HandleObject(n, m)
  <2> DEFINE x == Received(n, m).id
  <2>1. Receives(n, m, "object") /\ Process(n, m, x, Took(n, m), {})
    BY <1>5 DEF HandleObject
  <2>2. /\ n \in Node /\ m \in Node /\ Received(n, m) \in Honest(db, m)
        /\ Received(n, m).type = "object" /\ Carries(Took(n, m), db)
        /\ \A s \in Stream \ open : Took(n, m)[s] = <<>>
    BY <2>1, MessageOK
  <2>3. x \in db[m].objects
    BY <2>2, MsgFields DEF Honest
  <2>4. x \in Objects
    BY <1>0, <2>2, <2>3 DEF Store
  <2> HIDE DEF x
  <2>5. /\ db' \in [Node -> Store] /\ \A k \in Node : StoreOK(db'[k])
        /\ Carries(chan', db') /\ \A s \in Stream \ open : chan'[s] = <<>>
        /\ pendingBlocks' \in [Node -> SUBSET (HashID \X Block)]
        /\ resolving' \in [Node -> [blocks : SUBSET Block, via : Node]]
    BY <2>1, <2>2, <2>4, ProcessStep
  <2>6. UNCHANGED <<sync, open, made, torn, faults>>
    BY <1>5 DEF HandleObject
  <2>7. QED
    BY <2>5, <2>6, Processed
<1>6. CASE HandleGetMempool(n, m)
  <2> DEFINE msg == [type |-> "mempool", txids |-> db[n].mempool]
  <2>1. Receives(n, m, "getmempool") /\ Answer(n, m, <<msg>>)
    BY <1>6 DEF HandleGetMempool
  <2>2. n \in Node
    BY <2>1, MessageOK
  <2>3. db[n].mempool \in SUBSET Tx /\ db[n].mempool \subseteq db[n].objects
    BY <1>0, <2>2 DEF StoreOK, Store
  <2>4. msg \in Honest(db, n)
    BY <2>3, MsgType DEF Honest
  <2> HIDE DEF msg
  <2>5. <<msg>> \in Seq(Honest(db, n))
    BY <2>4
  <2>6. QED
    BY <1>0, <1>6, <2>1, <2>5, Answered DEF HandleGetMempool, sync
<1>7. CASE HandleMempool(n, m)
  <2> DEFINE missing == Received(n, m).txids \ db[n].objects
             a == [i \in DOMAIN SetToSeq(missing) |-> MsgOf("getobject", SetToSeq(missing)[i])]
  <2>1. Receives(n, m, "mempool") /\ Answer(n, m, a)
    BY <1>7 DEF HandleMempool
  <2>2. missing \in SUBSET HashID
    <3>1. Received(n, m) \in Message /\ Received(n, m).type = "mempool"
      BY <2>1, MessageOK DEF Honest
    <3>2. Received(n, m).txids \in SUBSET Tx
      BY <3>1, MsgFields
    <3>3. QED
      BY <3>2 DEF HashID
  <2>3. a \in Seq(Honest(db, n))
    <3> HIDE DEF missing
    <3>1. QED
      BY <2>2, RequestsType
  <2> HIDE DEF a, missing
  <2>4. QED
    BY <1>0, <1>7, <2>1, <2>3, Answered DEF HandleMempool, sync
<1>8. QED
  BY <1>1, <1>2, <1>3, <1>4, <1>5, <1>6, <1>7 DEF HandleMessage

-----------------------------------------------------------------------------
(* A stream is given other honest messages.                                *)
LEMMA RewrittenOnce ==
  ASSUME NEW c, NEW D, Carries(c, D), NEW s \in Stream, NEW q \in Seq(Honest(D, s[1]))
  PROVE  Carries([c EXCEPT ![s] = q], D)
<1> DEFINE f == [c EXCEPT ![s] = q]
<1>1. c \in [Stream -> Seq(Message)] /\ \A r \in Stream : c[r] \in Seq(Honest(D, r[1]))
  BY DEF Carries
<1>2. q \in Seq(Message)
  <2>1. Honest(D, s[1]) \subseteq Message
    BY DEF Honest
  <2>2. QED
    BY <2>1
<1>3. f \in [Stream -> Seq(Message)]
  BY <1>1, <1>2
<1>4. \A r \in Stream : f[r] \in Seq(Honest(D, r[1]))
  BY <1>1
<1>5. QED
  BY <1>3, <1>4 DEF Carries

(* The two streams of a connection are given the same messages.            *)
LEMMA Rewritten ==
  ASSUME NEW c, NEW D, Carries(c, D), NEW s \in Stream, NEW r \in Stream,
         NEW q, \A k : q \in Seq(Honest(D, k))
  PROVE  Carries([c EXCEPT ![s] = q, ![r] = q], D)
<1> DEFINE f == [c EXCEPT ![s] = q]
<1>1. Carries(f, D)
  BY RewrittenOnce
<1>2. [c EXCEPT ![s] = q, ![r] = q] = [f EXCEPT ![r] = q]
  OBVIOUS
<1> HIDE DEF f
<1>3. QED
  BY <1>1, <1>2, RewrittenOnce

(* A connection that is made or broken, and the tickers.                   *)
LEMMA StreamStep ==
  ASSUME SyncInv, NEW s \in Stream,
         \/ Connect(s) \/ Drop(s) \/ GossipTick(s[1], s[2])
         \/ FetchMissingDependencies(s[1], s[2])
  PROVE  SyncInv'
<1>0. /\ Carries(chan, db) /\ chan \in [Stream -> Seq(Message)]
      /\ open \subseteq Stream /\ \A r \in open : Rev(r) \in open
      /\ sentChainTip \subseteq Stream /\ isSynced \subseteq Node /\ timeout \subseteq Node
      /\ faults \in 0 .. MaxFaults /\ \A r \in Stream \ open : chan[r] = <<>>
      /\ pendingBlocks \in [Node -> SUBSET (HashID \X Block)]
  BY DEF SyncInv, TypeOK
<1>1. /\ Rev(s) \in Stream /\ Rev(Rev(s)) = s /\ s = <<s[1], s[2]>>
      /\ s[1] \in Node /\ s[2] \in Node
  BY SyncAssumption DEF Rev
<1>2. \A r : Rev(r) \in {s, Rev(s)} /\ r \in Stream => r \in {s, Rev(s)}
  BY <1>1, SyncAssumption DEF Rev
<1>3. \A n : <<Msg("getchaintip")>> \in Seq(Honest(db, n)) /\ <<>> \in Seq(Honest(db, n))
  <2>1. \A n : Msg("getchaintip") \in Honest(db, n)
    BY MsgType DEF Honest
  <2>2. QED
    BY <2>1
<1>4. CASE Connect(s)
  <2>1. /\ open' = open \cup {s, Rev(s)} /\ sentChainTip' = sentChainTip \ {s, Rev(s)}
        /\ chan' = [chan EXCEPT ![s] = <<Msg("getchaintip")>>, ![Rev(s)] = <<Msg("getchaintip")>>]
        /\ UNCHANGED <<node, chaintipsReceived, isSynced, timeout, made, torn, faults>>
    BY <1>4 DEF Connect
  <2>2. Carries(chan', db)
    BY <1>0, <1>1, <1>3, <2>1, Rewritten
  <2>3. /\ open' \subseteq Stream /\ \A r \in open' : Rev(r) \in open'
        /\ \A r \in Stream \ open' : chan'[r] = <<>>
    BY <1>0, <1>1, <2>1
  <2>4. QED
    BY <1>0, <2>1, <2>2, <2>3, Flown
<1>5. CASE Drop(s)
  <2>1. /\ open' = open \ {s, Rev(s)} /\ chan' = [chan EXCEPT ![s] = <<>>, ![Rev(s)] = <<>>]
        /\ faults < MaxFaults /\ faults' = faults + 1
        /\ UNCHANGED <<node, sync, made, torn>>
    BY <1>5 DEF Drop
  <2>2. Carries(chan', db)
    BY <1>0, <1>1, <1>3, <2>1, Rewritten
  <2>3. /\ open' \subseteq Stream /\ \A r \in open' : Rev(r) \in open'
        /\ \A r \in Stream \ open' : chan'[r] = <<>>
    BY <1>0, <1>1, <1>2, <2>1
  <2>4. faults' \in 0 .. MaxFaults
    BY <1>0, <2>1, SyncAssumption
  <2>5. QED
    BY <1>0, <2>1, <2>2, <2>3, <2>4, Flown DEF sync
<1>6. CASE GossipTick(s[1], s[2])
  <2>1. /\ s \in open /\ chan' = [chan EXCEPT ![s] = <<Msg("getchaintip")>>]
        /\ UNCHANGED <<node, sync, open, made, torn, faults>>
    BY <1>1, <1>6 DEF GossipTick
  <2>2. Carries(chan', db)
    BY <1>0, <1>3, <2>1, RewrittenOnce
  <2>3. \A r \in Stream \ open : chan'[r] = <<>>
    BY <1>0, <2>1
  <2>4. QED
    BY <1>0, <2>1, <2>2, <2>3, Flown DEF sync
<1>7. CASE FetchMissingDependencies(s[1], s[2])
  <2> DEFINE ids == {p[1] : p \in pendingBlocks[s[1]]}
             asked == [i \in DOMAIN SetToSeq(ids) |-> MsgOf("getobject", SetToSeq(ids)[i])]
  <2>1. /\ s \in open /\ chan' = [chan EXCEPT ![s] = chan[s] \o asked]
        /\ UNCHANGED <<node, sync, open, made, torn, faults>>
    BY <1>1, <1>7 DEF FetchMissingDependencies
  <2>2. ids \in SUBSET HashID
    BY <1>0, <1>1
  <2>3. asked \in Seq(Honest(db, s[1]))
    <3> HIDE DEF ids
    <3>1. QED
      BY <2>2, RequestsType
  <2> HIDE DEF asked
  <2>4. chan[s] \o asked \in Seq(Honest(db, s[1]))
    BY <1>0, <2>3 DEF Carries
  <2>5. Carries(chan', db)
    BY <1>0, <2>1, <2>4, RewrittenOnce
  <2>6. \A r \in Stream \ open : chan'[r] = <<>>
    BY <1>0, <2>1
  <2>7. QED
    BY <1>0, <2>1, <2>5, <2>6, Flown DEF sync
<1>8. QED
  BY <1>4, <1>5, <1>6, <1>7

(* SyncNodeState returns, or its timer fires.                              *)
LEMMA SyncedStep ==
  ASSUME SyncInv, NEW n \in Node, SyncTick(n) \/ SyncTimeout(n)
  PROVE  SyncInv'
<1>0. /\ Carries(chan, db) /\ \A r \in Stream \ open : chan[r] = <<>>
      /\ open \subseteq Stream /\ \A r \in open : Rev(r) \in open
      /\ sentChainTip \subseteq Stream /\ isSynced \subseteq Node /\ timeout \subseteq Node
      /\ faults \in 0 .. MaxFaults
  BY DEF SyncInv, TypeOK
<1>1. /\ UNCHANGED <<node, sentChainTip, chaintipsReceived, open, made, torn, faults>>
      /\ timeout' \subseteq Node /\ (Synced(n) \/ UNCHANGED <<isSynced, chan>>)
  BY <1>0 DEF SyncTick, SyncTimeout
<1>2. CASE Synced(n)
  <2>1. /\ isSynced' \subseteq Node
        /\ chan' = Sent(chan, n, <<Msg("getmempool")>>, n, <<>>)
    BY <1>0, <1>2 DEF Synced
  <2>2. Msg("getmempool") \in Honest(db, n)
    BY MsgType DEF Honest
  <2>3. <<Msg("getmempool")>> \in Seq(Honest(db, n)) /\ <<>> \in Seq(Honest(db, n))
    BY <2>2
  <2>4. Carries(chan', db) /\ \A r \in Stream \ open : chan'[r] = <<>>
    BY <1>0, <2>1, <2>3, SendStep
  <2>5. QED
    BY <1>0, <1>1, <2>1, <2>4, Flown
<1>3. CASE UNCHANGED <<isSynced, chan>>
  <2>1. chan' = chan /\ isSynced' = isSynced
    BY <1>3
  <2>2. QED
    BY <1>0, <1>1, <2>1, Flown
<1>4. QED
  BY <1>1, <1>2, <1>3

(* A block is mined and stored with its coinbase, or a payment made.       *)
LEMMA MineStep ==
  ASSUME SyncInv, NEW n \in Node, NEW x, (x \in Block /\ Mine(n, x)) \/ (x \in Tx /\ SendPicabus(n, x))
  PROVE  SyncInv'
<1>0. /\ db \in [Node -> Store] /\ StoreOK(db[n]) /\ db[n] \in Store
      /\ made \subseteq Objects
  BY DEF SyncInv, TypeOK
<1>1. CASE x \in Block /\ Mine(n, x)
  <2> DEFINE cb == Head(Txids[x])
             d == WithCoinbase(n, x)
             e == CommitObject(d, x)
             sent == Sent(chan, n, <<MsgOf("object", x)>>, n, <<>>)
  <2>1. /\ cb \in Coinbase /\ made' = made \cup {x, cb}
        /\ \/ Validate(d, x).code = "NONE" /\ db' = [db EXCEPT ![n] = e] /\ chan' = sent
           \/ db' = [db EXCEPT ![n] = d] /\ chan' = chan
        /\ UNCHANGED <<pendingBlocks, resolving, sync, open, torn, faults>>
    BY <1>1 DEF Mine, Found, Mined
  <2>2. cb \in Objects /\ cb \notin Block /\ cb \in HashID /\ x \in Objects /\ x \in HashID
    BY <1>1, <2>1, IdsDisjoint DEF Objects, HashID
  <2>3. StoreOK(d) /\ d.objects = db[n].objects \cup {cb}
    <3>1. d = [db[n] EXCEPT !.objects = @ \cup {cb}]
      BY DEF WithCoinbase
    <3> HIDE DEF cb, d
    <3>2. QED
      BY <1>0, <2>1, <3>1, GainOK
  <2> HIDE DEF cb, d
  <2>4. made' \subseteq Objects
    BY <1>0, <2>1, <2>2
  <2>5. CASE Validate(d, x).code = "NONE" /\ db' = [db EXCEPT ![n] = e] /\ chan' = sent
    <3>1. StoreOK(e) /\ e.objects = d.objects \cup {x}
      BY <2>2, <2>3, <2>5, CommitOK
    <3> HIDE DEF e
    <3>2. db[n].objects \subseteq e.objects /\ x \in e.objects
      BY <2>3, <3>1
    <3>3. QED
      BY <2>1, <2>2, <2>4, <2>5, <3>1, <3>2, Broadcast
  <2>6. CASE db' = [db EXCEPT ![n] = d] /\ chan' = chan
    <3>1. db[n].objects \subseteq d.objects /\ cb \in d.objects
      BY <2>3
    <3>2. QED
      BY <2>1, <2>2, <2>3, <2>4, <2>6, <3>1, Broadcast
  <2>7. QED
    BY <2>1, <2>5, <2>6
<1>2. CASE x \in Tx /\ SendPicabus(n, x)
  <2> DEFINE e == CommitObject(db[n], x)
  <2>1. /\ Validate(db[n], x).code = "NONE" /\ db' = [db EXCEPT ![n] = e]
        /\ made' = made \cup {x} /\ chan' = Sent(chan, n, <<MsgOf("object", x)>>, n, <<>>)
        /\ UNCHANGED <<pendingBlocks, resolving, sync, open, torn, faults>>
    BY <1>2 DEF SendPicabus
  <2>2. x \in Objects /\ x \in HashID
    BY <1>2 DEF Objects, HashID
  <2>3. StoreOK(e) /\ e.objects = db[n].objects \cup {x}
    BY <1>0, <2>1, <2>2, CommitOK
  <2> HIDE DEF e
  <2>4. made' \subseteq Objects /\ db[n].objects \subseteq e.objects /\ x \in e.objects
    BY <1>0, <2>1, <2>2, <2>3
  <2>5. QED
    BY <2>1, <2>2, <2>3, <2>4, Broadcast
<1>3. QED
  BY <1>1, <1>2

(* A store comes back from a restart with part of its mempool.             *)
LEMMA SweptOK ==
  ASSUME NEW d, StoreOK(d),
         NEW kept \in Sweeps({x \in d.mempoolDisk : IsInputInUTXO(d, x)}, d.objects)
  PROVE  StoreOK(Started(d, kept)) /\ Started(d, kept).objects = d.objects
<1> DEFINE saved == kept \cup {x \in d.mempoolDisk : ~ Readable(x)}
           spent == UNION {Ins(x) : x \in kept}
           e1 == [d EXCEPT !.mempool = kept]
           e2 == [e1 EXCEPT !.mempoolDisk = saved]
           e == [e2 EXCEPT !.spent = spent]
<1>1. /\ d \in Store /\ d.mempool \cup d.mempoolDisk \subseteq d.objects
      /\ d.chaintip # NoTip => d.chaintip.id \in d.objects
      /\ \A b \in d.objects \cap Block : Served(b, d.objects)
  BY DEF StoreOK
<1>2. /\ d = [objects |-> d.objects, sets |-> d.sets, chaintip |-> d.chaintip,
              mempool |-> d.mempool, mempoolDisk |-> d.mempoolDisk, spent |-> d.spent]
      /\ d.objects \subseteq Objects /\ d.sets \in SUBSET Block /\ d.chaintip \in Chaintip \cup {NoTip}
      /\ d.mempool \in SUBSET Tx /\ d.mempoolDisk \in SUBSET Tx /\ d.spent \in SUBSET Outpoint
  BY <1>1 DEF Store
<1>3. kept \subseteq d.mempoolDisk
  BY DEF Sweeps
<1>4. saved \in SUBSET Tx /\ saved \subseteq d.objects /\ kept \in SUBSET Tx /\ kept \subseteq d.objects
  BY <1>1, <1>2, <1>3
<1>5. spent \in SUBSET Outpoint
  BY <1>4, InsType
<1>6. Started(d, kept) = e
  BY DEF Started
<1> HIDE DEF saved, spent
<1>7. e = [objects |-> d.objects, sets |-> d.sets, chaintip |-> d.chaintip, mempool |-> kept,
           mempoolDisk |-> saved, spent |-> spent]
  <2>1. e1 = [objects |-> d.objects, sets |-> d.sets, chaintip |-> d.chaintip, mempool |-> kept,
              mempoolDisk |-> d.mempoolDisk, spent |-> d.spent]
    BY <1>2
  <2> HIDE DEF e1
  <2>2. e2 = [objects |-> d.objects, sets |-> d.sets, chaintip |-> d.chaintip, mempool |-> kept,
              mempoolDisk |-> saved, spent |-> d.spent]
    BY <2>1
  <2> HIDE DEF e2
  <2>3. QED
    BY <2>2
<1> HIDE DEF e
<1>8. e.objects = d.objects
  BY <1>7
<1>9. e \in Store
  BY <1>2, <1>4, <1>5, <1>7 DEF Store
<1>10. StoreOK(e)
  BY <1>1, <1>4, <1>7, <1>9 DEF StoreOK
<1>11. QED
  BY <1>6, <1>8, <1>10

(* Whatever a kill leaves is closed, and has all that was stored.          *)
LEMMA LeftOK ==
  ASSUME NEW n, StoreOK(db[n]), NEW d \in Left(n)
  PROVE  StoreOK(d) /\ db[n].objects \subseteq d.objects
<1>1. ASSUME NEW b \in Found(n)
      PROVE  StoreOK(WithCoinbase(n, b)) /\ db[n].objects \subseteq WithCoinbase(n, b).objects
  <2> DEFINE cb == Head(Txids[b])
  <2>1. cb \in Coinbase
    BY DEF Found
  <2>2. WithCoinbase(n, b) = [db[n] EXCEPT !.objects = @ \cup {cb}]
    BY DEF WithCoinbase
  <2> HIDE DEF cb
  <2>3. QED
    BY <2>1, <2>2, GainOK
<1>2. CASE d = db[n]
  BY <1>2
<1>3. ASSUME NEW x \in Storing(n), d \in Cuts(db[n], x)
      PROVE  StoreOK(d) /\ db[n].objects \subseteq d.objects
  <2>1. x \in Objects /\ Validate(db[n], x).code = "NONE"
    BY DEF Storing
  <2>2. QED
    BY <1>3, <2>1, CutsOK
<1>4. ASSUME NEW b \in Found(n), d = WithCoinbase(n, b)
      PROVE  StoreOK(d) /\ db[n].objects \subseteq d.objects
  BY <1>1, <1>4
<1>5. ASSUME NEW b \in Mined(n), d \in Cuts(WithCoinbase(n, b), b)
      PROVE  StoreOK(d) /\ db[n].objects \subseteq d.objects
  <2>1. b \in Objects /\ b \in Found(n) /\ Validate(WithCoinbase(n, b), b).code = "NONE"
    BY DEF Mined, Found, Objects
  <2>2. StoreOK(d) /\ WithCoinbase(n, b).objects \subseteq d.objects
    BY <1>1, <1>5, <2>1, CutsOK
  <2>3. QED
    BY <1>1, <2>1, <2>2
<1>6. \/ d = db[n]
      \/ \E x \in Storing(n) : d \in Cuts(db[n], x)
      \/ \E b \in Found(n) : d = WithCoinbase(n, b)
      \/ \E b \in Mined(n) : d \in Cuts(WithCoinbase(n, b), b)
  BY DEF Left
<1>7. QED
  BY <1>2, <1>3, <1>4, <1>5, <1>6

(* A node is killed and started again.                                     *)
LEMMA RestartStep ==
  ASSUME SyncInv, NEW n \in Node, Restart(n)
  PROVE  SyncInv'
<1> DEFINE own == {s \in Stream : n \in {s[1], s[2]}}
<1>1. PICK d \in Left(n) :
        /\ \E kept \in Sweeps({x \in d.mempoolDisk : IsInputInUTXO(d, x)}, d.objects) :
             db' = [db EXCEPT ![n] = Started(d, kept)]
        /\ made' = made \cup d.objects
        /\ torn' = IF Loses(n, d) THEN torn \cup {n} ELSE torn
  BY DEF Restart
<1>2. /\ faults < MaxFaults /\ faults' = faults + 1
      /\ pendingBlocks' = [pendingBlocks EXCEPT ![n] = {}]
      /\ resolving' = [resolving EXCEPT ![n] = [blocks |-> {}, via |-> n]]
      /\ chaintipsReceived' = [chaintipsReceived EXCEPT ![n] = 0]
      /\ isSynced' = isSynced \ {n} /\ timeout' = timeout \cup {n}
      /\ open' = open \ own
      /\ chan' = [s \in Stream |-> IF s \in own THEN <<>> ELSE chan[s]]
      /\ UNCHANGED sentChainTip
  BY DEF Restart
<1>3. /\ db \in [Node -> Store] /\ Carries(chan, db) /\ \A k \in Node : StoreOK(db[k])
      /\ chan \in [Stream -> Seq(Message)] /\ \A s \in Stream \ open : chan[s] = <<>>
      /\ open \subseteq Stream /\ \A s \in open : Rev(s) \in open
  BY DEF SyncInv, TypeOK
<1>4. StoreOK(d) /\ db[n].objects \subseteq d.objects
  BY <1>1, <1>3, LeftOK
<1>5. PICK kept \in Sweeps({x \in d.mempoolDisk : IsInputInUTXO(d, x)}, d.objects) :
        db' = [db EXCEPT ![n] = Started(d, kept)]
  BY <1>1
<1>6. StoreOK(Started(d, kept)) /\ Started(d, kept).objects = d.objects
  BY <1>4, SweptOK
<1>14. d.objects \subseteq Objects
  BY <1>4 DEF StoreOK, Store
<1>7. /\ db' \in [Node -> Store] /\ \A k \in Node : StoreOK(db'[k])
      /\ \A k \in Node : db[k].objects \subseteq db'[k].objects
  BY <1>3, <1>4, <1>5, <1>6 DEF StoreOK
<1>8. Carries(chan', db)
  <2>1. chan' \in [Stream -> Seq(Message)]
    BY <1>2, <1>3
  <2>2. \A s \in Stream : chan'[s] = <<>> \/ chan'[s] = chan[s]
    BY <1>2
  <2>3. ASSUME NEW s \in Stream
        PROVE  chan'[s] \in Seq(Honest(db, s[1]))
    <3>1. chan[s] \in Seq(Honest(db, s[1]))
      BY <1>3 DEF Carries
    <3>2. <<>> \in Seq(Honest(db, s[1]))
      OBVIOUS
    <3>3. QED
      BY <2>2, <3>1, <3>2
  <2>4. QED
    BY <2>1, <2>3 DEF Carries
<1>9. Carries(chan', db')
  BY <1>7, <1>8, CarriesGrows
<1>10. Carries(chan, db)'
  BY <1>9 DEF Carries
<1>11. /\ open' \subseteq Stream /\ \A s \in open' : Rev(s) \in open'
       /\ \A s \in Stream \ open' : chan'[s] = <<>>
  <2>1. \A s \in Stream : Rev(s) \in own => s \in own
    BY DEF Rev
  <2>2. QED
    BY <1>2, <1>3, <2>1
<1>12. TypeOK'
  <2>1. /\ pendingBlocks' \in [Node -> SUBSET (HashID \X Block)]
        /\ resolving' \in [Node -> [blocks : SUBSET Block, via : Node]]
        /\ chaintipsReceived' \in [Node -> 0 .. EnoughTips + 1]
    <3>1. 0 \in 0 .. EnoughTips + 1
      BY SyncAssumption
    <3>2. /\ pendingBlocks \in [Node -> SUBSET (HashID \X Block)]
          /\ resolving \in [Node -> [blocks : SUBSET Block, via : Node]]
          /\ chaintipsReceived \in [Node -> 0 .. EnoughTips + 1]
      BY DEF SyncInv, TypeOK
    <3>3. pendingBlocks' \in [Node -> SUBSET (HashID \X Block)]
      BY <1>2, <3>2
    <3>4. resolving' \in [Node -> [blocks : SUBSET Block, via : Node]]
      BY <1>2, <3>2
    <3>5. chaintipsReceived' \in [Node -> 0 .. EnoughTips + 1]
      BY <1>2, <3>1, <3>2
    <3>6. QED
      BY <3>3, <3>4, <3>5
  <2>2. /\ sentChainTip' \subseteq Stream /\ isSynced' \subseteq Node /\ timeout' \subseteq Node
        /\ made' \subseteq Objects /\ torn' \subseteq Node /\ faults' \in 0 .. MaxFaults
    BY <1>1, <1>2, <1>14, SyncAssumption DEF SyncInv, TypeOK
  <2>3. chan' \in [Stream -> Seq(Message)]
    BY <1>8 DEF Carries
  <2>4. QED
    BY <1>7, <1>11, <2>1, <2>2, <2>3 DEF TypeOK
<1>13. QED
  BY <1>7, <1>10, <1>12 DEF SyncInv

-----------------------------------------------------------------------------
(* Every step keeps the invariant.                                         *)
LEMMA SyncStep == SyncInv /\ [Next]_vars => SyncInv'
<1> SUFFICES ASSUME SyncInv, [Next]_vars PROVE SyncInv'
  OBVIOUS
<1>1. ASSUME NEW s \in Stream,
             Connect(s) \/ Drop(s) \/ GossipTick(s[1], s[2]) \/ FetchMissingDependencies(s[1], s[2])
      PROVE  SyncInv'
  BY <1>1, StreamStep
<1>2. ASSUME NEW s \in Stream, HandleMessage(s[1], s[2])
      PROVE  SyncInv'
  BY <1>2, HandleStep
<1>3. ASSUME NEW n \in Node, Revalidate(n)
      PROVE  SyncInv'
  <2>1. PICK b \in resolving[n].blocks :
          Process(n, resolving[n].via, b, chan, resolving[n].blocks \ {b})
    BY <1>3 DEF Revalidate
  <2>2. /\ resolving[n].blocks \in SUBSET Block /\ resolving[n].via \in Node
        /\ Carries(chan, db) /\ \A s \in Stream \ open : chan[s] = <<>>
    BY DEF SyncInv, TypeOK
  <2>3. b \in Objects /\ resolving[n].blocks \ {b} \in SUBSET Block
    BY <2>2 DEF Objects
  <2>4. /\ db' \in [Node -> Store] /\ \A k \in Node : StoreOK(db'[k])
        /\ Carries(chan', db') /\ \A s \in Stream \ open : chan'[s] = <<>>
        /\ pendingBlocks' \in [Node -> SUBSET (HashID \X Block)]
        /\ resolving' \in [Node -> [blocks : SUBSET Block, via : Node]]
    BY <2>1, <2>2, <2>3, ProcessStep
  <2>5. UNCHANGED <<sync, open, made, torn, faults>>
    BY <1>3 DEF Revalidate
  <2>6. QED
    BY <2>4, <2>5, Processed
<1>4. ASSUME NEW n \in Node, CleanupPendingBlocks(n)
      PROVE  SyncInv'
  <2>1. pendingBlocks' \in [Node -> SUBSET (HashID \X Block)]
    BY <1>4 DEF CleanupPendingBlocks, SyncInv, TypeOK
  <2>2. UNCHANGED <<db, resolving, sync, net, made, torn, faults>>
    BY <1>4 DEF CleanupPendingBlocks
  <2>3. QED
    BY <2>1, <2>2 DEF SyncInv, TypeOK, sync, net, Carries
<1>5. ASSUME NEW n \in Node, SyncTick(n) \/ SyncTimeout(n)
      PROVE  SyncInv'
  BY <1>5, SyncedStep
<1>6. ASSUME NEW n \in Node, Restart(n)
      PROVE  SyncInv'
  BY <1>6, RestartStep
<1>7. ASSUME NEW n \in Node, NEW b \in Block, Mine(n, b)
      PROVE  SyncInv'
  BY <1>7, MineStep
<1>8. ASSUME NEW n \in Node, NEW t \in Tx, SendPicabus(n, t)
      PROVE  SyncInv'
  BY <1>8, MineStep
<1>9. CASE UNCHANGED vars
  BY <1>9 DEF SyncInv, TypeOK, vars, node, sync, net, Carries
<1>10. QED
  BY <1>1, <1>2, <1>3, <1>4, <1>5, <1>6, <1>7, <1>8, <1>9 DEF Next

(* Every store of the network, and every message in flight, is of its type *)
(* whatever is lost, restarted or mined (TypeOK).                          *)
THEOREM SyncTypes == Spec => []TypeOK
<1>1. SyncInv => TypeOK
  BY DEF SyncInv
<1>2. QED
  BY <1>1, SyncInit, SyncStep, PTL DEF Spec

(* What a node announces, lists or sends it has stored, and it can give    *)
(* out the parent and the transactions of a block, as long as the message  *)
(* is on its way (OfferBacked): acceptObject broadcasts after              *)
(* CommitObject, validation lets no block refer to what getObject refuses, *)
(* and no restart, wherever it cuts a commit off, takes an object away.    *)
THEOREM OffersBacked == Spec => []OfferBacked
<1>1. SyncInv => OfferBacked
  <2> SUFFICES ASSUME SyncInv, NEW s \in Stream, NEW i \in DOMAIN chan[s],
                      NEW x \in Offered(chan[s][i])
               PROVE  /\ x \in db[s[1]].objects
                      /\ x \in Block => \A y \in Ids(x) \cup ({Previd[x]} \ {nil}) :
                                          y \in db[s[1]].objects /\ Readable(y)
    BY DEF OfferBacked
  <2>1. chan[s] \in Seq(Honest(db, s[1])) /\ s[1] \in Node
    BY SyncAssumption DEF SyncInv, Carries
  <2>2. chan[s][i] \in Honest(db, s[1])
    BY <2>1
  <2>3. x \in db[s[1]].objects
    BY <2>2 DEF Honest
  <2>4. QED
    BY <2>1, <2>3 DEF SyncInv, StoreOK, Served, Deps
<1>2. QED
  BY <1>1, SyncInit, SyncStep, PTL DEF Spec
=============================================================================
