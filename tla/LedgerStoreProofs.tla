------------------------- MODULE LedgerStoreProofs --------------------------
(***************************************************************************)
(* Proofs about LedgerStore, for any blocks and transactions there are:    *)
(* the UTXO sets are exact, no chain spends an output twice, and the       *)
(* supply of money is bounded.                                             *)
(*                                                                         *)
(* Nothing is assumed about the references between objects, not even that  *)
(* they have no cycles: what validation has accepted is enough.            *)
(***************************************************************************)
EXTENDS LedgerStore, LedgerProofs

(* What a set of transactions makes and what it spends.                    *)
Made(T) == UNION {Outs(x) : x \in T}
Used(T) == UNION {Ins(x) : x \in T}

(* A block of which every transaction passes its turn of the loop of       *)
(* ValidateBlock, on top of a chain with the transactions T, of which P is *)
(* what is unspent.  That its coinbase is not in T will follow from the    *)
(* heights.                                                                *)
Turns(b) == 1 .. Len(Txids[b])

Passes(b, T, P) ==
  /\ P = Made(T) \ Used(T) /\ Used(T) \subseteq Made(T)
  /\ \A i \in Turns(b) : Txids[b][i] \in Tx =>
       Ins(Txids[b][i]) # {} /\ Ins(Txids[b][i]) \subseteq UnspentAfter(b, i - 1, P)
  /\ \A i \in Turns(b) : Txids[b][i] \notin Tx =>
       Txids[b][i] \in Coinbase /\ i = 1 /\ Txids[b][i] \notin T

(* The i-th transaction of b has been in the chain, or in b, before.       *)
Old(b, T, i) == Txids[b][i] \in T \/ \E j \in 1 .. i - 1 : Txids[b][j] = Txids[b][i]

-----------------------------------------------------------------------------
(* An output tells who made it.                                            *)
LEMMA OutsOf == \A x, o : o \in Outs(x) => o[1] = x
  BY DEF Outs

(* Only transactions have inputs.                                          *)
LEMMA InsOf == \A x, o : o \in Ins(x) => x \in Tx
  BY DEF Ins

(* What is unspent after i transactions comes from below and is spent by   *)
(* none of them, or is made by one and spent by none after that one.       *)
LEMMA UnspentCases ==
  ASSUME NEW b, NEW i, NEW P, NEW o \in UnspentAfter(b, i, P)
  PROVE  \/ o \in P /\ \A j \in 1 .. i : o \notin Ins(Txids[b][j])
         \/ \E m \in 1 .. i : /\ o \in Outs(Txids[b][m])
                              /\ \A j \in 1 .. i : o \in Ins(Txids[b][j]) => j <= m
  BY DEF UnspentAfter

(* An output that a new transaction makes is not spent before.             *)
LEMMA NotBefore ==
  ASSUME NEW b, NEW T, NEW P, Passes(b, T, P), Len(Txids[b]) \in Nat,
         NEW m \in Turns(b), ~ Old(b, T, m), NEW o \in Outs(Txids[b][m])
  PROVE  /\ o \notin Made(T) /\ o \notin Used(T) /\ o \notin P
         /\ \A j \in Turns(b) : o \in Ins(Txids[b][j]) => m < j
<1>1. o \notin Made(T)
  BY OutsOf DEF Made, Old
<1>2. o \notin Used(T) /\ o \notin P
  BY <1>1 DEF Passes
<1>3. ASSUME NEW j \in Turns(b), o \in Ins(Txids[b][j]), ~ (m < j)
      PROVE  FALSE
  <2>1. o \in UnspentAfter(b, j - 1, P)
    BY <1>3, InsOf DEF Passes
  <2>2. PICK k \in 1 .. j - 1 : o \in Outs(Txids[b][k])
    BY <1>2, <2>1, UnspentCases
  <2>3. Txids[b][k] = Txids[b][m]
    BY <2>2, OutsOf
  <2>4. k \in 1 .. m - 1
    BY <1>3, <2>2 DEF Turns
  <2>5. QED
    BY <2>3, <2>4 DEF Old
<1>4. QED
  BY <1>1, <1>2, <1>3

(* No transaction is mined twice on a chain.  The first one that is would  *)
(* spend an output again, and so need a transaction before it that makes   *)
(* that output again.                                                      *)
LEMMA NothingRepeats ==
  ASSUME NEW b, NEW T, NEW P, Passes(b, T, P), Len(Txids[b]) \in Nat
  PROVE  \A i \in Turns(b) : ~ Old(b, T, i)
<1> DEFINE bad == {i \in Turns(b) : Old(b, T, i)}
<1> SUFFICES ASSUME bad # {} PROVE FALSE
  OBVIOUS
<1>1. PICK i \in bad : \A j \in bad : i <= j
  <2>1. bad \in SUBSET Nat
    BY DEF Turns
  <2>2. QED
    BY <2>1, LeastMember
<1>2. i \in Turns(b) /\ Old(b, T, i) /\ \A j \in 1 .. i - 1 : j \in Turns(b) /\ ~ Old(b, T, j)
  BY <1>1 DEF Turns
<1>3. Txids[b][i] \in Tx
  BY <1>2 DEF Passes, Old
<1>4. PICK o \in Ins(Txids[b][i]) : TRUE
  BY <1>2, <1>3 DEF Passes
<1>5. o \in UnspentAfter(b, i - 1, P)
  BY <1>2, <1>3, <1>4 DEF Passes
<1>6. CASE o \in P /\ \A j \in 1 .. i - 1 : o \notin Ins(Txids[b][j])
  <2>1. Txids[b][i] \in T
    BY <1>2, <1>4, <1>6 DEF Old
  <2>2. QED
    BY <1>4, <1>6, <2>1 DEF Passes, Used
<1>7. ASSUME NEW m \in 1 .. i - 1, o \in Outs(Txids[b][m]),
             \A j \in 1 .. i - 1 : o \in Ins(Txids[b][j]) => j <= m
      PROVE  FALSE
  <2>1. o \notin Used(T) /\ \A j \in Turns(b) : o \in Ins(Txids[b][j]) => m < j
    BY <1>2, <1>7, NotBefore
  <2>2. Txids[b][i] \notin T
    BY <1>4, <2>1 DEF Used
  <2>3. PICK j \in 1 .. i - 1 : Txids[b][j] = Txids[b][i]
    BY <1>2, <2>2 DEF Old
  <2>4. j <= m /\ m < j
    BY <1>2, <1>4, <1>7, <2>1, <2>3
  <2>5. QED
    BY <1>2, <2>3, <2>4 DEF Turns
<1>8. QED
  BY <1>5, <1>6, <1>7, UnspentCases

(* What a transaction of the block spends, nothing before it on the chain  *)
(* has spent.                                                              *)
LEMMA OnceSpent ==
  ASSUME NEW b, NEW T, NEW P, Passes(b, T, P), Len(Txids[b]) \in Nat,
         NEW i \in Turns(b), NEW o \in Ins(Txids[b][i])
  PROVE  /\ o \notin Used(T) /\ o \in P \cup Made(Ids(b))
         /\ \A j \in 1 .. i - 1 : o \notin Ins(Txids[b][j])
<1>1. o \in UnspentAfter(b, i - 1, P)
  BY InsOf DEF Passes
<1>2. CASE o \in P /\ \A j \in 1 .. i - 1 : o \notin Ins(Txids[b][j])
  BY <1>2 DEF Passes
<1>3. ASSUME NEW m \in 1 .. i - 1, o \in Outs(Txids[b][m]),
             \A j \in 1 .. i - 1 : o \in Ins(Txids[b][j]) => j <= m
      PROVE  /\ o \notin Used(T) /\ o \in Made(Ids(b))
             /\ \A j \in 1 .. i - 1 : o \notin Ins(Txids[b][j])
  <2>1. m \in Turns(b) /\ \A j \in 1 .. i - 1 : j \in Turns(b)
    BY DEF Turns
  <2>2. o \notin Used(T) /\ \A j \in Turns(b) : o \in Ins(Txids[b][j]) => m < j
    BY <1>3, <2>1, NothingRepeats, NotBefore
  <2>3. ASSUME NEW j \in 1 .. i - 1, o \in Ins(Txids[b][j]) PROVE FALSE
    <3>1. j <= m /\ m < j
      BY <1>3, <2>1, <2>2, <2>3
    <3>2. QED
      BY <2>1, <3>1 DEF Turns
  <2>4. Txids[b][m] \in Ids(b)
    BY <2>1 DEF Ids, Turns
  <2>5. QED
    BY <1>3, <2>2, <2>3, <2>4 DEF Made
<1>4. QED
  BY <1>1, <1>2, <1>3, UnspentCases

(* The set that the loop ends with is what the longer chain made and did   *)
(* not spend; and that chain, too, has spent only what it made.            *)
LEMMA UnspentExact ==
  ASSUME NEW b, NEW T, NEW P, Passes(b, T, P), Txids[b] \in Seq(HashID)
  PROVE  /\ NewUTXOs(b, P) = Made(T \cup Ids(b)) \ Used(T \cup Ids(b))
         /\ Used(T \cup Ids(b)) \subseteq Made(T \cup Ids(b))
<1>1. Len(Txids[b]) \in Nat /\ Turns(b) = DOMAIN Txids[b]
  BY DEF Turns
<1>2. \A x : x \in Ids(b) <=> \E i \in Turns(b) : x = Txids[b][i]
  BY <1>1 DEF Ids
<1>3. /\ Made(T \cup Ids(b)) = Made(T) \cup Made(Ids(b))
      /\ Used(T \cup Ids(b)) = Used(T) \cup Used(Ids(b))
  BY DEF Made, Used
<1>4. \A o : o \in Made(Ids(b)) <=> \E i \in Turns(b) : o \in Outs(Txids[b][i])
  BY <1>2 DEF Made
<1>5. \A o : o \in Used(Ids(b)) <=> \E i \in Turns(b) : o \in Ins(Txids[b][i])
  BY <1>2 DEF Used
<1>6. Used(Ids(b)) \subseteq Made(T) \cup Made(Ids(b))
  <2>1. \A o \in Used(Ids(b)) : o \in P \cup Made(Ids(b))
    BY <1>1, <1>5, OnceSpent
  <2>2. QED
    BY <2>1 DEF Passes
<1>7. ASSUME NEW o \in NewUTXOs(b, P)
      PROVE  o \in (Made(T) \cup Made(Ids(b))) \ (Used(T) \cup Used(Ids(b)))
  <2>1. o \in UnspentAfter(b, Len(Txids[b]), P)
    BY DEF NewUTXOs
  <2>2. CASE o \in P /\ \A j \in Turns(b) : o \notin Ins(Txids[b][j])
    BY <1>5, <2>2 DEF Passes
  <2>3. ASSUME NEW m \in Turns(b), o \in Outs(Txids[b][m]),
               \A j \in Turns(b) : o \in Ins(Txids[b][j]) => j <= m
        PROVE  o \in Made(Ids(b)) \ (Used(T) \cup Used(Ids(b)))
    <3>1. o \notin Used(T) /\ \A j \in Turns(b) : o \in Ins(Txids[b][j]) => m < j
      BY <1>1, <2>3, NothingRepeats, NotBefore
    <3>2. \A j \in Turns(b) : o \notin Ins(Txids[b][j])
      BY <2>3, <3>1 DEF Turns
    <3>3. QED
      BY <1>4, <1>5, <2>3, <3>1, <3>2
  <2>4. QED
    BY <2>1, <2>2, <2>3, UnspentCases DEF Turns
<1>8. ASSUME NEW o \in (Made(T) \cup Made(Ids(b))) \ (Used(T) \cup Used(Ids(b)))
      PROVE  o \in NewUTXOs(b, P)
  <2>1. \A j \in Turns(b) : o \notin Ins(Txids[b][j])
    BY <1>5, <1>8
  <2>2. o \in P \/ \E m \in Turns(b) : o \in Outs(Txids[b][m])
    BY <1>4, <1>8 DEF Passes
  <2>3. QED
    BY <2>1, <2>2 DEF NewUTXOs, UnspentAfter, Turns
<1>9. QED
  BY <1>3, <1>6, <1>7, <1>8 DEF Passes

-----------------------------------------------------------------------------
(* Chain has the value that its definition asks for: the blocks that can   *)
(* be reached satisfy it, be there cycles or not.                          *)
LEMMA ChainIs ==
  \A b \in Block : Chain[b] = {b} \cup (IF Previd[b] \in Block THEN Chain[Previd[b]] ELSE {})
<1> DEFINE Closed(S) == \A c \in S : Previd[c] \in Block => Previd[c] \in S
           Reach(b) == {c \in Block : \A S \in SUBSET Block : b \in S /\ Closed(S) => c \in S}
           f == [b \in Block |-> Reach(b)]
           Unfold(g) == [b \in Block |-> {b} \cup (IF Previd[b] \in Block
                                                   THEN g[Previd[b]] ELSE {})]
<1>1. ASSUME NEW b \in Block, Previd[b] \in Block
      PROVE  Reach(b) = {b} \cup Reach(Previd[b])
  <2>1. ASSUME NEW c \in Reach(Previd[b]) PROVE c \in Reach(b)
    BY <1>1, <2>1
  <2>2. ASSUME NEW c \in Reach(b), c # b PROVE c \in Reach(Previd[b])
    <3>1. ASSUME NEW S \in SUBSET Block, Previd[b] \in S, Closed(S) PROVE c \in S
      <4>1. S \cup {b} \in SUBSET Block /\ b \in S \cup {b} /\ Closed(S \cup {b})
        BY <1>1, <3>1
      <4>2. c \in S \cup {b}
        BY <2>2, <4>1
      <4>3. QED
        BY <2>2, <4>2
    <3>2. QED
      BY <2>2, <3>1
  <2>3. QED
    BY <2>1, <2>2
<1>2. ASSUME NEW b \in Block, Previd[b] \notin Block
      PROVE  Reach(b) = {b}
  <2>1. {b} \in SUBSET Block /\ b \in {b} /\ Closed({b})
    BY <1>2
  <2>2. QED
    BY <2>1
<1>3. f = Unfold(f)
  BY <1>1, <1>2
<1>4. Chain = CHOOSE g : g = Unfold(g)
  BY DEF Chain
<1> HIDE DEF f, Unfold
<1>5. Chain = Unfold(Chain)
  BY <1>3, <1>4
<1>6. QED
  BY <1>5 DEF Unfold

-----------------------------------------------------------------------------
(* The inductive invariant.  A committed block has a committed parent and  *)
(* the set that follows from its parent's; all its chain is committed, at  *)
(* lower heights; its coinbase, if any, is made for its height; and what   *)
(* its chain has spent the chain has made, once.                           *)
Parents(b) == Previd[b] = nil \/ (Previd[b] \in Block /\ Committed(Previd[b]))

Follows(b) ==
  sets[b] = [utxos |-> NewUTXOs(b, ParentUTXOs(b, sets)), height |-> NewHeight(b, sets)]

Descends(b) ==
  /\ \A c \in Chain[b] : c \in Block /\ Committed(c) /\ (c # b => sets[c].height < sets[b].height)
  /\ IsFiniteSet(Chain[b]) /\ sets[b].height = Depth(b)

Balanced(b) ==
  /\ sets[b].utxos = Made(ChainTxs(b)) \ Used(ChainTxs(b))
  /\ Used(ChainTxs(b)) \subseteq Made(ChainTxs(b))

Timely(b) == \A x \in Ids(b) \cap Coinbase : Height[x] = sets[b].height

SpentOnce(b) ==
  \A c, d \in Chain[b] : \A i \in DOMAIN Txids[c], j \in DOMAIN Txids[d] :
    <<c, i>> # <<d, j>> => Ins(Txids[c][i]) \cap Ins(Txids[d][j]) = {}

Good(b) == Parents(b) /\ Follows(b) /\ Descends(b) /\ Balanced(b) /\ Timely(b) /\ SpentOnce(b)

LedgerInv ==
  /\ sets \in [Block -> UTXOSet \cup {NoUTXO}]
  /\ \A b \in Block : Committed(b) => Good(b)

(* A transaction's turn that passes, in terms of Passes.                   *)
LEMMA TurnPasses ==
  ASSUME NEW b \in Block, NEW i \in DOMAIN Txids[b], NEW objs, NEW P, NEW h,
         TxidError(b, i, objs, P, h) = "NONE"
  PROVE  /\ Txids[b][i] \in Tx => /\ Ins(Txids[b][i]) # {}
                                  /\ Ins(Txids[b][i]) \subseteq UnspentAfter(b, i - 1, P)
         /\ Txids[b][i] \notin Tx =>
              Txids[b][i] \in Coinbase /\ i = 1 /\ Height[Txids[b][i]] = h
<1> DEFINE x == Txids[b][i]
<1>1. CASE x \in Tx
  <2>1. Readable(x) /\ Ins(x) \subseteq UnspentAfter(b, i - 1, P)
    BY <1>1 DEF TxidError
  <2>2. Inputs[x] # <<>> /\ Inputs[x] \in Seq(Outpoint)
    BY <1>1, <2>1, FieldTypes DEF Readable
  <2>3. 1 \in DOMAIN Inputs[x]
    BY <2>2
  <2>4. Inputs[x][1] \in Ins(x)
    BY <1>1, <2>3 DEF Ins
  <2>5. QED
    BY <1>1, <2>1, <2>4
<1>2. CASE x \notin Tx
  BY <1>2 DEF TxidError
<1>3. QED
  BY <1>1, <1>2

(* The chain below a block that passes: its transactions and what is       *)
(* unspent of them.                                                        *)
Below(b) == IF Previd[b] = nil THEN {} ELSE ChainTxs(Previd[b])

(* The transactions of a chain are those below and those of its top block. *)
LEMMA ChainTxsIs ==
  ASSUME NEW b \in Block, Previd[b] = nil \/ Previd[b] \in Block
  PROVE  /\ ChainTxs(b) = Below(b) \cup Ids(b)
         /\ Chain[b] = {b} \cup (IF Previd[b] = nil THEN {} ELSE Chain[Previd[b]])
<1>1. nil \notin Block
  BY IdsDisjoint DEF HashID
<1>2. Chain[b] = {b} \cup (IF Previd[b] = nil THEN {} ELSE Chain[Previd[b]])
  BY <1>1, ChainIs
<1>3. QED
  BY <1>2 DEF ChainTxs, Below

(* A block that validation accepts passes on top of its chain.             *)
LEMMA AcceptedPasses ==
  ASSUME LedgerInv, NEW b \in Block, NEW objs,
         ValidateBlock(b, objs, sets, NoTip).code = "NONE"
  PROVE  /\ Parents(b)
         /\ Passes(b, Below(b), ParentUTXOs(b, sets))
         /\ \A x \in Ids(b) \cap Coinbase : Height[x] = NewHeight(b, sets)
         /\ NewHeight(b, sets) \in Nat
<1> DEFINE P == ParentUTXOs(b, sets)
           h == NewHeight(b, sets)
           p == Previd[b]
<1>1. /\ HeaderError(b, objs, sets) = "NONE"
      /\ \A i \in DOMAIN Txids[b] : TxidError(b, i, objs, P, h) = "NONE"
  BY BlockResult DEF LedgerInv
<1>2. Parents(b)
  BY <1>1, FieldTypes DEF HeaderError, Parents, Committed
<1>3. Txids[b] \in Seq(HashID) /\ Turns(b) = DOMAIN Txids[b]
  BY FieldTypes DEF Turns
<1>4. p # nil => Good(p) /\ sets[p] \in UTXOSet
  BY <1>2 DEF Parents, Committed, LedgerInv
<1>5. h \in Nat
  BY <1>4 DEF NewHeight, UTXOSet
<1>6. P = Made(Below(b)) \ Used(Below(b)) /\ Used(Below(b)) \subseteq Made(Below(b))
  <2>1. CASE p = nil
    BY <2>1 DEF ParentUTXOs, Below, Made, Used
  <2>2. CASE p # nil
    BY <1>4, <2>2 DEF ParentUTXOs, Below, Good, Balanced
  <2>3. QED
    BY <2>1, <2>2
<1>7. \A x \in Below(b) \cap Coinbase : Height[x] < h
  <2> SUFFICES ASSUME NEW x \in Below(b) \cap Coinbase PROVE Height[x] < h
    OBVIOUS
  <2>1. p # nil /\ p \in Block
    BY <1>2 DEF Below, Parents
  <2>2. PICK c \in Chain[p] : x \in Ids(c)
    BY <2>1 DEF Below, ChainTxs
  <2>3. c \in Block /\ Committed(c) /\ (c # p => sets[c].height < sets[p].height)
    BY <1>4, <2>1 DEF Good, Descends
  <2>4. Height[x] = sets[c].height
    BY <2>2, <2>3 DEF LedgerInv, Good, Timely
  <2>5. sets[c] \in UTXOSet /\ sets[p] \in UTXOSet
    BY <1>4, <2>1, <2>3 DEF LedgerInv, Committed
  <2>6. h = sets[p].height + 1
    BY <2>1 DEF NewHeight
  <2>7. sets[c].height \in Nat /\ sets[p].height \in Nat
    BY <2>5 DEF UTXOSet
  <2>8. QED
    BY <2>3, <2>4, <2>6, <2>7
<1>8. \A i \in DOMAIN Txids[b] :
        /\ Txids[b][i] \in Tx => /\ Ins(Txids[b][i]) # {}
                                 /\ Ins(Txids[b][i]) \subseteq UnspentAfter(b, i - 1, P)
        /\ Txids[b][i] \notin Tx =>
             Txids[b][i] \in Coinbase /\ i = 1 /\ Height[Txids[b][i]] = h
  BY <1>1, TurnPasses
<1>9. \A i \in DOMAIN Txids[b] : Txids[b][i] \notin Tx => Txids[b][i] \notin Below(b)
  BY <1>5, <1>7, <1>8
<1>10. Passes(b, Below(b), P)
  BY <1>3, <1>6, <1>8, <1>9 DEF Passes
<1>11. \A x \in Ids(b) \cap Coinbase : Height[x] = h
  BY <1>8, IdsDisjoint DEF Ids
<1>12. QED
  BY <1>2, <1>5, <1>10, <1>11

(* No double spend on the chain of a block that passes.                    *)
LEMMA ExtendOnce ==
  ASSUME NEW b \in Block, Parents(b), Previd[b] # nil => SpentOnce(Previd[b]),
         Previd[b] # nil => b \notin Chain[Previd[b]],
         NEW P, Passes(b, Below(b), P)
  PROVE  SpentOnce(b)
<1> DEFINE E == IF Previd[b] = nil THEN {} ELSE Chain[Previd[b]]
<1>1. Chain[b] = {b} \cup E /\ b \notin E
  BY ChainTxsIs DEF Parents
<1>2. Txids[b] \in Seq(HashID) /\ Turns(b) = DOMAIN Txids[b] /\ Len(Txids[b]) \in Nat
  BY FieldTypes DEF Turns
<1>3. ASSUME NEW c \in E, NEW i \in DOMAIN Txids[c], NEW j \in DOMAIN Txids[b]
      PROVE  Ins(Txids[c][i]) \cap Ins(Txids[b][j]) = {}
  <2>1. Txids[c][i] \in Below(b)
    BY DEF Below, ChainTxs, Ids
  <2>2. Ins(Txids[c][i]) \subseteq Used(Below(b))
    BY <2>1 DEF Used
  <2>3. \A o \in Ins(Txids[b][j]) : o \notin Used(Below(b))
    BY <1>2, OnceSpent
  <2>4. QED
    BY <2>2, <2>3
<1>4. ASSUME NEW i \in DOMAIN Txids[b], NEW j \in DOMAIN Txids[b], i < j
      PROVE  Ins(Txids[b][i]) \cap Ins(Txids[b][j]) = {}
  <2>1. i \in 1 .. j - 1
    BY <1>2, <1>4
  <2>2. QED
    BY <1>2, <2>1, OnceSpent
<1>5. ASSUME NEW i \in DOMAIN Txids[b], NEW j \in DOMAIN Txids[b], i # j
      PROVE  Ins(Txids[b][i]) \cap Ins(Txids[b][j]) = {}
  <2>1. i < j \/ j < i
    BY <1>2, <1>5
  <2>2. QED
    BY <1>4, <2>1
<1>6. ASSUME NEW c \in E, NEW d \in E, NEW i \in DOMAIN Txids[c], NEW j \in DOMAIN Txids[d],
             <<c, i>> # <<d, j>>
      PROVE  Ins(Txids[c][i]) \cap Ins(Txids[d][j]) = {}
  BY <1>6 DEF SpentOnce
<1>7. SUFFICES ASSUME NEW c \in Chain[b], NEW d \in Chain[b],
                      NEW i \in DOMAIN Txids[c], NEW j \in DOMAIN Txids[d],
                      <<c, i>> # <<d, j>>
               PROVE  Ins(Txids[c][i]) \cap Ins(Txids[d][j]) = {}
  BY DEF SpentOnce
<1>8. CASE c \in E /\ d \in E
  BY <1>6, <1>7, <1>8
<1>9. CASE c \in E /\ d = b
  BY <1>3, <1>9
<1>10. CASE c = b /\ d \in E
  BY <1>3, <1>10
<1>11. CASE c = b /\ d = b
  BY <1>5, <1>7, <1>11
<1>12. QED
  BY <1>1, <1>8, <1>9, <1>10, <1>11

(* A block that is accepted again keeps its set.                           *)
LEMMA AddAgain ==
  ASSUME LedgerInv, NEW b \in Block, Committed(b), AddBlock(b)
  PROVE  sets' = sets
<1> DEFINE r == ValidateBlock(b, stored, sets, NoTip)
<1>1. r.utxos = NewUTXOs(b, ParentUTXOs(b, sets)) /\ r.height = NewHeight(b, sets)
  BY BlockResult DEF AddBlock, LedgerInv
<1>2. sets[b] = [utxos |-> r.utxos, height |-> r.height]
  BY <1>1 DEF LedgerInv, Good, Follows
<1>3. sets' = [sets EXCEPT ![b] = [utxos |-> r.utxos, height |-> r.height]]
  BY DEF AddBlock
<1>4. QED
  BY <1>2, <1>3 DEF LedgerInv

(* Adding a block: it is good, and the other blocks stay so.               *)
LEMMA AddGood ==
  ASSUME LedgerInv, NEW b \in Block, ~ Committed(b), AddBlock(b)
  PROVE  LedgerInv'
<1> DEFINE r == ValidateBlock(b, stored, sets, NoTip)
           p == Previd[b]
           E == IF p = nil THEN {} ELSE Chain[p]
<1>1. /\ r.code = "NONE"
      /\ sets' = [sets EXCEPT ![b] = [utxos |-> r.utxos, height |-> r.height]]
  BY DEF AddBlock
<1>2. /\ r \in ValidationResult
      /\ r.utxos = NewUTXOs(b, ParentUTXOs(b, sets)) /\ r.height = NewHeight(b, sets)
  BY <1>1, BlockResult DEF LedgerInv
<1>3. /\ Parents(b) /\ Passes(b, Below(b), ParentUTXOs(b, sets))
      /\ \A x \in Ids(b) \cap Coinbase : Height[x] = NewHeight(b, sets)
      /\ NewHeight(b, sets) \in Nat
  BY <1>1, AcceptedPasses
<1>4. [utxos |-> r.utxos, height |-> r.height] \in UTXOSet
  BY <1>2 DEF ValidationResult, UTXOSet
<1>5. /\ sets' \in [Block -> UTXOSet \cup {NoUTXO}]
      /\ sets'[b] = [utxos |-> r.utxos, height |-> r.height]
      /\ \A c \in Block : c # b => sets'[c] = sets[c]
  BY <1>1, <1>4 DEF LedgerInv
<1>6. sets'[b].utxos = NewUTXOs(b, ParentUTXOs(b, sets)) /\ sets'[b].height = NewHeight(b, sets)
  BY <1>2, <1>5
<1>7. ASSUME NEW c \in Block, Committed(c)
      PROVE  c # b /\ b \notin Chain[c] /\ Committed(c)'
  BY <1>5, <1>7 DEF LedgerInv, Good, Descends, Committed
<1>8. ASSUME NEW c \in Block, c # b, Committed(c)'
      PROVE  Good(c)'
  <2>1. Committed(c) /\ Good(c)
    BY <1>5, <1>8 DEF Committed, LedgerInv
  <2>2. \A d \in Chain[c] : d \in Block /\ Committed(d) /\ d # b
    BY <1>7, <2>1 DEF Good, Descends
  <2>3. Parents(c)'
    BY <1>7, <2>1 DEF Good, Parents
  <2>4. Previd[c] # nil => Previd[c] \in Block /\ Previd[c] # b
    BY <1>7, <2>1 DEF Good, Parents
  <2>5. ParentUTXOs(c, sets') = ParentUTXOs(c, sets) /\ NewHeight(c, sets') = NewHeight(c, sets)
    BY <1>5, <2>4 DEF ParentUTXOs, NewHeight
  <2>6. Follows(c)'
    BY <1>5, <1>8, <2>1, <2>5 DEF Good, Follows
  <2>7. Descends(c)'
    BY <1>5, <1>7, <1>8, <2>1, <2>2 DEF Good, Descends
  <2>8. Balanced(c)' /\ Timely(c)' /\ SpentOnce(c)'
    BY <1>5, <1>8, <2>1 DEF Good, Balanced, Timely, SpentOnce
  <2>9. QED
    BY <2>3, <2>6, <2>7, <2>8 DEF Good
<1>9. p # nil => /\ p \in Block /\ Committed(p) /\ Good(p) /\ p # b /\ b \notin Chain[p]
                 /\ sets[p] \in UTXOSet /\ sets'[p] = sets[p]
  BY <1>3, <1>5, <1>7 DEF Parents, LedgerInv, Committed
<1>10. Good(b)'
  <2>1. Parents(b)'
    BY <1>7, <1>9 DEF Parents
  <2>2. ParentUTXOs(b, sets') = ParentUTXOs(b, sets) /\ NewHeight(b, sets') = NewHeight(b, sets)
    BY <1>9 DEF ParentUTXOs, NewHeight
  <2>3. Follows(b)'
    BY <1>2, <1>5, <2>2 DEF Follows
  <2>4. /\ Chain[b] = {b} \cup E /\ b \notin E
        /\ ChainTxs(b) = Below(b) \cup Ids(b)
    BY <1>3, <1>9, ChainTxsIs DEF Parents
  <2>5. Committed(b)'
    <3>1. sets'[b].height \in Nat
      BY <1>3, <1>6
    <3>2. QED
      BY <3>1 DEF Committed, NoUTXO
  <2>6. \A c \in E : c \in Block /\ Committed(c)' /\ sets'[c].height < sets'[b].height
    <3> SUFFICES ASSUME NEW c \in E
                 PROVE  c \in Block /\ Committed(c)' /\ sets'[c].height < sets'[b].height
      OBVIOUS
    <3>1. p # nil /\ c \in Chain[p]
      OBVIOUS
    <3>2. c \in Block /\ Committed(c) /\ (c # p => sets[c].height < sets[p].height)
      BY <1>9, <3>1 DEF Good, Descends
    <3>3. sets[c].height \in Nat /\ sets[p].height \in Nat
      BY <1>9, <3>1, <3>2 DEF LedgerInv, Committed, UTXOSet
    <3>4. sets'[b].height = sets[p].height + 1
      BY <1>6, <3>1 DEF NewHeight
    <3>5. sets'[c] = sets[c]
      BY <1>5, <1>7, <3>2
    <3>6. QED
      BY <1>7, <3>2, <3>3, <3>4, <3>5
  <2>7. /\ IsFiniteSet(E)
        /\ sets'[b].height = Cardinality(E)
    <3>1. CASE p = nil
      BY <1>6, <3>1, FS_EmptySet DEF NewHeight
    <3>2. CASE p # nil
      <4>1. IsFiniteSet(Chain[p]) /\ sets[p].height = Cardinality(Chain[p]) - 1
        BY <1>9, <3>2 DEF Good, Descends, Depth
      <4>2. Cardinality(Chain[p]) \in Nat
        BY <4>1, FS_CardinalityType
      <4>3. sets'[b].height = sets[p].height + 1
        BY <1>6, <3>2 DEF NewHeight
      <4>4. QED
        BY <3>2, <4>1, <4>2, <4>3
    <3>3. QED
      BY <3>1, <3>2
  <2>8. IsFiniteSet(Chain[b]) /\ sets'[b].height = Cardinality(Chain[b]) - 1
    <3>1. Cardinality(E) \in Nat
      BY <2>7, FS_CardinalityType
    <3>2. IsFiniteSet(E \cup {b}) /\ Cardinality(E \cup {b}) = Cardinality(E) + 1
      BY <2>4, <2>7, FS_AddElement
    <3>3. Chain[b] = E \cup {b}
      BY <2>4
    <3>4. QED
      BY <2>7, <3>1, <3>2, <3>3
  <2>9. Descends(b)'
    BY <2>4, <2>5, <2>6, <2>8 DEF Descends, Depth
  <2>10. Balanced(b)'
    <3>1. Txids[b] \in Seq(HashID)
      BY FieldTypes
    <3>2. QED
      BY <1>3, <1>6, <2>4, <3>1, UnspentExact DEF Balanced
  <2>11. Timely(b)'
    BY <1>3, <1>6 DEF Timely
  <2>12. SpentOnce(b)
    BY <1>3, <1>9, ExtendOnce DEF Good
  <2>13. QED
    BY <2>1, <2>3, <2>9, <2>10, <2>11, <2>12 DEF Good, SpentOnce
<1>11. QED
  BY <1>5, <1>8, <1>10 DEF LedgerInv

(* Steps that change no set.                                               *)
LEMMA LedgerStill == LedgerInv /\ sets' = sets => LedgerInv'
  BY DEF LedgerInv, Good, Parents, Follows, Descends, Balanced, Timely, SpentOnce, Committed

(* Every step keeps the invariant,                                         *)
LEMMA LedgerStep == LedgerInv /\ [Next]_<<stored, sets>> => LedgerInv'
<1> SUFFICES ASSUME LedgerInv, [Next]_<<stored, sets>> PROVE LedgerInv'
  OBVIOUS
<1>1. ASSUME NEW t \in Tx, AddTx(t) PROVE LedgerInv'
  BY <1>1, LedgerStill DEF AddTx
<1>2. ASSUME NEW c \in Coinbase, AddCoinbase(c) PROVE LedgerInv'
  BY <1>2, LedgerStill DEF AddCoinbase
<1>3. ASSUME NEW b \in Block, AddBlock(b) PROVE LedgerInv'
  BY <1>3, AddAgain, AddGood, LedgerStill
<1>4. CASE UNCHANGED <<stored, sets>>
  BY <1>4, LedgerStill
<1>5. QED
  BY <1>1, <1>2, <1>3, <1>4 DEF Next

(* which holds of the empty store.                                         *)
LEMMA LedgerInit == Init => LedgerInv
  BY DEF Init, LedgerInv, Committed

(* No block lists a transaction without inputs: it could not be read back. *)
Legible == \A b \in Block : Committed(b) => \A x \in Ids(b) \cap Tx : Ins(x) # {}

(* Validation sees to that.                                                *)
LEMMA LegibleHolds ==
  /\ Init => Legible
  /\ LedgerInv /\ Legible /\ [Next]_<<stored, sets>> => Legible'
<1>1. Init => Legible
  BY DEF Init, Legible, Committed
<1>2. ASSUME LedgerInv, Legible, sets' = sets
      PROVE  Legible'
  BY <1>2 DEF Legible, Committed
<1>3. ASSUME LedgerInv, Legible, NEW b \in Block, AddBlock(b)
      PROVE  Legible'
  <2>1. \A x \in Ids(b) \cap Tx : Ins(x) # {}
    <3> SUFFICES ASSUME NEW i \in DOMAIN Txids[b], Txids[b][i] \in Tx
                 PROVE  Ins(Txids[b][i]) # {}
      BY DEF Ids
    <3>1. TxidError(b, i, stored, ParentUTXOs(b, sets), NewHeight(b, sets)) = "NONE"
      BY <1>3, BlockResult DEF AddBlock, LedgerInv
    <3>2. QED
      BY <3>1, TurnPasses
  <2>2. \A c \in Block : c # b => sets'[c] = sets[c]
    BY <1>3 DEF AddBlock, LedgerInv
  <2>3. QED
    BY <1>3, <2>1, <2>2 DEF Legible, Committed
<1>4. QED
  BY <1>1, <1>2, <1>3 DEF Next, AddTx, AddCoinbase

(* It is what the two theorems say, of every block at once.                *)
LEMMA LedgerExact == LedgerInv => UTXOExact /\ NoDoubleSpend
<1>1. LedgerInv => UTXOExact
  BY DEF LedgerInv, Good, Balanced, Descends, UTXOExact, Made, Used
<1>2. LedgerInv => NoDoubleSpend
  BY DEF LedgerInv, Good, SpentOnce, NoDoubleSpend
<1>3. QED
  BY <1>1, <1>2

-----------------------------------------------------------------------------
(* The money supply.  The outputs that exist, and what each is worth.      *)
RealOutputs == {o \in Outpoint : o[1] \in Tx \cup Coinbase /\ o[2] < Len(Outputs[o[1]])}

Worth == [o \in RealOutputs |-> Value(o)]

(* Outputs that exist have a value, and all that objects make do exist.    *)
LEMMA WorthType ==
  /\ \A o \in RealOutputs : Worth[o] = Value(o) /\ Worth[o] \in Int
  /\ \A x : Outs(x) \subseteq RealOutputs
<1>1. \A x \in Tx \cup Coinbase : Outputs[x] \in Seq(Nat)
  BY FieldTypes
<1>2. ASSUME NEW o \in RealOutputs PROVE Worth[o] = Value(o) /\ Worth[o] \in Int
  <2>1. o[1] \in Tx \cup Coinbase /\ o[2] \in Nat /\ o[2] < Len(Outputs[o[1]])
    BY DEF RealOutputs, Outpoint
  <2>2. o[2] + 1 \in 1 .. Len(Outputs[o[1]])
    BY <1>1, <2>1
  <2>3. QED
    BY <1>1, <2>1, <2>2 DEF Worth, Value
<1>3. ASSUME NEW x, NEW o \in Outs(x) PROVE o \in RealOutputs
  <2>1. x \in Tx \cup Coinbase
    BY DEF Outs
  <2>2. PICK k \in 0 .. Len(Outputs[x]) - 1 : o = <<x, k>>
    BY <2>1 DEF Outs
  <2>3. o[1] = x /\ o[2] = k
    BY <2>2
  <2>4. k \in Nat /\ k < Len(Outputs[x])
    BY <1>1, <2>1
  <2>5. QED
    BY <2>1, <2>2, <2>3, <2>4 DEF RealOutputs, Outpoint, HashID
<1>4. QED
  BY <1>2, <1>3

(* The sum of SupplyBounded, as a Total.                                   *)
LEMMA ValueTotal ==
  ASSUME NEW S \in SUBSET RealOutputs, IsFiniteSet(S)
  PROVE  MapThenSumSet(Value, S) = Total(Worth, S)
<1> DEFINE IsSums(h) == h = [s \in SUBSET S |-> IF s = {} THEN 0
                                               ELSE Value(First(s)) + h[s \ {First(s)}]]
           h == CHOOSE h : IsSums(h)
<1>1. MapThenSumSet(Value, S) = h[S]
  BY DEF MapThenSumSet, MapThenFoldSet, First
<1>2. \A s \in SUBSET S : s # {} => Worth[First(s)] = Value(First(s))
  BY FirstIn, WorthType
<1>3. \A g : IsSums(g) <=> Sums(Worth, S, g)
  BY <1>2 DEF Sums
<1>4. PICK g : Sums(Worth, S, g)
  BY WorthType, SumsExist
<1>5. Sums(Worth, S, h)
  BY <1>3, <1>4
<1> HIDE DEF h
<1>6. QED
  BY <1>1, <1>5, WorthType, TotalSums

(* The sum of ValidateTransaction over its inputs, as a Total,             *)
LEMMA SumInputsTotal ==
  ASSUME NEW t \in Tx, Ins(t) \subseteq RealOutputs
  PROVE  SumInputs(t) = Total([k \in DOMAIN Inputs[t] |-> Worth[Inputs[t][k]]], DOMAIN Inputs[t])
<1> DEFINE S == DOMAIN Inputs[t]
           v == [k \in DOMAIN Inputs[t] |-> Worth[Inputs[t][k]]]
           IsSums(h) == h = [s \in SUBSET S |-> IF s = {} THEN 0
                                      ELSE Value(Inputs[t][First(s)]) + h[s \ {First(s)}]]
           h == CHOOSE h : IsSums(h)
<1>1. SumInputs(t) = h[S]
  BY DEF SumInputs, MapThenSumSet, MapThenFoldSet, First
<1>2. \A k \in S : v[k] = Value(Inputs[t][k]) /\ v[k] \in Int
  BY WorthType DEF Ins
<1>3. IsFiniteSet(S)
  <2>1. Inputs[t] \in Seq(Outpoint)
    BY FieldTypes
  <2>2. S = 1 .. Len(Inputs[t]) /\ Len(Inputs[t]) \in Nat
    BY <2>1
  <2>3. QED
    BY <2>2, FS_Interval
<1> HIDE DEF S, v
<1>4. \A s \in SUBSET S : s # {} => v[First(s)] = Value(Inputs[t][First(s)])
  BY <1>2, FirstIn
<1>5. \A g : IsSums(g) <=> Sums(v, S, g)
  BY <1>4 DEF Sums
<1>6. PICK g : Sums(v, S, g)
  BY <1>2, <1>3, SumsExist
<1>7. Sums(v, S, h)
  BY <1>5, <1>6
<1> HIDE DEF h
<1>8. SumInputs(t) = Total(v, S)
  BY <1>1, <1>2, <1>3, <1>7, TotalSums
<1>9. QED
  BY <1>8 DEF v, S

(* No input is given twice.                                                *)
Distinct(t) == \A j, k \in DOMAIN Inputs[t] : j < k => Inputs[t][j] # Inputs[t][k]

(* is the value of the outputs spent, if no input is given twice.          *)
LEMMA InsTotal ==
  ASSUME NEW t \in Tx, Ins(t) \subseteq RealOutputs, Distinct(t)
  PROVE  /\ SumInputs(t) = Total(Worth, Ins(t)) /\ SumInputs(t) \in Int
         /\ IsFiniteSet(Ins(t))
<1> DEFINE S == DOMAIN Inputs[t]
           v == [k \in DOMAIN Inputs[t] |-> Worth[Inputs[t][k]]]
           f == Inputs[t]
<1>1. /\ f \in [S -> Outpoint] /\ S = 1 .. Len(f) /\ Len(f) \in Nat
  BY FieldTypes
<1>2. IsFiniteSet(S)
  BY <1>1, FS_Interval
<1>3. \A x, y \in S : x # y => f[x] # f[y]
  <2>1. \A x, y \in S : x # y => x < y \/ y < x
    BY <1>1
  <2>2. QED
    BY <2>1 DEF Distinct
<1>4. \A x \in S : Worth[f[x]] \in Int /\ v[x] = Worth[f[x]]
  BY WorthType DEF Ins
<1>5. Ins(t) = Mapped(f, S)
  BY DEF Ins, Mapped
<1>6. SumInputs(t) = Total(v, S)
  BY SumInputsTotal
<1> HIDE DEF f, S, v
<1>7. Total(Worth, Mapped(f, S)) = Total(v, S) /\ IsFiniteSet(Mapped(f, S))
  BY <1>2, <1>3, <1>4, TotalMap
<1>8. Total(v, S) \in Int
  BY <1>2, <1>4, TotalFirst
<1>9. QED
  BY <1>5, <1>6, <1>7, <1>8

(* The value of the outputs of a transaction is the sum over their         *)
(* indices.                                                                *)
LEMMA OutsTotal ==
  ASSUME NEW x \in Tx \cup Coinbase
  PROVE  /\ Total(Worth, Outs(x)) = Total(Outputs[x], DOMAIN Outputs[x])
         /\ IsFiniteSet(Outs(x)) /\ Total(Worth, Outs(x)) \in Int
<1> DEFINE S == DOMAIN Outputs[x]
           f == [k \in DOMAIN Outputs[x] |-> <<x, k - 1>>]
<1>1. /\ Outputs[x] \in Seq(Nat) /\ S = 1 .. Len(Outputs[x]) /\ Len(Outputs[x]) \in Nat
      /\ \A k \in S : Outputs[x][k] \in Nat
  BY FieldTypes
<1>2. IsFiniteSet(S)
  BY <1>1, FS_Interval
<1>3. \A k, j \in S : k # j => f[k] # f[j]
  BY <1>1
<1>4. Outs(x) = Mapped(f, S)
  <2>1. \A k \in S : k - 1 \in 0 .. Len(Outputs[x]) - 1
    BY <1>1
  <2>2. \A k \in 0 .. Len(Outputs[x]) - 1 : k + 1 \in S /\ (k + 1) - 1 = k
    BY <1>1
  <2>3. QED
    BY <2>1, <2>2 DEF Outs, Mapped
<1>5. \A k \in S : Worth[f[k]] \in Int /\ Outputs[x][k] = Worth[f[k]]
  <2> TAKE k \in S
  <2>1. f[k] \in RealOutputs
    BY <1>4, WorthType DEF Mapped
  <2>2. f[k][1] = x /\ f[k][2] + 1 = k
    BY <1>1
  <2>3. Worth[f[k]] = Outputs[x][k]
    BY <2>1, <2>2, WorthType DEF Value
  <2>4. QED
    BY <2>1, <2>3, WorthType
<1> DEFINE v == Outputs[x]
<1>6. \A k \in S : v[k] = Worth[f[k]] /\ v[k] \in Int
  BY <1>5
<1> HIDE DEF f, S, v
<1>7. Total(Worth, Mapped(f, S)) = Total(v, S) /\ IsFiniteSet(Mapped(f, S))
  BY <1>2, <1>3, <1>5, <1>6, TotalMap
<1>8. Total(v, S) \in Int
  BY <1>2, <1>6, TotalFirst
<1>9. QED
  BY <1>4, <1>7, <1>8 DEF S, v

(* The sum of ValidateTransaction over its outputs is their value.         *)
LEMMA SumOutputsTotal ==
  ASSUME NEW t \in Tx
  PROVE  SumOutputs(t) = Total(Worth, Outs(t)) /\ SumOutputs(t) \in Int
<1>1. SumOutputs(t) = Total(Outputs[t], DOMAIN Outputs[t])
  BY DEF SumOutputs, Total
<1>2. QED
  BY <1>1, OutsTotal

(* The one output of a coinbase transaction.                               *)
LEMMA CoinbaseTotal ==
  ASSUME NEW c \in Coinbase
  PROVE  Total(Worth, Outs(c)) = Outputs[c][1]
<1>1. Outputs[c] \in Seq(Nat) /\ Len(Outputs[c]) = 1
  BY FieldTypes
<1>2. DOMAIN Outputs[c] = {1} /\ Outputs[c][1] \in Int
  BY <1>1
<1>3. QED
  BY <1>2, OutsTotal, TotalOne

(* The turns of a block that are not its coinbase's.                       *)
Spenders(b) == {i \in DOMAIN Txids[b] : Txids[b][i] \in Tx}

(* The fees that ValidateBlock adds up, as a Total.                        *)
LEMMA FeesTotal ==
  ASSUME NEW b \in Block, \A i \in Spenders(b) : Fee(Txids[b][i]) \in Int
  PROVE  Fees(b) = Total([i \in Spenders(b) |-> Fee(Txids[b][i])], Spenders(b))
<1> DEFINE S == Spenders(b)
           v == [i \in Spenders(b) |-> Fee(Txids[b][i])]
           IsSums(h) == h = [s \in SUBSET S |-> IF s = {} THEN 0
                                      ELSE Fee(Txids[b][First(s)]) + h[s \ {First(s)}]]
           h == CHOOSE h : IsSums(h)
<1>1. Fees(b) = h[S]
  BY DEF Fees, MapThenSumSet, MapThenFoldSet, First, Spenders
<1>2. \A i \in S : v[i] = Fee(Txids[b][i]) /\ v[i] \in Int
  OBVIOUS
<1>3. IsFiniteSet(S)
  <2>1. Txids[b] \in Seq(HashID)
    BY FieldTypes
  <2>2. DOMAIN Txids[b] = 1 .. Len(Txids[b]) /\ Len(Txids[b]) \in Nat
    BY <2>1
  <2>3. IsFiniteSet(DOMAIN Txids[b])
    BY <2>2, FS_Interval
  <2>4. QED
    BY <2>3, FS_Subset DEF Spenders
<1> HIDE DEF S, v
<1>4. \A s \in SUBSET S : s # {} => v[First(s)] = Fee(Txids[b][First(s)])
  BY <1>2, FirstIn
<1>5. \A g : IsSums(g) <=> Sums(v, S, g)
  BY <1>4 DEF Sums
<1>6. PICK g : Sums(v, S, g)
  BY <1>2, <1>3, SumsExist
<1>7. Sums(v, S, h)
  BY <1>5, <1>6
<1> HIDE DEF h
<1>8. Fees(b) = Total(v, S)
  BY <1>1, <1>2, <1>3, <1>7, TotalSums
<1>9. QED
  BY <1>8 DEF v, S

(* A block that passes adds the value of its coinbase to what is unspent   *)
(* and takes away its fees: nothing it spends is spent twice, nothing it   *)
(* makes was there before.                                                 *)
LEMMA SupplyStep ==
  ASSUME NEW b \in Block, NEW T, NEW P \in SUBSET RealOutputs, IsFiniteSet(P), Passes(b, T, P),
         \A i \in Spenders(b) : Distinct(Txids[b][i])
  PROVE  /\ Total(Worth, NewUTXOs(b, P)) = Total(Worth, P) + CoinbaseValue(b) - Fees(b)
         /\ NewUTXOs(b, P) \subseteq RealOutputs /\ IsFiniteSet(NewUTXOs(b, P))
         /\ CoinbaseValue(b) \in Int /\ Fees(b) \in Int
<1> DEFINE I == Spenders(b)
           Spent == [i \in Spenders(b) |-> Ins(Txids[b][i])]
           Paid == [i \in Spenders(b) |-> Outs(Txids[b][i])]
           C == IF Txids[b] # <<>> /\ Txids[b][1] \in Coinbase THEN Outs(Txids[b][1]) ELSE {}
           New == NewUTXOs(b, P)
           in == [i \in Spenders(b) |-> SumInputs(Txids[b][i])]
           out == [i \in Spenders(b) |-> SumOutputs(Txids[b][i])]
           fee == [i \in Spenders(b) |-> Fee(Txids[b][i])]
<1>1. /\ Txids[b] \in Seq(HashID) /\ Len(Txids[b]) \in Nat
      /\ DOMAIN Txids[b] = Turns(b) /\ I \subseteq Turns(b) /\ Turns(b) \subseteq Nat
      /\ \A x : x \in Ids(b) <=> \E i \in Turns(b) : x = Txids[b][i]
  BY FieldTypes DEF Turns, Spenders, Ids
<1>2. IsFiniteSet(I)
  <2>1. IsFiniteSet(Turns(b))
    BY <1>1, FS_Interval DEF Turns
  <2>2. QED
    BY <1>1, <2>1, FS_Subset
<1>3. \A x : x \in Ids(b) <=> \E i \in Turns(b) : x = Txids[b][i]
  BY <1>1
<1>4. \A o : o \in Made(Ids(b)) <=> \E i \in Turns(b) : o \in Outs(Txids[b][i])
  BY <1>3 DEF Made
<1>5. \A o : o \in Used(Ids(b)) <=> \E i \in Turns(b) : o \in Ins(Txids[b][i])
  BY <1>3 DEF Used
<1>6. \A i \in I : Txids[b][i] \in Tx
  BY DEF Spenders
<1>7. \A i \in Turns(b) \ I : i = 1 /\ Txids[b][1] \in Coinbase /\ Txids[b] # <<>>
  BY <1>1 DEF Passes, Spenders
<1>8. Used(Ids(b)) \subseteq P \cup Made(Ids(b))
  <2>1. \A i \in Turns(b) : \A o \in Ins(Txids[b][i]) : o \in P \cup Made(Ids(b))
    BY <1>1, OnceSpent
  <2>2. QED
    BY <1>1, <2>1 DEF Used
<1>9. Made(Ids(b)) \subseteq RealOutputs
  BY WorthType DEF Made
<1>10. \A i \in I : Ins(Txids[b][i]) \subseteq RealOutputs
  BY <1>1, <1>8, <1>9 DEF Used
<1>11. \A o \in Made(Ids(b)) : o \notin P /\ o \notin Made(T) /\ o \notin Used(T)
  <2>1. \A m \in Turns(b) : \A o \in Outs(Txids[b][m]) : o \notin P /\ o \notin Made(T) /\ o \notin Used(T)
    BY <1>1, NothingRepeats, NotBefore
  <2>2. QED
    BY <1>4, <2>1
<1>12. New \cup Used(Ids(b)) = P \cup Made(Ids(b)) /\ New \cap Used(Ids(b)) = {}
  <2>1. New = Made(T \cup Ids(b)) \ Used(T \cup Ids(b))
    BY <1>1, UnspentExact
  <2>2. /\ Made(T \cup Ids(b)) = Made(T) \cup Made(Ids(b))
        /\ Used(T \cup Ids(b)) = Used(T) \cup Used(Ids(b))
    BY DEF Made, Used
  <2>3. P = Made(T) \ Used(T)
    BY DEF Passes
  <2> HIDE DEF New
  <2>4. QED
    BY <1>8, <1>11, <2>1, <2>2, <2>3
<1>13. \A i, j \in I : i # j => Spent[i] \cap Spent[j] = {}
  <2>1. ASSUME NEW i \in I, NEW j \in I, i < j PROVE Spent[i] \cap Spent[j] = {}
    <3>1. i \in 1 .. j - 1 /\ j \in Turns(b)
      BY <1>1, <2>1 DEF Turns
    <3>2. \A o \in Ins(Txids[b][j]) : o \notin Ins(Txids[b][i])
      BY <1>1, <3>1, OnceSpent
    <3>3. QED
      BY <3>2
  <2>2. \A i, j \in I : i # j => i < j \/ j < i
    BY <1>1
  <2> HIDE DEF Spent
  <2>3. QED
    BY <2>1, <2>2
<1>14. \A i, j \in I : i # j => Paid[i] \cap Paid[j] = {}
  <2>1. ASSUME NEW i \in I, NEW j \in I, i < j PROVE Paid[i] \cap Paid[j] = {}
    <3>1. i \in 1 .. j - 1 /\ j \in Turns(b)
      BY <1>1, <2>1 DEF Turns
    <3>2. Txids[b][i] # Txids[b][j]
      BY <1>1, <3>1, NothingRepeats DEF Old
    <3>3. QED
      BY <3>2, OutsOf
  <2>2. \A i, j \in I : i # j => i < j \/ j < i
    BY <1>1
  <2> HIDE DEF Paid
  <2>3. QED
    BY <2>1, <2>2
<1>15. Used(Ids(b)) = Joined(Spent, I)
  <2>1. \A i \in Turns(b) \ I : Ins(Txids[b][i]) = {}
    BY <1>1, InsOf DEF Spenders
  <2>2. \A o : o \in Joined(Spent, I) <=> \E i \in I : o \in Ins(Txids[b][i])
    BY DEF Joined
  <2> HIDE DEF I, Spent
  <2>3. QED
    BY <1>1, <1>5, <2>1, <2>2
<1>16. Made(Ids(b)) = Joined(Paid, I) \cup C /\ Joined(Paid, I) \cap C = {}
  <2>1. \A i \in I : Txids[b][i] \in Tx /\ Txids[b][i] \notin Coinbase
    BY IdsDisjoint DEF Spenders
  <2>2. Joined(Paid, I) \cap C = {}
    BY <2>1, OutsOf DEF Joined
  <2>3. C \subseteq Made(Ids(b))
    <3>1. Txids[b] # <<>> => 1 \in Turns(b)
      BY <1>1 DEF Turns
    <3>2. QED
      BY <1>1, <3>1 DEF Made
  <2>4. \A i \in Turns(b) \ I : Outs(Txids[b][i]) = C
    BY <1>7
  <2> HIDE DEF C
  <2>5. QED
    BY <1>1, <2>2, <2>3, <2>4 DEF Made, Joined
<1>17. /\ Total(Worth, Joined(Spent, I)) = Total(in, I) /\ IsFiniteSet(Joined(Spent, I))
       /\ \A i \in I : in[i] \in Int
  <2>1. \A i \in I : in[i] = Total(Worth, Spent[i]) /\ IsFiniteSet(Spent[i]) /\ in[i] \in Int
    BY <1>6, <1>10, InsTotal
  <2>2. \A i \in I : \A o \in Spent[i] : Worth[o] \in Int
    BY <1>10, WorthType
  <2> HIDE DEF in, Spent, I
  <2>3. QED
    BY <1>2, <1>13, <2>1, <2>2, TotalFamily
<1>18. /\ Total(Worth, Joined(Paid, I)) = Total(out, I) /\ IsFiniteSet(Joined(Paid, I))
       /\ \A i \in I : out[i] \in Int
  <2>1. \A i \in I : out[i] = Total(Worth, Paid[i]) /\ IsFiniteSet(Paid[i]) /\ out[i] \in Int
    BY <1>6, SumOutputsTotal, OutsTotal
  <2>2. \A i \in I : \A o \in Paid[i] : Worth[o] \in Int
    BY WorthType
  <2> HIDE DEF out, Paid, I
  <2>3. QED
    BY <1>2, <1>14, <2>1, <2>2, TotalFamily
<1>19. \A i \in I : fee[i] = in[i] - out[i] /\ fee[i] \in Int
  BY <1>17, <1>18 DEF Fee
<1>20. Fees(b) = Total(fee, I)
  BY <1>19, FeesTotal
<1>21. Total(fee, I) = Total(in, I) - Total(out, I) /\ Total(in, I) \in Int /\ Total(out, I) \in Int
  <2> HIDE DEF fee, in, out, I
  <2>1. Total(fee, I) = Total(in, I) - Total(out, I)
    BY <1>2, <1>17, <1>18, <1>19, TotalDiff
  <2>2. QED
    BY <1>2, <1>17, <1>18, <2>1, TotalFirst
<1>22. Total(Worth, C) = CoinbaseValue(b) /\ CoinbaseValue(b) \in Int /\ IsFiniteSet(C)
       /\ C \subseteq RealOutputs
  <2>1. CASE Txids[b] # <<>> /\ Txids[b][1] \in Coinbase
    BY <2>1, CoinbaseTotal, OutsTotal, WorthType DEF CoinbaseValue
  <2>2. CASE ~ (Txids[b] # <<>> /\ Txids[b][1] \in Coinbase)
    BY <2>2, FS_EmptySet, TotalFirst DEF CoinbaseValue
  <2>3. QED
    BY <2>1, <2>2
<1> HIDE DEF I, Spent, Paid, C, New, in, out, fee
<1>23. /\ IsFiniteSet(Made(Ids(b))) /\ IsFiniteSet(Used(Ids(b)))
       /\ Made(Ids(b)) \cup Used(Ids(b)) \cup P \cup New \subseteq RealOutputs
       /\ IsFiniteSet(New)
  <2>1. IsFiniteSet(Made(Ids(b))) /\ IsFiniteSet(Used(Ids(b)))
    BY <1>15, <1>16, <1>17, <1>18, <1>22, FS_Union
  <2>2. IsFiniteSet(P \cup Made(Ids(b)))
    BY <2>1, FS_Union
  <2>3. New \subseteq P \cup Made(Ids(b)) /\ Used(Ids(b)) \subseteq RealOutputs
    BY <1>8, <1>9, <1>12
  <2>4. QED
    BY <1>9, <2>1, <2>2, <2>3, FS_Subset
<1>24. \A o \in RealOutputs : Worth[o] \in Int
  BY WorthType
<1>25. Total(Worth, New \cup Used(Ids(b))) = Total(Worth, New) + Total(Worth, Used(Ids(b)))
  BY <1>12, <1>23, <1>24, TotalUnion
<1>26. Total(Worth, P \cup Made(Ids(b))) = Total(Worth, P) + Total(Worth, Made(Ids(b)))
  BY <1>11, <1>23, <1>24, TotalUnion
<1>27. Total(Worth, Made(Ids(b))) = Total(out, I) + CoinbaseValue(b)
  <2>1. Joined(Paid, I) \subseteq RealOutputs
    BY <1>9, <1>16
  <2>2. Total(Worth, Joined(Paid, I) \cup C) = Total(Worth, Joined(Paid, I)) + Total(Worth, C)
    BY <1>16, <1>18, <1>22, <1>24, <2>1, TotalUnion
  <2>3. QED
    BY <1>16, <1>18, <1>22, <2>2
<1>28. Total(Worth, New) \in Int /\ Total(Worth, P) \in Int
  BY <1>23, <1>24, TotalFirst
<1>29. Total(Worth, New) + Total(in, I) = Total(Worth, P) + (Total(out, I) + CoinbaseValue(b))
  BY <1>12, <1>15, <1>17, <1>25, <1>26, <1>27
<1>30. Total(Worth, New) = Total(Worth, P) + CoinbaseValue(b) - Fees(b) /\ Fees(b) \in Int
  BY <1>20, <1>21, <1>22, <1>28, <1>29
<1>31. QED
  BY <1>22, <1>23, <1>30 DEF New

(* What SupplyBounded says of one block, and that the sum is one over      *)
(* finitely many outputs that exist.                                       *)
Bounded(b) ==
  /\ sets[b].utxos \subseteq RealOutputs /\ IsFiniteSet(sets[b].utxos)
  /\ Total(Worth, sets[b].utxos) <= BlockReward * (sets[b].height + 1)

SupplyInv == \A b \in Block : Committed(b) => Bounded(b)

(* The coinbase limit of the block added keeps the bound.                  *)
LEMMA SupplyAdd ==
  ASSUME LedgerInv, SupplyInv, NEW b \in Block, AddBlock(b)
  PROVE  SupplyInv'
<1> DEFINE r == ValidateBlock(b, stored, sets, NoTip)
           P == ParentUTXOs(b, sets)
           h == NewHeight(b, sets)
<1>1. /\ r.code = "NONE" /\ r.utxos = NewUTXOs(b, P) /\ r.height = h
      /\ sets' = [sets EXCEPT ![b] = [utxos |-> r.utxos, height |-> r.height]]
      /\ sets \in [Block -> UTXOSet \cup {NoUTXO}]
  BY BlockResult DEF AddBlock, LedgerInv
<1>2. /\ Parents(b) /\ Passes(b, Below(b), P) /\ h \in Nat
  BY <1>1, AcceptedPasses
<1>3. /\ \A i \in DOMAIN Txids[b] : TxidError(b, i, stored, P, h) = "NONE"
      /\ ~ (CoinbaseValue(b) > BlockReward + Fees(b))
  BY <1>1, BlockPasses DEF CoinbaseLimit
<1>4. \A i \in Spenders(b) : Distinct(Txids[b][i])
  BY <1>3 DEF Spenders, TxidError, Distinct
<1>5. /\ P \in SUBSET RealOutputs /\ IsFiniteSet(P)
      /\ Total(Worth, P) \in Int /\ Total(Worth, P) <= BlockReward * h
  <2>1. CASE Previd[b] = nil
    <3>1. P = {} /\ h = 0
      BY <2>1 DEF ParentUTXOs, NewHeight
    <3>2. Total(Worth, {}) = 0 /\ IsFiniteSet({})
      BY FS_EmptySet, TotalFirst
    <3>3. BlockReward * 0 = 0
      BY FieldTypes
    <3>4. QED
      BY <3>1, <3>2, <3>3
  <2>2. CASE Previd[b] # nil
    <3>1. Bounded(Previd[b])
      BY <1>2, <2>2 DEF Parents, SupplyInv
    <3>2. P = sets[Previd[b]].utxos /\ h = sets[Previd[b]].height + 1
      BY <2>2 DEF ParentUTXOs, NewHeight
    <3>3. P \in SUBSET RealOutputs /\ IsFiniteSet(P) /\ Total(Worth, P) <= BlockReward * h
      BY <3>1, <3>2 DEF Bounded
    <3>4. Total(Worth, P) \in Int
      BY <3>3, WorthType, TotalFirst
    <3>5. QED
      BY <3>3, <3>4
  <2>3. QED
    BY <2>1, <2>2
<1>6. /\ Total(Worth, NewUTXOs(b, P)) = Total(Worth, P) + CoinbaseValue(b) - Fees(b)
      /\ NewUTXOs(b, P) \subseteq RealOutputs /\ IsFiniteSet(NewUTXOs(b, P))
      /\ CoinbaseValue(b) \in Int /\ Fees(b) \in Int
  BY <1>2, <1>4, <1>5, SupplyStep
<1>7. BlockReward \in Nat /\ BlockReward * (h + 1) = BlockReward * h + BlockReward
      /\ BlockReward * h \in Int
  BY <1>2, FieldTypes
<1>8. Total(Worth, NewUTXOs(b, P)) <= BlockReward * (h + 1)
  <2> DEFINE m == BlockReward * h
             n == BlockReward * (h + 1)
  <2>1. m \in Int /\ n = m + BlockReward /\ Total(Worth, P) <= m
    BY <1>5, <1>7
  <2> HIDE DEF m, n
  <2>2. Total(Worth, NewUTXOs(b, P)) <= n
    BY <1>3, <1>5, <1>6, <1>7, <2>1
  <2>3. QED
    BY <2>2 DEF n
<1>9. Bounded(b)'
  BY <1>1, <1>6, <1>8 DEF Bounded
<1>10. ASSUME NEW c \in Block, c # b, Committed(c)' PROVE Bounded(c)'
  BY <1>1, <1>10 DEF Committed, SupplyInv, Bounded
<1>11. QED
  BY <1>9, <1>10 DEF SupplyInv

(* The bound is invariant.                                                 *)
LEMMA SupplyLaw ==
  /\ Init => SupplyInv
  /\ LedgerInv /\ SupplyInv /\ [Next]_<<stored, sets>> => SupplyInv'
  /\ SupplyInv => SupplyBounded
<1>1. Init => SupplyInv
  BY DEF Init, SupplyInv, Committed
<1>2. SupplyInv /\ sets' = sets => SupplyInv'
  BY DEF SupplyInv, Bounded, Committed
<1>3. ASSUME LedgerInv, SupplyInv, [Next]_<<stored, sets>> PROVE SupplyInv'
  BY <1>2, <1>3, SupplyAdd DEF Next, AddTx, AddCoinbase
<1>4. SupplyInv => SupplyBounded
  <2> SUFFICES ASSUME SupplyInv, NEW b \in Block, Committed(b)
               PROVE  MapThenSumSet(Value, sets[b].utxos) <= BlockReward * (sets[b].height + 1)
    BY DEF SupplyBounded
  <2> DEFINE S == sets[b].utxos
  <2>1. S \in SUBSET RealOutputs /\ IsFiniteSet(S) /\ Total(Worth, S) <= BlockReward * (sets[b].height + 1)
    BY DEF SupplyInv, Bounded
  <2> HIDE DEF S
  <2>2. MapThenSumSet(Value, S) = Total(Worth, S)
    BY <2>1, ValueTotal
  <2>3. MapThenSumSet(Value, S) <= BlockReward * (sets[b].height + 1)
    BY ONLY <2>1, <2>2, Zenon
  <2>4. QED
    BY <2>3, Zenon DEF S
<1>5. QED
  BY <1>1, <1>3, <1>4


-----------------------------------------------------------------------------
(* Each stored UTXO set, although ValidateBlock computes it from the one   *)
(* of the parent only, is exactly what the whole chain made and did not    *)
(* spend, and its height is the number of blocks below.                    *)
THEOREM SetsExact == Spec => []UTXOExact
BY LedgerExact, LedgerInit, LedgerStep, PTL DEF Spec

(* No output is spent twice on the chain of a block that ValidateBlock has *)
(* accepted, within a block or across blocks, whatever the order in which  *)
(* objects come.                                                           *)
THEOREM SpendsUnique == Spec => []NoDoubleSpend
BY LedgerExact, LedgerInit, LedgerStep, PTL DEF Spec

(* What is unspent after a block that ValidateBlock has accepted is worth  *)
(* at most one reward per block of its chain: fees, coinbases and the      *)
(* limit on single blocks balance, whatever the chain.                     *)
THEOREM SupplyLimited == Spec => []SupplyBounded
BY LedgerInit, LedgerStep, SupplyLaw, PTL DEF Spec
=============================================================================
