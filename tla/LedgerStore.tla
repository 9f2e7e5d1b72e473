---------------------------- MODULE LedgerStore -----------------------------
(***************************************************************************)
(* The serial ledger: one object after the other is validated and stored   *)
(* in one step, as if ValidateObject and CommitObject ran under a lock.    *)
(* It is the abstract specification of what the concurrent Node does to    *)
(* its objects and UTXO sets; the mempool and the chaintip are not in it.  *)
(***************************************************************************)
EXTENDS Ledger

VARIABLES
  stored,  \* ids of the stored objects
  sets     \* the UTXO set of each block, or NoUTXO

Init == stored = {} /\ sets = [b \in Block |-> NoUTXO]

(* The mempool may make ValidateTransaction stricter, never laxer.         *)
AddTx(t) ==
  /\ ValidateTransaction(t, stored, {}).code = "NONE"
  /\ stored' = stored \cup {t}
  /\ UNCHANGED sets

AddCoinbase(c) ==
  /\ ValidateCoinbase(c).code = "NONE"
  /\ stored' = stored \cup {c}
  /\ UNCHANGED sets

AddBlock(b) ==
  LET r == ValidateBlock(b, stored, sets, NoTip)
  IN  /\ r.code = "NONE"
      /\ stored' = stored \cup {b}
      /\ sets' = [sets EXCEPT ![b] = [utxos |-> r.utxos, height |-> r.height]]

Next ==
  \/ \E t \in Tx : AddTx(t)
  \/ \E c \in Coinbase : AddCoinbase(c)
  \/ \E b \in Block : AddBlock(b)

Spec == Init /\ [][Next]_<<stored, sets>>

-----------------------------------------------------------------------------
Committed(b) == sets[b] # NoUTXO

(* The chain of a block, from the blocks alone.                            *)
Chain[b \in Block] ==
  {b} \cup (IF Previd[b] \in Block THEN Chain[Previd[b]] ELSE {})

Depth(b) == Cardinality(Chain[b]) - 1

ChainTxs(b) == UNION {Ids(c) : c \in Chain[b]}

(* The UTXO set stored for a block, computed from its parent's set only,   *)
(* is what its whole chain made and did not spend, at the height that the  *)
(* chain is long.                                                          *)
UTXOExact ==
  \A b \in Block : Committed(b) =>
    /\ sets[b].utxos = (UNION {Outs(x) : x \in ChainTxs(b)})
                         \ (UNION {Ins(x) : x \in ChainTxs(b)})
    /\ sets[b].height = Depth(b)

(* No output is spent twice on the chain of a committed block.             *)
NoDoubleSpend ==
  \A b \in Block : Committed(b) =>
    \A c, d \in Chain[b] : \A i \in DOMAIN Txids[c], j \in DOMAIN Txids[d] :
      <<c, i>> # <<d, j>> => Ins(Txids[c][i]) \cap Ins(Txids[d][j]) = {}

(* The coinbase limit of single blocks bounds the money supply: what is    *)
(* unspent after a block is at most one reward per block of its chain.     *)
SupplyBounded ==
  \A b \in Block : Committed(b) =>
    MapThenSumSet(Value, sets[b].utxos) <= BlockReward * (sets[b].height + 1)
=============================================================================
