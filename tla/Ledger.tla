------------------------------- MODULE Ledger -------------------------------
(***************************************************************************)
(* Objects of the Marabu chain and their validation (internal/types and    *)
(* internal/core/validation.go).                                           *)
(*                                                                         *)
(* An object is identified with its id, the hash of its canonical JSON;    *)
(* its fields are constant functions of the id.  The operators below take  *)
(* the parts of the node's state that the code reads while it validates    *)
(* (the stored objects, the stored UTXO sets, the chaintip, the outpoints  *)
(* spent in the mempool) and return the ValidationResult.                  *)
(***************************************************************************)
EXTENDS Integers, Sequences, FiniteSetsExt

CONSTANTS
  Tx,           \* ids of transactions
  Coinbase,     \* ids of coinbase transactions
  Block,        \* ids of blocks
  Ghost,        \* 64-digit ids that no object hashes to
  nil,          \* a nil *HashID, and the empty HashID ""
  DUMMY_HASH,   \* the id the code uses as a placeholder
  genesisHash,  \* the id a block without a parent must have
  Previd,       \* Block: the parent's id, or nil
  Created,      \* Block: its timestamp
  PoW,          \* Block: whether its id is at most the target
  Txids,        \* Block: the ids of its transactions
  Inputs,       \* Tx: the outpoints it spends, <<txid, index>>
  Sig,          \* Tx: for each input its signature, "valid", "invalid" or
                \* "missing", or "absent" if it has no outpoint
  Outputs,      \* Tx and Coinbase: the values of the outputs
  Height,       \* Coinbase: the height it is made for
  BlockReward,  \* what a block may create
  Now           \* the clock

HashID == Tx \cup Coinbase \cup Block \cup Ghost

Outpoint == HashID \X Nat

(* What unmarshalling guarantees of every object that reaches validation.  *)
(* An "inputs" array that is present has an element, but one that is       *)
(* absent leaves the transaction with no inputs.  An input without an      *)
(* outpoint gets through, with a nil Index.                                *)
ASSUME IdsDisjoint ==
  /\ Tx \cap Coinbase = {} /\ Tx \cap Block = {} /\ Tx \cap Ghost = {}
  /\ Coinbase \cap Block = {} /\ Coinbase \cap Ghost = {}
  /\ Block \cap Ghost = {}
  /\ nil \notin HashID
  /\ DUMMY_HASH \in Ghost
  /\ genesisHash \in HashID

ASSUME FieldTypes ==
  /\ Previd \in [Block -> HashID \cup {nil}]
  /\ Created \in [Block -> Nat]
  /\ PoW \in [Block -> BOOLEAN]
  /\ Txids \in [Block -> Seq(HashID)]
  /\ Inputs \in [Tx -> Seq(Outpoint)]
  /\ Sig \in [Tx -> Seq({"valid", "invalid", "missing", "absent"})]
  /\ \A t \in Tx : Len(Sig[t]) = Len(Inputs[t])
  /\ Outputs \in [Tx \cup Coinbase -> Seq(Nat)]
  /\ \A c \in Coinbase : Len(Outputs[c]) = 1
  /\ Height \in [Coinbase -> Nat]
  /\ BlockReward \in Nat
  /\ Now \in Nat

-----------------------------------------------------------------------------
(* Error codes of types.ErrorCode that validation returns; "PANIC" stands  *)
(* for the runtime panic of a failed type assertion or a nil pointer.      *)
Code == {"NONE", "UNKNOWN_OBJECT", "INVALID_TX_OUTPOINT",
         "INVALID_TX_SIGNATURE", "INVALID_TX_CONSERVATION",
         "INVALID_BLOCK_TIMESTAMP", "INVALID_BLOCK_POW", "INVALID_GENESIS",
         "INVALID_BLOCK_COINBASE", "INTERNAL_ERROR", "PANIC"}

(* A stored UTXO set.  An output is determined by its outpoint, so the map *)
(* from outpoints to outputs is the set of its keys.                       *)
UTXOSet == [utxos : SUBSET Outpoint, height : Nat]
NoUTXO  == [utxos |-> {}, height |-> -1]

Chaintip == [id : Block, height : Nat]
NoTip    == [id |-> nil, height |-> -1]

(* ValidationResult.  The fee is a function of the transaction.            *)
ValidationResult == [code : Code, missing : HashID \cup {nil},
                     utxos : SUBSET Outpoint, height : Nat,
                     isNewTip : BOOLEAN]

Fail(code, missing) ==
  [code |-> code, missing |-> missing, utxos |-> {}, height |-> 0,
   isNewTip |-> FALSE]
Valid == Fail("NONE", nil)

-----------------------------------------------------------------------------
Ids(b) == {Txids[b][i] : i \in DOMAIN Txids[b]}

Outs(x) ==
  IF x \in Tx \cup Coinbase
  THEN {<<x, k>> : k \in 0 .. Len(Outputs[x]) - 1}
  ELSE {}

Ins(x) ==
  IF x \in Tx THEN {Inputs[x][k] : k \in DOMAIN Inputs[x]} ELSE {}

Value(o) == Outputs[o[1]][o[2] + 1]

SumInputs(t)  == MapThenSumSet(LAMBDA k : Value(Inputs[t][k]), DOMAIN Inputs[t])
SumOutputs(t) == MapThenSumSet(LAMBDA k : Outputs[t][k], DOMAIN Outputs[t])
Fee(t)        == SumInputs(t) - SumOutputs(t)

-----------------------------------------------------------------------------
(* Whether getObject can give back a stored object: a transaction without  *)
(* inputs is written with "inputs": null, which TxInputs.UnmarshalJSON     *)
(* refuses.                                                                *)
Readable(x) == x \in Tx => Inputs[x] # <<>>

(* One turn of the loop of ValidateTransaction over the inputs.            *)
InputError(t, k, objs, spent) ==
  LET o == Inputs[t][k]
  IN  IF Sig[t][k] = "absent" THEN "PANIC"
      ELSE IF (\E j \in 1 .. k - 1 : Inputs[t][j] = o) \/ o \in spent
        THEN "INVALID_TX_OUTPOINT"
      ELSE IF o[1] \notin objs \/ ~ Readable(o[1]) THEN "UNKNOWN_OBJECT"
      ELSE IF o[1] \notin Tx \cup Coinbase THEN "INTERNAL_ERROR"
      ELSE IF o[2] >= Len(Outputs[o[1]]) THEN "INVALID_TX_OUTPOINT"
      ELSE IF Sig[t][k] = "missing" THEN "INVALID_TX_SIGNATURE"
      ELSE "NONE"

(* The first bad input decides.  A referenced transaction that is missing  *)
(* leaves MissingID empty: db.getObject returns leveldb.ErrNotFound, which *)
(* is not the core.ErrNotFound that is tested for.                         *)
ValidateTransaction(t, objs, spent) ==
  LET bad == {k \in DOMAIN Inputs[t] : InputError(t, k, objs, spent) # "NONE"}
  IN  IF bad # {} THEN Fail(InputError(t, Min(bad), objs, spent), nil)
      ELSE IF SumOutputs(t) > SumInputs(t)
        THEN Fail("INVALID_TX_CONSERVATION", nil)
      ELSE IF \E k \in DOMAIN Sig[t] : Sig[t][k] # "valid"
        THEN Fail("INVALID_TX_SIGNATURE", nil)
      ELSE Valid

ValidateCoinbase(c) == Valid

-----------------------------------------------------------------------------
(* Mutant: spent outputs are not deleted.                                  *)
UnspentAfter_Keep(b, i, parent) ==
  parent \cup UNION {Outs(Txids[b][j]) : j \in 1 .. i}

(* The map utxos of ValidateBlock after the first i transactions of b, if  *)
(* the loop gets that far from the parent's set: an outpoint is in it when *)
(* the parent has it and none of them spends it, or one of them makes it   *)
(* and none after that one spends it.                                      *)
UnspentAfter(b, i, parent) ==
  LET Spent(o) == {j \in 1 .. i : o \in Ins(Txids[b][j])}
      Made(o)  == {j \in 1 .. i : o \in Outs(Txids[b][j])}
  IN  {o \in parent \cup UNION {Outs(Txids[b][j]) : j \in 1 .. i} :
         \/ o \in parent /\ Spent(o) = {}
         \/ \E m \in Made(o) : \A s \in Spent(o) : s <= m}

NewUTXOs(b, parent) == UnspentAfter(b, Len(Txids[b]), parent)

SpendsOwnCoinbase(b, t) ==
  /\ Txids[b][1] \in Coinbase
  /\ \E o \in Ins(t) : o[1] = Txids[b][1]

(* Mutant: inputs are not looked up in the UTXO set.                       *)
TxidError_NoLookup(b, i, objs, parent, height) ==
  LET x == Txids[b][i]
  IN  IF x \notin objs THEN "UNKNOWN_OBJECT"
      ELSE IF x \in Coinbase /\ (i # 1 \/ Height[x] # height)
        THEN "INVALID_BLOCK_COINBASE"
      ELSE IF x \in Block THEN "INTERNAL_ERROR" ELSE "NONE"

(* Mutant: a transaction that is not stored is passed over.                *)
TxidError_NoFetch(b, i, objs, parent, height) ==
  LET x == Txids[b][i]
  IN  IF x \in Tx /\ ~ Ins(x) \subseteq UnspentAfter(b, i - 1, parent)
      THEN "INVALID_TX_OUTPOINT" ELSE "NONE"

(* One turn of the loop of ValidateBlock over the transactions, all        *)
(* earlier turns having passed.                                            *)
TxidError(b, i, objs, parent, height) ==
  LET x == Txids[b][i]
  IN  IF x \notin objs THEN "UNKNOWN_OBJECT"
      ELSE IF ~ Readable(x) THEN "INTERNAL_ERROR"
      ELSE IF x \in Tx
        THEN IF \/ SpendsOwnCoinbase(b, x)
                \/ ~ Ins(x) \subseteq UnspentAfter(b, i - 1, parent)
                \/ \E j, k \in DOMAIN Inputs[x] : j < k /\ Inputs[x][j] = Inputs[x][k]
             THEN "INVALID_TX_OUTPOINT" ELSE "NONE"
      ELSE IF x \in Coinbase
        THEN IF i # 1 \/ Height[x] # height
             THEN "INVALID_BLOCK_COINBASE" ELSE "NONE"
      ELSE "INTERNAL_ERROR"

CoinbaseValue(b) ==
  IF Txids[b] # <<>> /\ Txids[b][1] \in Coinbase
  THEN Outputs[Txids[b][1]][1] ELSE 0

Fees(b) == MapThenSumSet(LAMBDA i : Fee(Txids[b][i]),
                         {i \in DOMAIN Txids[b] : Txids[b][i] \in Tx})

(* Mutant: the value of the coinbase counts among the fees.                *)
CoinbaseLimit_Own(b) == BlockReward + Fees(b) + CoinbaseValue(b)

CoinbaseLimit(b) == BlockReward + Fees(b)

(* The checks of ValidateBlock before its loop, in their order.            *)
HeaderError(b, objs, utxo) ==
  IF Created[b] > Now THEN "INVALID_BLOCK_TIMESTAMP"
  ELSE IF ~ PoW[b] THEN "INVALID_BLOCK_POW"
  ELSE IF Previd[b] = nil
    THEN IF b # genesisHash THEN "INVALID_GENESIS" ELSE "NONE"
  ELSE IF Previd[b] \notin objs THEN "UNKNOWN_OBJECT"
  ELSE IF ~ Readable(Previd[b]) THEN "INTERNAL_ERROR"
  ELSE IF Previd[b] \notin Block THEN "PANIC"
  ELSE IF Created[b] <= Created[Previd[b]] THEN "INVALID_BLOCK_TIMESTAMP"
  ELSE IF utxo[Previd[b]] = NoUTXO THEN "UNKNOWN_OBJECT"
  ELSE "NONE"

ParentUTXOs(b, utxo) == IF Previd[b] = nil THEN {} ELSE utxo[Previd[b]].utxos

NewHeight(b, utxo) ==
  IF Previd[b] = nil THEN 0 ELSE utxo[Previd[b]].height + 1

(* Mutants: a block at the height of the tip replaces it; only a block two *)
(* above it does.                                                          *)
IsNewTip_Tie(height, tip)  == tip = NoTip \/ height >= tip.height
IsNewTip_Late(height, tip) == tip = NoTip \/ height > tip.height + 1

IsNewTip(height, tip) == tip = NoTip \/ height > tip.height

ValidateBlock(b, objs, utxo, tip) ==
  LET header == HeaderError(b, objs, utxo)
      parent == ParentUTXOs(b, utxo)
      height == NewHeight(b, utxo)
      Err(i) == TxidError(b, i, objs, parent, height)
      bad    == {i \in DOMAIN Txids[b] : Err(i) # "NONE"}
  IN  IF header # "NONE"
        THEN Fail(header, IF header = "UNKNOWN_OBJECT" THEN Previd[b] ELSE nil)
      ELSE IF bad # {}
        THEN Fail(Err(Min(bad)), IF Err(Min(bad)) = "UNKNOWN_OBJECT"
                                 THEN Txids[b][Min(bad)] ELSE nil)
      ELSE IF CoinbaseValue(b) > CoinbaseLimit(b)
        THEN Fail("INVALID_BLOCK_COINBASE", nil)
      ELSE [code |-> "NONE", missing |-> nil, utxos |-> NewUTXOs(b, parent),
            height |-> height, isNewTip |-> IsNewTip(height, tip)]

ValidateObject(x, objs, utxo, tip, spent) ==
  IF x \in Tx THEN ValidateTransaction(x, objs, spent)
  ELSE IF x \in Coinbase THEN ValidateCoinbase(x)
  ELSE ValidateBlock(x, objs, utxo, tip)

-----------------------------------------------------------------------------
(* InitializeMempool reads the saved transactions in the order of their    *)
(* keys and keeps those that are valid, on the active chain and free of    *)
(* conflict with the ones kept before.  These are the sets it may keep of  *)
(* the saved ones that are on the active chain; the others are deleted,    *)
(* but for those that loadMempool cannot read.                             *)
Sweeps(active, objs) ==
  LET valid == {x \in active : Readable(x) /\ ValidateTransaction(x, objs, {}).code = "NONE"}
  IN  {kept \in SUBSET valid :
         /\ \A x, y \in kept : x # y => Ins(x) \cap Ins(y) = {}
         /\ \A x \in valid \ kept : \E y \in kept : Ins(x) \cap Ins(y) # {}}
=============================================================================
