------------------------------ MODULE MCLedger ------------------------------
(***************************************************************************)
(* An instance of LedgerStore whose objects pass or fail each check of     *)
(* validation.  BlockReward is 2.                                          *)
(*                                                                         *)
(*   g --- a(cb) --- b(cb2 t1 t3) --- e(t4)                                *)
(*               \-- c(t2) --- d(cb3)                                      *)
(*                                                                         *)
(* t1 and t2 spend cb, t3 spends t1, t4 spends cb2; t1 leaves a fee of 1,  *)
(* which cb2 takes.  The other blocks and transactions are invalid.        *)
(***************************************************************************)
EXTENDS LedgerStore

MCBlock == {"g", "a", "b", "c", "d", "e"} \cup
  { "replay",   \* spends cb again after b
    "own",      \* spends its own coinbase
    "fat",      \* coinbase above reward and fees
    "low",      \* coinbase of another height
    "second",   \* coinbase not first
    "nested",   \* lists a block among its transactions
    "void",     \* lists a transaction that cannot be read back
    "early",    \* not later than its parent
    "future",   \* later than the clock
    "nopow",    \* no proof of work
    "gen2",     \* no parent, but not the genesis block
    "orphan",   \* its parent does not exist
    "txparent"  \* its parent is a transaction
  }

MCPrevid == [x \in MCBlock |->
  CASE x \in {"g", "gen2"} -> "nil"
    [] x \in {"a", "nopow"} -> "g"
    [] x = "d" -> "c"
    [] x \in {"e", "replay"} -> "b"
    [] x = "orphan" -> "gh"
    [] x = "txparent" -> "t1"
    [] OTHER -> "a"]

MCCreated == [x \in MCBlock |->
  CASE x = "g" -> 0
    [] x \in {"a", "early"} -> 1
    [] x \in {"d", "e", "replay"} -> 3
    [] x = "future" -> 9
    [] OTHER -> 2]

MCPoW == [x \in MCBlock |-> x # "nopow"]

MCTxids == [x \in MCBlock |->
  CASE x = "a" -> <<"cb">>
    [] x = "b" -> <<"cb2", "t1", "t3">>
    [] x = "c" -> <<"t2">>
    [] x = "d" -> <<"cb3">>
    [] x = "e" -> <<"t4">>
    [] x = "replay" -> <<"t2">>
    [] x = "own" -> <<"cb2", "t4">>
    [] x = "fat" -> <<"cb4">>
    [] x = "low" -> <<"cb3">>
    [] x = "second" -> <<"t1", "cb2">>
    [] x = "nested" -> <<"g">>
    [] x = "void" -> <<"free">>
    [] OTHER -> <<>>]

MCTx == {"t1", "t2", "t3", "t4"} \cup
  { "inflate",  \* creates value
    "forged",   \* invalid signature
    "nosig",    \* no signature
    "absent",   \* an input without an outpoint
    "index",    \* no such output
    "twice",    \* the same input twice
    "ofblock",  \* spends an output of a block
    "free",     \* no inputs, and an output of value 0: valid
    "offree"    \* spends that output
  }

MCInputs == [x \in MCTx |->
  CASE x = "t3" -> <<<<"t1", 0>>>>
    [] x = "t4" -> <<<<"cb2", 0>>>>
    [] x = "index" -> <<<<"cb", 1>>>>
    [] x = "twice" -> <<<<"cb", 0>>, <<"cb", 0>>>>
    [] x = "ofblock" -> <<<<"g", 0>>>>
    [] x = "free" -> <<>>
    [] x = "offree" -> <<<<"free", 0>>>>
    [] OTHER -> <<<<"cb", 0>>>>]

MCSig == [x \in MCTx |->
  CASE x = "forged" -> <<"invalid">>
    [] x = "nosig" -> <<"missing">>
    [] x = "absent" -> <<"absent">>
    [] x = "twice" -> <<"valid", "valid">>
    [] x = "free" -> <<>>
    [] OTHER -> <<"valid">>]

MCOutputs == [x \in MCTx \cup {"cb", "cb2", "cb3", "cb4"} |->
  CASE x \in {"t1", "t3"} -> <<1>>
    [] x = "t2" -> <<1, 1>>
    [] x \in {"t4", "cb2", "inflate"} -> <<3>>
    [] x = "twice" -> <<4>>
    [] x = "cb4" -> <<5>>
    [] x \in {"free", "offree"} -> <<0>>
    [] OTHER -> <<2>>]

MCHeight == [cb |-> 1, cb2 |-> 2, cb3 |-> 3, cb4 |-> 2]

(* Chain is defined for chains that end.                                   *)
ASSUME \A b \in Block : b \in Chain[b]
=============================================================================
