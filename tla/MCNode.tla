------------------------------- MODULE MCNode -------------------------------
(***************************************************************************)
(* Small instances of Node.  Ids are strings, "gh" is a ghost id.  t1 and  *)
(* t2 spend the output of the coinbase cb, t3 spends t1.                   *)
(***************************************************************************)
EXTENDS Reorg, TLC

Symmetry == Permutations(Peers)

MCInputs  == [x \in Tx |-> IF x = "t3" THEN <<<<"t1", 0>>>> ELSE <<<<"cb", 0>>>>]
MCSig     == [x \in Tx |-> <<"valid">>]
MCOutputs == [x \in Tx \cup Coinbase |-> IF x = "t2" THEN <<1, 1>> ELSE <<2>>]
MCHeight  == [x \in Coinbase |-> 1]

(* Families of blocks; the name of a family gives the transactions.        *)
(*                                                                         *)
(*   Fork   g --- a(cb) --- b(t1)         Side   g --- a(cb) --- b         *)
(*                      \-- c(t2) --- d                      \-- c(t2) --- d *)
(*                                                                         *)
(*   Reorg  g --- a(cb) --- b(t1)         Line   g --- a(cb) --- b(t1)     *)
(*                      \-- c --- d                                        *)
(*                                                                         *)
(*   Pool   g --- a(cb) --- c --- d(t1), and o with the parent DUMMY_HASH, *)
(*          q with the parent t1                                           *)
MCPrevid == [x \in Block |->
  CASE x = "g" -> nil
    [] x = "a" -> "g"
    [] x \in {"b", "c"} -> "a"
    [] x = "d" -> "c"
    [] x = "o" -> DUMMY_HASH
    [] x = "q" -> "t1"]

MCCreated == [x \in Block |->
  CASE x = "g" -> 0 [] x = "a" -> 1 [] x = "d" -> 3 [] OTHER -> 2]

MCPoW == [x \in Block |-> TRUE]

MCTxids(b, c) == [x \in Block |->
  CASE x = "a" -> <<"cb">> [] x = "b" -> b [] x = "c" -> c [] OTHER -> <<>>]

ForkTxids  == MCTxids(<<"t1">>, <<"t2">>)
SideTxids  == MCTxids(<<>>, <<"t2">>)
ReorgTxids == MCTxids(<<"t1">>, <<>>)
LineTxids  == MCTxids(<<"t1">>, <<>>)
PoolTxids  == [MCTxids(<<>>, <<>>) EXCEPT !["d"] = <<"t1">>]
=============================================================================
