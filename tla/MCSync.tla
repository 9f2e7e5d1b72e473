------------------------------- MODULE MCSync -------------------------------
(***************************************************************************)
(* Small instances of Sync: nodes A, B and C in a line.                    *)
(*                                                                         *)
(*   g --- a(cb1) --- b(cb2, t1)                                           *)
(*                \-- c(cb3)                                               *)
(***************************************************************************)
EXTENDS Sync

Both(n, m) == {<<n, m>>, <<m, n>>}
Two  == Both("A", "B")
Line == Both("A", "B") \cup Both("B", "C")

(* A has the chain up to a, or to g, and a transaction without inputs if   *)
(* there is one; B has g or nothing.                                       *)
SeedA == [n \in Node |-> CASE n = "A" -> {"g", "cb1", "a"} [] n = "B" -> {"g"} [] OTHER -> {}]
SeedG == [n \in Node |-> IF n = "A" THEN {"g"} \cup (Tx \cap {"free"}) ELSE {}]

(* What a seed has of it is pooled.                                        *)
Free == [n \in Node |-> Seed[n] \cap {"free"}]

MCPrevid  == [x \in Block |-> CASE x = "g" -> nil [] x = "a" -> "g" [] OTHER -> "a"]
MCCreated == [x \in Block |-> CASE x = "g" -> 0 [] x = "a" -> 1 [] OTHER -> 2]
MCPoW     == [x \in Block |-> TRUE]
MCTxids   == [x \in Block |-> CASE x = "g" -> <<>> [] x = "a" -> <<"cb1">>
                                [] x = "b" -> <<"cb2", "t1">> [] x = "c" -> <<"cb3">>]
MCInputs  == [x \in Tx |-> IF x = "free" THEN <<>> ELSE <<<<"cb1", 0>>>>]
MCSig     == [x \in Tx |-> IF x = "free" THEN <<>> ELSE <<"valid">>]
MCOutputs == [x \in Tx \cup Coinbase |->
                CASE x = "t2" -> <<1, 1>> [] x = "free" -> <<0>> [] OTHER -> <<2>>]
MCHeight  == [x \in Coinbase |-> IF x = "cb1" THEN 1 ELSE 2]
=============================================================================
