------------------------------- MODULE Reorg --------------------------------
(***************************************************************************)
(* The body of HandleReorg (internal/core/manager.go), as a function of    *)
(* the two tips and the state it finds.  commitBlock never passes it the   *)
(* tip that it leaves (Node!HandleReorg); here it is given any two.        *)
(***************************************************************************)
EXTENDS Node

Id == HashID \cup {nil}

(* Mutant: both always do.                                                 *)
Down_Both(o, n) == [old |-> TRUE, new |-> TRUE]

(* Which of the two walks goes down a block: the one that is higher, or    *)
(* both.                                                                   *)
Down(o, n) == [old |-> utxo[o].height >= utxo[n].height,
               new |-> utxo[n].height >= utxo[o].height]

(* The walk of two ids to their common ancestor, and the blocks on its     *)
(* two sides; "stop" when a UTXO set is missing.                           *)
Walk[p \in Id \X Id] ==
  LET o == p[1]
      n == p[2]
      d == Down(o, n)
      w == Walk[<<IF d.old THEN Previd[o] ELSE o, IF d.new THEN Previd[n] ELSE n>>]
  IN  IF o = n THEN [end |-> "met", dead |-> {}, new |-> {}]
      ELSE IF ~ (o \in Block /\ n \in Block /\ HasUTXO(o) /\ HasUTXO(n))
        THEN [end |-> "stop", dead |-> {}, new |-> {}]
      ELSE [end  |-> w.end,
            dead |-> w.dead \cup (IF d.old THEN {o} ELSE {}),
            new  |-> w.new \cup (IF d.new THEN {n} ELSE {})]

TxsOf(blocks) == UNION {Ids(b) \cap Tx : b \in blocks}

(* The saved mempool before the sweep: the transactions of the blocks left *)
(* are added, then those of the blocks entered removed.                    *)
Repooled(o, n) ==
  (mempoolDisk \cup (TxsOf(Walk[<<o, n>>].dead) \cap objects)) \ TxsOf(Walk[<<o, n>>].new)

SpendableOn(n, x) == Ins(x) \subseteq utxo[n].utxos

(* The mempools that InitializeMempool may leave, n being the chaintip.    *)
Rebuilt(o, n) == Sweeps({x \in Repooled(o, n) : SpendableOn(n, x)}, objects)

-----------------------------------------------------------------------------
(* From any committed block to any other, on a node that is not in the     *)
(* middle of another change, HandleReorg gets to the fork point without    *)
(* running off the genesis block, takes exactly the blocks of the one      *)
(* chain and of the other, and leaves a mempool in which no transaction is *)
(* mined on the new chain and none is lost that was pooled or mined on the *)
(* old one, can be read back and can be mined on the new, unless one that  *)
(* is kept spends the same output.  With the empty id, which is what       *)
(* commitBlock passes, the walk stops at its first turn.                   *)
ReorgExact ==
  Quiet => \A o, n \in {b \in Block : HasUTXO(b)} :
    /\ Walk[<<o, n>>] = [end  |-> "met",
                         dead |-> Serial!Chain[o] \ Serial!Chain[n],
                         new  |-> Serial!Chain[n] \ Serial!Chain[o]]
    /\ \A kept \in Rebuilt(o, n) :
         /\ kept \cap Serial!ChainTxs(n) = {}
         /\ \A x \in (mempool \cup (Serial!ChainTxs(o) \cap Tx)) \ kept :
              \/ ~ Readable(x)
              \/ ~ SpendableOn(n, x)
              \/ \E y \in kept : Ins(x) \cap Ins(y) # {}
    /\ Walk[<<nil, n>>] = [end |-> "stop", dead |-> {}, new |-> {}]
=============================================================================
