---------------------------- MODULE LongestChain ----------------------------
(***************************************************************************)
(* What the node promises about its chaintip (isNewTip of ValidateBlock):  *)
(* blocks are committed after their parents, one above them, and the tip   *)
(* moves only to a committed block that is higher than the one it leaves,  *)
(* so that the first block seen at a height stays the tip.                 *)
(***************************************************************************)
EXTENDS Integers

CONSTANTS Block, Previd, nil

VARIABLES
  height,  \* height of each committed block, -1 for the others
  tip      \* the block at the tip, or nil

Init == height = [b \in Block |-> -1] /\ tip = nil

Commit(b) ==
  /\ height[b] = -1
  /\ \/ Previd[b] = nil /\ height' = [height EXCEPT ![b] = 0]
     \/ /\ Previd[b] \in Block /\ height[Previd[b]] >= 0
        /\ height' = [height EXCEPT ![b] = height[Previd[b]] + 1]
  /\ UNCHANGED tip

Adopt(b) ==
  /\ height[b] >= 0
  /\ tip = nil \/ height[b] > height[tip]
  /\ tip' = b
  /\ UNCHANGED height

Next == \E b \in Block : Commit(b) \/ Adopt(b)

Spec == Init /\ [][Next]_<<height, tip>>
=============================================================================
