----------------------------- MODULE NodeProofs -----------------------------
(***************************************************************************)
(* Proofs about Node.  For any objects and peers, with crashes: its types, *)
(* the integrity of its store, that a stored UTXO set never changes, that  *)
(* the miner works on the chaintip, that what it does to its objects and   *)
(* UTXO sets is what the serial ledger does, whose chains and money supply *)
(* are thus its own, and that the body of HandleReorg is right where the   *)
(* saved mempool is complete.  For a node on which one goroutine handles   *)
(* objects (Alone): its mempool, HandleReorg and the longest-chain rule,   *)
(* with crashes, and, without them, the highest chaintip, the pending      *)
(* blocks and, where blocks form one chain, a mempool that is minable and  *)
(* loses nothing that is.                                                  *)
(***************************************************************************)
EXTENDS Reorg, LedgerProofs, SequenceTheorems

-----------------------------------------------------------------------------
(* What a goroutine has in its hand at each step.                          *)
PcOK(t) ==
  /\ pc[t] \in {"built", "spent", "active", "poolDisk", "poolAdd"} => obj[t] \in Tx
  /\ pc[t] \in {"putUTXO", "readTip", "putTip", "cancel", "unpoolDisk",
                "unpoolMem", "clean", "pend", "mined"} => obj[t] \in Block
  /\ pc[t] \in {"accept", "commit", "resolve"} => obj[t] \in Objects
  /\ pc[t] = "pend" => res[t].missing \in HashID
  /\ pc[t] = "unpoolMem" => todo[t] # <<>>
  /\ pc[t] = "revalidate" => frames[t] # <<>>

TypeInv == TypeOK /\ \A t \in Thread : PcOK(t)

(* The locals of every thread other than t are as they were.               *)
Others(t) ==
  \A s \in Thread \ {t} :
    /\ pc'[s] = pc[s] /\ obj'[s] = obj[s] /\ res'[s] = res[s]
    /\ frames'[s] = frames[s] /\ todo'[s] = todo[s]

(* A set pushed on a stack of sets gives a stack.                          *)
LEMMA PushType ==
  ASSUME NEW S, NEW e \in S, NEW q \in Seq(S)
  PROVE  <<e>> \o q \in Seq(S)
<1>1. <<e>> \in Seq(S)
  OBVIOUS
<1>2. QED
  BY <1>1, ConcatProperties

(* Validation returns a ValidationResult, and names what a block lacks.    *)
LEMMA ValidateType ==
  ASSUME TypeOK, NEW x \in Objects
  PROVE  /\ Validate(x) \in ValidationResult
         /\ Validate(x).code = "UNKNOWN_OBJECT" /\ x \in Block => Validate(x).missing \in HashID
<1>1. CASE x \in Tx
  BY <1>1, TransactionResult, IdsDisjoint DEF Validate, ValidateObject
<1>2. CASE x \in Coinbase
  BY <1>2, ValidType, IdsDisjoint DEF Validate, ValidateObject, ValidateCoinbase
<1>3. CASE x \in Block
  <2>1. Validate(x) = ValidateBlock(x, objects, utxo, chaintip)
    BY <1>3, IdsDisjoint DEF Validate, ValidateObject
  <2>2. utxo \in [Block -> UTXOSet \cup {NoUTXO}]
    BY DEF TypeOK
  <2>3. QED
    BY <1>3, <2>1, <2>2, BlockResult
<1>4. QED
  BY <1>1, <1>2, <1>3 DEF Objects

(* Returning to a stack of calls keeps the types of t's locals.            *)
LEMMA ReturnType ==
  ASSUME TypeOK, NEW t \in Thread, NEW stack \in Seq(SUBSET Block), Return(t, stack)
  PROVE  /\ pc' \in [Thread -> PC] /\ obj' \in [Thread -> Objects \cup {nil}]
         /\ res' \in [Thread -> ValidationResult]
         /\ frames' \in [Thread -> Seq(SUBSET Block)]
         /\ \A s \in Thread \ {t} : /\ pc'[s] = pc[s] /\ obj'[s] = obj[s]
                                    /\ res'[s] = res[s] /\ frames'[s] = frames[s]
         /\ pc'[t] = "idle" \/ (pc'[t] = "revalidate" /\ frames'[t] # <<>>)
<1>1. CASE stack = <<>>
  BY <1>1, ValidType DEF TypeOK, Return, Goto, PC
<1>2. CASE stack # <<>>
  BY <1>2 DEF TypeOK, Return, Goto, PC
<1>3. QED
  BY <1>1, <1>2

(* So does acting on a validation (handleObject, resolvePendingBlocks).    *)
LEMMA DispatchType ==
  ASSUME TypeOK, NEW t \in Thread, NEW x \in Objects, PcOK(t),
         NEW stack \in Seq(SUBSET Block), Dispatch(t, x, Validate(x), stack)
  PROVE  /\ pc' \in [Thread -> PC] /\ obj' \in [Thread -> Objects \cup {nil}]
         /\ res' \in [Thread -> ValidationResult]
         /\ frames' \in [Thread -> Seq(SUBSET Block)]
         /\ todo' = todo /\ isReorg' = isReorg /\ up' \in BOOLEAN
         /\ Others(t) /\ PcOK(t)'
<1> DEFINE r == Validate(x)
<1>0. r \in ValidationResult /\ (r.code = "UNKNOWN_OBJECT" /\ x \in Block => r.missing \in HashID)
  BY ValidateType
<1> HIDE DEF r
<1>1. CASE Panic
  BY <1>1 DEF Panic, local, TypeOK, Others, PcOK
<1>2. CASE /\ Goto(t, "accept")
           /\ obj' = [obj EXCEPT ![t] = x] /\ res' = [res EXCEPT ![t] = r]
           /\ frames' = [frames EXCEPT ![t] = stack]
           /\ UNCHANGED <<todo, isReorg, up>>
  BY <1>0, <1>2 DEF TypeOK, Others, PcOK, Goto, PC
<1>3. CASE /\ r.code = "UNKNOWN_OBJECT" /\ x \in Block
           /\ Goto(t, "pend")
           /\ obj' = [obj EXCEPT ![t] = x] /\ res' = [res EXCEPT ![t] = r]
           /\ frames' = [frames EXCEPT ![t] = stack]
           /\ UNCHANGED <<todo, isReorg, up>>
  BY <1>0, <1>3 DEF TypeOK, Others, PcOK, Goto, PC
<1>4. CASE Return(t, stack) /\ UNCHANGED <<todo, isReorg, up>>
  BY <1>4, ReturnType DEF TypeOK, Others, PcOK
<1>5. QED
  BY <1>1, <1>2, <1>3, <1>4 DEF Dispatch, r

(* After a commit a thread goes on to its pending blocks, or is done.      *)
LEMMA CommittedType ==
  ASSUME TypeOK, NEW t \in Thread, obj[t] \in Objects, Committed(t)
  PROVE  /\ pc' \in [Thread -> PC] /\ obj' \in [Thread -> Objects \cup {nil}]
         /\ res' \in [Thread -> ValidationResult]
         /\ frames' \in [Thread -> Seq(SUBSET Block)]
         /\ \A s \in Thread \ {t} : /\ pc'[s] = pc[s] /\ obj'[s] = obj[s]
                                    /\ res'[s] = res[s] /\ frames'[s] = frames[s]
         /\ \/ pc'[t] = "idle" \/ (pc'[t] = "revalidate" /\ frames'[t] # <<>>)
            \/ pc'[t] = "resolve" /\ obj'[t] \in Objects
<1>1. CASE Return(t, <<>>)
  <2>1. <<>> \in Seq(SUBSET Block)
    OBVIOUS
  <2>2. QED
    BY <1>1, <2>1, ReturnType
<1>2. CASE Goto(t, "resolve") /\ UNCHANGED <<obj, res, frames>>
  BY <1>2 DEF TypeOK, Goto, PC
<1>3. QED
  BY <1>1, <1>2 DEF Committed

(* So do the steps of the miner.                                           *)
LEMMA MinerType ==
  ASSUME TypeInv, NEW t \in Thread, MinerStep(t)
  PROVE  TypeOK' /\ Others(t) /\ PcOK(t)'
<1> USE DEF TypeInv
<1>0. PcOK(t) /\ <<>> \in Seq(SUBSET Block)
  OBVIOUS
<1>1. CASE StartMining(t)
  BY <1>1 DEF StartMining, At, Goto, TypeOK, PcOK, Others, disk, memory, PC
<1>2. CASE BuildOnTip(t)
  <2>1. chaintip.id \in Block \cup {nil} /\ chaintip.height + 1 \in Nat
    BY DEF TypeOK, Chaintip, NoTip
  <2>2. template' \in Template
    BY <1>2, <2>1 DEF BuildOnTip, Template
  <2>3. QED
    BY <1>2, <2>2 DEF BuildOnTip, Goto, TypeOK, PcOK, Others, disk, memory, PC
<1>3. CASE BuildOfPool(t)
  <2>1. template' \in Template
    BY <1>3 DEF BuildOfPool, Template, TypeOK
  <2>2. QED
    BY <1>3, <2>1 DEF BuildOfPool, Goto, TypeOK, PcOK, Others, disk, memory, PC
<1>4. CASE FindNonce(t)
  <2>1. PICK b \in Block : /\ Txids[b][1] \in Coinbase
                           /\ obj' = [obj EXCEPT ![t] = b]
                           /\ objects' = objects \cup {Txids[b][1]}
    BY <1>4 DEF FindNonce, MinedBlock
  <2>2. QED
    BY <1>4, <2>1 DEF FindNonce, Goto, TypeOK, PcOK, Others, memory, mining, PC, Objects
<1>5. CASE AbortMining(t)
  BY <1>0, <1>5, ReturnType DEF AbortMining, TypeOK, PcOK, Others, disk, memory, mining
<1>6. CASE ValidateOwnBlock(t)
  <2>1. obj[t] \in Block /\ obj[t] \in Objects
    BY <1>0, <1>6 DEF ValidateOwnBlock, At, PcOK, Objects
  <2>2. PICK r \in ValidationResult : r = Validate(obj[t])
    BY <2>1, ValidateType
  <2>3. CASE /\ Goto(t, "commit") /\ res' = [res EXCEPT ![t] = r]
             /\ UNCHANGED <<obj, frames>>
    BY <1>6, <2>1, <2>3 DEF ValidateOwnBlock, Goto, TypeOK, PcOK, Others, disk, memory, mining, PC
  <2>4. CASE Return(t, <<>>)
    BY <1>0, <1>6, <2>4, ReturnType DEF ValidateOwnBlock, TypeOK, PcOK, Others, disk, memory, mining
  <2>5. QED
    BY <1>6, <2>2, <2>3, <2>4 DEF ValidateOwnBlock
<1>7. QED
  BY <1>1, <1>2, <1>3, <1>4, <1>5, <1>6 DEF MinerStep

(* Each step of a thread keeps the types, and leaves the other threads.    *)
LEMMA ThreadType ==
  ASSUME TypeInv, NEW t \in Thread, ThreadStep(t)
  PROVE  TypeOK' /\ Others(t) /\ PcOK(t)'
<1> USE DEF TypeInv, mining
<1>0. PcOK(t)
  OBVIOUS
<1>1. ASSUME NEW x \in Objects, HandleObject(t, x)
      PROVE  TypeOK' /\ Others(t) /\ PcOK(t)'
  <2>1. Dispatch(t, x, Validate(x), <<>>)
    BY <1>1 DEF HandleObject
  <2>2. UNCHANGED <<disk, mempool, mempoolSpentInputs, pendingBlocks, mining>>
    BY <1>1 DEF HandleObject
  <2>3. <<>> \in Seq(SUBSET Block)
    OBVIOUS
  <2>4. QED
    BY <1>0, <2>1, <2>2, <2>3, DispatchType DEF TypeOK, disk
<1>2. CASE BuildTx(t)
  BY <1>2 DEF BuildTx, At, Goto, TypeOK, PcOK, Others, disk, memory, PC, Objects
<1>3. CASE ValidateOwnTx(t)
  <2>1. CASE Goto(t, "commit") /\ UNCHANGED <<obj, res, frames>>
    BY <1>0, <1>3, <2>1 DEF ValidateOwnTx, At, Goto, TypeOK, PcOK, Others, disk, memory, PC, Objects
  <2>2. CASE Return(t, <<>>)
    <3>1. <<>> \in Seq(SUBSET Block)
      OBVIOUS
    <3>2. QED
      BY <1>3, <2>2, <3>1, ReturnType DEF ValidateOwnTx, TypeOK, PcOK, Others, disk, memory
  <2>3. QED
    BY <1>3, <2>1, <2>2 DEF ValidateOwnTx
<1>4. CASE AcceptObject(t)
  <2>1. CASE Goto(t, "commit") /\ UNCHANGED <<obj, res, frames>>
    BY <1>0, <1>4, <2>1 DEF AcceptObject, At, Goto, TypeOK, PcOK, Others, disk, memory, PC
  <2>2. CASE Return(t, frames[t])
    <3>1. frames[t] \in Seq(SUBSET Block)
      BY DEF TypeOK
    <3>2. QED
      BY <1>4, <2>2, <3>1, ReturnType DEF AcceptObject, TypeOK, PcOK, Others, disk, memory
  <2>3. QED
    BY <1>4, <2>1, <2>2 DEF AcceptObject
<1>5. CASE PutObject(t)
  <2>1. obj[t] \in Objects /\ objects' = objects \cup {obj[t]}
    BY <1>0, <1>5 DEF PutObject, At, PcOK
  <2>2. CASE Committed(t)
    BY <1>5, <2>1, <2>2, CommittedType DEF PutObject, TypeOK, PcOK, Others, memory
  <2>3. CASE /\ obj[t] \notin Coinbase
             /\ Goto(t, IF obj[t] \in Tx THEN "spent" ELSE "putUTXO")
             /\ UNCHANGED <<obj, res, frames>>
    BY <1>5, <2>1, <2>3 DEF PutObject, Goto, TypeOK, PcOK, Others, memory, PC, Objects
  <2>4. QED
    BY <1>5, <2>2, <2>3 DEF PutObject
<1>6. CASE CheckSpent(t) \/ CheckActive(t)
  <2>1. obj[t] \in Tx /\ UNCHANGED <<disk, memory, todo, isReorg, mining>>
    BY <1>0, <1>6 DEF CheckSpent, CheckActive, At, PcOK
  <2>2. CASE Committed(t)
    BY <2>1, <2>2, CommittedType DEF TypeOK, PcOK, Others, disk, memory, Objects
  <2>3. CASE (Goto(t, "active") \/ Goto(t, "poolDisk")) /\ UNCHANGED <<obj, res, frames>>
    BY <2>1, <2>3 DEF Goto, TypeOK, PcOK, Others, disk, memory, PC
  <2>4. QED
    BY <1>6, <2>2, <2>3 DEF CheckSpent, CheckActive
<1>7. CASE PoolPutDisk(t)
  BY <1>0, <1>7 DEF PoolPutDisk, At, Goto, TypeOK, PcOK, Others, memory, PC
<1>8. CASE PoolAdd(t)
  <2>1. obj[t] \in Tx
    BY <1>0, <1>8 DEF PoolAdd, At, PcOK
  <2>2. Ins(obj[t]) \in SUBSET Outpoint
    BY InsType
  <2>3. QED
    BY <1>8, <2>1, <2>2, CommittedType DEF PoolAdd, TypeOK, PcOK, Others, disk, Objects
<1>9. CASE PutUTXO(t)
  <2>1. obj[t] \in Block
    BY <1>0, <1>9 DEF PutUTXO, At, PcOK
  <2>2. [utxos |-> res[t].utxos, height |-> res[t].height] \in UTXOSet
    BY DEF TypeOK, ValidationResult, UTXOSet
  <2>3. Txids[obj[t]] \in Seq(HashID)
    BY <2>1, FieldTypes
  <2>4. QED
    BY <1>9, <2>1, <2>2, <2>3 DEF PutUTXO, Goto, TypeOK, PcOK, Others, memory, PC
<1>10. CASE ReadTip(t)
  <2>1. CASE Panic
    BY <1>0, <1>10, <2>1 DEF ReadTip, Panic, TypeOK, PcOK, Others, disk, local
  <2>2. CASE ~ Panic
    BY <1>0, <1>10, <2>2 DEF ReadTip, At, Goto, TypeOK, PcOK, Others, disk, PC
  <2>3. QED
    BY <2>1, <2>2
<1>11. CASE PutChaintip(t)
  <2>1. obj[t] \in Block /\ res[t].height \in Nat
    BY <1>0, <1>11 DEF PutChaintip, At, PcOK, TypeOK, ValidationResult
  <2>2. chaintip' \in Chaintip
    BY <1>11, <2>1 DEF PutChaintip, Chaintip
  <2>3. QED
    BY <1>11, <2>1, <2>2 DEF PutChaintip, Goto, TypeOK, PcOK, Others, memory, PC
<1>12. CASE UnpoolDisk(t)
  BY <1>0, <1>12 DEF UnpoolDisk, At, Goto, TypeOK, PcOK, Others, memory, PC
<1>13. CASE UnpoolMem(t)
  BY <1>0, <1>13 DEF UnpoolMem, At, Goto, TypeOK, PcOK, Others, disk, PC
<1>14. CASE CleanMempool(t)
  <2>1. obj[t] \in Objects
    BY <1>0, <1>14 DEF CleanMempool, At, PcOK, Objects
  <2>2. mempool' \subseteq mempool /\ mempoolSpentInputs' \subseteq mempoolSpentInputs
    BY <1>14 DEF CleanMempool
  <2>3. QED
    BY <1>14, <2>1, <2>2, CommittedType DEF CleanMempool, TypeOK, PcOK, Others, disk
<1>15. CASE FetchPendingBlocks(t)
  <2> DEFINE waiting == {b \in Block : <<obj[t], b>> \in pendingBlocks}
             stack == IF waiting = {} THEN frames[t] ELSE <<waiting>> \o frames[t]
  <2>1. frames[t] \in Seq(SUBSET Block) /\ waiting \in SUBSET Block
    BY DEF TypeOK
  <2>2. stack \in Seq(SUBSET Block)
    BY <2>1, PushType
  <2>3. Return(t, stack) /\ pendingBlocks' \subseteq pendingBlocks
    BY <1>15 DEF FetchPendingBlocks
  <2> HIDE DEF stack
  <2>4. QED
    BY <1>15, <2>2, <2>3, ReturnType DEF FetchPendingBlocks, TypeOK, PcOK, Others, disk
<1>16. CASE Revalidate(t)
  <2>1. frames[t] \in Seq(SUBSET Block) /\ frames[t] # <<>>
    BY <1>0, <1>16 DEF Revalidate, At, PcOK, TypeOK
  <2>2. PICK b \in Head(frames[t]) :
          LET rest == Head(frames[t]) \ {b}
          IN  Dispatch(t, b, Validate(b),
                       IF rest = {} THEN Tail(frames[t]) ELSE <<rest>> \o Tail(frames[t]))
    BY <1>16 DEF Revalidate
  <2> DEFINE rest == Head(frames[t]) \ {b}
             stack == IF rest = {} THEN Tail(frames[t]) ELSE <<rest>> \o Tail(frames[t])
  <2>3. Head(frames[t]) \in SUBSET Block /\ Tail(frames[t]) \in Seq(SUBSET Block)
    BY <2>1
  <2>4. stack \in Seq(SUBSET Block) /\ b \in Objects
    <3>1. rest \in SUBSET Block
      BY <2>3
    <3>2. <<rest>> \o Tail(frames[t]) \in Seq(SUBSET Block)
      BY <2>3, <3>1, PushType
    <3>3. QED
      BY <2>2, <2>3, <3>2 DEF Objects
  <2>5. Dispatch(t, b, Validate(b), stack)
    BY <2>2
  <2>6. UNCHANGED <<disk, mempool, mempoolSpentInputs, pendingBlocks, mining>>
    BY <1>16 DEF Revalidate
  <2> HIDE DEF stack
  <2>7. QED
    BY <1>0, <2>4, <2>5, <2>6, DispatchType DEF TypeOK, disk
<1>17. CASE AddPendingBlock(t)
  <2>1. <<res[t].missing, obj[t]>> \in HashID \X Block
    BY <1>0, <1>17 DEF AddPendingBlock, At, PcOK
  <2>2. frames[t] \in Seq(SUBSET Block)
    BY DEF TypeOK
  <2>3. QED
    BY <1>17, <2>1, <2>2, ReturnType DEF AddPendingBlock, TypeOK, PcOK, Others, disk
<1>18. CASE CancelMining(t)
  <2>1. obj[t] \in Block /\ isReorg' \in [Thread -> BOOLEAN] /\ cancelled' \in BOOLEAN
    BY <1>0, <1>18 DEF CancelMining, At, PcOK, TypeOK
  <2>2. CASE Committed(t) /\ todo' = [todo EXCEPT ![t] = <<>>]
    BY <1>18, <2>1, <2>2, CommittedType DEF CancelMining, TypeOK, PcOK, Others, disk, memory, Objects
  <2>3. CASE Goto(t, "unpoolDisk") /\ UNCHANGED <<obj, res, frames, todo>>
    BY <1>18, <2>1, <2>3 DEF CancelMining, Goto, TypeOK, PcOK, Others, disk, memory, PC
  <2>4. QED
    BY <1>18, <2>2, <2>3 DEF CancelMining, HandleReorg
<1>19. CASE MinerStep(t)
  BY <1>19, MinerType
<1>20. QED
  BY <1>1, <1>2, <1>3, <1>4, <1>5, <1>6, <1>7, <1>8, <1>9, <1>10, <1>11, <1>12,
     <1>13, <1>14, <1>15, <1>16, <1>17, <1>18, <1>19
  DEF ThreadStep, BusyStep

(* The empty template is a template.                                       *)
LEMMA NoTemplateType == NoTemplate \in Template
BY DEF NoTemplate, Template

(* TypeInv is inductive.                                                   *)
LEMMA TypeStep == TypeInv /\ [NodeNext]_vars => TypeInv'
<1> SUFFICES ASSUME TypeInv, [NodeNext]_vars
             PROVE  TypeInv'
  OBVIOUS
<1> USE DEF TypeInv
<1>1. ASSUME NEW t \in Thread, ThreadStep(t)
      PROVE  TypeInv'
  <2>1. TypeOK' /\ Others(t) /\ PcOK(t)'
    BY <1>1, ThreadType
  <2>2. ASSUME NEW s \in Thread \ {t}
        PROVE  PcOK(s)'
    BY <2>1 DEF Others, PcOK
  <2>3. QED
    BY <2>1, <2>2
<1>2. CASE ExpirePending
  BY <1>2 DEF ExpirePending, TypeOK, PcOK, disk, local, mining
<1>3. CASE CrashRestart
  <2>1. PICK kept \in SUBSET mempoolDisk :
          /\ mempool' = kept /\ mempoolDisk' \subseteq mempoolDisk
          /\ mempoolSpentInputs' = UNION {Ins(x) : x \in kept}
    BY <1>3 DEF CrashRestart, InitializeMempool, Sweeps
  <2>2. mempoolSpentInputs' \subseteq Outpoint
    BY <2>1, InsType
  <2>3. QED
    <3>1. up' \in BOOLEAN /\ cancelled' \in BOOLEAN /\ template' \in Template
      BY <1>3, NoTemplateType DEF CrashRestart
    <3>2. QED
      BY <1>3, <2>1, <2>2, <3>1, ValidType DEF CrashRestart, TypeOK, PcOK, PC
<1>4. CASE SetMiningCores
  BY <1>4 DEF SetMiningCores, TypeOK, PcOK, disk, memory, local
<1>5. CASE UNCHANGED vars
  BY <1>5 DEF vars, disk, memory, local, mining, TypeOK, PcOK
<1>6. QED
  BY <1>1, <1>2, <1>3, <1>4, <1>5 DEF NodeNext

(* A node starts with an empty store and idle threads.                     *)
LEMMA TypeInit == NodeInit => TypeInv
<1> SUFFICES ASSUME NodeInit
             PROVE  TypeInv
  OBVIOUS
<1>1. up \in BOOLEAN /\ cancelled \in BOOLEAN /\ template \in Template
  BY NoTemplateType DEF NodeInit
<1>2. QED
  BY <1>1, ValidType DEF NodeInit, TypeInv, TypeOK, PcOK, PC

(* The node's state has its types in every run: in particular nothing but  *)
(* blocks is parked or given a UTXO set, and what is pooled or saved in    *)
(* the mempool are transactions.                                           *)
THEOREM TypeCorrect == NodeSpec => []TypeOK
<1>1. TypeInv => TypeOK
  BY DEF TypeInv
<1>2. QED
  BY <1>1, TypeInit, TypeStep, PTL DEF NodeSpec

-----------------------------------------------------------------------------
ResultSet(r) == [utxos |-> r.utxos, height |-> r.height]

(* What a goroutine took from its validation still holds when it commits.  *)
HandOK(t) ==
  /\ pc[t] \in {"accept", "commit"} => Closed(obj[t])
  /\ pc[t] \in {"accept", "commit", "putUTXO"} /\ obj[t] \in Block =>
       Follows(obj[t], ResultSet(res[t]))
  /\ pc[t] = "putUTXO" => obj[t] \in objects
  /\ pc[t] \in {"readTip", "putTip"} =>
       HasUTXO(obj[t]) /\ utxo[obj[t]].height = res[t].height

StoreInv ==
  /\ StoreClosed /\ UTXOChained /\ TipBacked
  /\ \A t \in Thread : HandOK(t)

(* A validated object has all it refers to in the store, and a validated   *)
(* block a result that follows from its parent's stored set.               *)
LEMMA ValidateGives ==
  ASSUME TypeOK, NEW x \in Objects, Validate(x).code = "NONE"
  PROVE  Closed(x) /\ (x \in Block => Follows(x, ResultSet(Validate(x))))
<1>1. CASE x \in Tx
  <2>1. Validate(x) = ValidateTransaction(x, objects, mempoolSpentInputs)
    BY <1>1 DEF Validate, ValidateObject
  <2>2. \A o \in Ins(x) : o[1] \in objects
    BY <1>1, <2>1, TransactionResult
  <2>3. QED
    BY <1>1, <2>2, IdsDisjoint DEF Closed
<1>2. CASE x \in Coinbase
  BY <1>2, IdsDisjoint DEF Closed
<1>3. CASE x \in Block
  <2> DEFINE r == Validate(x)
  <2>1. r = ValidateBlock(x, objects, utxo, chaintip)
    BY <1>3, IdsDisjoint DEF Validate, ValidateObject
  <2>2. utxo \in [Block -> UTXOSet \cup {NoUTXO}]
    BY DEF TypeOK
  <2>3. /\ HeaderError(x, objects, utxo) = "NONE" /\ Ids(x) \subseteq objects
        /\ r.utxos = NewUTXOs(x, ParentUTXOs(x, utxo)) /\ r.height = NewHeight(x, utxo)
    BY <1>3, <2>1, <2>2, BlockResult
  <2> HIDE DEF r
  <2>4. Closed(x)
    BY <1>3, <2>3, IdsDisjoint DEF Closed, HeaderError
  <2>5. Follows(x, ResultSet(r))
    BY <2>3 DEF Follows, HeaderError, HasUTXO, ResultSet, ParentUTXOs, NewHeight
  <2>6. QED
    BY <2>4, <2>5 DEF r
<1>4. QED
  BY <1>1, <1>2, <1>3 DEF Objects

(* The store only grows.                                                   *)
Grows == /\ objects \subseteq objects'
         /\ \A b \in Block : HasUTXO(b) => utxo'[b] = utxo[b]

(* A growing store keeps what it made true of an object or a set.          *)
LEMMA GrowKeeps ==
  ASSUME Grows
  PROVE  /\ \A x : Closed(x) => Closed(x)'
         /\ \A b, u : Follows(b, u) => Follows(b, u)'
         /\ \A b \in Block : HasUTXO(b) => HasUTXO(b)' /\ utxo'[b] = utxo[b]
<1>1. \A x : Closed(x) => Closed(x)'
  BY DEF Grows, Closed
<1>2. \A b \in Block : HasUTXO(b) => HasUTXO(b)' /\ utxo'[b] = utxo[b]
  BY DEF Grows, HasUTXO
<1>3. \A b, u : Follows(b, u) => Follows(b, u)'
  BY <1>2 DEF Follows
<1>4. QED
  BY <1>1, <1>2, <1>3

(* Only four steps write the objects, the UTXO sets or the chaintip.       *)
LEMMA StoreWriters ==
  ASSUME NEW t \in Thread, ThreadStep(t)
  PROVE  \/ PutObject(t) \/ PutUTXO(t) \/ PutChaintip(t) \/ FindNonce(t)
         \/ UNCHANGED <<objects, utxo, chaintip>>
BY DEF ThreadStep, BusyStep, MinerStep, StartMining, BuildOnTip, BuildOfPool,
       AbortMining, ValidateOwnBlock, CancelMining, HandleObject, BuildTx, ValidateOwnTx, AcceptObject,
       CheckSpent, CheckActive, PoolPutDisk, PoolAdd, ReadTip, UnpoolDisk,
       UnpoolMem, CleanMempool, FetchPendingBlocks, Revalidate, AddPendingBlock, disk

(* Two goroutines that commit the same block store the same set: both are  *)
(* determined by the set of the parent, which is already stored.           *)
LEMMA ThreadGrows ==
  ASSUME TypeInv, StoreInv, NEW t \in Thread, ThreadStep(t)
  PROVE  Grows
<1>1. CASE PutObject(t)
  BY <1>1 DEF PutObject, Grows
<1>2. CASE PutUTXO(t)
  <2>1. pc[t] = "putUTXO" /\ obj[t] \in Block /\ utxo \in [Block -> UTXOSet \cup {NoUTXO}]
    BY <1>2 DEF PutUTXO, At, TypeInv, TypeOK, PcOK
  <2>2. Follows(obj[t], ResultSet(res[t]))
    BY <2>1 DEF StoreInv, HandOK
  <2>3. HasUTXO(obj[t]) => Follows(obj[t], utxo[obj[t]])
    BY <2>1 DEF StoreInv, UTXOChained
  <2>4. HasUTXO(obj[t]) => utxo[obj[t]] = ResultSet(res[t])
    BY <2>2, <2>3 DEF Follows
  <2>5. objects' = objects /\ utxo' = [utxo EXCEPT ![obj[t]] = ResultSet(res[t])]
    BY <1>2 DEF PutUTXO, ResultSet
  <2>6. QED
    BY <2>1, <2>4, <2>5 DEF Grows
<1>3. CASE PutChaintip(t)
  BY <1>3 DEF PutChaintip, Grows
<1>4. CASE FindNonce(t)
  BY <1>4 DEF FindNonce, Grows
<1>5. QED
  BY <1>1, <1>2, <1>3, <1>4, StoreWriters DEF Grows

(* A thread that takes up a validated object knows it to be closed.        *)
LEMMA DispatchHand ==
  ASSUME TypeOK, NEW t \in Thread, NEW x \in Objects, NEW stack \in Seq(SUBSET Block),
         HandOK(t), UNCHANGED <<objects, utxo>>, Dispatch(t, x, Validate(x), stack)
  PROVE  HandOK(t)'
<1> DEFINE r == Validate(x)
<1>1. CASE Panic
  BY <1>1 DEF Panic, local, HandOK, Closed, Follows, HasUTXO
<1>2. CASE /\ r.code = "NONE" /\ Goto(t, "accept")
           /\ obj' = [obj EXCEPT ![t] = x] /\ res' = [res EXCEPT ![t] = r]
  <2>1. Closed(x) /\ (x \in Block => Follows(x, ResultSet(r)))
    BY <1>2, ValidateGives
  <2>2. pc'[t] = "accept" /\ obj'[t] = x /\ res'[t] = r
    BY <1>2 DEF Goto, TypeOK
  <2> HIDE DEF r
  <2>3. QED
    BY <2>1, <2>2 DEF HandOK, Closed, Follows, HasUTXO
<1>3. CASE Goto(t, "pend")
  BY <1>3 DEF Goto, HandOK, TypeOK
<1>4. CASE Return(t, stack)
  BY <1>4, ReturnType DEF HandOK
<1>5. QED
  BY <1>1, <1>2, <1>3, <1>4 DEF Dispatch

(* Each step of a thread keeps what is known of the object in its hand.    *)
LEMMA ThreadHand ==
  ASSUME TypeInv, StoreInv, NEW t \in Thread, ThreadStep(t)
  PROVE  HandOK(t)'
<1> USE DEF TypeInv
<1>0. PcOK(t) /\ HandOK(t) /\ TypeOK /\ <<>> \in Seq(SUBSET Block)
  BY DEF StoreInv
<1>g. Grows
  BY ThreadGrows
<1>1. ASSUME NEW x \in Objects, HandleObject(t, x)
      PROVE  HandOK(t)'
  <2>1. <<>> \in Seq(SUBSET Block)
    OBVIOUS
  <2>2. QED
    BY <1>0, <1>1, <2>1, DispatchHand DEF HandleObject, disk
<1>2. CASE BuildTx(t)
  BY <1>0, <1>2 DEF BuildTx, Goto, HandOK, TypeOK
<1>3. CASE ValidateOwnTx(t)
  <2>1. CASE Validate(obj[t]).code = "NONE"
    <3>1. obj[t] \in Tx /\ obj[t] \in Objects /\ obj[t] \notin Block
      BY <1>0, <1>3, IdsDisjoint DEF ValidateOwnTx, At, PcOK, Objects
    <3>2. Closed(obj[t])
      BY <1>0, <2>1, <3>1, ValidateGives
    <3>3. pc'[t] = "commit" /\ obj' = obj
      BY <1>0, <1>3, <2>1 DEF ValidateOwnTx, Goto, TypeOK
    <3>4. QED
      BY <1>g, <3>1, <3>2, <3>3, GrowKeeps DEF HandOK
  <2>2. CASE Validate(obj[t]).code # "NONE"
    <3>1. <<>> \in Seq(SUBSET Block)
      OBVIOUS
    <3>2. Return(t, <<>>)
      BY <1>3, <2>2 DEF ValidateOwnTx
    <3>3. QED
      BY <1>0, <3>1, <3>2, ReturnType DEF HandOK
  <2>3. QED
    BY <2>1, <2>2
<1>4. CASE AcceptObject(t)
  <2>1. CASE obj[t] \in objects
    <3>1. Return(t, frames[t]) /\ frames[t] \in Seq(SUBSET Block)
      BY <1>0, <1>4, <2>1 DEF AcceptObject, TypeOK
    <3>2. QED
      BY <1>0, <3>1, ReturnType DEF HandOK
  <2>2. CASE obj[t] \notin objects
    <3>1. pc[t] = "accept" /\ pc'[t] = "commit" /\ obj' = obj /\ res' = res
      BY <1>0, <1>4, <2>2 DEF AcceptObject, At, Goto, TypeOK
    <3>2. QED
      BY <1>0, <1>g, <3>1, GrowKeeps DEF HandOK
  <2>3. QED
    BY <2>1, <2>2
<1>5. CASE PutObject(t)
  <2>1. pc[t] = "commit" /\ obj[t] \in Objects /\ obj[t] \in objects'
    BY <1>0, <1>5 DEF PutObject, At, PcOK
  <2>2. CASE Committed(t)
    BY <1>0, <2>1, <2>2, CommittedType DEF HandOK
  <2>3. CASE Goto(t, IF obj[t] \in Tx THEN "spent" ELSE "putUTXO") /\ UNCHANGED <<obj, res>>
    <3>1. pc'[t] \in {"spent", "putUTXO"} /\ obj' = obj /\ res' = res
      BY <1>0, <2>3 DEF Goto, TypeOK
    <3>2. QED
      BY <1>0, <1>g, <2>1, <3>1, GrowKeeps DEF HandOK
  <2>4. QED
    BY <1>5, <2>2, <2>3 DEF PutObject
<1>6. CASE CheckSpent(t) \/ CheckActive(t)
  <2>1. obj[t] \in Objects
    BY <1>0, <1>6 DEF CheckSpent, CheckActive, At, PcOK, Objects
  <2>2. CASE Committed(t)
    BY <1>0, <2>1, <2>2, CommittedType DEF HandOK
  <2>3. CASE Goto(t, "active") \/ Goto(t, "poolDisk")
    BY <1>0, <2>3 DEF Goto, HandOK, TypeOK
  <2>4. QED
    BY <1>6, <2>2, <2>3 DEF CheckSpent, CheckActive
<1>7. CASE PoolPutDisk(t)
  BY <1>0, <1>7 DEF PoolPutDisk, Goto, HandOK, TypeOK
<1>8. CASE PoolAdd(t) \/ CleanMempool(t)
  <2>1. obj[t] \in Objects /\ Committed(t)
    BY <1>0, <1>8 DEF PoolAdd, CleanMempool, At, PcOK, Objects
  <2>2. QED
    BY <1>0, <2>1, CommittedType DEF HandOK
<1>9. CASE PutUTXO(t)
  <2>1. /\ obj[t] \in Block /\ obj' = obj /\ res' = res /\ res[t].height \in Nat
        /\ pc'[t] \in {"readTip", "unpoolDisk"}
    BY <1>0, <1>9 DEF PutUTXO, At, Goto, PcOK, TypeOK, ValidationResult
  <2>2. utxo'[obj[t]] = ResultSet(res[t])
    BY <1>0, <1>9, <2>1 DEF PutUTXO, ResultSet, TypeOK
  <2>3. utxo'[obj[t]] # NoUTXO /\ utxo'[obj[t]].height = res[t].height
    BY <2>1, <2>2 DEF ResultSet, NoUTXO
  <2>4. QED
    BY <2>1, <2>3 DEF HandOK, HasUTXO
<1>10. CASE ReadTip(t)
  <2>1. pc[t] = "readTip" /\ obj[t] \in Block /\ obj' = obj /\ res' = res
    BY <1>0, <1>10 DEF ReadTip, At, PcOK, Panic, local
  <2>2. pc'[t] \in {"readTip", "putTip"}
    BY <1>0, <1>10 DEF ReadTip, At, Goto, Panic, local, TypeOK
  <2>3. QED
    BY <1>0, <1>g, <2>1, <2>2, GrowKeeps DEF HandOK
<1>11. CASE PutChaintip(t)
  BY <1>0, <1>11 DEF PutChaintip, Goto, HandOK, TypeOK
<1>12. CASE UnpoolDisk(t) \/ UnpoolMem(t)
  BY <1>0, <1>12 DEF UnpoolDisk, UnpoolMem, Goto, HandOK, TypeOK
<1>13. CASE FetchPendingBlocks(t)
  <2>1. PICK stack \in Seq(SUBSET Block) : Return(t, stack)
    <3> DEFINE waiting == {b \in Block : <<obj[t], b>> \in pendingBlocks}
    <3>1. frames[t] \in Seq(SUBSET Block) /\ waiting \in SUBSET Block
      BY <1>0 DEF TypeOK
    <3>2. <<waiting>> \o frames[t] \in Seq(SUBSET Block)
      BY <3>1, PushType
    <3>3. Return(t, IF waiting = {} THEN frames[t] ELSE <<waiting>> \o frames[t])
      BY <1>13 DEF FetchPendingBlocks
    <3>4. QED
      BY <3>1, <3>2, <3>3
  <2>2. QED
    BY <1>0, <2>1, ReturnType DEF HandOK
<1>14. CASE Revalidate(t)
  <2>1. frames[t] \in Seq(SUBSET Block) /\ frames[t] # <<>>
    BY <1>0, <1>14 DEF Revalidate, At, PcOK, TypeOK
  <2>2. PICK b \in Head(frames[t]) :
          LET rest == Head(frames[t]) \ {b}
          IN  Dispatch(t, b, Validate(b),
                       IF rest = {} THEN Tail(frames[t]) ELSE <<rest>> \o Tail(frames[t]))
    BY <1>14 DEF Revalidate
  <2> DEFINE rest == Head(frames[t]) \ {b}
             stack == IF rest = {} THEN Tail(frames[t]) ELSE <<rest>> \o Tail(frames[t])
  <2>3. rest \in SUBSET Block /\ b \in Objects /\ Tail(frames[t]) \in Seq(SUBSET Block)
    BY <2>1, <2>2 DEF Objects
  <2>4. stack \in Seq(SUBSET Block)
    BY <2>3, PushType
  <2>5. Dispatch(t, b, Validate(b), stack)
    BY <2>2
  <2>6. UNCHANGED <<objects, utxo>>
    BY <1>14 DEF Revalidate, disk
  <2> HIDE DEF stack
  <2>7. QED
    BY <1>0, <2>3, <2>4, <2>5, <2>6, DispatchHand
<1>15. CASE AddPendingBlock(t)
  <2>1. Return(t, frames[t]) /\ frames[t] \in Seq(SUBSET Block)
    BY <1>0, <1>15 DEF AddPendingBlock, TypeOK
  <2>2. QED
    BY <1>0, <2>1, ReturnType DEF HandOK
<1>16. CASE CancelMining(t)
  <2>1. obj[t] \in Objects
    BY <1>0, <1>16 DEF CancelMining, At, PcOK, Objects
  <2>2. CASE Committed(t)
    BY <1>0, <2>1, <2>2, CommittedType DEF HandOK
  <2>3. CASE Goto(t, "unpoolDisk")
    BY <1>0, <2>3 DEF Goto, HandOK, TypeOK
  <2>4. QED
    BY <1>16, <2>2, <2>3 DEF CancelMining, HandleReorg
<1>17. CASE StartMining(t) \/ BuildOnTip(t) \/ BuildOfPool(t) \/ FindNonce(t)
  BY <1>0, <1>17 DEF StartMining, BuildOnTip, BuildOfPool, FindNonce, Goto, HandOK, TypeOK
<1>18. CASE AbortMining(t)
  BY <1>0, <1>18, ReturnType DEF AbortMining, HandOK
<1>19. CASE ValidateOwnBlock(t)
  <2>1. obj[t] \in Block /\ obj[t] \in Objects
    BY <1>0, <1>19 DEF ValidateOwnBlock, At, PcOK, Objects
  <2>2. PICK r : r = Validate(obj[t])
    OBVIOUS
  <2>3. CASE r.code = "NONE"
    <3>1. Closed(obj[t]) /\ Follows(obj[t], ResultSet(r))
      BY <1>0, <2>1, <2>2, <2>3, ValidateGives
    <3>2. pc'[t] = "commit" /\ obj' = obj /\ res'[t] = r
      BY <1>0, <1>19, <2>2, <2>3 DEF ValidateOwnBlock, Goto, TypeOK
    <3>3. QED
      BY <1>g, <3>1, <3>2, GrowKeeps DEF HandOK
  <2>4. CASE r.code # "NONE"
    <3>1. Return(t, <<>>)
      BY <1>19, <2>2, <2>4 DEF ValidateOwnBlock
    <3>2. QED
      BY <1>0, <3>1, ReturnType DEF HandOK
  <2>5. QED
    BY <2>3, <2>4
<1>20. QED
  BY <1>1, <1>2, <1>3, <1>4, <1>5, <1>6, <1>7, <1>8, <1>9, <1>10, <1>11, <1>12,
     <1>13, <1>14, <1>15, <1>16, <1>17, <1>18, <1>19
  DEF ThreadStep, BusyStep, MinerStep

(* StoreInv is inductive relative to TypeInv, and no step changes a stored *)
(* set.                                                                    *)
LEMMA StoreStep == TypeInv /\ StoreInv /\ [NodeNext]_vars => StoreInv' /\ Grows
<1> SUFFICES ASSUME TypeInv, StoreInv, [NodeNext]_vars
             PROVE  StoreInv' /\ Grows
  OBVIOUS
<1>1. ASSUME NEW t \in Thread, ThreadStep(t)
      PROVE  StoreInv' /\ Grows
  <2>g. Grows
    BY <1>1, ThreadGrows
  <2>h. HandOK(t)' /\ Others(t)
    BY <1>1, ThreadHand, ThreadType
  <2>t. TypeOK /\ PcOK(t) /\ HandOK(t)
    BY DEF TypeInv, StoreInv
  <2>1. StoreClosed'
    <3>1. \A x \in Coinbase : Closed(x)
      BY IdsDisjoint DEF Closed
    <3>2. objects' = objects \/ \E x : objects' = objects \cup {x} /\ Closed(x)
      <4>1. CASE FindNonce(t)
        BY <3>1, <4>1 DEF FindNonce, MinedBlock
      <4>2. CASE ~ FindNonce(t)
        BY <1>1, <2>t, <4>2, StoreWriters DEF PutObject, PutUTXO, PutChaintip, At, HandOK
      <4>3. QED
        BY <4>1, <4>2
    <3>3. QED
      BY <2>g, <3>2, GrowKeeps DEF StoreInv, StoreClosed
  <2>2. UTXOChained'
    <3>1. ASSUME NEW b \in Block, utxo'[b] # NoUTXO
          PROVE  b \in objects' /\ Follows(b, utxo[b])'
      <4>1. b \in objects /\ Follows(b, utxo'[b])
        <5>1. CASE HasUTXO(b)
          <6>1. utxo'[b] = utxo[b]
            BY <2>g, <5>1 DEF Grows
          <6>2. QED
            BY <5>1, <6>1 DEF StoreInv, UTXOChained
        <5>2. CASE ~ HasUTXO(b)
          <6>1. PutUTXO(t) /\ obj[t] = b
            BY <1>1, <2>t, <3>1, <5>2, StoreWriters DEF PutObject, PutUTXO, PutChaintip, FindNonce, HasUTXO, TypeOK
          <6>2. b \in objects /\ Follows(b, ResultSet(res[t]))
            BY <2>t, <6>1 DEF PutUTXO, At, HandOK
          <6>3. utxo'[b] = ResultSet(res[t])
            BY <2>t, <6>1 DEF PutUTXO, ResultSet, TypeOK
          <6>4. QED
            BY <6>2, <6>3
        <5>3. QED
          BY <5>1, <5>2
      <4>2. PICK u : u = utxo'[b]
        OBVIOUS
      <4>3. Follows(b, u)'
        BY <2>g, <4>1, <4>2, GrowKeeps
      <4>4. QED
        BY <2>g, <4>1, <4>2, <4>3 DEF Grows, Follows
    <3>2. QED
      BY <3>1 DEF UTXOChained, HasUTXO
  <2>3. TipBacked'
    <3>1. CASE PutChaintip(t)
      <4>1. /\ obj[t] \in Block /\ HasUTXO(obj[t]) /\ utxo[obj[t]].height = res[t].height
            /\ chaintip' = [id |-> obj[t], height |-> res[t].height]
        BY <2>t, <3>1 DEF PutChaintip, At, HandOK, PcOK
      <4>2. utxo'[obj[t]] = utxo[obj[t]]
        BY <2>g, <4>1 DEF Grows
      <4>3. QED
        BY <4>1, <4>2 DEF TipBacked, HasUTXO
    <3>2. CASE chaintip' = chaintip
      <4>1. chaintip # NoTip => /\ chaintip.id \in Block /\ HasUTXO(chaintip.id)
                                /\ utxo[chaintip.id].height = chaintip.height
        BY <2>t DEF TypeOK, Chaintip, StoreInv, TipBacked
      <4>2. chaintip # NoTip => utxo'[chaintip.id] = utxo[chaintip.id]
        BY <2>g, <4>1 DEF Grows
      <4>3. QED
        BY <3>2, <4>1, <4>2 DEF TipBacked, HasUTXO
    <3>3. QED
      BY <1>1, <3>1, <3>2, StoreWriters DEF PutObject, PutUTXO, FindNonce
  <2>4. ASSUME NEW s \in Thread \ {t}
        PROVE  HandOK(s)'
    <3>1. HandOK(s) /\ PcOK(s) /\ objects \subseteq objects'
      BY <2>g DEF StoreInv, TypeInv, Grows
    <3>2. pc'[s] = pc[s] /\ obj'[s] = obj[s] /\ res'[s] = res[s]
      BY <2>h DEF Others
    <3>3. QED
      BY <2>g, <3>1, <3>2, GrowKeeps DEF HandOK, PcOK
  <2>5. QED
    BY <2>g, <2>h, <2>1, <2>2, <2>3, <2>4 DEF StoreInv
<1>2. CASE ExpirePending \/ SetMiningCores \/ UNCHANGED vars
  <2>1. UNCHANGED <<objects, utxo, chaintip, pc, obj, res>>
    BY <1>2 DEF ExpirePending, SetMiningCores, vars, disk, local
  <2>2. QED
    BY <2>1 DEF StoreInv, StoreClosed, UTXOChained, TipBacked, HandOK, Closed, Follows, HasUTXO, Grows
<1>3. CASE CrashRestart
  <2>1. UNCHANGED <<objects, utxo, chaintip>> /\ \A t \in Thread : pc'[t] = "idle"
    BY <1>3 DEF CrashRestart
  <2>2. QED
    BY <2>1 DEF StoreInv, StoreClosed, UTXOChained, TipBacked, HandOK, Closed, Follows, HasUTXO, Grows
<1>4. QED
  BY <1>1, <1>2, <1>3 DEF NodeNext

(* An empty store is closed.                                               *)
LEMMA StoreInit == NodeInit => StoreInv
BY DEF NodeInit, StoreInv, StoreClosed, UTXOChained, TipBacked, HandOK, HasUTXO

(* However the goroutines interleave and wherever a crash cuts a commit,   *)
(* what is stored has all it refers to, every UTXO set follows from its    *)
(* parent's, and the chaintip names a block with a set at its height.      *)
THEOREM StoreIntegrity == NodeSpec => [](StoreClosed /\ UTXOChained /\ TipBacked)
<1>1. StoreInv => StoreClosed /\ UTXOChained /\ TipBacked
  BY DEF StoreInv
<1>2. QED
  BY <1>1, TypeInit, TypeStep, StoreInit, StoreStep, PTL DEF NodeSpec

(* Nothing stored refers to something that is not.                         *)
THEOREM NothingDangles == NodeSpec => []StoreClosed
BY StoreIntegrity, PTL

(* The chaintip names a block with a stored UTXO set, at its height.       *)
THEOREM TipAlwaysBacked == NodeSpec => []TipBacked
BY StoreIntegrity, PTL

(* No step, not even a second commit of the same block, changes a UTXO set *)
(* that is stored.                                                         *)
THEOREM SetsNeverChange == NodeSpec => UTXOStable
<1>1. TypeInv /\ StoreInv /\ [NodeNext]_vars =>
        [\A b \in Block : HasUTXO(b) => utxo'[b] = utxo[b]]_vars
  BY StoreStep DEF Grows
<1>2. QED
  BY <1>1, TypeInit, TypeStep, StoreInit, StoreStep, PTL DEF NodeSpec, UTXOStable

-----------------------------------------------------------------------------
(* A step of t that touches neither the chaintip nor the round of mining,  *)
(* and does not bring t to a step of the round that uses the template.     *)
Aside(t) ==
  /\ UNCHANGED <<chaintip, mining>> /\ up /\ pc[t] # "cancel"
  /\ up' => pc'[t] \notin {"buildPool", "mining"}

(* All steps of a thread but five are of that kind.                        *)
LEMMA ThreadAside ==
  ASSUME TypeInv, NEW t \in Thread, ThreadStep(t)
  PROVE  \/ PutChaintip(t) \/ CancelMining(t)
         \/ StartMining(t) \/ BuildOnTip(t) \/ BuildOfPool(t) \/ Aside(t)
<1>0. pc \in [Thread -> PC]
  BY DEF TypeInv, TypeOK
<1>1. ASSUME NEW label, Goto(t, label)
      PROVE  pc'[t] = label
  BY <1>0, <1>1 DEF Goto
<1>2. ASSUME NEW stack, Return(t, stack)
      PROVE  pc'[t] \in {"idle", "revalidate"}
  BY <1>1, <1>2 DEF Return
<1>3. Committed(t) => pc'[t] \in {"idle", "revalidate", "resolve"}
  BY <1>1, <1>2 DEF Committed
<1>4. ASSUME NEW x, NEW r, NEW stack, Dispatch(t, x, r, stack)
      PROVE  up' => pc'[t] \in {"idle", "revalidate", "accept", "pend"}
  BY <1>1, <1>2, <1>4 DEF Dispatch, Panic
<1>5. ASSUME NEW x \in Objects, HandleObject(t, x)
      PROVE  Aside(t)
  BY <1>4, <1>5 DEF HandleObject, Aside, At, disk
<1>6. CASE BuildTx(t) \/ ValidateOwnTx(t) \/ AcceptObject(t) \/ AbortMining(t)
  BY <1>1, <1>2, <1>6 DEF BuildTx, ValidateOwnTx, AcceptObject, AbortMining, Aside, At, disk
<1>7. CASE PutObject(t)
  <2>1. pc'[t] \in {"idle", "revalidate", "resolve", "spent", "putUTXO"}
    BY <1>1, <1>3, <1>7 DEF PutObject
  <2>2. QED
    BY <1>7, <2>1 DEF PutObject, Aside, At
<1>8. CASE CheckSpent(t) \/ CheckActive(t) \/ PoolPutDisk(t) \/ PoolAdd(t) \/ CleanMempool(t)
  BY <1>1, <1>3, <1>8 DEF CheckSpent, CheckActive, PoolPutDisk, PoolAdd, CleanMempool, Aside, At, disk
<1>9. CASE PutUTXO(t) \/ UnpoolDisk(t) \/ UnpoolMem(t)
  <2>1. pc'[t] \in {"readTip", "unpoolDisk", "unpoolMem", "clean"}
    BY <1>1, <1>9 DEF PutUTXO, UnpoolDisk, UnpoolMem
  <2>2. QED
    BY <1>9, <2>1 DEF PutUTXO, UnpoolDisk, UnpoolMem, Aside, At, disk
<1>10. CASE ReadTip(t)
  BY <1>1, <1>10 DEF ReadTip, Panic, Aside, At, disk
<1>11. CASE FetchPendingBlocks(t) \/ AddPendingBlock(t)
  BY <1>2, <1>11 DEF FetchPendingBlocks, AddPendingBlock, Aside, At, disk
<1>12. CASE Revalidate(t)
  BY <1>4, <1>12 DEF Revalidate, Aside, At, disk
<1>13. CASE FindNonce(t)
  BY <1>1, <1>13 DEF FindNonce, Aside, At
<1>14. CASE ValidateOwnBlock(t)
  BY <1>1, <1>2, <1>14 DEF ValidateOwnBlock, Aside, At, disk
<1>15. QED
  BY <1>5, <1>6, <1>7, <1>8, <1>9, <1>10, <1>11, <1>12, <1>13, <1>14
  DEF ThreadStep, BusyStep, MinerStep

(* TemplateFresh is inductive relative to TypeInv.                         *)
LEMMA FreshStep == TypeInv /\ TemplateFresh /\ [NodeNext]_vars => TemplateFresh'
<1> SUFFICES ASSUME TypeInv, TemplateFresh, [NodeNext]_vars, NEW m \in Miner,
                    up', pc'[m] \in {"buildPool", "mining"}, ~ cancelled',
                    \A u \in Thread : pc'[u] # "cancel"
             PROVE  template'.prev = chaintip'.id
  BY DEF TemplateFresh
<1>0. m \in Thread /\ pc \in [Thread -> PC] /\ template \in Template
  BY DEF Thread, TypeInv, TypeOK
<1>1. ASSUME NEW t \in Thread, ThreadStep(t)
      PROVE  template'.prev = chaintip'.id
  <2>0. Others(t)
    BY <1>1, ThreadType
  <2>1. CASE PutChaintip(t)
    BY <1>0, <2>1 DEF PutChaintip, Goto
  <2>2. CASE CancelMining(t)
    BY <2>2 DEF CancelMining
  <2>3. CASE StartMining(t)
    BY <1>0, <2>3, ThreadsAssumption DEF StartMining, Goto
  <2>4. CASE BuildOnTip(t)
    BY <2>4 DEF BuildOnTip, disk
  <2>5. CASE BuildOfPool(t) \/ Aside(t)
    <3>1. up /\ ~ cancelled /\ chaintip' = chaintip /\ pc[t] # "cancel"
      BY <2>5 DEF BuildOfPool, Aside, At, disk, mining
    <3>2. template'.prev = template.prev
      BY <1>0, <2>5 DEF BuildOfPool, Aside, mining, Template
    <3>3. pc[m] \in {"buildPool", "mining"}
      BY <1>0, <2>0, <2>5 DEF BuildOfPool, Aside, At, Others
    <3>4. \A u \in Thread : pc[u] # "cancel"
      BY <2>0, <3>1 DEF Others
    <3>5. QED
      BY <3>1, <3>2, <3>3, <3>4 DEF TemplateFresh
  <2>6. QED
    BY <1>1, <2>1, <2>2, <2>3, <2>4, <2>5, ThreadAside
<1>2. CASE ExpirePending \/ UNCHANGED vars
  <2>1. UNCHANGED <<chaintip, up, pc, cancelled, template>>
    BY <1>2 DEF ExpirePending, vars, disk, memory, local, mining
  <2>2. QED
    BY <2>1 DEF TemplateFresh
<1>3. CASE SetMiningCores
  BY <1>3 DEF SetMiningCores
<1>4. CASE CrashRestart
  BY <1>0, <1>4 DEF CrashRestart
<1>5. QED
  BY <1>1, <1>2, <1>3, <1>4 DEF NodeNext

(* The miner never works on a block that the chaintip has left: with any   *)
(* number of goroutines that move the tip between and during the reads of  *)
(* BuildBlock, the round is on the tip, or stopped, or about to be.        *)
THEOREM MiningFresh == NodeSpec => []TemplateFresh
<1>1. NodeInit => TemplateFresh
  BY DEF NodeInit, TemplateFresh, Thread
<1>2. QED
  BY <1>1, TypeInit, TypeStep, FreshStep, PTL DEF NodeSpec

-----------------------------------------------------------------------------
(* An object that validation accepts, as the store is now and whatever the *)
(* mempool and the chaintip are.                                           *)
Accepted(x) ==
  /\ x \in Tx => ValidateTransaction(x, objects, {}).code = "NONE"
  /\ x \in Block => ValidateBlock(x, objects, utxo, NoTip).code = "NONE"

(* The object that a thread is about to store is accepted still, although  *)
(* other threads have changed the store since it was validated.            *)
StillAccepted ==
  \A t \in Thread : pc[t] \in {"accept", "commit", "putUTXO"} => Accepted(obj[t])

(* What was validated is accepted.                                         *)
LEMMA ValidateAccepts ==
  ASSUME NEW x \in Objects, Validate(x).code = "NONE"
  PROVE  Accepted(x)
<1>1. ASSUME x \in Tx
      PROVE  ValidateTransaction(x, objects, {}).code = "NONE"
  <2>1. ValidateTransaction(x, objects, mempoolSpentInputs).code = "NONE"
    BY <1>1 DEF Validate, ValidateObject
  <2>2. QED
    BY <1>1, <2>1, TransactionKept
<1>2. ASSUME x \in Block
      PROVE  ValidateBlock(x, objects, utxo, NoTip).code = "NONE"
  <2>1. ValidateBlock(x, objects, utxo, chaintip).code = "NONE"
    BY <1>2, IdsDisjoint DEF Validate, ValidateObject
  <2>2. QED
    BY <1>2, <2>1, BlockPasses
<1>3. QED
  BY <1>1, <1>2 DEF Accepted

(* A growing store keeps it accepted: its parent's set is stored, and      *)
(* stored sets do not change.                                              *)
LEMMA GrowAccepts ==
  ASSUME Grows, NEW x, Accepted(x)
  PROVE  Accepted(x)'
<1>1. ASSUME x \in Tx
      PROVE  ValidateTransaction(x, objects', {}).code = "NONE"
  <2>1. ValidateTransaction(x, objects, {}).code = "NONE" /\ objects \subseteq objects'
    BY <1>1 DEF Accepted, Grows
  <2>2. QED
    BY <1>1, <2>1, TransactionKept
<1>2. ASSUME x \in Block
      PROVE  ValidateBlock(x, objects', utxo', NoTip).code = "NONE"
  <2>1. ValidateBlock(x, objects, utxo, NoTip).code = "NONE" /\ objects \subseteq objects'
    BY <1>2 DEF Accepted, Grows
  <2>2. HeaderError(x, objects, utxo) = "NONE"
    BY <1>2, <2>1, BlockPasses
  <2>3. Previd[x] # nil =>
          Previd[x] \in Block /\ Previd[x] \in objects /\ utxo[Previd[x]] # NoUTXO
    BY <2>2 DEF HeaderError
  <2>4. Previd[x] # nil => Previd[x] \in objects' /\ utxo'[Previd[x]] = utxo[Previd[x]]
    BY <2>1, <2>3 DEF Grows, HasUTXO
  <2>5. QED
    BY <1>2, <2>1, <2>4, BlockKept
<1>3. QED
  BY <1>1, <1>2 DEF Accepted

(* A thread comes to store an object only by a validation that passed,     *)
(* whose result it keeps for a block, or from an earlier step with the     *)
(* same object and result.                                                 *)
LEMMA ThreadTakes ==
  ASSUME TypeInv, NEW t \in Thread, ThreadStep(t), pc'[t] \in {"accept", "commit", "putUTXO"}
  PROVE  \/ /\ pc[t] \in {"accept", "commit", "putUTXO"}
            /\ obj'[t] = obj[t] /\ res'[t] = res[t]
         \/ /\ obj'[t] \in Objects /\ Validate(obj'[t]).code = "NONE"
            /\ obj'[t] \in Block => res'[t] = Validate(obj'[t])
<1> DEFINE Storing == {"accept", "commit", "putUTXO"}
           Takes == \/ pc[t] \in Storing /\ obj'[t] = obj[t] /\ res'[t] = res[t]
                    \/ /\ obj'[t] \in Objects /\ Validate(obj'[t]).code = "NONE"
                       /\ obj'[t] \in Block => res'[t] = Validate(obj'[t])
<1>0. /\ pc \in [Thread -> PC] /\ obj \in [Thread -> Objects \cup {nil}]
      /\ res \in [Thread -> ValidationResult] /\ PcOK(t)
  BY DEF TypeInv, TypeOK
<1>1. ASSUME NEW label, Goto(t, label)
      PROVE  pc'[t] = label
  BY <1>0, <1>1 DEF Goto
<1>2. ASSUME NEW stack, Return(t, stack)
      PROVE  FALSE
  BY <1>1, <1>2 DEF Return
<1>3. ~ Committed(t)
  BY <1>1, <1>2 DEF Committed
<1>4. ASSUME NEW x \in Objects, NEW stack, Dispatch(t, x, Validate(x), stack)
      PROVE  Takes
  <2> DEFINE r == Validate(x)
  <2>1. CASE Panic
    BY <2>1 DEF Panic, local
  <2>2. CASE /\ r.code = "NONE"
             /\ obj' = [obj EXCEPT ![t] = x] /\ res' = [res EXCEPT ![t] = r]
    <3>1. obj'[t] = x /\ res'[t] = r
      BY <1>0, <2>2
    <3>2. QED
      BY <2>2, <3>1
  <2>3. QED
    BY <1>1, <1>2, <1>4, <2>1, <2>2 DEF Dispatch
<1>5. ASSUME NEW x \in Objects, HandleObject(t, x)
      PROVE  Takes
  BY <1>4, <1>5 DEF HandleObject
<1>6. CASE Revalidate(t)
  <2>1. PICK b \in Head(frames[t]) : \E stack : Dispatch(t, b, Validate(b), stack)
    BY <1>6 DEF Revalidate
  <2>2. b \in Objects
    <3>1. frames[t] \in Seq(SUBSET Block) /\ frames[t] # <<>>
      BY <1>0, <1>6 DEF Revalidate, At, PcOK, TypeInv, TypeOK
    <3>2. QED
      BY <2>1, <3>1 DEF Objects
  <2>3. QED
    BY <1>4, <2>1, <2>2
<1>7. CASE ValidateOwnTx(t)
  BY <1>0, <1>2, <1>7, IdsDisjoint DEF ValidateOwnTx, At, PcOK, Objects
<1>8. CASE ValidateOwnBlock(t)
  <2>1. PICK r : r = Validate(obj[t])
    OBVIOUS
  <2>2. r.code = "NONE" /\ obj' = obj /\ res' = [res EXCEPT ![t] = r]
    BY <1>2, <1>8, <2>1 DEF ValidateOwnBlock
  <2>3. obj[t] \in Objects
    BY <1>0, <1>8 DEF ValidateOwnBlock, At, PcOK, Objects
  <2>4. QED
    BY <1>0, <2>1, <2>2, <2>3
<1>9. CASE AcceptObject(t)
  BY <1>2, <1>9 DEF AcceptObject, At
<1>10. CASE PutObject(t)
  BY <1>3, <1>10 DEF PutObject, At
<1>11. CASE BuildTx(t) \/ StartMining(t) \/ BuildOnTip(t) \/ BuildOfPool(t) \/ FindNonce(t)
  BY <1>1, <1>11 DEF BuildTx, StartMining, BuildOnTip, BuildOfPool, FindNonce
<1>12. CASE CheckSpent(t) \/ CheckActive(t) \/ PoolPutDisk(t) \/ PoolAdd(t) \/ CleanMempool(t)
  BY <1>1, <1>3, <1>12 DEF CheckSpent, CheckActive, PoolPutDisk, PoolAdd, CleanMempool
<1>13. CASE PutUTXO(t) \/ PutChaintip(t) \/ UnpoolDisk(t) \/ UnpoolMem(t)
  <2>1. pc'[t] \in {"readTip", "unpoolDisk", "cancel", "clean", "unpoolMem"}
    BY <1>1, <1>13 DEF PutUTXO, PutChaintip, UnpoolDisk, UnpoolMem
  <2>2. QED
    BY <2>1
<1>14. CASE ReadTip(t)
  BY <1>1, <1>14 DEF ReadTip, Panic, local, At
<1>15. CASE CancelMining(t)
  BY <1>1, <1>3, <1>15 DEF CancelMining, HandleReorg
<1>16. CASE AbortMining(t) \/ FetchPendingBlocks(t) \/ AddPendingBlock(t)
  BY <1>2, <1>16 DEF AbortMining, FetchPendingBlocks, AddPendingBlock
<1>17. QED
  BY <1>5, <1>6, <1>7, <1>8, <1>9, <1>10, <1>11, <1>12, <1>13, <1>14, <1>15, <1>16
  DEF ThreadStep, BusyStep, MinerStep

(* StillAccepted is inductive relative to TypeInv and StoreInv.            *)
LEMMA AcceptedStep ==
  TypeInv /\ StoreInv /\ StillAccepted /\ [NodeNext]_vars => StillAccepted'
<1> SUFFICES ASSUME TypeInv, StoreInv, StillAccepted, [NodeNext]_vars,
                    NEW s \in Thread, pc'[s] \in {"accept", "commit", "putUTXO"}
             PROVE  Accepted(obj[s])'
  BY DEF StillAccepted
<1>0. Grows
  BY StoreStep
<1>1. ASSUME Accepted(obj'[s])
      PROVE  Accepted(obj[s])'
  <2>1. PICK x : x = obj'[s]
    OBVIOUS
  <2>2. Accepted(x)'
    BY <1>0, <1>1, <2>1, GrowAccepts
  <2>3. QED
    BY <2>1, <2>2 DEF Accepted
<1>2. ASSUME NEW t \in Thread, ThreadStep(t)
      PROVE  Accepted(obj'[s])
  <2>1. CASE s = t
    <3>1. \/ pc[t] \in {"accept", "commit", "putUTXO"} /\ obj'[t] = obj[t]
          \/ obj'[t] \in Objects /\ Validate(obj'[t]).code = "NONE"
      BY <1>2, <2>1, ThreadTakes
    <3>2. QED
      BY <2>1, <3>1, ValidateAccepts DEF StillAccepted
  <2>2. CASE s # t
    <3>1. pc'[s] = pc[s] /\ obj'[s] = obj[s]
      BY <1>2, <2>2, ThreadType DEF Others
    <3>2. QED
      BY <3>1 DEF StillAccepted
  <2>3. QED
    BY <2>1, <2>2
<1>3. CASE ExpirePending \/ SetMiningCores \/ UNCHANGED vars
  <2>1. UNCHANGED <<pc, obj>>
    BY <1>3 DEF ExpirePending, SetMiningCores, vars, local
  <2>2. QED
    BY <1>1, <2>1 DEF StillAccepted
<1>4. CASE CrashRestart
  BY <1>4 DEF CrashRestart
<1>5. QED
  BY <1>1, <1>2, <1>3, <1>4 DEF NodeNext

-----------------------------------------------------------------------------
(* The objects that the serial ledger has.                                 *)
Kept == {x \in objects : x \in Block => HasUTXO(x)}

(* The serial ledger validates transactions as the node does,              *)
LEMMA SerialTransaction ==
  ASSUME NEW t, NEW objs, NEW spent
  PROVE  Serial!ValidateTransaction(t, objs, spent) = ValidateTransaction(t, objs, spent)
<1>1. Serial!SumInputs(t) = SumInputs(t)
  BY DEF Serial!SumInputs, SumInputs, Serial!MapThenSumSet, MapThenSumSet,
         Serial!MapThenFoldSet, MapThenFoldSet, Serial!Value, Value
<1>2. Serial!SumOutputs(t) = SumOutputs(t)
  BY DEF Serial!SumOutputs, SumOutputs, Serial!MapThenSumSet, MapThenSumSet,
         Serial!MapThenFoldSet, MapThenFoldSet
<1>3. \A k : Serial!InputError(t, k, objs, spent) = InputError(t, k, objs, spent)
  BY DEF Serial!InputError, InputError, Serial!Readable, Readable
<1>4. \A S : Serial!Min(S) = Min(S)
  BY DEF Serial!Min, Min
<1>5. QED
  BY <1>1, <1>2, <1>3, <1>4
  DEF Serial!ValidateTransaction, ValidateTransaction, Serial!Fail, Fail, Serial!Valid, Valid

(* and blocks.                                                             *)
LEMMA SerialBlock ==
  ASSUME NEW b, NEW objs, NEW sets, NEW tip
  PROVE  Serial!ValidateBlock(b, objs, sets, tip) = ValidateBlock(b, objs, sets, tip)
<1>1. Serial!HeaderError(b, objs, sets) = HeaderError(b, objs, sets)
  BY DEF Serial!HeaderError, HeaderError, Serial!Readable, Readable, Serial!NoUTXO, NoUTXO
<1>2. /\ Serial!ParentUTXOs(b, sets) = ParentUTXOs(b, sets)
      /\ Serial!NewHeight(b, sets) = NewHeight(b, sets)
  BY DEF Serial!ParentUTXOs, ParentUTXOs, Serial!NewHeight, NewHeight
<1>3. /\ \A x : Serial!Ins(x) = Ins(x) /\ Serial!Outs(x) = Outs(x)
      /\ \A i, P : Serial!UnspentAfter(b, i, P) = UnspentAfter(b, i, P)
  <2>1. \A x : Serial!Ins(x) = Ins(x) /\ Serial!Outs(x) = Outs(x)
    BY DEF Serial!Ins, Ins, Serial!Outs, Outs
  <2>2. QED
    BY <2>1 DEF Serial!UnspentAfter, UnspentAfter
<1>4. \A i, P, h : Serial!TxidError(b, i, objs, P, h) = TxidError(b, i, objs, P, h)
  BY <1>3 DEF Serial!TxidError, TxidError, Serial!Readable, Readable,
              Serial!SpendsOwnCoinbase, SpendsOwnCoinbase
<1>5. \A P : Serial!NewUTXOs(b, P) = NewUTXOs(b, P)
  BY <1>3 DEF Serial!NewUTXOs, NewUTXOs
<1>6. Serial!CoinbaseValue(b) = CoinbaseValue(b) /\ Serial!CoinbaseLimit(b) = CoinbaseLimit(b)
  <2>1. Serial!Fees(b) = Fees(b)
    BY DEF Serial!Fees, Fees, Serial!Fee, Fee, Serial!SumInputs, SumInputs,
           Serial!SumOutputs, SumOutputs, Serial!MapThenSumSet, MapThenSumSet,
           Serial!MapThenFoldSet, MapThenFoldSet, Serial!Value, Value
  <2>2. QED
    BY <2>1 DEF Serial!CoinbaseValue, CoinbaseValue, Serial!CoinbaseLimit, CoinbaseLimit
<1>7. \A S : Serial!Min(S) = Min(S)
  BY DEF Serial!Min, Min
<1>8. \A h : Serial!IsNewTip(h, tip) = IsNewTip(h, tip)
  BY DEF Serial!IsNewTip, IsNewTip, Serial!NoTip, NoTip
<1>9. \A code, missing : Serial!Fail(code, missing) = Fail(code, missing)
  BY DEF Serial!Fail, Fail
<1>10. QED
  BY <1>1, <1>2, <1>4, <1>5, <1>6, <1>7, <1>8, <1>9 DEF Serial!ValidateBlock, ValidateBlock

(* Storing a transaction or a coinbase is a step of the serial ledger;     *)
(* storing a block, before its UTXO set, is none yet.                      *)
LEMMA SerialPutObject ==
  ASSUME TypeInv, StoreInv, StillAccepted, NEW t \in Thread, PutObject(t)
  PROVE  Serial!Next \/ (Kept' = Kept /\ utxo' = utxo)
<1>1. PICK x \in Objects : Accepted(x) /\ objects' = objects \cup {x} /\ utxo' = utxo
  BY DEF PutObject, At, TypeInv, PcOK, StillAccepted
<1>2. CASE x \in Tx
  <2>1. Kept' = Kept \cup {x}
    BY <1>1, <1>2, IdsDisjoint DEF Kept, HasUTXO
  <2>2. ValidateTransaction(x, Kept, {}).code = "NONE"
    <3>1. \A y \in Tx \cup Coinbase : y \in objects => y \in Kept
      BY IdsDisjoint DEF Kept
    <3>2. ValidateTransaction(x, objects, {}).code = "NONE"
      BY <1>1, <1>2 DEF Accepted
    <3>3. QED
      BY <1>2, <3>1, <3>2, TransactionKept
  <2>3. Serial!AddTx(x)
    BY <1>1, <2>1, <2>2, SerialTransaction DEF Serial!AddTx, Kept
  <2>4. QED
    BY <1>2, <2>3 DEF Serial!Next
<1>3. CASE x \in Coinbase
  <2>1. Kept' = Kept \cup {x}
    BY <1>1, <1>3, IdsDisjoint DEF Kept, HasUTXO
  <2>2. Serial!AddCoinbase(x)
    BY <1>1, <2>1 DEF Serial!AddCoinbase, Serial!ValidateCoinbase, Serial!Valid, Serial!Fail, Kept
  <2>3. QED
    BY <1>3, <2>2 DEF Serial!Next
<1>4. CASE x \in Block
  <2>1. HasUTXO(x) => x \in objects
    BY <1>4 DEF StoreInv, UTXOChained
  <2>2. Kept' = Kept
    BY <1>1, <1>4, <2>1 DEF Kept, HasUTXO
  <2>3. QED
    BY <1>1, <2>2
<1>5. QED
  BY <1>1, <1>2, <1>3, <1>4 DEF Objects

(* Storing the UTXO set of a block is the step that adds the block: its    *)
(* validation, done before others changed the store, would pass now and    *)
(* give the same set.                                                      *)
LEMMA SerialPutUTXO ==
  ASSUME TypeInv, StoreInv, StillAccepted, NEW t \in Thread, PutUTXO(t)
  PROVE  Serial!Next
<1>1. PICK b \in Block :
        /\ b = obj[t] /\ b \in objects /\ Accepted(b) /\ Follows(b, ResultSet(res[t]))
        /\ utxo \in [Block -> UTXOSet \cup {NoUTXO}] /\ res[t].height \in Nat
  BY DEF PutUTXO, At, TypeInv, TypeOK, ValidationResult, PcOK, StillAccepted, StoreInv, HandOK
<1>2. objects' = objects /\ utxo' = [utxo EXCEPT ![b] = ResultSet(res[t])]
  BY <1>1 DEF PutUTXO, ResultSet
<1> DEFINE r == ValidateBlock(b, Kept, utxo, NoTip)
<1>3. r.code = "NONE"
  <2>1. ValidateBlock(b, objects, utxo, NoTip).code = "NONE"
    BY <1>1 DEF Accepted
  <2>2. \A y \in Tx \cup Coinbase : y \in objects => y \in Kept
    BY IdsDisjoint DEF Kept
  <2>3. HeaderError(b, objects, utxo) = "NONE"
    BY <1>1, <2>1, BlockPasses
  <2>4. Previd[b] # nil => Previd[b] \in Kept
    BY <2>3 DEF HeaderError, Kept, HasUTXO
  <2>5. QED
    BY <1>1, <2>1, <2>2, <2>4, BlockKept
<1>4. ResultSet(r) = ResultSet(res[t])
  <2>1. /\ HeaderError(b, Kept, utxo) = "NONE"
        /\ r.utxos = NewUTXOs(b, ParentUTXOs(b, utxo)) /\ r.height = NewHeight(b, utxo)
    BY <1>1, <1>3, BlockResult
  <2> HIDE DEF r
  <2>2. Follows(b, ResultSet(r))
    BY <2>1 DEF Follows, HeaderError, HasUTXO, ResultSet, ParentUTXOs, NewHeight
  <2>3. QED
    BY <1>1, <2>2 DEF Follows
<1>5. Kept' = Kept \cup {b}
  <2>1. ResultSet(res[t]) # NoUTXO
    BY <1>1 DEF ResultSet, NoUTXO
  <2>2. \A x \in Block : HasUTXO(x)' <=> x = b \/ HasUTXO(x)
    BY <1>1, <1>2, <2>1 DEF HasUTXO
  <2>3. QED
    BY <1>1, <1>2, <2>2 DEF Kept
<1>6. Serial!AddBlock(b)
  <2>1. Serial!ValidateBlock(b, Kept, utxo, Serial!NoTip) = r
    BY SerialBlock DEF Serial!NoTip, NoTip
  <2>2. utxo' = [utxo EXCEPT ![b] = [utxos |-> r.utxos, height |-> r.height]]
    BY <1>2, <1>4 DEF ResultSet
  <2> HIDE DEF r
  <2>3. QED
    BY <1>3, <1>5, <2>1, <2>2 DEF Serial!AddBlock, Kept
<1>7. QED
  BY <1>1, <1>6 DEF Serial!Next

(* Every step of the node is a step of the serial ledger or leaves it.     *)
LEMMA SerialStep ==
  TypeInv /\ StoreInv /\ StillAccepted /\ [NodeNext]_vars => [Serial!Next]_<<Kept, utxo>>
<1> SUFFICES ASSUME TypeInv, StoreInv, StillAccepted, [NodeNext]_vars
             PROVE  Serial!Next \/ (Kept' = Kept /\ utxo' = utxo)
  OBVIOUS
<1>0. UNCHANGED <<objects, utxo>> => Kept' = Kept /\ utxo' = utxo
  BY DEF Kept, HasUTXO
<1>1. ASSUME NEW t \in Thread, ThreadStep(t)
      PROVE  Serial!Next \/ (Kept' = Kept /\ utxo' = utxo)
  <2>1. CASE FindNonce(t)
    <3>1. PICK c \in Coinbase : objects' = objects \cup {c} /\ utxo' = utxo
      BY <2>1 DEF FindNonce, MinedBlock
    <3>2. Kept' = Kept \cup {c}
      BY <3>1, IdsDisjoint DEF Kept, HasUTXO
    <3>3. Serial!AddCoinbase(c)
      BY <3>1, <3>2 DEF Serial!AddCoinbase, Serial!ValidateCoinbase, Serial!Valid, Serial!Fail, Kept
    <3>4. QED
      BY <3>3 DEF Serial!Next
  <2>2. CASE PutChaintip(t)
    BY <1>0, <2>2 DEF PutChaintip
  <2>3. QED
    BY <1>0, <1>1, <2>1, <2>2, StoreWriters, SerialPutObject, SerialPutUTXO
<1>2. CASE ExpirePending \/ SetMiningCores \/ CrashRestart \/ UNCHANGED vars
  BY <1>0, <1>2 DEF ExpirePending, SetMiningCores, CrashRestart, vars, disk
<1>3. QED
  BY <1>1, <1>2 DEF NodeNext

(* Whatever the interleaving of the goroutines, what the node does to its  *)
(* objects and UTXO sets could have been done by validating and committing *)
(* one object after the other, although nothing locks the store between    *)
(* the validation of an object and its commit, and a crash may cut the     *)
(* commit anywhere.                                                        *)
THEOREM CommitsSerial == NodeSpec => SerialLedger
<1>1. NodeInit => Serial!Init
  BY DEF NodeInit, Serial!Init, Serial!NoUTXO, NoUTXO
<1>2. NodeInit => StillAccepted
  BY DEF NodeInit, StillAccepted
<1>3. TypeInv /\ StoreInv /\ StillAccepted /\ [NodeNext]_vars =>
        [Serial!Next]_<<{x \in objects : x \in Block => HasUTXO(x)}, utxo>>
  BY SerialStep DEF Kept
<1>4. QED
  BY <1>1, <1>2, <1>3, TypeInit, TypeStep, StoreInit, StoreStep, AcceptedStep, PTL
  DEF NodeSpec, SerialLedger, Serial!Spec

-----------------------------------------------------------------------------
(* The theorems about the serial ledger, for the node's objects and sets.  *)
Proved == INSTANCE LedgerStoreProofs WITH
            stored <- {x \in objects : x \in Block => HasUTXO(x)}, sets <- utxo

(* The two instances of the serial ledger have the same steps.             *)
LEMMA SameNext == Serial!Next => Proved!Next
<1>1. ASSUME NEW t, NEW objs, NEW spent
      PROVE  Proved!ValidateTransaction(t, objs, spent) = Serial!ValidateTransaction(t, objs, spent)
  BY DEF Proved!ValidateTransaction, Proved!InputError, Proved!Readable, Proved!SumInputs,
         Proved!SumOutputs, Proved!Value, Proved!MapThenSumSet, Proved!MapThenFoldSet,
         Proved!Min, Proved!Fail, Proved!Valid,
         Serial!ValidateTransaction, Serial!InputError, Serial!Readable, Serial!SumInputs,
         Serial!SumOutputs, Serial!Value, Serial!MapThenSumSet, Serial!MapThenFoldSet,
         Serial!Min, Serial!Fail, Serial!Valid
<1>2. ASSUME NEW b, NEW objs, NEW sets
      PROVE  Proved!ValidateBlock(b, objs, sets, Proved!NoTip)
               = Serial!ValidateBlock(b, objs, sets, Serial!NoTip)
  BY DEF Proved!ValidateBlock, Proved!HeaderError, Proved!ParentUTXOs, Proved!NewHeight,
         Proved!TxidError, Proved!Readable, Proved!SpendsOwnCoinbase, Proved!UnspentAfter,
         Proved!Ins, Proved!Outs, Proved!NewUTXOs, Proved!CoinbaseValue, Proved!CoinbaseLimit,
         Proved!Fees, Proved!Fee, Proved!SumInputs, Proved!SumOutputs, Proved!Value,
         Proved!MapThenSumSet, Proved!MapThenFoldSet, Proved!Min, Proved!Fail,
         Proved!IsNewTip, Proved!NoTip, Proved!NoUTXO,
         Serial!ValidateBlock, Serial!HeaderError, Serial!ParentUTXOs, Serial!NewHeight,
         Serial!TxidError, Serial!Readable, Serial!SpendsOwnCoinbase, Serial!UnspentAfter,
         Serial!Ins, Serial!Outs, Serial!NewUTXOs, Serial!CoinbaseValue, Serial!CoinbaseLimit,
         Serial!Fees, Serial!Fee, Serial!SumInputs, Serial!SumOutputs, Serial!Value,
         Serial!MapThenSumSet, Serial!MapThenFoldSet, Serial!Min, Serial!Fail,
         Serial!IsNewTip, Serial!NoTip, Serial!NoUTXO
<1>3. ASSUME NEW t, Serial!AddTx(t)
      PROVE  Proved!AddTx(t)
  BY <1>1, <1>3 DEF Serial!AddTx, Proved!AddTx
<1>4. ASSUME NEW c, Serial!AddCoinbase(c)
      PROVE  Proved!AddCoinbase(c)
  BY <1>4 DEF Serial!AddCoinbase, Proved!AddCoinbase, Proved!ValidateCoinbase,
              Proved!Valid, Proved!Fail
<1>5. ASSUME NEW b, Serial!AddBlock(b)
      PROVE  Proved!AddBlock(b)
  BY <1>2, <1>5 DEF Serial!AddBlock, Proved!AddBlock
<1>6. QED
  BY <1>3, <1>4, <1>5 DEF Serial!Next, Proved!Next

(* Their invariants hold of the node,                                      *)
LEMMA LedgerHolds == NodeSpec => [](Proved!LedgerInv /\ Proved!SupplyInv)
<1> DEFINE Same == <<{x \in objects : x \in Block => HasUTXO(x)}, utxo>>
<1>1. Serial!Init => Proved!Init
  BY DEF Serial!Init, Proved!Init, Serial!NoUTXO, Proved!NoUTXO
<1>2. [Serial!Next]_Same => [Proved!Next]_Same
  BY SameNext
<1>3. Proved!Init => Proved!LedgerInv /\ Proved!SupplyInv
  BY Proved!LedgerInit, Proved!SupplyLaw, IdsDisjoint, FieldTypes
  DEF Proved!HashID, HashID, Proved!Outpoint, Outpoint
<1>4. Proved!LedgerInv /\ [Proved!Next]_Same => Proved!LedgerInv'
  BY Proved!LedgerStep, IdsDisjoint, FieldTypes DEF Proved!HashID, HashID, Proved!Outpoint, Outpoint
<1>5. Proved!LedgerInv /\ Proved!SupplyInv /\ [Proved!Next]_Same => Proved!SupplyInv'
  BY Proved!SupplyLaw, IdsDisjoint, FieldTypes DEF Proved!HashID, HashID, Proved!Outpoint, Outpoint
<1>6. QED
  BY <1>1, <1>2, <1>3, <1>4, <1>5, CommitsSerial, PTL DEF SerialLedger, Serial!Spec

(* and with them what they say of the chains.                              *)
LEMMA LedgerSays ==
  /\ Proved!LedgerInv => Serial!UTXOExact /\ Serial!NoDoubleSpend
  /\ Proved!SupplyInv => Serial!SupplyBounded
<1>1. Proved!UTXOExact => Serial!UTXOExact
  BY DEF Proved!UTXOExact, Serial!UTXOExact, Proved!Committed, Serial!Committed,
         Proved!NoUTXO, Serial!NoUTXO, Proved!ChainTxs, Serial!ChainTxs, Proved!Ids, Serial!Ids,
         Proved!Chain, Serial!Chain, Proved!Outs, Serial!Outs, Proved!Ins, Serial!Ins,
         Proved!Depth, Serial!Depth, Proved!Cardinality, Serial!Cardinality
<1>2. Proved!NoDoubleSpend => Serial!NoDoubleSpend
  BY DEF Proved!NoDoubleSpend, Serial!NoDoubleSpend, Proved!Committed, Serial!Committed,
         Proved!NoUTXO, Serial!NoUTXO, Proved!Chain, Serial!Chain, Proved!Ins, Serial!Ins
<1>3. Proved!LedgerInv => Proved!UTXOExact /\ Proved!NoDoubleSpend
  BY Proved!LedgerExact, IdsDisjoint, FieldTypes DEF Proved!HashID, HashID, Proved!Outpoint, Outpoint
<1>4. Proved!SupplyInv => Proved!SupplyBounded
  BY Proved!SupplyLaw, IdsDisjoint, FieldTypes DEF Proved!HashID, HashID, Proved!Outpoint, Outpoint
<1>5. Proved!SupplyBounded => Serial!SupplyBounded
  <2>1. \A S : Proved!MapThenSumSet(Proved!Value, S) = Serial!MapThenSumSet(Serial!Value, S)
    BY DEF Proved!MapThenSumSet, Serial!MapThenSumSet, Proved!MapThenFoldSet,
           Serial!MapThenFoldSet, Proved!Value, Serial!Value
  <2>2. QED
    BY <2>1 DEF Proved!SupplyBounded, Serial!SupplyBounded, Proved!Committed, Serial!Committed,
                Proved!NoUTXO, Serial!NoUTXO
<1>6. QED
  BY <1>1, <1>2, <1>3, <1>4, <1>5

(* The UTXO set that any goroutine ever stores for a block is exactly what *)
(* the block's whole chain made and did not spend, at the height that the  *)
(* chain is long; no chain spends an output twice; and what is unspent is  *)
(* worth at most one reward per block: the properties of the serial ledger *)
(* hold of the concurrent node.                                            *)
THEOREM NodeLedgerExact ==
  NodeSpec => [](Serial!UTXOExact /\ Serial!NoDoubleSpend /\ Serial!SupplyBounded)
BY LedgerHolds, LedgerSays, PTL

-----------------------------------------------------------------------------
(* A node with one goroutine: what the rest of the module is about holds   *)
(* of it, and a second goroutine breaks it.                                *)
Alone == \A s, t \in Thread : s = t

(* While a transaction is on its way into the mempool nothing there spends *)
(* the same outputs.                                                       *)
PoolInv ==
  /\ MempoolConflictFree /\ SpentCovers
  /\ \A t \in Thread : pc[t] \in {"active", "poolDisk", "poolAdd"} =>
       Ins(obj[t]) \cap mempoolSpentInputs = {}

(* The saved mempool has what the one in memory has, but for the entry     *)
(* that is being removed from both.                                        *)
DiskInv ==
  /\ \A t \in Thread : pc[t] = "poolAdd" => obj[t] \in mempoolDisk
  /\ \A x \in mempool : x \in mempoolDisk \/
       \E t \in Thread : pc[t] = "unpoolMem" /\ x = Head(todo[t])

(* A step of t that does not touch the mempool, in memory or on disk, nor  *)
(* bring t to a step that does so on the strength of a check.              *)
PoolAside(t) ==
  /\ UNCHANGED <<mempool, mempoolSpentInputs, mempoolDisk>>
  /\ pc[t] # "unpoolMem"
  /\ pc'[t] \notin {"active", "poolDisk", "poolAdd", "unpoolMem"}

(* All steps of a thread but seven are of that kind.                       *)
LEMMA ThreadPool ==
  ASSUME TypeInv, NEW t \in Thread, ThreadStep(t)
  PROVE  \/ CheckSpent(t) \/ CheckActive(t) \/ PoolPutDisk(t) \/ PoolAdd(t)
         \/ UnpoolDisk(t) \/ UnpoolMem(t) \/ CleanMempool(t) \/ PoolAside(t)
<1>0. pc \in [Thread -> PC]
  BY DEF TypeInv, TypeOK
<1>1. ASSUME NEW label, Goto(t, label)
      PROVE  pc'[t] = label
  BY <1>0, <1>1 DEF Goto
<1>2. ASSUME NEW stack, Return(t, stack)
      PROVE  pc'[t] \in {"idle", "revalidate"}
  BY <1>1, <1>2 DEF Return
<1>3. Committed(t) => pc'[t] \in {"idle", "revalidate", "resolve"}
  BY <1>1, <1>2 DEF Committed
<1>4. ASSUME NEW x, NEW r, NEW stack, Dispatch(t, x, r, stack)
      PROVE  pc'[t] \in {pc[t], "idle", "revalidate", "accept", "pend"}
  BY <1>1, <1>2, <1>4 DEF Dispatch, Panic, local
<1>5. ASSUME NEW x \in Objects, HandleObject(t, x)
      PROVE  PoolAside(t)
  BY <1>4, <1>5 DEF HandleObject, PoolAside, At, disk
<1>6. CASE BuildTx(t) \/ ValidateOwnTx(t) \/ AcceptObject(t) \/ AbortMining(t)
  BY <1>1, <1>2, <1>6 DEF BuildTx, ValidateOwnTx, AcceptObject, AbortMining, PoolAside, At, disk, memory
<1>7. CASE PutObject(t)
  <2>1. pc'[t] \in {"idle", "revalidate", "resolve", "spent", "putUTXO"}
    BY <1>1, <1>3, <1>7 DEF PutObject
  <2>2. QED
    BY <1>7, <2>1 DEF PutObject, PoolAside, At, memory
<1>8. CASE PutUTXO(t) \/ PutChaintip(t)
  <2>1. pc'[t] \in {"readTip", "unpoolDisk", "cancel"}
    BY <1>1, <1>8 DEF PutUTXO, PutChaintip
  <2>2. QED
    BY <1>8, <2>1 DEF PutUTXO, PutChaintip, PoolAside, At, memory
<1>9. CASE ReadTip(t)
  BY <1>1, <1>9 DEF ReadTip, Panic, local, PoolAside, At, disk
<1>10. CASE CancelMining(t)
  <2>1. pc'[t] \in {"idle", "revalidate", "resolve", "unpoolDisk"}
    BY <1>1, <1>3, <1>10 DEF CancelMining, HandleReorg
  <2>2. QED
    BY <1>10, <2>1 DEF CancelMining, PoolAside, At, disk, memory
<1>11. CASE FetchPendingBlocks(t) \/ AddPendingBlock(t)
  BY <1>2, <1>11 DEF FetchPendingBlocks, AddPendingBlock, PoolAside, At, disk
<1>12. CASE Revalidate(t)
  BY <1>4, <1>12 DEF Revalidate, PoolAside, At, disk
<1>13. CASE StartMining(t) \/ BuildOnTip(t) \/ BuildOfPool(t) \/ FindNonce(t)
  BY <1>1, <1>13 DEF StartMining, BuildOnTip, BuildOfPool, FindNonce, PoolAside, At, disk, memory
<1>14. CASE ValidateOwnBlock(t)
  BY <1>1, <1>2, <1>14 DEF ValidateOwnBlock, PoolAside, At, disk, memory
<1>15. QED
  BY <1>5, <1>6, <1>7, <1>8, <1>9, <1>10, <1>11, <1>12, <1>13, <1>14
  DEF ThreadStep, BusyStep, MinerStep

(* PoolInv is inductive for one goroutine, with crashes.                   *)
LEMMA PoolStep == Alone /\ TypeInv /\ PoolInv /\ [NodeNext]_vars => PoolInv'
<1> SUFFICES ASSUME Alone, TypeInv, PoolInv, [NodeNext]_vars
             PROVE  PoolInv'
  OBVIOUS
<1>1. ASSUME NEW t \in Thread, ThreadStep(t)
      PROVE  PoolInv'
  <2>0. Thread = {t} /\ pc \in [Thread -> PC] /\ PcOK(t)
    BY DEF Alone, TypeInv, TypeOK
  <2>1. ASSUME NEW label, Goto(t, label)
        PROVE  pc'[t] = label
    BY <2>0, <2>1 DEF Goto
  <2>2. Committed(t) => pc'[t] \in {"idle", "revalidate", "resolve"}
    BY <2>1 DEF Committed, Return
  <2>3. CASE CheckSpent(t) \/ CheckActive(t) \/ PoolPutDisk(t)
    <3>1. UNCHANGED <<mempool, mempoolSpentInputs>>
      BY <2>3 DEF CheckSpent, CheckActive, PoolPutDisk, memory
    <3>2. pc'[t] \in {"active", "poolDisk", "poolAdd"} =>
            Ins(obj[t]) \cap mempoolSpentInputs = {} /\ obj'[t] = obj[t]
      BY <2>0, <2>1, <2>2, <2>3 DEF CheckSpent, CheckActive, PoolPutDisk, At, PoolInv
    <3>3. QED
      BY <2>0, <3>1, <3>2 DEF PoolInv, MempoolConflictFree, SpentCovers
  <2>4. CASE PoolAdd(t)
    <3>1. /\ mempool' = mempool \cup {obj[t]}
          /\ mempoolSpentInputs' = mempoolSpentInputs \cup Ins(obj[t])
          /\ Ins(obj[t]) \cap mempoolSpentInputs = {} /\ pc'[t] \in {"idle", "revalidate", "resolve"}
      BY <2>0, <2>2, <2>4 DEF PoolAdd, At, PoolInv
    <3>2. MempoolConflictFree'
      <4>1. \A y \in mempool : Ins(y) \cap Ins(obj[t]) = {}
        BY <3>1 DEF PoolInv, SpentCovers
      <4>2. QED
        BY <3>1, <4>1 DEF PoolInv, MempoolConflictFree
    <3>3. SpentCovers'
      BY <3>1 DEF PoolInv, SpentCovers
    <3>4. QED
      BY <2>0, <3>1, <3>2, <3>3 DEF PoolInv
  <2>5. CASE CleanMempool(t)
    <3>1. PICK stale \in SUBSET mempool :
            /\ mempool' = mempool \ stale
            /\ mempoolSpentInputs' = mempoolSpentInputs \ UNION {Ins(x) : x \in stale}
      <4> DEFINE stale == IF chaintip = NoTip \/ utxo[chaintip.id] = NoUTXO THEN {}
                          ELSE {x \in mempool : ~ InActiveUTXO(x)}
      <4>1. stale \in SUBSET mempool
        OBVIOUS
      <4>2. /\ mempool' = mempool \ stale
            /\ mempoolSpentInputs' = mempoolSpentInputs \ UNION {Ins(x) : x \in stale}
        BY <2>5 DEF CleanMempool
      <4> HIDE DEF stale
      <4>3. QED
        BY <4>1, <4>2
    <3>2. pc'[t] \in {"idle", "revalidate", "resolve"}
      BY <2>2, <2>5 DEF CleanMempool
    <3>3. \A x \in mempool', y \in stale : Ins(x) \cap Ins(y) = {}
      BY <3>1 DEF PoolInv, MempoolConflictFree
    <3>4. SpentCovers'
      BY <3>1, <3>3 DEF PoolInv, SpentCovers
    <3>5. QED
      BY <2>0, <3>1, <3>2, <3>4 DEF PoolInv, MempoolConflictFree
  <2>6. CASE UnpoolDisk(t) \/ UnpoolMem(t)
    <3>1. mempool' \subseteq mempool /\ mempoolSpentInputs' = mempoolSpentInputs
      BY <2>6 DEF UnpoolDisk, UnpoolMem, memory
    <3>2. pc'[t] \in {"clean", "unpoolMem", "unpoolDisk"}
      BY <2>1, <2>6 DEF UnpoolDisk, UnpoolMem
    <3>3. QED
      BY <2>0, <3>1, <3>2 DEF PoolInv, MempoolConflictFree, SpentCovers
  <2>7. CASE PoolAside(t)
    BY <2>0, <2>7 DEF PoolAside, PoolInv, MempoolConflictFree, SpentCovers
  <2>8. QED
    BY <1>1, <2>3, <2>4, <2>5, <2>6, <2>7, ThreadPool
<1>2. CASE ExpirePending \/ SetMiningCores \/ UNCHANGED vars
  <2>1. UNCHANGED <<mempool, mempoolSpentInputs, pc, obj>>
    BY <1>2 DEF ExpirePending, SetMiningCores, vars, memory, local
  <2>2. QED
    BY <2>1 DEF PoolInv, MempoolConflictFree, SpentCovers
<1>3. CASE CrashRestart
  <2>1. PICK kept : /\ mempool' = kept /\ mempoolSpentInputs' = UNION {Ins(x) : x \in kept}
                    /\ \A x, y \in kept : x # y => Ins(x) \cap Ins(y) = {}
    BY <1>3 DEF CrashRestart, InitializeMempool, Sweeps
  <2>2. \A t \in Thread : pc'[t] = "idle"
    BY <1>3 DEF CrashRestart
  <2>3. QED
    BY <2>1, <2>2 DEF PoolInv, MempoolConflictFree, SpentCovers
<1>4. QED
  BY <1>1, <1>2, <1>3 DEF NodeNext

(* So is DiskInv.                                                          *)
LEMMA DiskStep == Alone /\ TypeInv /\ DiskInv /\ [NodeNext]_vars => DiskInv'
<1> SUFFICES ASSUME Alone, TypeInv, DiskInv, [NodeNext]_vars
             PROVE  DiskInv'
  OBVIOUS
<1>1. ASSUME NEW t \in Thread, ThreadStep(t)
      PROVE  DiskInv'
  <2>0. Thread = {t} /\ pc \in [Thread -> PC] /\ PcOK(t)
    BY DEF Alone, TypeInv, TypeOK
  <2>1. ASSUME NEW label, Goto(t, label)
        PROVE  pc'[t] = label
    BY <2>0, <2>1 DEF Goto
  <2>2. Committed(t) => pc'[t] \in {"idle", "revalidate", "resolve"}
    BY <2>1 DEF Committed, Return
  <2>3. CASE CheckSpent(t) \/ CheckActive(t)
    <3>1. UNCHANGED <<mempool, mempoolDisk>> /\ pc[t] \in {"spent", "active"}
      BY <2>3 DEF CheckSpent, CheckActive, memory, disk, At
    <3>2. pc'[t] \notin {"poolAdd", "unpoolMem"}
      BY <2>1, <2>2, <2>3 DEF CheckSpent, CheckActive
    <3>3. QED
      BY <2>0, <3>1, <3>2 DEF DiskInv
  <2>4. CASE PoolPutDisk(t)
    <3>1. /\ mempool' = mempool /\ mempoolDisk' = mempoolDisk \cup {obj[t]}
          /\ pc[t] = "poolDisk" /\ obj' = obj
      BY <2>4 DEF PoolPutDisk, memory, At
    <3>2. QED
      BY <2>0, <3>1 DEF DiskInv
  <2>5. CASE PoolAdd(t)
    <3>1. /\ mempool' = mempool \cup {obj[t]} /\ mempoolDisk' = mempoolDisk
          /\ pc[t] = "poolAdd" /\ pc'[t] \in {"idle", "revalidate", "resolve"}
      BY <2>2, <2>5 DEF PoolAdd, disk, At
    <3>2. QED
      BY <2>0, <3>1 DEF DiskInv
  <2>6. CASE CleanMempool(t)
    <3>1. /\ mempool' \subseteq mempool /\ mempoolDisk' = mempoolDisk
          /\ pc[t] = "clean" /\ pc'[t] \in {"idle", "revalidate", "resolve"}
      BY <2>2, <2>6 DEF CleanMempool, disk, At
    <3>2. QED
      BY <2>0, <3>1 DEF DiskInv
  <2>7. CASE UnpoolDisk(t)
    <3>1. mempool' = mempool /\ todo' = todo /\ pc[t] = "unpoolDisk"
      BY <2>7 DEF UnpoolDisk, memory, At
    <3>2. \/ pc'[t] = "clean" /\ mempoolDisk' = mempoolDisk
          \/ pc'[t] = "unpoolMem" /\ mempoolDisk' = mempoolDisk \ {Head(todo[t])}
      BY <2>1, <2>7 DEF UnpoolDisk
    <3>3. QED
      BY <2>0, <3>1, <3>2 DEF DiskInv
  <2>8. CASE UnpoolMem(t)
    <3>1. /\ mempool' = mempool \ {Head(todo[t])} /\ mempoolDisk' = mempoolDisk
          /\ pc[t] = "unpoolMem" /\ pc'[t] = "unpoolDisk"
      BY <2>1, <2>8 DEF UnpoolMem, disk, At
    <3>2. QED
      BY <2>0, <3>1 DEF DiskInv
  <2>9. CASE PoolAside(t)
    BY <2>0, <2>9 DEF PoolAside, DiskInv
  <2>10. QED
    BY <1>1, <2>3, <2>4, <2>5, <2>6, <2>7, <2>8, <2>9, ThreadPool
<1>2. CASE ExpirePending \/ SetMiningCores \/ UNCHANGED vars
  <2>1. UNCHANGED <<mempool, mempoolDisk, pc, obj, todo>>
    BY <1>2 DEF ExpirePending, SetMiningCores, vars, memory, disk, local
  <2>2. QED
    BY <2>1 DEF DiskInv
<1>3. CASE CrashRestart
  <2>1. mempool' \subseteq mempoolDisk' /\ \A t \in Thread : pc'[t] = "idle"
    BY <1>3 DEF CrashRestart
  <2>2. QED
    BY <2>1 DEF DiskInv
<1>4. QED
  BY <1>1, <1>2, <1>3 DEF NodeNext

(* With one goroutine, and however often the process is killed, no two     *)
(* transactions of the mempool spend the same output: commitTransaction    *)
(* checks and adds without a lock, but nobody comes between.               *)
THEOREM PoolConflictFree ==
  ASSUME Alone
  PROVE  NodeSpec => []MempoolConflictFree
<1>1. NodeInit => PoolInv
  BY DEF NodeInit, PoolInv, MempoolConflictFree, SpentCovers
<1>2. TypeInv /\ PoolInv /\ [NodeNext]_vars => PoolInv'
  BY PoolStep
<1>3. PoolInv => MempoolConflictFree
  BY DEF PoolInv
<1>4. QED
  BY <1>1, <1>2, <1>3, TypeInit, TypeStep, PTL DEF NodeSpec

(* Nor does the index of spent inputs ever miss an input of the mempool:   *)
(* what CleanMempool takes out of it belonged to the evicted alone.        *)
THEOREM IndexCovers ==
  ASSUME Alone
  PROVE  NodeSpec => []SpentCovers
<1>1. NodeInit => PoolInv
  BY DEF NodeInit, PoolInv, MempoolConflictFree, SpentCovers
<1>2. TypeInv /\ PoolInv /\ [NodeNext]_vars => PoolInv'
  BY PoolStep
<1>3. PoolInv => SpentCovers
  BY DEF PoolInv
<1>4. QED
  BY <1>1, <1>2, <1>3, TypeInit, TypeStep, PTL DEF NodeSpec

(* The mempool in memory is on disk whenever the one goroutine is at rest, *)
(* so that a crash then loses nothing of it.                               *)
THEOREM SavedCovers ==
  ASSUME Alone
  PROVE  NodeSpec => []DiskCovers
<1>1. NodeInit => DiskInv
  BY DEF NodeInit, DiskInv
<1>2. TypeInv /\ DiskInv /\ [NodeNext]_vars => DiskInv'
  BY DiskStep
<1>3. DiskInv => DiskCovers
  BY DEF DiskInv, DiskCovers, Quiet
<1>4. QED
  BY <1>1, <1>2, <1>3, TypeInit, TypeStep, PTL DEF NodeSpec

-----------------------------------------------------------------------------
(* The steps of commitTransaction, after the write of the transaction.     *)
Adding == {"spent", "active", "poolDisk", "poolAdd"}

(* What is pooled or on its way there is stored, in memory and on disk,    *)
(* and what is stored was accepted, and would be again.                    *)
StoredInv ==
  /\ \A x \in objects \cap Tx : Accepted(x)
  /\ mempool \subseteq objects /\ mempoolDisk \subseteq objects
  /\ \A t \in Thread : pc[t] \in Adding => obj[t] \in objects

(* How a thread comes to the steps of commitTransaction, and what it adds  *)
(* to the mempool and to the store.                                        *)
LEMMA ThreadAdds ==
  ASSUME TypeInv, NEW t \in Thread, ThreadStep(t)
  PROVE  /\ pc'[t] \in Adding => obj'[t] = obj[t] /\ (pc[t] \in Adding \/ PutObject(t))
         /\ mempool' \cup mempoolDisk' \subseteq
              mempool \cup mempoolDisk \cup (IF pc[t] \in Adding THEN {obj[t]} ELSE {})
         /\ \/ objects' \subseteq objects \cup Coinbase
            \/ PutObject(t) /\ objects' = objects \cup {obj[t]}
<1>0. pc \in [Thread -> PC] /\ obj \in [Thread -> Objects \cup {nil}]
  BY DEF TypeInv, TypeOK
<1>1. ASSUME NEW label, Goto(t, label)
      PROVE  pc'[t] = label
  BY <1>0, <1>1 DEF Goto
<1>2. ASSUME NEW stack, Return(t, stack)
      PROVE  pc'[t] \in {"idle", "revalidate"}
  BY <1>1, <1>2 DEF Return
<1>3. Committed(t) => pc'[t] \in {"idle", "revalidate", "resolve"}
  BY <1>1, <1>2 DEF Committed
<1>4. ASSUME NEW x, NEW r, NEW stack, Dispatch(t, x, r, stack)
      PROVE  pc'[t] \in {pc[t], "idle", "revalidate", "accept", "pend"}
  BY <1>1, <1>2, <1>4 DEF Dispatch, Panic, local
<1>5. pc'[t] = "spent" => PutObject(t)
  <2>1. ASSUME NEW x \in Objects, HandleObject(t, x)
        PROVE  pc'[t] # "spent"
    BY <1>4, <2>1 DEF HandleObject, At
  <2>2. CASE BuildTx(t) \/ ValidateOwnTx(t) \/ AcceptObject(t) \/ ValidateOwnBlock(t)
    BY <1>1, <1>2, <2>2 DEF BuildTx, ValidateOwnTx, AcceptObject, ValidateOwnBlock, At
  <2>3. CASE CheckSpent(t) \/ CheckActive(t) \/ PoolPutDisk(t) \/ PoolAdd(t) \/ CleanMempool(t)
    BY <1>1, <1>3, <2>3 DEF CheckSpent, CheckActive, PoolPutDisk, PoolAdd, CleanMempool
  <2>4. CASE PutUTXO(t) \/ PutChaintip(t) \/ UnpoolDisk(t) \/ UnpoolMem(t)
    <3>1. pc'[t] \in {"readTip", "unpoolDisk", "cancel", "clean", "unpoolMem"}
      BY <1>1, <2>4 DEF PutUTXO, PutChaintip, UnpoolDisk, UnpoolMem
    <3>2. QED
      BY <3>1
  <2>5. CASE ReadTip(t)
    BY <1>1, <2>5 DEF ReadTip, Panic, local, At
  <2>6. CASE CancelMining(t)
    BY <1>1, <1>3, <2>6 DEF CancelMining, HandleReorg
  <2>7. CASE AbortMining(t) \/ FetchPendingBlocks(t) \/ AddPendingBlock(t)
    BY <1>2, <2>7 DEF AbortMining, FetchPendingBlocks, AddPendingBlock
  <2>8. CASE Revalidate(t)
    BY <1>4, <2>8 DEF Revalidate, At
  <2>9. CASE StartMining(t) \/ BuildOnTip(t) \/ BuildOfPool(t) \/ FindNonce(t)
    BY <1>1, <2>9 DEF StartMining, BuildOnTip, BuildOfPool, FindNonce
  <2>10. QED
    BY <2>1, <2>2, <2>3, <2>4, <2>5, <2>6, <2>7, <2>8, <2>9 DEF ThreadStep, BusyStep, MinerStep
<1>6. ASSUME pc'[t] \in Adding
      PROVE  obj'[t] = obj[t] /\ (pc[t] \in Adding \/ PutObject(t))
  <2>1. CASE PutObject(t)
    BY <1>3, <1>6, <2>1 DEF PutObject, Adding
  <2>2. CASE CheckSpent(t) \/ CheckActive(t) \/ PoolPutDisk(t)
    BY <1>3, <1>6, <2>2 DEF CheckSpent, CheckActive, PoolPutDisk, At, Adding
  <2>3. ~ PoolAside(t) \/ PutObject(t)
    BY <1>5, <1>6 DEF PoolAside, Adding
  <2>4. CASE PoolAdd(t) \/ CleanMempool(t)
    BY <1>3, <1>6, <2>4 DEF PoolAdd, CleanMempool, Adding
  <2>5. CASE UnpoolDisk(t) \/ UnpoolMem(t)
    <3>1. pc'[t] \in {"clean", "unpoolMem", "unpoolDisk"}
      BY <1>1, <2>5 DEF UnpoolDisk, UnpoolMem
    <3>2. QED
      BY <1>6, <3>1 DEF Adding
  <2>6. QED
    BY <2>1, <2>2, <2>3, <2>4, <2>5, ThreadPool
<1>7. mempool' \cup mempoolDisk' \subseteq
        mempool \cup mempoolDisk \cup (IF pc[t] \in Adding THEN {obj[t]} ELSE {})
  <2>1. CASE CheckSpent(t) \/ CheckActive(t)
    BY <2>1 DEF CheckSpent, CheckActive, disk, memory
  <2>2. CASE PoolPutDisk(t)
    BY <2>2 DEF PoolPutDisk, memory, At, Adding
  <2>3. CASE PoolAdd(t)
    BY <2>3 DEF PoolAdd, disk, At, Adding
  <2>4. CASE UnpoolDisk(t) \/ UnpoolMem(t)
    BY <2>4 DEF UnpoolDisk, UnpoolMem, disk, memory
  <2>5. CASE CleanMempool(t)
    BY <2>5 DEF CleanMempool, disk
  <2>6. CASE PoolAside(t)
    BY <2>6 DEF PoolAside
  <2>7. QED
    BY <2>1, <2>2, <2>3, <2>4, <2>5, <2>6, ThreadPool
<1>8. \/ objects' \subseteq objects \cup Coinbase
      \/ PutObject(t) /\ objects' = objects \cup {obj[t]}
  BY StoreWriters DEF PutObject, PutUTXO, PutChaintip, FindNonce, MinedBlock
<1>9. QED
  BY <1>6, <1>7, <1>8

(* StoredInv is inductive: an object in hand is accepted still when it is  *)
(* written, and a mempool read back at a restart was saved.                *)
LEMMA StoredStep ==
  TypeInv /\ StoreInv /\ StillAccepted /\ StoredInv /\ [NodeNext]_vars => StoredInv'
<1> SUFFICES ASSUME TypeInv, StoreInv, StillAccepted, StoredInv, [NodeNext]_vars
             PROVE  StoredInv'
  OBVIOUS
<1>0. Grows
  BY StoreStep
<1>1. ASSUME NEW x \in Tx, Accepted(x)
      PROVE  Accepted(x)'
  BY <1>0, <1>1, GrowAccepts
<1>2. ASSUME objects' \cap Tx \subseteq objects
      PROVE  \A x \in objects' \cap Tx : Accepted(x)'
  BY <1>1, <1>2 DEF StoredInv
<1>3. ASSUME NEW t \in Thread, ThreadStep(t)
      PROVE  StoredInv'
  <2>1. \A x \in objects' \cap Tx : Accepted(x)'
    <3>1. CASE objects' \subseteq objects \cup Coinbase
      BY <1>2, <3>1, IdsDisjoint
    <3>2. CASE PutObject(t) /\ objects' = objects \cup {obj[t]}
      <4>1. Accepted(obj[t])
        BY <3>2 DEF PutObject, At, StillAccepted
      <4>2. PICK y : y = obj[t]
        OBVIOUS
      <4>3. \A x \in objects' \cap Tx : Accepted(x)
        BY <3>2, <4>1, <4>2 DEF StoredInv
      <4>4. QED
        BY <1>1, <4>3
    <3>3. QED
      BY <1>3, <3>1, <3>2, ThreadAdds
  <2>2. mempool' \subseteq objects' /\ mempoolDisk' \subseteq objects'
    BY <1>0, <1>3, ThreadAdds DEF StoredInv, Grows
  <2>3. ASSUME NEW s \in Thread, pc'[s] \in Adding
        PROVE  obj'[s] \in objects'
    <3>1. CASE s = t
      BY <1>0, <1>3, <2>3, <3>1, ThreadAdds DEF StoredInv, Grows, PutObject
    <3>2. CASE s # t
      BY <1>0, <1>3, <2>3, <3>2, ThreadType DEF StoredInv, Grows, Others
    <3>3. QED
      BY <3>1, <3>2
  <2>4. QED
    BY <2>1, <2>2, <2>3 DEF StoredInv
<1>4. CASE ExpirePending \/ SetMiningCores \/ UNCHANGED vars
  <2>1. UNCHANGED <<objects, mempool, mempoolDisk, pc, obj>>
    BY <1>4 DEF ExpirePending, SetMiningCores, vars, disk, memory, local
  <2>2. QED
    BY <1>2, <2>1 DEF StoredInv
<1>5. CASE CrashRestart
  <2>1. /\ objects' = objects /\ \A t \in Thread : pc'[t] = "idle"
        /\ mempool' \subseteq mempoolDisk /\ mempoolDisk' \subseteq mempoolDisk
    BY <1>5 DEF CrashRestart, InitializeMempool, Sweeps
  <2>2. QED
    BY <1>2, <2>1 DEF StoredInv, Adding
<1>6. QED
  BY <1>3, <1>4, <1>5 DEF NodeNext

-----------------------------------------------------------------------------
(* HandleReorg.  What its walk relies on: a chain goes down one height at  *)
(* a time, through committed blocks, to the genesis block.                 *)
ChainOK(b) ==
  /\ b \in objects /\ utxo[b].height \in Nat
  /\ Previd[b] = nil => b = genesisHash /\ utxo[b].height = 0
  /\ Previd[b] # nil => /\ Previd[b] \in Block /\ HasUTXO(Previd[b])
                        /\ utxo[b].height = utxo[Previd[b]].height + 1
  /\ Serial!Chain[b] = {b} \cup (IF Previd[b] = nil THEN {} ELSE Serial!Chain[Previd[b]])
  /\ \A c \in Serial!Chain[b] :
       c \in Block /\ HasUTXO(c) /\ (c # b => utxo[c].height < utxo[b].height)

Chained == \A b \in Block : HasUTXO(b) => ChainOK(b)

(* The two results of a walk.                                              *)
Stopped == [end |-> "stop", dead |-> {}, new |-> {}]

Between(o, n) == [end  |-> "met",
                  dead |-> Serial!Chain[o] \ Serial!Chain[n],
                  new  |-> Serial!Chain[n] \ Serial!Chain[o]]

(* A turn of the walk goes on, and to where.                               *)
Linked(o, n) == o \in Block /\ n \in Block /\ HasUTXO(o) /\ HasUTXO(n)

Older(o, n) == IF Down(o, n).old THEN Previd[o] ELSE o
Newer(o, n) == IF Down(o, n).new THEN Previd[n] ELSE n

(* What a turn makes of the result of the turns after it, and the function *)
(* of which Walk is the fixed point.                                       *)
Extend(o, n, w) == [end  |-> w.end,
                    dead |-> w.dead \cup (IF Down(o, n).old THEN {o} ELSE {}),
                    new  |-> w.new \cup (IF Down(o, n).new THEN {n} ELSE {})]

Turn(g, o, n) ==
  IF o = n THEN [end |-> "met", dead |-> {}, new |-> {}]
  ELSE IF ~ Linked(o, n) THEN Stopped
  ELSE Extend(o, n, g[<<Older(o, n), Newer(o, n)>>])

WalkOf(g) == [p \in Id \X Id |-> Turn(g, p[1], p[2])]

(* A turn leaves two committed blocks, lower ones, and puts on each side   *)
(* what the chains of the two before it have more.  The blocks of height   *)
(* zero are all the genesis block, so that neither side runs off it.       *)
LEMMA TurnStep ==
  ASSUME Chained, NEW o, NEW n, o # n, Linked(o, n)
  PROVE  /\ Older(o, n) \in Id /\ Newer(o, n) \in Id
         /\ Linked(Older(o, n), Newer(o, n))
         /\ utxo[Older(o, n)].height + utxo[Newer(o, n)].height < utxo[o].height + utxo[n].height
         /\ Extend(o, n, Between(Older(o, n), Newer(o, n))) = Between(o, n)
<1>0. /\ o \in Block /\ n \in Block /\ HasUTXO(o) /\ HasUTXO(n) /\ ChainOK(o) /\ ChainOK(n)
      /\ o \in Id /\ n \in Id
  BY DEF Linked, Chained, HashID, Id
<1>1. Previd[o] # nil => ChainOK(Previd[o]) /\ Previd[o] \in Id
  BY <1>0 DEF ChainOK, Chained, HashID, Id
<1>2. Previd[n] # nil => ChainOK(Previd[n]) /\ Previd[n] \in Id
  BY <1>0 DEF ChainOK, Chained, HashID, Id
<1>3. CASE utxo[o].height > utxo[n].height
  <2>1. Down(o, n).old /\ ~ Down(o, n).new
    <3>1. (utxo[o].height >= utxo[n].height) /\ ~ (utxo[n].height >= utxo[o].height)
      BY <1>0, <1>3 DEF ChainOK
    <3>2. QED
      BY <3>1, Zenon DEF Down
  <2>a. Older(o, n) = Previd[o] /\ Newer(o, n) = n
    BY <2>1 DEF Older, Newer
  <2>2. Previd[o] # nil
    BY <1>0, <1>3 DEF ChainOK
  <2>3. o \notin Serial!Chain[n] /\ o \notin Serial!Chain[Previd[o]]
    BY <1>0, <1>1, <1>3, <2>2 DEF ChainOK
  <2>4. /\ (Serial!Chain[Previd[o]] \ Serial!Chain[n]) \cup {o} = Serial!Chain[o] \ Serial!Chain[n]
        /\ Serial!Chain[n] \ Serial!Chain[Previd[o]] = Serial!Chain[n] \ Serial!Chain[o]
    BY <1>0, <2>2, <2>3 DEF ChainOK
  <2>5. Extend(o, n, Between(Previd[o], n)) = Between(o, n)
    BY <2>1, <2>4 DEF Extend, Between
  <2>6. QED
    BY <1>0, <1>1, <2>a, <2>2, <2>5 DEF ChainOK, Linked
<1>4. CASE utxo[n].height > utxo[o].height
  <2>1. ~ Down(o, n).old /\ Down(o, n).new
    <3>1. ~ (utxo[o].height >= utxo[n].height) /\ (utxo[n].height >= utxo[o].height)
      BY <1>0, <1>4 DEF ChainOK
    <3>2. QED
      BY <3>1, Zenon DEF Down
  <2>a. Older(o, n) = o /\ Newer(o, n) = Previd[n]
    BY <2>1 DEF Older, Newer
  <2>2. Previd[n] # nil
    BY <1>0, <1>4 DEF ChainOK
  <2>3. n \notin Serial!Chain[o] /\ n \notin Serial!Chain[Previd[n]]
    BY <1>0, <1>2, <1>4, <2>2 DEF ChainOK
  <2>4. /\ (Serial!Chain[Previd[n]] \ Serial!Chain[o]) \cup {n} = Serial!Chain[n] \ Serial!Chain[o]
        /\ Serial!Chain[o] \ Serial!Chain[Previd[n]] = Serial!Chain[o] \ Serial!Chain[n]
    BY <1>0, <2>2, <2>3 DEF ChainOK
  <2>5. Extend(o, n, Between(o, Previd[n])) = Between(o, n)
    BY <2>1, <2>4 DEF Extend, Between
  <2>6. QED
    BY <1>0, <1>2, <2>a, <2>2, <2>5 DEF ChainOK, Linked
<1>5. CASE utxo[n].height = utxo[o].height
  <2>1. Down(o, n).old /\ Down(o, n).new
    <3>1. (utxo[o].height >= utxo[n].height) /\ (utxo[n].height >= utxo[o].height)
      BY <1>0, <1>5 DEF ChainOK
    <3>2. QED
      BY <3>1, Zenon DEF Down
  <2>a. Older(o, n) = Previd[o] /\ Newer(o, n) = Previd[n]
    BY <2>1 DEF Older, Newer
  <2>2. Previd[o] # nil /\ Previd[n] # nil
    BY <1>0, <1>1, <1>2, <1>5 DEF ChainOK
  <2>3. /\ o \notin Serial!Chain[n] /\ o \notin Serial!Chain[Previd[o]]
        /\ n \notin Serial!Chain[o] /\ n \notin Serial!Chain[Previd[n]]
    BY <1>0, <1>1, <1>2, <1>5, <2>2 DEF ChainOK
  <2>4. /\ (Serial!Chain[Previd[n]] \ Serial!Chain[Previd[o]]) \cup {n} = Serial!Chain[n] \ Serial!Chain[o]
        /\ (Serial!Chain[Previd[o]] \ Serial!Chain[Previd[n]]) \cup {o} = Serial!Chain[o] \ Serial!Chain[n]
    BY <1>0, <2>2, <2>3 DEF ChainOK
  <2>5. Extend(o, n, Between(Previd[o], Previd[n])) = Between(o, n)
    BY <2>1, <2>4 DEF Extend, Between
  <2>6. QED
    BY <1>0, <1>1, <1>2, <2>a, <2>2, <2>5 DEF ChainOK, Linked
<1>6. QED
  BY <1>0, <1>3, <1>4, <1>5 DEF ChainOK

(* Walk is the fixed point that its definition asks for, since there is    *)
(* one,                                                                    *)
LEMMA WalkUnfolds ==
  ASSUME Chained
  PROVE  Walk = WalkOf(Walk)
<1> DEFINE f == [p \in Id \X Id |-> IF p[1] = p[2] THEN [end |-> "met", dead |-> {}, new |-> {}]
                                    ELSE IF Linked(p[1], p[2]) THEN Between(p[1], p[2]) ELSE Stopped]
<1>1. ASSUME NEW o \in Id, NEW n \in Id PROVE f[<<o, n>>] = Turn(f, o, n)
  <2>1. CASE o = n \/ ~ Linked(o, n)
    BY <2>1 DEF Turn
  <2>2. CASE o # n /\ Linked(o, n)
    <3> DEFINE a == Older(o, n)
               b == Newer(o, n)
    <3>1. a \in Id /\ b \in Id /\ Linked(a, b) /\ Extend(o, n, Between(a, b)) = Between(o, n)
      BY <2>2, TurnStep
    <3> HIDE DEF a, b
    <3>2. f[<<a, b>>] = Between(a, b)
      BY <3>1 DEF Between
    <3>3. f[<<o, n>>] = Between(o, n)
      BY <2>2
    <3> HIDE DEF f
    <3>4. Turn(f, o, n) = Extend(o, n, f[<<a, b>>])
      BY <2>2 DEF Turn, a, b
    <3>5. QED
      BY <3>1, <3>2, <3>3, <3>4
  <2>3. QED
    BY <2>1, <2>2
<1>2. f = [p \in Id \X Id |-> f[p]]
  OBVIOUS
<1>3. Walk = CHOOSE g : g = WalkOf(g)
  BY DEF Walk, WalkOf, Turn, Extend, Older, Newer, Linked, Stopped
<1> HIDE DEF f
<1>4. \A p \in Id \X Id : f[p] = Turn(f, p[1], p[2])
  BY <1>1
<1>5. f = WalkOf(f)
  BY <1>2, <1>4, Zenon DEF WalkOf
<1>6. QED
  BY <1>3, <1>5

(* so that its value at two committed blocks is what is between them: at   *)
(* the lowest two of which that is not so, it would be so after one turn.  *)
LEMMA WalkBetween ==
  ASSUME Chained
  PROVE  /\ \A o, n \in {b \in Block : HasUTXO(b)} : Walk[<<o, n>>] = Between(o, n)
         /\ \A n \in Block : Walk[<<nil, n>>] = Stopped
<1> DEFINE C == {b \in Block : HasUTXO(b)}
           Wrong(o, n) == o \in C /\ n \in C /\ Walk[<<o, n>>] # Between(o, n)
           bad == {k \in Nat : \E o, n \in C : Wrong(o, n) /\ k = utxo[o].height + utxo[n].height}
<1>1. ASSUME NEW o \in Id, NEW n \in Id PROVE Walk[<<o, n>>] = Turn(Walk, o, n)
  BY WalkUnfolds DEF WalkOf
<1>2. ASSUME NEW o \in C, NEW n \in C PROVE o \in Id /\ n \in Id /\ Linked(o, n)
  BY DEF Id, HashID, Linked
<1>3. ASSUME NEW o \in C, NEW n \in C PROVE utxo[o].height \in Nat /\ utxo[n].height \in Nat
  BY DEF Chained, ChainOK
<1>4. ASSUME NEW k \in bad, \A j \in bad : k <= j PROVE FALSE
  <2>1. PICK o \in C, n \in C : Wrong(o, n) /\ k = utxo[o].height + utxo[n].height
    OBVIOUS
  <2>2. o # n
    BY <1>1, <1>2, <2>1 DEF Turn, Between
  <2> DEFINE a == Older(o, n)
             b == Newer(o, n)
  <2>3. /\ a \in Id /\ b \in Id /\ Linked(a, b)
        /\ utxo[a].height + utxo[b].height < utxo[o].height + utxo[n].height
        /\ Extend(o, n, Between(a, b)) = Between(o, n)
    BY <1>2, <2>2, TurnStep
  <2> HIDE DEF a, b
  <2>4. a \in C /\ b \in C
    BY <2>3 DEF Linked
  <2>5. ~ Wrong(a, b)
    <3> DEFINE i == utxo[a].height + utxo[b].height
    <3>1. i \in Nat /\ k \in Nat /\ i < k
      BY <1>3, <2>1, <2>3, <2>4
    <3>2. Wrong(a, b) => i \in bad
      BY <2>4, <3>1
    <3> HIDE DEF i, bad
    <3>3. i \notin bad
      BY <1>4, <3>1
    <3>4. QED
      BY <3>2, <3>3
  <2>6. Walk[<<o, n>>] = Extend(o, n, Walk[<<a, b>>])
    BY <1>1, <1>2, <2>2, Zenon DEF Turn, a, b
  <2>7. QED
    BY <2>1, <2>3, <2>4, <2>5, <2>6
<1>5. bad = {}
  <2>1. bad \in SUBSET Nat
    OBVIOUS
  <2> HIDE DEF bad
  <2>2. QED
    BY <1>4, <2>1, LeastMember
<1>6. ASSUME NEW o \in C, NEW n \in C PROVE Walk[<<o, n>>] = Between(o, n)
  <2>1. utxo[o].height + utxo[n].height \in Nat
    BY <1>3
  <2>2. QED
    BY <1>5, <2>1
<1>7. ASSUME NEW n \in Block PROVE Walk[<<nil, n>>] = Stopped
  <2>1. nil \in Id /\ n \in Id /\ nil \notin Block /\ nil # n
    BY IdsDisjoint DEF Id, HashID
  <2>2. QED
    BY <1>1, <2>1 DEF Turn, Linked
<1>8. QED
  BY <1>6, <1>7

(* Chains do go down to the genesis block.                                 *)
LEMMA ChainsDescend == TypeInv /\ StoreInv /\ Proved!LedgerInv => Chained
<1> SUFFICES ASSUME TypeInv, StoreInv, Proved!LedgerInv, NEW b \in Block, HasUTXO(b)
             PROVE  ChainOK(b)
  BY DEF Chained
<1>1. /\ \A c \in Proved!Chain[b] :
           c \in Block /\ Proved!Committed(c) /\ (c # b => utxo[c].height < utxo[b].height)
  <2>1. Proved!Committed(b)
    BY DEF Proved!Committed, Proved!NoUTXO, HasUTXO, NoUTXO
  <2>2. Proved!Good(b)
    BY <2>1 DEF Proved!LedgerInv
  <2>3. QED
    BY <2>2 DEF Proved!Good, Proved!Descends
<1>2. Proved!Chain = Serial!Chain
  BY DEF Proved!Chain, Serial!Chain
<1>3. Proved!Chain[b] = {b} \cup (IF Previd[b] \in Block THEN Proved!Chain[Previd[b]] ELSE {})
  BY Proved!ChainIs, IdsDisjoint, FieldTypes DEF Proved!HashID, HashID, Proved!Outpoint, Outpoint
<1>4. b \in objects /\ Follows(b, utxo[b]) /\ nil \notin Block
  BY IdsDisjoint DEF StoreInv, UTXOChained, HashID
<1>5. \A c \in Serial!Chain[b] :
        c \in Block /\ HasUTXO(c) /\ (c # b => utxo[c].height < utxo[b].height)
  BY <1>1, <1>2 DEF Proved!Committed, Proved!NoUTXO, HasUTXO, NoUTXO
<1>6. Serial!Chain[b] = {b} \cup (IF Previd[b] = nil THEN {} ELSE Serial!Chain[Previd[b]])
  BY <1>2, <1>3, <1>4 DEF Follows
<1>7. utxo[b].height \in Nat
  BY DEF TypeInv, TypeOK, UTXOSet, HasUTXO
<1>8. QED
  BY <1>4, <1>5, <1>6, <1>7 DEF ChainOK, Follows

(* A transaction that spends what is unspent on a chain is not on it: it   *)
(* has inputs, and what it spends is spent there.                          *)
LEMMA SpendableIsNew ==
  ASSUME Serial!UTXOExact, NEW n \in Block, HasUTXO(n), NEW x \in Tx, Readable(x), SpendableOn(n, x)
  PROVE  x \notin Serial!ChainTxs(n)
<1>1. PICK i \in Ins(x) : TRUE
  <2>1. Inputs[x] \in Seq(Outpoint) /\ Inputs[x] # <<>>
    BY FieldTypes DEF Readable
  <2>2. 1 \in DOMAIN Inputs[x]
    BY <2>1
  <2>3. QED
    BY <2>2 DEF Ins
<1>2. i \notin UNION {Serial!Ins(y) : y \in Serial!ChainTxs(n)}
  BY DEF Serial!UTXOExact, Serial!Committed, Serial!NoUTXO, HasUTXO, NoUTXO, SpendableOn
<1>3. Serial!Ins(x) = Ins(x)
  BY DEF Serial!Ins, Ins
<1>4. QED
  BY <1>1, <1>2, <1>3

(* What the walk finds and what is stored make the mempool that is left    *)
(* right.                                                                  *)
LEMMA ReorgRight ==
  ASSUME TypeInv, StoreInv, StoredInv, Proved!LedgerInv, DiskCovers
  PROVE  ReorgExact
<1>0. Chained /\ Serial!UTXOExact
  BY ChainsDescend, LedgerSays
<1> SUFFICES ASSUME Quiet, NEW o \in Block, HasUTXO(o), NEW n \in Block, HasUTXO(n)
             PROVE  /\ Walk[<<o, n>>] = Between(o, n)
                    /\ \A kept \in Rebuilt(o, n) :
                         /\ kept \cap Serial!ChainTxs(n) = {}
                         /\ \A x \in (mempool \cup (Serial!ChainTxs(o) \cap Tx)) \ kept :
                              \/ ~ Readable(x)
                              \/ ~ SpendableOn(n, x)
                              \/ \E y \in kept : Ins(x) \cap Ins(y) # {}
                    /\ Walk[<<nil, n>>] = Stopped
  BY DEF ReorgExact, Between, Stopped
<1>1. Walk[<<o, n>>] = Between(o, n) /\ Walk[<<nil, n>>] = Stopped
  BY <1>0, WalkBetween
<1>2. Repooled(o, n) = (mempoolDisk \cup (TxsOf(Serial!Chain[o] \ Serial!Chain[n]) \cap objects))
                          \ TxsOf(Serial!Chain[n] \ Serial!Chain[o])
  BY <1>1 DEF Repooled, Between
<1>3. \A b : Serial!Ids(b) = Ids(b)
  BY DEF Serial!Ids, Ids
<1>4. \A b, x : x \in Serial!ChainTxs(b) <=> \E c \in Serial!Chain[b] : x \in Ids(c)
  BY <1>3 DEF Serial!ChainTxs
<1>5. Repooled(o, n) \subseteq Tx
  BY <1>2 DEF TxsOf, TypeInv, TypeOK
<1>6. ASSUME NEW x \in mempool \cup (Serial!ChainTxs(o) \cap Tx), Readable(x), SpendableOn(n, x)
      PROVE  x \in Repooled(o, n) /\ ValidateTransaction(x, objects, {}).code = "NONE"
  <2>1. x \in Tx /\ x \notin Serial!ChainTxs(n)
    BY <1>0, <1>6, SpendableIsNew DEF TypeInv, TypeOK
  <2>2. x \notin TxsOf(Serial!Chain[n] \ Serial!Chain[o])
    BY <1>4, <2>1 DEF TxsOf
  <2>3. x \in objects /\ x \in mempoolDisk \cup TxsOf(Serial!Chain[o] \ Serial!Chain[n])
    <3>1. CASE x \in mempool
      BY <3>1 DEF DiskCovers, StoredInv
    <3>2. CASE x \in Serial!ChainTxs(o)
      <4>1. PICK c \in Serial!Chain[o] : x \in Ids(c)
        BY <1>4, <3>2
      <4>2. c \notin Serial!Chain[n]
        BY <1>4, <2>1, <4>1
      <4>3. c \in Block /\ c \in objects
        BY <1>0 DEF Chained, ChainOK
      <4>4. Ids(c) \subseteq objects
        BY <4>3 DEF StoreInv, StoreClosed, Closed
      <4>5. QED
        BY <2>1, <4>1, <4>2, <4>4 DEF TxsOf
    <3>3. QED
      BY <1>6, <3>1, <3>2
  <2>4. ValidateTransaction(x, objects, {}).code = "NONE"
    BY <2>1, <2>3 DEF StoredInv, Accepted
  <2>5. QED
    BY <1>2, <2>2, <2>3, <2>4
<1>7. ASSUME NEW kept \in Rebuilt(o, n)
      PROVE  /\ kept \cap Serial!ChainTxs(n) = {}
             /\ \A x \in (mempool \cup (Serial!ChainTxs(o) \cap Tx)) \ kept :
                  \/ ~ Readable(x)
                  \/ ~ SpendableOn(n, x)
                  \/ \E y \in kept : Ins(x) \cap Ins(y) # {}
  <2> DEFINE valid == {x \in {y \in Repooled(o, n) : SpendableOn(n, y)} :
                         Readable(x) /\ ValidateTransaction(x, objects, {}).code = "NONE"}
  <2>1. kept \subseteq valid /\ \A x \in valid \ kept : \E y \in kept : Ins(x) \cap Ins(y) # {}
    BY <1>7 DEF Rebuilt, Sweeps
  <2>2. \A x \in valid : x \in Tx /\ Readable(x) /\ SpendableOn(n, x)
    BY <1>5
  <2>3. kept \cap Serial!ChainTxs(n) = {}
    <3> HIDE DEF valid
    <3>1. QED
      BY <1>0, <2>1, <2>2, SpendableIsNew
  <2>4. ASSUME NEW x \in (mempool \cup (Serial!ChainTxs(o) \cap Tx)) \ kept,
               Readable(x), SpendableOn(n, x)
        PROVE  \E y \in kept : Ins(x) \cap Ins(y) # {}
    <3>1. x \in valid
      BY <1>6, <2>4
    <3>2. QED
      BY <2>1, <2>4, <3>1
  <2>5. QED
    BY <2>3, <2>4
<1>8. QED
  BY <1>1, <1>7

(* From any committed block to any other, HandleReorg finds the fork point *)
(* and exactly the blocks of the two branches, and leaves a mempool that   *)
(* has nothing mined on the new chain and misses nothing that was pooled   *)
(* or mined on the old one and could be kept: on a node with any           *)
(* goroutines and with crashes, as long as the saved mempool, from which   *)
(* it starts, has what the one in memory has.                              *)
THEOREM ReorgSound == NodeSpec => [](DiskCovers => ReorgExact)
<1>1. NodeInit => StillAccepted /\ StoredInv
  BY DEF NodeInit, StillAccepted, StoredInv, Adding
<1>2. TypeInv /\ StoreInv /\ StoredInv /\ Proved!LedgerInv => (DiskCovers => ReorgExact)
  BY ReorgRight
<1>3. QED
  BY <1>1, <1>2, LedgerHolds, TypeInit, TypeStep, StoreInit, StoreStep, AcceptedStep, StoredStep, PTL
  DEF NodeSpec

(* One goroutine sees to that.                                             *)
THEOREM ReorgAlone ==
  ASSUME Alone
  PROVE  NodeSpec => []ReorgExact
BY SavedCovers, ReorgSound, PTL

-----------------------------------------------------------------------------
(* The decision that validation made about the chaintip is still right     *)
(* when commitBlock acts on it.                                            *)
RiseInv ==
  \A t \in Thread :
    /\ pc[t] \in {"accept", "commit", "putUTXO"} /\ obj[t] \in Block =>
         res[t].isNewTip = IsNewTip(res[t].height, chaintip)
    /\ pc[t] \in {"readTip", "putTip"} => IsNewTip(res[t].height, chaintip)

(* A committed block is not above the chaintip, unless it is about to      *)
(* become the chaintip.                                                    *)
HighInv ==
  \A b \in Block : HasUTXO(b) =>
    \/ chaintip.height >= utxo[b].height
    \/ \E t \in Thread : pc[t] \in {"readTip", "putTip"} /\ obj[t] = b

(* A thread comes to the steps that move the chaintip in their order, and  *)
(* leaves them in their order.                                             *)
LEMMA TipMoves ==
  ASSUME TypeInv, NEW t \in Thread, ThreadStep(t)
  PROVE  /\ pc'[t] \in {"readTip", "putTip"} => PutUTXO(t) \/ ReadTip(t)
         /\ pc[t] = "readTip" => ReadTip(t)
         /\ pc[t] = "putTip" => PutChaintip(t)
<1>0. pc \in [Thread -> PC]
  BY DEF TypeInv, TypeOK
<1>1. ASSUME NEW label, Goto(t, label)
      PROVE  pc'[t] = label
  BY <1>0, <1>1 DEF Goto
<1>2. ASSUME NEW stack, Return(t, stack)
      PROVE  pc'[t] \in {"idle", "revalidate"}
  BY <1>1, <1>2 DEF Return
<1>3. Committed(t) => pc'[t] \in {"idle", "revalidate", "resolve"}
  BY <1>1, <1>2 DEF Committed
<1>4. ASSUME NEW x, NEW r, NEW stack, Dispatch(t, x, r, stack)
      PROVE  pc'[t] \in {pc[t], "idle", "revalidate", "accept", "pend"}
  BY <1>1, <1>2, <1>4 DEF Dispatch, Panic, local
<1> DEFINE Away == pc'[t] \notin {"readTip", "putTip"} /\ pc[t] \notin {"readTip", "putTip"}
<1>5. ASSUME NEW x \in Objects, HandleObject(t, x)
      PROVE  Away
  BY <1>4, <1>5 DEF HandleObject, At
<1>6. CASE Revalidate(t)
  BY <1>4, <1>6 DEF Revalidate, At
<1>7. CASE BuildTx(t) \/ ValidateOwnTx(t) \/ AcceptObject(t) \/ AbortMining(t) \/ ValidateOwnBlock(t)
  BY <1>1, <1>2, <1>7 DEF BuildTx, ValidateOwnTx, AcceptObject, AbortMining, ValidateOwnBlock, At
<1>8. CASE PutObject(t)
  <2>1. pc'[t] \in {"idle", "revalidate", "resolve", "spent", "putUTXO"}
    BY <1>1, <1>3, <1>8 DEF PutObject
  <2>2. QED
    BY <1>8, <2>1 DEF PutObject, At
<1>9. CASE CheckSpent(t) \/ CheckActive(t) \/ PoolPutDisk(t) \/ PoolAdd(t) \/ CleanMempool(t)
  BY <1>1, <1>3, <1>9 DEF CheckSpent, CheckActive, PoolPutDisk, PoolAdd, CleanMempool, At
<1>10. CASE UnpoolDisk(t) \/ UnpoolMem(t)
  <2>1. pc'[t] \in {"unpoolDisk", "unpoolMem", "clean"}
    BY <1>1, <1>10 DEF UnpoolDisk, UnpoolMem
  <2>2. QED
    BY <1>10, <2>1 DEF UnpoolDisk, UnpoolMem, At
<1>11. CASE CancelMining(t)
  <2>1. pc'[t] \in {"idle", "revalidate", "resolve", "unpoolDisk"}
    BY <1>1, <1>3, <1>11 DEF CancelMining, HandleReorg
  <2>2. QED
    BY <1>11, <2>1 DEF CancelMining, At
<1>12. CASE FetchPendingBlocks(t) \/ AddPendingBlock(t)
  BY <1>2, <1>12 DEF FetchPendingBlocks, AddPendingBlock, At
<1>13. CASE StartMining(t) \/ BuildOnTip(t) \/ BuildOfPool(t) \/ FindNonce(t)
  BY <1>1, <1>13 DEF StartMining, BuildOnTip, BuildOfPool, FindNonce, At
<1>14. CASE PutUTXO(t) \/ ReadTip(t) \/ PutChaintip(t)
  <2>1. PutChaintip(t) => pc'[t] = "cancel"
    BY <1>1 DEF PutChaintip
  <2>2. QED
    BY <1>14, <2>1 DEF PutUTXO, ReadTip, PutChaintip, At
<1>15. QED
  BY <1>5, <1>6, <1>7, <1>8, <1>9, <1>10, <1>11, <1>12, <1>13, <1>14
  DEF ThreadStep, BusyStep, MinerStep

(* RiseInv is inductive for one goroutine, with crashes.                   *)
LEMMA RiseStep == Alone /\ TypeInv /\ RiseInv /\ [NodeNext]_vars => RiseInv'
<1> SUFFICES ASSUME Alone, TypeInv, RiseInv, [NodeNext]_vars
             PROVE  RiseInv'
  OBVIOUS
<1>1. ASSUME NEW t \in Thread, ThreadStep(t)
      PROVE  RiseInv'
  <2>0. /\ Thread = {t} /\ PcOK(t) /\ pc \in [Thread -> PC] /\ TypeOK
        /\ utxo \in [Block -> UTXOSet \cup {NoUTXO}]
    BY DEF Alone, TypeInv, TypeOK
  <2>1. ASSUME pc'[t] \in {"accept", "commit", "putUTXO"}, obj'[t] \in Block
        PROVE  res'[t].isNewTip = IsNewTip(res'[t].height, chaintip')
    <3>1. chaintip' = chaintip
      <4>1. ~ PutChaintip(t)
        BY <2>0, <2>1 DEF PutChaintip, Goto
      <4>2. QED
        BY <1>1, <4>1, StoreWriters DEF PutObject, PutUTXO, FindNonce
    <3>2. CASE /\ pc[t] \in {"accept", "commit", "putUTXO"}
               /\ obj'[t] = obj[t] /\ res'[t] = res[t]
      BY <2>0, <2>1, <3>1, <3>2 DEF RiseInv
    <3>3. CASE Validate(obj'[t]).code = "NONE" /\ res'[t] = Validate(obj'[t])
      <4>1. PICK b \in Block : b = obj'[t]
        BY <2>1
      <4>2. res'[t] = ValidateBlock(b, objects, utxo, chaintip)
        BY <3>3, <4>1, IdsDisjoint DEF Validate, ValidateObject
      <4>3. res'[t].isNewTip = IsNewTip(res'[t].height, chaintip)
        BY <2>0, <3>3, <4>1, <4>2, BlockResult
      <4>4. QED
        BY <3>1, <4>3
    <3>4. QED
      BY <1>1, <2>1, <3>2, <3>3, ThreadTakes
  <2>2. ASSUME pc'[t] \in {"readTip", "putTip"}
        PROVE  IsNewTip(res'[t].height, chaintip')
    <3>1. CASE PutUTXO(t)
      <4>1. /\ pc[t] = "putUTXO" /\ obj[t] \in Block /\ UNCHANGED <<res, chaintip>>
            /\ pc'[t] = IF res[t].isNewTip THEN "readTip" ELSE "unpoolDisk"
        BY <2>0, <3>1 DEF PutUTXO, At, PcOK, Goto
      <4>2. res[t].isNewTip = IsNewTip(res[t].height, chaintip)
        BY <2>0, <4>1 DEF RiseInv
      <4>3. QED
        BY <2>2, <4>1, <4>2
    <3>2. CASE ReadTip(t)
      <4>1. pc[t] = "readTip" /\ UNCHANGED <<res, chaintip>>
        BY <3>2 DEF ReadTip, At, Panic, local, disk
      <4>2. QED
        BY <2>0, <4>1 DEF RiseInv
    <3>3. QED
      BY <1>1, <2>2, <3>1, <3>2, TipMoves
  <2>3. QED
    BY <2>0, <2>1, <2>2 DEF RiseInv
<1>2. CASE ExpirePending \/ SetMiningCores \/ UNCHANGED vars
  <2>1. UNCHANGED <<chaintip, pc, obj, res>>
    BY <1>2 DEF ExpirePending, SetMiningCores, vars, disk, local
  <2>2. QED
    BY <2>1 DEF RiseInv
<1>3. CASE CrashRestart
  <2>1. \A t \in Thread : pc'[t] = "idle"
    BY <1>3 DEF CrashRestart
  <2>2. QED
    BY <2>1 DEF RiseInv
<1>4. QED
  BY <1>1, <1>2, <1>3 DEF NodeNext

(* HighInv is inductive if there are no crashes: one between putUTXO and   *)
(* the write of the chaintip would break it.                               *)
LEMMA HighStep ==
  Alone /\ ~ CrashEnabled /\ TypeInv /\ StoreInv /\ RiseInv /\ HighInv /\ [NodeNext]_vars => HighInv'
<1> SUFFICES ASSUME Alone, ~ CrashEnabled, TypeInv, StoreInv, RiseInv, HighInv, [NodeNext]_vars
             PROVE  HighInv'
  OBVIOUS
<1>1. ASSUME NEW t \in Thread, ThreadStep(t)
      PROVE  HighInv'
  <2>0. /\ Thread = {t} /\ PcOK(t) /\ HandOK(t) /\ pc \in [Thread -> PC]
        /\ utxo \in [Block -> UTXOSet \cup {NoUTXO}]
        /\ chaintip \in Chaintip \cup {NoTip} /\ res[t] \in ValidationResult
    BY DEF Alone, TypeInv, TypeOK, StoreInv
  <2>1. CASE PutUTXO(t)
    <3>1. /\ pc[t] = "putUTXO" /\ obj[t] \in Block /\ UNCHANGED <<obj, res, chaintip>>
          /\ pc'[t] = IF res[t].isNewTip THEN "readTip" ELSE "unpoolDisk"
          /\ utxo' = [utxo EXCEPT ![obj[t]] = ResultSet(res[t])]
      BY <2>0, <2>1 DEF PutUTXO, At, PcOK, Goto, ResultSet
    <3>2. res[t].isNewTip = IsNewTip(res[t].height, chaintip)
      BY <2>0, <3>1 DEF RiseInv
    <3>3. ASSUME NEW b \in Block, b # obj[t], HasUTXO(b)'
          PROVE  chaintip'.height >= utxo'[b].height
      <4>1. utxo'[b] = utxo[b]
        BY <2>0, <3>1, <3>3
      <4>2. HasUTXO(b)
        BY <3>3, <4>1 DEF HasUTXO
      <4>3. chaintip.height >= utxo[b].height
        BY <2>0, <3>1, <4>2 DEF HighInv
      <4>4. QED
        BY <3>1, <4>1, <4>3
    <3>4. \/ chaintip'.height >= utxo'[obj[t]].height
          \/ pc'[t] = "readTip"
      <4>1. utxo'[obj[t]].height = res[t].height
        BY <2>0, <3>1 DEF ResultSet
      <4>2. res[t].height \in Nat /\ chaintip.height \in Int
        BY <2>0 DEF ValidationResult, Chaintip, NoTip
      <4>3. CASE IsNewTip(res[t].height, chaintip)
        BY <3>1, <3>2, <4>3
      <4>4. CASE ~ IsNewTip(res[t].height, chaintip)
        <5>1. ~ (res[t].height > chaintip.height)
          BY <4>4 DEF IsNewTip
        <5>2. chaintip'.height >= utxo'[obj[t]].height
          BY <3>1, <4>1, <4>2, <5>1
        <5>3. QED
          BY <5>2
      <4>5. QED
        BY <4>3, <4>4
    <3>5. QED
      BY <2>0, <3>1, <3>3, <3>4 DEF HighInv
  <2>2. CASE PutChaintip(t)
    <3>1. /\ pc[t] = "putTip" /\ obj[t] \in Block /\ utxo' = utxo
          /\ chaintip' = [id |-> obj[t], height |-> res[t].height]
          /\ utxo[obj[t]].height = res[t].height
      BY <2>0, <2>2 DEF PutChaintip, At, PcOK, HandOK
    <3>2. IsNewTip(res[t].height, chaintip)
      BY <2>0, <3>1 DEF RiseInv
    <3>3. res[t].height \in Nat /\ (chaintip = NoTip \/ chaintip.height \in Nat)
      BY <2>0 DEF ValidationResult, Chaintip
    <3>4. ASSUME NEW b \in Block, HasUTXO(b)
          PROVE  chaintip'.height >= utxo[b].height
      <4>1. CASE b = obj[t]
        BY <3>1, <3>3, <4>1
      <4>2. CASE b # obj[t]
        <5>1. chaintip.height >= utxo[b].height /\ utxo[b].height \in Nat
          <6>1. chaintip.height >= utxo[b].height
            BY <2>0, <3>4, <4>2 DEF HighInv
          <6>2. utxo[b] \in UTXOSet
            BY <2>0, <3>4 DEF HasUTXO
          <6>3. QED
            BY <6>1, <6>2 DEF UTXOSet
        <5>2. res[t].height >= chaintip.height /\ chaintip.height \in Int
          BY <3>2, <3>3 DEF IsNewTip, NoTip
        <5>3. chaintip'.height = res[t].height
          BY <3>1
        <5>4. QED
          BY <3>3, <5>1, <5>2, <5>3
      <4>3. QED
        BY <4>1, <4>2
    <3>5. QED
      BY <3>1, <3>4 DEF HighInv, HasUTXO
  <2>3. CASE ~ PutUTXO(t) /\ ~ PutChaintip(t)
    <3>1. UNCHANGED <<utxo, chaintip>>
      BY <1>1, <2>3, StoreWriters DEF PutObject, FindNonce
    <3>2. pc[t] \in {"readTip", "putTip"} => pc'[t] \in {"readTip", "putTip"} /\ obj' = obj
      <4>1. pc[t] \in {"readTip", "putTip"} => ReadTip(t)
        BY <1>1, <2>3, TipMoves
      <4>2. ReadTip(t) => pc'[t] \in {"readTip", "putTip"} /\ obj' = obj
        BY <2>0 DEF ReadTip, Panic, local, At, Goto
      <4>3. QED
        BY <4>1, <4>2
    <3>3. QED
      BY <2>0, <3>1, <3>2 DEF HighInv, HasUTXO
  <2>4. QED
    BY <2>1, <2>2, <2>3
<1>2. CASE ExpirePending \/ SetMiningCores \/ UNCHANGED vars
  <2>1. UNCHANGED <<utxo, chaintip, pc, obj>>
    BY <1>2 DEF ExpirePending, SetMiningCores, vars, disk, local
  <2>2. QED
    BY <2>1 DEF HighInv, HasUTXO
<1>3. ~ CrashRestart
  BY DEF CrashRestart
<1>4. QED
  BY <1>1, <1>2, <1>3 DEF NodeNext

(* With one goroutine and without crashes the chaintip is a highest        *)
(* committed block whenever the node is at rest.                           *)
THEOREM TipIsHighest ==
  ASSUME Alone, ~ CrashEnabled
  PROVE  NodeSpec => []TipHighest
<1>1. NodeInit => RiseInv /\ HighInv
  BY DEF NodeInit, RiseInv, HighInv, HasUTXO
<1>2. TypeInv /\ RiseInv /\ [NodeNext]_vars => RiseInv'
  BY RiseStep
<1>3. TypeInv /\ StoreInv /\ RiseInv /\ HighInv /\ [NodeNext]_vars => HighInv'
  BY HighStep
<1>4. HighInv => TipHighest
  BY DEF HighInv, TipHighest, Quiet
<1>5. QED
  BY <1>1, <1>2, <1>3, <1>4, TypeInit, TypeStep, StoreInit, StoreStep, PTL DEF NodeSpec

(* With one goroutine the chaintip never moves to a lower block, crashes   *)
(* or not: commitBlock acts on the decision of validation, and between the *)
(* two nobody else has moved the chaintip.                                 *)
THEOREM TipRises ==
  ASSUME Alone
  PROVE  NodeSpec => TipOnlyRises
<1>1. TypeInv /\ RiseInv /\ [NodeNext]_vars => [chaintip'.height >= chaintip.height]_vars
  <2> SUFFICES ASSUME TypeInv, RiseInv, [NodeNext]_vars
               PROVE  chaintip'.height >= chaintip.height
    OBVIOUS
  <2>0. chaintip \in Chaintip \cup {NoTip} /\ res \in [Thread -> ValidationResult]
    BY DEF TypeInv, TypeOK
  <2>1. chaintip.height \in Int
    BY <2>0 DEF Chaintip, NoTip
  <2>2. ASSUME NEW t \in Thread, PutChaintip(t)
        PROVE  chaintip'.height >= chaintip.height
    <3>1. /\ IsNewTip(res[t].height, chaintip)
          /\ chaintip'.height = res[t].height /\ res[t].height \in Nat
      BY <2>0, <2>2 DEF PutChaintip, At, RiseInv, ValidationResult
    <3>2. chaintip = NoTip => chaintip.height = -1
      BY DEF NoTip
    <3>3. QED
      BY <2>1, <3>1, <3>2 DEF IsNewTip
  <2>3. ASSUME NEW t \in Thread, ThreadStep(t), ~ PutChaintip(t)
        PROVE  chaintip' = chaintip
    BY <2>3, StoreWriters DEF PutObject, PutUTXO, FindNonce
  <2>4. ExpirePending \/ SetMiningCores \/ CrashRestart \/ UNCHANGED vars => chaintip' = chaintip
    BY DEF ExpirePending, SetMiningCores, CrashRestart, vars, disk
  <2>5. QED
    BY <2>1, <2>2, <2>3, <2>4 DEF NodeNext
<1>2. NodeInit => RiseInv
  BY DEF NodeInit, RiseInv
<1>3. TypeInv /\ RiseInv /\ [NodeNext]_vars => RiseInv'
  BY RiseStep
<1>4. QED
  BY <1>1, <1>2, <1>3, TypeInit, TypeStep, PTL DEF NodeSpec, TipOnlyRises

-----------------------------------------------------------------------------
(* The heights of the committed blocks, as the tip policy sees them.       *)
Heights == [b \in Block |-> utxo[b].height]

(* Every step of one goroutine commits a block one above its parent, or    *)
(* adopts a committed block that is higher than the tip, or does nothing   *)
(* to the heights and the tip.                                             *)
LEMMA PolicyStep ==
  Alone /\ TypeInv /\ StoreInv /\ RiseInv /\ [NodeNext]_vars =>
    [Tip!Next]_<<Heights, chaintip.id>>
<1> SUFFICES ASSUME Alone, TypeInv, StoreInv, RiseInv, [NodeNext]_vars
             PROVE  Tip!Next \/ (Heights' = Heights /\ chaintip'.id = chaintip.id)
  OBVIOUS
<1>1. ASSUME NEW t \in Thread, ThreadStep(t)
      PROVE  Tip!Next \/ (Heights' = Heights /\ chaintip'.id = chaintip.id)
  <2>0. /\ Thread = {t} /\ PcOK(t) /\ HandOK(t)
        /\ utxo \in [Block -> UTXOSet \cup {NoUTXO}]
        /\ chaintip \in Chaintip \cup {NoTip} /\ res[t] \in ValidationResult
    BY DEF Alone, TypeInv, TypeOK, StoreInv
  <2>1. CASE PutUTXO(t)
    <3>1. PICK b \in Block :
            /\ b = obj[t] /\ pc[t] = "putUTXO" /\ chaintip' = chaintip
            /\ utxo' = [utxo EXCEPT ![b] = ResultSet(res[t])] /\ Follows(b, ResultSet(res[t]))
      BY <2>0, <2>1 DEF PutUTXO, At, PcOK, HandOK, ResultSet
    <3>2. CASE HasUTXO(b)
      <4>1. utxo'[b] = utxo[b]
        BY <1>1, <3>2, ThreadGrows DEF Grows
      <4>2. utxo' = utxo
        BY <2>0, <3>1, <4>1
      <4>3. QED
        BY <3>1, <4>2 DEF Heights
    <3>3. CASE ~ HasUTXO(b)
      <4>1. Heights[b] = -1 /\ Heights \in [Block -> Int]
        BY <2>0, <3>3 DEF Heights, HasUTXO, NoUTXO, UTXOSet
      <4>2. Heights' = [Heights EXCEPT ![b] = res[t].height]
        BY <2>0, <3>1 DEF Heights, ResultSet
      <4>3. CASE Previd[b] = nil
        <5>1. res[t].height = 0
          BY <3>1, <4>3 DEF Follows, ResultSet
        <5>2. Tip!Commit(b)
          BY <3>1, <4>1, <4>2, <4>3, <5>1 DEF Tip!Commit, Heights
        <5>3. QED
          BY <5>2 DEF Tip!Next
      <4>4. CASE Previd[b] # nil
        <5>1. /\ Previd[b] \in Block /\ HasUTXO(Previd[b])
              /\ res[t].height = utxo[Previd[b]].height + 1
          BY <3>1, <4>4 DEF Follows, ResultSet
        <5>2. Heights[Previd[b]] = utxo[Previd[b]].height /\ Heights[Previd[b]] >= 0
          BY <2>0, <5>1 DEF Heights, HasUTXO, UTXOSet
        <5>3. Tip!Commit(b)
          BY <3>1, <4>1, <4>2, <5>1, <5>2 DEF Tip!Commit, Heights
        <5>4. QED
          BY <5>3 DEF Tip!Next
      <4>5. QED
        BY <4>3, <4>4
    <3>4. QED
      BY <3>2, <3>3
  <2>2. CASE PutChaintip(t)
    <3>1. PICK b \in Block :
            /\ b = obj[t] /\ pc[t] = "putTip" /\ utxo' = utxo
            /\ chaintip' = [id |-> b, height |-> res[t].height]
            /\ utxo[b].height = res[t].height
      BY <2>0, <2>2 DEF PutChaintip, At, PcOK, HandOK
    <3>2. IsNewTip(res[t].height, chaintip)
      BY <2>0, <3>1 DEF RiseInv
    <3>3. Heights[b] >= 0 /\ Heights' = Heights /\ chaintip'.id = b
      BY <2>0, <3>1 DEF Heights, ValidationResult
    <3>4. chaintip.id = nil \/ Heights[b] > Heights[chaintip.id]
      <4>1. CASE chaintip = NoTip
        BY <4>1 DEF NoTip
      <4>2. CASE chaintip # NoTip
        <5>1. chaintip.id \in Block /\ utxo[chaintip.id].height = chaintip.height
          BY <2>0, <4>2 DEF StoreInv, TipBacked, Chaintip
        <5>2. res[t].height > chaintip.height
          BY <3>2, <4>2 DEF IsNewTip
        <5>3. QED
          BY <3>1, <5>1, <5>2 DEF Heights
      <4>3. QED
        BY <4>1, <4>2
    <3>5. Tip!Adopt(b)
      BY <3>3, <3>4 DEF Tip!Adopt, Heights
    <3>6. QED
      BY <3>5 DEF Tip!Next
  <2>3. CASE ~ PutUTXO(t) /\ ~ PutChaintip(t)
    BY <1>1, <2>3, StoreWriters DEF PutObject, FindNonce, Heights
  <2>4. QED
    BY <2>1, <2>2, <2>3
<1>2. CASE ExpirePending \/ SetMiningCores \/ CrashRestart \/ UNCHANGED vars
  BY <1>2 DEF ExpirePending, SetMiningCores, CrashRestart, vars, disk, Heights
<1>3. QED
  BY <1>1, <1>2 DEF NodeNext

(* One goroutine follows the longest-chain rule, and a crash does not make *)
(* it break it: the tip moves only to higher blocks, each committed one    *)
(* above its parent, and the first seen of two at a height stays.          *)
THEOREM TipFollowsPolicy ==
  ASSUME Alone
  PROVE  NodeSpec => TipPolicy
<1>1. NodeInit => RiseInv /\ Tip!Init
  BY DEF NodeInit, RiseInv, Tip!Init, NoUTXO, NoTip
<1>2. TypeInv /\ RiseInv /\ [NodeNext]_vars => RiseInv'
  BY RiseStep
<1>3. TypeInv /\ StoreInv /\ RiseInv /\ [NodeNext]_vars =>
        [Tip!Next]_<<[b \in Block |-> utxo[b].height], chaintip.id>>
  BY PolicyStep DEF Heights
<1>4. QED
  BY <1>1, <1>2, <1>3, TypeInit, TypeStep, StoreInit, StoreStep, PTL
  DEF NodeSpec, TipPolicy, Tip!Spec

-----------------------------------------------------------------------------
(* The steps between the write of an object and the look at the blocks     *)
(* that wait for it.                                                       *)
Settling == {"spent", "active", "poolDisk", "poolAdd", "putUTXO", "readTip", "putTip",
             "cancel", "unpoolDisk", "unpoolMem", "clean", "resolve"}

(* A parked block waits for something that is not stored, or that the one  *)
(* goroutine has stored and will resolve.  This needs that stored blocks   *)
(* have their sets, since a block is also parked when its parent's set is  *)
(* missing.                                                                *)
ParkInv ==
  /\ \A b \in Block \cap objects :
       HasUTXO(b) \/ \E t \in Thread : pc[t] = "putUTXO" /\ obj[t] = b
  /\ \A t \in Thread : pc[t] = "pend" => res[t].missing \notin objects
  /\ \A p \in pendingBlocks :
       p[1] \notin objects \/ \E t \in Thread : pc[t] \in Settling /\ obj[t] = p[1]
  /\ \A t \in Thread : pc[t] \notin {"built", "buildTip", "buildPool", "mining", "mined"}

(* How a peer's goroutine comes to park a block, and how it goes on after  *)
(* it has stored an object.                                                *)
LEMMA PeerMoves ==
  ASSUME TypeInv, NEW t \in Peers, ThreadStep(t),
         pc[t] \notin {"built", "buildTip", "buildPool", "mining", "mined"}
  PROVE  /\ pc'[t] \notin {"built", "buildTip", "buildPool", "mining", "mined"}
         /\ pc'[t] = "pend" => /\ pc[t] \in {"idle", "revalidate"} /\ UNCHANGED <<objects, utxo>>
                               /\ \E b \in Block : /\ Validate(b).code = "UNKNOWN_OBJECT"
                                                   /\ res'[t] = Validate(b)
         /\ pc[t] \in Settling =>
              FetchPendingBlocks(t) \/ (pc'[t] \in Settling /\ obj'[t] = obj[t])
         /\ pc[t] = "putUTXO" => PutUTXO(t)
         /\ pendingBlocks' = pendingBlocks \/ FetchPendingBlocks(t) \/ AddPendingBlock(t)
<1> DEFINE Mining == {"built", "buildTip", "buildPool", "mining", "mined"}
           Parks == /\ pc[t] \in {"idle", "revalidate"} /\ UNCHANGED <<objects, utxo>>
                    /\ \E b \in Block : /\ Validate(b).code = "UNKNOWN_OBJECT"
                                        /\ res'[t] = Validate(b)
           Moves == /\ pc'[t] \notin Mining
                    /\ pc'[t] = "pend" => Parks
                    /\ pc[t] \in Settling =>
                         FetchPendingBlocks(t) \/ (pc'[t] \in Settling /\ obj'[t] = obj[t])
                    /\ pc[t] = "putUTXO" => PutUTXO(t)
                    /\ pendingBlocks' = pendingBlocks \/ FetchPendingBlocks(t) \/ AddPendingBlock(t)
<1>0. /\ pc \in [Thread -> PC] /\ res \in [Thread -> ValidationResult] /\ t \in Thread /\ PcOK(t)
      /\ t \notin Wallet /\ t \notin Miner
  BY ThreadsAssumption DEF TypeInv, TypeOK, Thread
<1>1. ASSUME NEW label, Goto(t, label)
      PROVE  pc'[t] = label
  BY <1>0, <1>1 DEF Goto
<1>2. ASSUME NEW stack, Return(t, stack)
      PROVE  pc'[t] \in {"idle", "revalidate"}
  BY <1>1, <1>2 DEF Return
<1>3. Committed(t) => pc'[t] = "resolve" /\ obj' = obj
  BY <1>1 DEF Committed
<1>4. ASSUME NEW x \in Objects, NEW stack, Dispatch(t, x, Validate(x), stack),
             pc[t] \in {"idle", "revalidate"},
             UNCHANGED <<disk, mempool, mempoolSpentInputs, pendingBlocks, mining>>
      PROVE  Moves
  <2>1. UNCHANGED <<objects, utxo, pendingBlocks>>
    BY <1>4 DEF disk
  <2>2. pc'[t] \in {"idle", "revalidate", "accept", "pend"}
    BY <1>1, <1>2, <1>4 DEF Dispatch, Panic, local
  <2>3. ASSUME pc'[t] = "pend"
        PROVE  Parks
    <3>1. /\ x \in Block /\ Validate(x).code = "UNKNOWN_OBJECT"
          /\ res' = [res EXCEPT ![t] = Validate(x)]
      BY <1>1, <1>2, <1>4, <2>3 DEF Dispatch, Panic, local
    <3>2. res'[t] = Validate(x)
      BY <1>0, <3>1
    <3>3. QED
      BY <1>4, <2>1, <3>1, <3>2
  <2> HIDE DEF Parks
  <2>4. QED
    BY <1>4, <2>1, <2>2, <2>3 DEF Settling
<1>5. ASSUME NEW x \in Objects, HandleObject(t, x)
      PROVE  Moves
  BY <1>4, <1>5 DEF HandleObject, At
<1>6. CASE Revalidate(t)
  <2>1. PICK b \in Head(frames[t]) : \E stack : Dispatch(t, b, Validate(b), stack)
    BY <1>6 DEF Revalidate
  <2>2. b \in Objects
    <3>1. frames[t] \in Seq(SUBSET Block) /\ frames[t] # <<>>
      BY <1>0, <1>6 DEF Revalidate, At, PcOK, TypeInv, TypeOK
    <3>2. QED
      BY <2>1, <3>1 DEF Objects
  <2>3. QED
    BY <1>4, <1>6, <2>1, <2>2 DEF Revalidate, At
<1> HIDE DEF Parks
<1>7. CASE AcceptObject(t)
  <2>1. pc[t] = "accept" /\ pc'[t] \in {"idle", "revalidate", "commit"} /\ pendingBlocks' = pendingBlocks
    BY <1>1, <1>2, <1>7 DEF AcceptObject, At, memory
  <2>2. QED
    BY <2>1 DEF Settling
<1>8. CASE PutObject(t)
  <2>1. pc[t] = "commit" /\ pc'[t] \in {"resolve", "spent", "putUTXO"} /\ pendingBlocks' = pendingBlocks
    BY <1>1, <1>3, <1>8 DEF PutObject, At, memory
  <2>2. QED
    BY <2>1 DEF Settling
<1>9. CASE CheckSpent(t) \/ CheckActive(t) \/ PoolPutDisk(t) \/ PoolAdd(t) \/ CleanMempool(t)
  <2>1. /\ pc[t] # "putUTXO" /\ pc'[t] \in {"resolve", "active", "poolDisk", "poolAdd"}
        /\ obj' = obj /\ pendingBlocks' = pendingBlocks
    BY <1>1, <1>3, <1>9 DEF CheckSpent, CheckActive, PoolPutDisk, PoolAdd, CleanMempool, At, memory
  <2>2. QED
    BY <2>1 DEF Settling
<1>10. CASE PutUTXO(t) \/ PutChaintip(t) \/ UnpoolDisk(t) \/ UnpoolMem(t)
  <2>1. /\ pc'[t] \in {"readTip", "unpoolDisk", "cancel", "clean", "unpoolMem"}
        /\ obj' = obj /\ pendingBlocks' = pendingBlocks
    BY <1>1, <1>10 DEF PutUTXO, PutChaintip, UnpoolDisk, UnpoolMem, memory
  <2>2. pc[t] = "putUTXO" => PutUTXO(t)
    BY <1>10 DEF PutChaintip, UnpoolDisk, UnpoolMem, At
  <2>3. QED
    BY <2>1, <2>2 DEF Settling
<1>11. CASE ReadTip(t)
  <2>1. /\ pc[t] = "readTip" /\ pc'[t] \in {"readTip", "putTip"}
        /\ obj' = obj /\ pendingBlocks' = pendingBlocks
    BY <1>1, <1>11 DEF ReadTip, Panic, local, At
  <2>2. QED
    BY <2>1 DEF Settling
<1>12. CASE CancelMining(t)
  <2>1. /\ pc[t] = "cancel" /\ pc'[t] \in {"resolve", "unpoolDisk"}
        /\ obj' = obj /\ pendingBlocks' = pendingBlocks
    BY <1>1, <1>3, <1>12 DEF CancelMining, HandleReorg, At, memory
  <2>2. QED
    BY <2>1 DEF Settling
<1>13. CASE FetchPendingBlocks(t) \/ AddPendingBlock(t)
  <2>1. pc[t] \in {"resolve", "pend"} /\ pc'[t] \in {"idle", "revalidate"}
    BY <1>2, <1>13 DEF FetchPendingBlocks, AddPendingBlock, At
  <2>2. pc[t] = "resolve" => FetchPendingBlocks(t)
    BY <1>13 DEF AddPendingBlock, At
  <2>3. QED
    BY <1>13, <2>1, <2>2 DEF Settling
<1>14. ~ (BuildTx(t) \/ ValidateOwnTx(t) \/ StartMining(t) \/ BuildOnTip(t) \/ BuildOfPool(t)
          \/ FindNonce(t) \/ AbortMining(t) \/ ValidateOwnBlock(t))
  BY <1>0 DEF BuildTx, ValidateOwnTx, StartMining, BuildOnTip, BuildOfPool, FindNonce,
              AbortMining, ValidateOwnBlock, At
<1> USE DEF Parks
<1>15. Moves
  <2>1. \/ \E x \in Objects : HandleObject(t, x)
        \/ Revalidate(t) \/ AcceptObject(t) \/ PutObject(t)
        \/ CheckSpent(t) \/ CheckActive(t) \/ PoolPutDisk(t) \/ PoolAdd(t) \/ CleanMempool(t)
        \/ PutUTXO(t) \/ PutChaintip(t) \/ UnpoolDisk(t) \/ UnpoolMem(t)
        \/ ReadTip(t) \/ CancelMining(t)
        \/ FetchPendingBlocks(t) \/ AddPendingBlock(t)
    BY <1>14 DEF ThreadStep, BusyStep, MinerStep
  <2>2. CASE \E x \in Objects : HandleObject(t, x)
    BY <1>5, <2>2
  <2>3. CASE Revalidate(t)
    BY <1>6, <2>3
  <2>4. CASE \/ AcceptObject(t) \/ PutObject(t)
             \/ CheckSpent(t) \/ CheckActive(t) \/ PoolPutDisk(t) \/ PoolAdd(t) \/ CleanMempool(t)
    BY <1>7, <1>8, <1>9, <2>4
  <2>5. CASE \/ PutUTXO(t) \/ PutChaintip(t) \/ UnpoolDisk(t) \/ UnpoolMem(t) \/ ReadTip(t)
    BY <1>10, <1>11, <2>5
  <2>6. CASE CancelMining(t) \/ FetchPendingBlocks(t) \/ AddPendingBlock(t)
    BY <1>12, <1>13, <2>6
  <2>7. QED
    BY <2>1, <2>2, <2>3, <2>4, <2>5, <2>6
<1>16. QED
  BY <1>15

(* ParkInv is inductive for the goroutine of one peer, without crashes.    *)
LEMMA ParkStep ==
  Alone /\ Thread = Peers /\ ~ CrashEnabled /\ TypeInv /\ ParkInv /\ [NodeNext]_vars => ParkInv'
<1> SUFFICES ASSUME Alone, Thread = Peers, ~ CrashEnabled, TypeInv, ParkInv, [NodeNext]_vars
             PROVE  ParkInv'
  OBVIOUS
<1>1. ASSUME NEW t \in Thread, ThreadStep(t)
      PROVE  ParkInv'
  <2> DEFINE Mining == {"built", "buildTip", "buildPool", "mining", "mined"}
  <2>0. /\ Thread = {t} /\ t \in Peers /\ PcOK(t) /\ pc \in [Thread -> PC]
        /\ utxo \in [Block -> UTXOSet \cup {NoUTXO}] /\ res[t] \in ValidationResult
        /\ pc[t] \notin Mining /\ pendingBlocks \subseteq HashID \X Block
    BY DEF Alone, TypeInv, TypeOK, ParkInv
  <2>1. /\ pc'[t] \notin Mining
        /\ pc'[t] = "pend" => /\ pc[t] \in {"idle", "revalidate"} /\ UNCHANGED <<objects, utxo>>
                              /\ \E b \in Block : /\ Validate(b).code = "UNKNOWN_OBJECT"
                                                  /\ res'[t] = Validate(b)
        /\ pc[t] \in Settling =>
             FetchPendingBlocks(t) \/ (pc'[t] \in Settling /\ obj'[t] = obj[t])
        /\ pc[t] = "putUTXO" => PutUTXO(t)
        /\ pendingBlocks' = pendingBlocks \/ FetchPendingBlocks(t) \/ AddPendingBlock(t)
    BY <1>1, <2>0, PeerMoves
  <2> HIDE DEF Mining
  <2>2. \/ PutObject(t) \/ PutUTXO(t) \/ UNCHANGED <<objects, utxo>>
    <3>1. ~ FindNonce(t)
      BY <2>0 DEF FindNonce, At, Mining
    <3>2. QED
      BY <1>1, <3>1, StoreWriters DEF PutChaintip
  <2>3. \A b \in Block \cap objects' :
          utxo'[b] # NoUTXO \/ (pc'[t] = "putUTXO" /\ obj'[t] = b)
    <3>1. CASE PutObject(t)
      <4>1. /\ pc[t] = "commit" /\ objects' = objects \cup {obj[t]} /\ utxo' = utxo
            /\ obj[t] \in Block => pc'[t] = "putUTXO" /\ obj' = obj
        BY <2>0, <3>1, IdsDisjoint DEF PutObject, At, Goto
      <4>2. \A b \in Block \cap objects : utxo[b] # NoUTXO
        BY <2>0, <4>1 DEF ParkInv, HasUTXO
      <4>3. QED
        BY <4>1, <4>2
    <3>2. CASE PutUTXO(t)
      <4>1. /\ pc[t] = "putUTXO" /\ obj[t] \in Block /\ objects' = objects
            /\ utxo' = [utxo EXCEPT ![obj[t]] = ResultSet(res[t])]
        BY <2>0, <3>2 DEF PutUTXO, At, PcOK, ResultSet
      <4>2. ResultSet(res[t]) # NoUTXO
        BY <2>0 DEF ResultSet, NoUTXO, ValidationResult
      <4>3. \A b \in Block \cap objects : utxo[b] # NoUTXO \/ obj[t] = b
        BY <2>0, <4>1 DEF ParkInv, HasUTXO
      <4>4. QED
        BY <2>0, <4>1, <4>2, <4>3
    <3>3. CASE UNCHANGED <<objects, utxo>> /\ ~ PutUTXO(t)
      BY <2>0, <2>1, <3>3 DEF ParkInv, HasUTXO
    <3>4. QED
      BY <2>2, <3>1, <3>2, <3>3
  <2>4. ASSUME pc'[t] = "pend"
        PROVE  res'[t].missing \notin objects'
    <3>1. PICK b \in Block : Validate(b).code = "UNKNOWN_OBJECT" /\ res'[t] = Validate(b)
      BY <2>1, <2>4
    <3>2. Validate(b) = ValidateBlock(b, objects, utxo, chaintip)
      BY IdsDisjoint DEF Validate, ValidateObject
    <3>3. \/ res'[t].missing \notin objects
          \/ res'[t].missing \in Block /\ utxo[res'[t].missing] = NoUTXO
      BY <3>1, <3>2, MissingObject
    <3>4. \A c \in Block \cap objects : utxo[c] # NoUTXO
      BY <2>0, <2>1, <2>4 DEF ParkInv, HasUTXO
    <3>5. QED
      BY <2>1, <2>4, <3>3, <3>4
  <2>5. ASSUME NEW p \in pendingBlocks'
        PROVE  p[1] \notin objects' \/ (pc'[t] \in Settling /\ obj'[t] = p[1])
    <3>1. CASE FetchPendingBlocks(t)
      <4>1. /\ objects' = objects /\ p \in pendingBlocks
            /\ p \notin {obj[t]} \X {b \in Block : <<obj[t], b>> \in pendingBlocks}
        BY <2>5, <3>1 DEF FetchPendingBlocks, disk
      <4>2. PICK a \in HashID, b \in Block : p = <<a, b>>
        BY <2>0, <4>1
      <4>3. p[1] # obj[t]
        BY <4>1, <4>2
      <4>4. QED
        BY <2>0, <4>1, <4>3 DEF ParkInv
    <3>2. CASE AddPendingBlock(t)
      <4>1. /\ pc[t] = "pend" /\ objects' = objects
            /\ p \in pendingBlocks \/ p = <<res[t].missing, obj[t]>>
        BY <2>5, <3>2 DEF AddPendingBlock, At, disk
      <4>2. p \in pendingBlocks => p[1] \notin objects
        BY <2>0, <4>1 DEF ParkInv, Settling
      <4>3. res[t].missing \notin objects
        BY <2>0, <4>1 DEF ParkInv
      <4>4. QED
        BY <4>1, <4>2, <4>3
    <3>3. CASE PutObject(t)
      <4>1. /\ pc[t] = "commit" /\ objects' = objects \cup {obj[t]} /\ pendingBlocks' = pendingBlocks
            /\ pc'[t] \in Settling /\ obj' = obj
        BY <2>0, <3>3 DEF PutObject, At, Goto, Committed, memory, Settling
      <4>2. p[1] \notin objects
        BY <2>0, <2>5, <4>1 DEF ParkInv, Settling
      <4>3. QED
        BY <4>1, <4>2
    <3>4. CASE pendingBlocks' = pendingBlocks /\ objects' = objects /\ ~ FetchPendingBlocks(t)
      BY <2>0, <2>1, <2>5, <3>4 DEF ParkInv
    <3>5. QED
      <4>1. PutUTXO(t) => objects' = objects
        BY DEF PutUTXO
      <4>2. QED
        BY <2>1, <2>2, <3>1, <3>2, <3>3, <3>4, <4>1
  <2>6. QED
    BY <2>0, <2>1, <2>3, <2>4, <2>5 DEF ParkInv, HasUTXO, Mining
<1>2. CASE ExpirePending \/ SetMiningCores \/ UNCHANGED vars
  <2>1. UNCHANGED <<objects, utxo, pc, obj, res>> /\ pendingBlocks' \subseteq pendingBlocks
    BY <1>2 DEF ExpirePending, SetMiningCores, vars, disk, memory, local
  <2>2. QED
    BY <2>1 DEF ParkInv, HasUTXO
<1>3. ~ CrashRestart
  BY DEF CrashRestart
<1>4. QED
  BY <1>1, <1>2, <1>3 DEF NodeNext

(* With one peer, no other goroutine and no crash, no block stays parked   *)
(* on an object that is stored.                                            *)
THEOREM NothingStranded ==
  ASSUME Alone, Thread = Peers, ~ CrashEnabled
  PROVE  NodeSpec => []NoStranded
<1>1. NodeInit => ParkInv
  BY DEF NodeInit, ParkInv
<1>2. TypeInv /\ ParkInv /\ [NodeNext]_vars => ParkInv'
  BY ParkStep
<1>3. ParkInv => NoStranded
  BY DEF ParkInv, NoStranded, Quiet, Settling
<1>4. QED
  BY <1>1, <1>2, <1>3, TypeInit, TypeStep, PTL DEF NodeSpec

-----------------------------------------------------------------------------
(* No block has two children.                                              *)
NoForks == \A b, c \in Block : Previd[b] = Previd[c] => b = c

(* The steps in which commitBlock brings the mempool up to a new chaintip. *)
Unpooling == {"cancel", "unpoolDisk", "unpoolMem", "clean"}

(* The committed blocks are a line from the genesis block to the chaintip, *)
(* or to the block that is about to become it: a block that is committed   *)
(* is a new tip on top of the old one, never a reorganisation.             *)
LineInv ==
  /\ \A b \in Block : HasUTXO(b) =>
       \/ chaintip.id = b
       \/ \E c \in Block : HasUTXO(c) /\ Previd[c] = b
       \/ \E t \in Thread : pc[t] \in {"readTip", "putTip"} /\ obj[t] = b
  /\ chaintip # NoTip => genesisHash \in Block /\ HasUTXO(genesisHash)
  /\ \A t \in Thread :
       /\ pc[t] \in {"commit", "putUTXO"} /\ obj[t] \in Block => ~ HasUTXO(obj[t])
       /\ pc[t] \in {"readTip", "putTip"} =>
            IF chaintip = NoTip THEN obj[t] = genesisHash ELSE chaintip.id = Previd[obj[t]]
       /\ pc[t] \in Unpooling => chaintip # NoTip
       /\ isReorg[t] = FALSE

(* The mempool can be mined on the chaintip but for the steps that bring   *)
(* it up to a new one, and so can what is about to be added to it.         *)
ActiveInv ==
  /\ \A t \in Thread : pc[t] \in {"poolDisk", "poolAdd"} => InActiveUTXO(obj[t])
  /\ (\A t \in Thread : pc[t] \notin Unpooling) => \A x \in mempool : InActiveUTXO(x)

(* How a peer's goroutine comes to store a block, how it enters and leaves *)
(* the steps that update the mempool, and what decides isReorg.            *)
LEMMA LineMoves ==
  ASSUME TypeInv, NEW t \in Peers, ThreadStep(t),
         pc[t] \notin {"built", "buildTip", "buildPool", "mining", "mined"}
  PROVE  /\ pc'[t] = "commit" => AcceptObject(t)
         /\ pc'[t] = "putUTXO" => PutObject(t)
         /\ pc'[t] \in Unpooling => pc[t] \in Unpooling \/ PutChaintip(t) \/ PutUTXO(t)
         /\ pc[t] \in Unpooling /\ pc'[t] \notin Unpooling =>
              CleanMempool(t) \/ (CancelMining(t) /\ isReorg[t])
         /\ isReorg' = isReorg \/ ReadTip(t) \/ CancelMining(t)
<1> DEFINE Line == /\ pc'[t] = "commit" => AcceptObject(t)
                   /\ pc'[t] = "putUTXO" => PutObject(t)
                   /\ pc'[t] \in Unpooling => pc[t] \in Unpooling \/ PutChaintip(t) \/ PutUTXO(t)
                   /\ pc[t] \in Unpooling /\ pc'[t] \notin Unpooling =>
                        CleanMempool(t) \/ (CancelMining(t) /\ isReorg[t])
                   /\ isReorg' = isReorg \/ ReadTip(t) \/ CancelMining(t)
<1>0. /\ pc \in [Thread -> PC] /\ t \in Thread /\ t \notin Wallet /\ t \notin Miner
  BY ThreadsAssumption DEF TypeInv, TypeOK, Thread
<1>1. ASSUME NEW label, Goto(t, label)
      PROVE  pc'[t] = label
  BY <1>0, <1>1 DEF Goto
<1>2. ASSUME NEW stack, Return(t, stack)
      PROVE  pc'[t] \in {"idle", "revalidate"}
  BY <1>1, <1>2 DEF Return
<1>3. Committed(t) => pc'[t] = "resolve"
  BY <1>1 DEF Committed
<1>4. ASSUME NEW x, NEW r, NEW stack, Dispatch(t, x, r, stack), pc[t] \in {"idle", "revalidate"}
      PROVE  Line
  <2>1. pc'[t] \in {"idle", "revalidate", "accept", "pend"} /\ isReorg' = isReorg
    BY <1>1, <1>2, <1>4 DEF Dispatch, Panic, local
  <2>2. QED
    BY <1>4, <2>1 DEF Unpooling
<1>5. ASSUME NEW x \in Objects, HandleObject(t, x)
      PROVE  Line
  BY <1>4, <1>5 DEF HandleObject, At
<1>6. CASE Revalidate(t)
  BY <1>4, <1>6 DEF Revalidate, At
<1>7. CASE AcceptObject(t)
  <2>1. pc[t] = "accept" /\ pc'[t] \in {"idle", "revalidate", "commit"} /\ isReorg' = isReorg
    BY <1>1, <1>2, <1>7 DEF AcceptObject, At
  <2>2. QED
    BY <1>7, <2>1 DEF Unpooling
<1>8. CASE PutObject(t)
  <2>1. pc[t] = "commit" /\ pc'[t] \in {"resolve", "spent", "putUTXO"} /\ isReorg' = isReorg
    BY <1>1, <1>3, <1>8 DEF PutObject, At
  <2>2. QED
    BY <1>8, <2>1 DEF Unpooling
<1>9. CASE CheckSpent(t) \/ CheckActive(t) \/ PoolPutDisk(t) \/ PoolAdd(t)
  <2>1. /\ pc[t] \in {"spent", "active", "poolDisk", "poolAdd"} /\ isReorg' = isReorg
        /\ pc'[t] \in {"resolve", "active", "poolDisk", "poolAdd"}
    BY <1>1, <1>3, <1>9 DEF CheckSpent, CheckActive, PoolPutDisk, PoolAdd, At
  <2>2. QED
    BY <2>1 DEF Unpooling
<1>10. CASE CleanMempool(t)
  <2>1. pc'[t] = "resolve" /\ isReorg' = isReorg
    BY <1>1, <1>3, <1>10 DEF CleanMempool
  <2>2. QED
    BY <1>10, <2>1 DEF Unpooling
<1>11. CASE PutUTXO(t) \/ PutChaintip(t)
  <2>1. /\ pc[t] \in {"putUTXO", "putTip"} /\ isReorg' = isReorg
        /\ pc'[t] \in {"readTip", "unpoolDisk", "cancel"}
    BY <1>1, <1>11 DEF PutUTXO, PutChaintip, At
  <2>2. QED
    BY <1>11, <2>1 DEF Unpooling
<1>12. CASE UnpoolDisk(t) \/ UnpoolMem(t)
  <2>1. /\ pc[t] \in {"unpoolDisk", "unpoolMem"} /\ isReorg' = isReorg
        /\ pc'[t] \in {"clean", "unpoolMem", "unpoolDisk"}
    BY <1>1, <1>12 DEF UnpoolDisk, UnpoolMem, At
  <2>2. QED
    BY <2>1 DEF Unpooling
<1>13. CASE ReadTip(t)
  <2>1. pc[t] = "readTip" /\ pc'[t] \in {"readTip", "putTip"}
    BY <1>1, <1>13 DEF ReadTip, Panic, local, At
  <2>2. QED
    BY <1>13, <2>1 DEF Unpooling
<1>14. CASE CancelMining(t)
  <2>1. /\ pc[t] = "cancel" /\ pc'[t] \in {"resolve", "unpoolDisk"}
        /\ ~ isReorg[t] => pc'[t] = "unpoolDisk"
    BY <1>1, <1>3, <1>14 DEF CancelMining, HandleReorg, At
  <2>2. QED
    BY <1>14, <2>1 DEF Unpooling
<1>15. CASE FetchPendingBlocks(t) \/ AddPendingBlock(t)
  <2>1. /\ pc[t] \in {"resolve", "pend"} /\ pc'[t] \in {"idle", "revalidate"}
        /\ isReorg' = isReorg
    BY <1>2, <1>15 DEF FetchPendingBlocks, AddPendingBlock, At
  <2>2. QED
    BY <2>1 DEF Unpooling
<1>16. ~ (BuildTx(t) \/ ValidateOwnTx(t) \/ StartMining(t) \/ BuildOnTip(t) \/ BuildOfPool(t)
          \/ FindNonce(t) \/ AbortMining(t) \/ ValidateOwnBlock(t))
  BY <1>0 DEF BuildTx, ValidateOwnTx, StartMining, BuildOnTip, BuildOfPool, FindNonce,
              AbortMining, ValidateOwnBlock, At
<1>17. QED
  <2>1. \/ \E x \in Objects : HandleObject(t, x)
        \/ Revalidate(t) \/ AcceptObject(t) \/ PutObject(t)
        \/ CheckSpent(t) \/ CheckActive(t) \/ PoolPutDisk(t) \/ PoolAdd(t) \/ CleanMempool(t)
        \/ PutUTXO(t) \/ PutChaintip(t) \/ UnpoolDisk(t) \/ UnpoolMem(t)
        \/ ReadTip(t) \/ CancelMining(t)
        \/ FetchPendingBlocks(t) \/ AddPendingBlock(t)
    BY <1>16 DEF ThreadStep, BusyStep, MinerStep
  <2>2. CASE \E x \in Objects : HandleObject(t, x)
    BY <1>5, <2>2
  <2>3. CASE Revalidate(t)
    BY <1>6, <2>3
  <2>4. CASE \/ AcceptObject(t) \/ PutObject(t)
             \/ CheckSpent(t) \/ CheckActive(t) \/ PoolPutDisk(t) \/ PoolAdd(t) \/ CleanMempool(t)
    BY <1>7, <1>8, <1>9, <1>10, <2>4
  <2>5. CASE \/ PutUTXO(t) \/ PutChaintip(t) \/ UnpoolDisk(t) \/ UnpoolMem(t) \/ ReadTip(t)
    BY <1>11, <1>12, <1>13, <2>5
  <2>6. CASE CancelMining(t) \/ FetchPendingBlocks(t) \/ AddPendingBlock(t)
    BY <1>14, <1>15, <2>6
  <2>7. QED
    BY <2>1, <2>2, <2>3, <2>4, <2>5, <2>6

(* Without forks a block about to be committed is a child of the chaintip, *)
(* or the genesis block if there is none: a committed block that is not    *)
(* the tip has its only child committed, and this one is not.              *)
LEMMA OnTip ==
  ASSUME Alone, NoForks, TypeInv, StoreInv, LineInv, NEW t \in Thread, pc[t] = "putUTXO"
  PROVE  /\ IF chaintip = NoTip THEN obj[t] = genesisHash ELSE chaintip.id = Previd[obj[t]]
         /\ IsNewTip(res[t].height, chaintip)
<1>0. /\ Thread = {t} /\ obj[t] \in Block /\ Follows(obj[t], ResultSet(res[t]))
      /\ ~ HasUTXO(obj[t]) /\ chaintip \in Chaintip \cup {NoTip}
      /\ utxo \in [Block -> UTXOSet \cup {NoUTXO}]
  BY DEF Alone, TypeInv, TypeOK, PcOK, StoreInv, HandOK, LineInv
<1>1. CASE Previd[obj[t]] = nil
  <2>1. obj[t] = genesisHash
    BY <1>0, <1>1 DEF Follows
  <2>2. chaintip = NoTip
    BY <1>0, <2>1 DEF LineInv
  <2>3. QED
    BY <2>1, <2>2 DEF IsNewTip
<1>2. CASE Previd[obj[t]] # nil
  <2>1. PICK p \in Block : /\ p = Previd[obj[t]] /\ HasUTXO(p)
                           /\ res[t].height = utxo[p].height + 1
    BY <1>0, <1>2 DEF Follows, ResultSet
  <2>2. ~ \E c \in Block : HasUTXO(c) /\ Previd[c] = p
    BY <1>0, <2>1 DEF NoForks
  <2>3. chaintip.id = p
    BY <1>0, <2>1, <2>2 DEF LineInv
  <2>4. chaintip # NoTip
    BY <2>1, <2>3, IdsDisjoint DEF NoTip, HashID
  <2>5. utxo[p].height = chaintip.height /\ utxo[p].height \in Int
    BY <1>0, <2>3, <2>4 DEF StoreInv, TipBacked, UTXOSet, NoUTXO
  <2>6. QED
    BY <2>1, <2>3, <2>4, <2>5 DEF IsNewTip
<1>3. QED
  BY <1>1, <1>2

(* LineInv is inductive without forks, for the goroutine of one peer that  *)
(* is not killed.                                                          *)
LEMMA LineStep ==
  Alone /\ Thread = Peers /\ ~ CrashEnabled /\ NoForks /\ TypeInv /\ StoreInv /\ RiseInv /\ ParkInv
    /\ LineInv /\ [NodeNext]_vars => LineInv'
<1> SUFFICES ASSUME Alone, Thread = Peers, ~ CrashEnabled, NoForks, TypeInv, StoreInv, RiseInv,
                    ParkInv, LineInv, [NodeNext]_vars
             PROVE  LineInv'
  OBVIOUS
<1>1. ASSUME NEW t \in Thread, ThreadStep(t)
      PROVE  LineInv'
  <2>0. /\ Thread = {t} /\ PcOK(t) /\ HandOK(t) /\ pc \in [Thread -> PC] /\ t \in Peers
        /\ utxo \in [Block -> UTXOSet \cup {NoUTXO}] /\ res[t] \in ValidationResult
        /\ chaintip \in Chaintip \cup {NoTip} /\ isReorg \in [Thread -> BOOLEAN]
        /\ pc[t] \notin {"built", "buildTip", "buildPool", "mining", "mined"}
    BY DEF Alone, TypeInv, TypeOK, StoreInv, ParkInv
  <2>1. /\ pc'[t] = "commit" => AcceptObject(t)
        /\ pc'[t] = "putUTXO" => PutObject(t)
        /\ pc'[t] \in Unpooling => pc[t] \in Unpooling \/ PutChaintip(t) \/ PutUTXO(t)
        /\ isReorg' = isReorg \/ ReadTip(t) \/ CancelMining(t)
    BY <1>1, <2>0, LineMoves
  <2>2. /\ pc'[t] \in {"readTip", "putTip"} => PutUTXO(t) \/ ReadTip(t)
        /\ pc[t] = "readTip" => ReadTip(t)
        /\ pc[t] = "putTip" => PutChaintip(t)
    BY <1>1, TipMoves
  <2> DEFINE TipOf(b, tip) == IF tip = NoTip THEN b = genesisHash ELSE tip.id = Previd[b]
  <2>3. CASE PutUTXO(t)
    <3>1. PICK b \in Block :
            /\ b = obj[t] /\ pc[t] = "putUTXO" /\ UNCHANGED <<obj, res, chaintip, isReorg>>
            /\ pc'[t] = IF res[t].isNewTip THEN "readTip" ELSE "unpoolDisk"
            /\ utxo' = [utxo EXCEPT ![b] = ResultSet(res[t])]
      BY <2>0, <2>3 DEF PutUTXO, At, PcOK, Goto, ResultSet
    <3>2. TipOf(b, chaintip) /\ IsNewTip(res[t].height, chaintip)
      BY <3>1, OnTip
    <3>3. pc'[t] = "readTip"
      <4>1. res[t].isNewTip = IsNewTip(res[t].height, chaintip)
        BY <2>0, <3>1 DEF RiseInv
      <4>2. QED
        BY <3>1, <3>2, <4>1
    <3>4. utxo'[b] # NoUTXO /\ \A c \in Block \ {b} : utxo'[c] = utxo[c]
      BY <2>0, <3>1 DEF ResultSet, NoUTXO, ValidationResult
    <3>5. \A c \in Block : utxo'[c] # NoUTXO =>
            \/ chaintip'.id = c
            \/ \E d \in Block : utxo'[d] # NoUTXO /\ Previd[d] = c
            \/ pc'[t] \in {"readTip", "putTip"} /\ obj'[t] = c
      <4>1. \A c \in Block : utxo[c] # NoUTXO =>
              chaintip.id = c \/ \E d \in Block : utxo[d] # NoUTXO /\ Previd[d] = c
        BY <2>0, <3>1 DEF LineInv, HasUTXO
      <4>2. \A d \in Block : utxo[d] # NoUTXO => utxo'[d] # NoUTXO
        BY <3>4
      <4>3. QED
        BY <3>1, <3>3, <3>4, <4>1, <4>2
    <3>6. chaintip' # NoTip => genesisHash \in Block /\ utxo'[genesisHash] # NoUTXO
      BY <3>1, <3>4 DEF LineInv, HasUTXO
    <3>7. QED
      BY <2>0, <3>1, <3>2, <3>3, <3>5, <3>6 DEF LineInv, HasUTXO, Unpooling
  <2>4. CASE PutChaintip(t)
    <3>1. PICK b \in Block :
            /\ b = obj[t] /\ pc[t] = "putTip" /\ UNCHANGED <<utxo, isReorg>>
            /\ pc'[t] = "cancel" /\ chaintip' = [id |-> b, height |-> res[t].height]
            /\ utxo[b] # NoUTXO /\ TipOf(b, chaintip)
      BY <2>0, <2>4 DEF PutChaintip, At, PcOK, HandOK, HasUTXO, Goto, LineInv
    <3>2. chaintip' # NoTip
      BY <3>1, IdsDisjoint DEF NoTip, HashID
    <3>3. \A c \in Block : utxo[c] # NoUTXO =>
            chaintip'.id = c \/ \E d \in Block : utxo[d] # NoUTXO /\ Previd[d] = c
      <4>1. \A c \in Block : utxo[c] # NoUTXO =>
              \/ chaintip.id = c \/ c = b
              \/ \E d \in Block : utxo[d] # NoUTXO /\ Previd[d] = c
        BY <2>0, <3>1 DEF LineInv, HasUTXO
      <4>2. \A c \in Block : chaintip.id = c => Previd[b] = c
        BY <3>1, IdsDisjoint DEF NoTip, HashID
      <4>3. QED
        BY <3>1, <4>1, <4>2
    <3>4. genesisHash \in Block /\ utxo[genesisHash] # NoUTXO
      BY <3>1 DEF LineInv, HasUTXO
    <3>5. QED
      BY <2>0, <3>1, <3>2, <3>3, <3>4 DEF LineInv, HasUTXO, Unpooling
  <2>5. CASE ~ PutUTXO(t) /\ ~ PutChaintip(t)
    <3>1. UNCHANGED <<utxo, chaintip>>
      BY <1>1, <2>5, StoreWriters DEF PutObject, FindNonce
    <3>2. ReadTip(t) => /\ pc[t] = "readTip" /\ obj' = obj /\ isReorg'[t] = FALSE
                        /\ pc'[t] \in {"readTip", "putTip"}
      <4>1. ASSUME ReadTip(t)
            PROVE  isReorg'[t] = FALSE
        <5>1. pc[t] = "readTip" /\ isReorg[t] = FALSE /\ TipOf(obj[t], chaintip)
          BY <2>0, <4>1 DEF ReadTip, At, LineInv
        <5>2. QED
          BY <2>0, <4>1, <5>1 DEF ReadTip, Panic, local
      <4>2. QED
        BY <2>0, <4>1 DEF ReadTip, At, Panic, local, Goto
    <3>3. isReorg'[t] = FALSE
      <4>1. CancelMining(t) => isReorg'[t] = FALSE
        BY <2>0 DEF CancelMining
      <4>2. QED
        BY <2>0, <2>1, <3>2, <4>1 DEF LineInv
    <3>4. ASSUME pc'[t] \in {"commit", "putUTXO"}, obj'[t] \in Block
          PROVE  utxo'[obj'[t]] = NoUTXO
      <4>1. CASE AcceptObject(t)
        <5>1. obj' = obj /\ obj[t] \notin objects
          BY <2>0, <3>4, <4>1 DEF AcceptObject, Return, Goto
        <5>2. QED
          BY <3>1, <3>4, <5>1 DEF StoreInv, UTXOChained, HasUTXO
      <4>2. CASE PutObject(t)
        <5>1. pc[t] = "commit" /\ obj' = obj
          BY <2>0, <3>4, <4>2 DEF PutObject, At, Committed, Goto
        <5>2. QED
          BY <2>0, <3>1, <3>4, <5>1 DEF LineInv, HasUTXO
      <4>3. QED
        BY <2>1, <3>4, <4>1, <4>2
    <3>5. pc'[t] \in {"readTip", "putTip"} => TipOf(obj'[t], chaintip')
      BY <2>0, <2>2, <2>5, <3>1, <3>2 DEF LineInv
    <3>6. pc'[t] \in Unpooling => chaintip' # NoTip
      BY <2>0, <2>1, <2>5, <3>1 DEF LineInv
    <3>7. \A b \in Block : pc[t] \in {"readTip", "putTip"} /\ obj[t] = b =>
            pc'[t] \in {"readTip", "putTip"} /\ obj'[t] = b
      BY <2>2, <2>5, <3>2
    <3>8. \A b \in Block : utxo'[b] # NoUTXO =>
            \/ chaintip'.id = b
            \/ \E c \in Block : utxo'[c] # NoUTXO /\ Previd[c] = b
            \/ pc'[t] \in {"readTip", "putTip"} /\ obj'[t] = b
      BY <2>0, <3>1, <3>7 DEF LineInv, HasUTXO
    <3>9. chaintip' # NoTip => genesisHash \in Block /\ utxo'[genesisHash] # NoUTXO
      BY <3>1 DEF LineInv, HasUTXO
    <3>10. QED
      BY <2>0, <3>3, <3>4, <3>5, <3>6, <3>8, <3>9 DEF LineInv, HasUTXO
  <2>6. QED
    BY <2>3, <2>4, <2>5
<1>2. CASE ExpirePending \/ SetMiningCores \/ UNCHANGED vars
  <2>1. UNCHANGED <<utxo, chaintip, pc, obj, isReorg>>
    BY <1>2 DEF ExpirePending, SetMiningCores, vars, disk, local
  <2>2. QED
    BY <2>1 DEF LineInv, HasUTXO
<1>3. ~ CrashRestart
  BY DEF CrashRestart
<1>4. QED
  BY <1>1, <1>2, <1>3 DEF NodeNext

(* And so is ActiveInv with it.                                            *)
LEMMA ActiveStep ==
  Alone /\ Thread = Peers /\ ~ CrashEnabled /\ NoForks /\ TypeInv /\ StoreInv /\ ParkInv /\ LineInv
    /\ ActiveInv /\ [NodeNext]_vars => ActiveInv'
<1> SUFFICES ASSUME Alone, Thread = Peers, ~ CrashEnabled, NoForks, TypeInv, StoreInv, ParkInv,
                    LineInv, ActiveInv, [NodeNext]_vars
             PROVE  ActiveInv'
  OBVIOUS
<1>1. ASSUME NEW t \in Thread, ThreadStep(t)
      PROVE  ActiveInv'
  <2>0. /\ Thread = {t} /\ PcOK(t) /\ pc \in [Thread -> PC] /\ t \in Peers
        /\ utxo \in [Block -> UTXOSet \cup {NoUTXO}]
        /\ pc[t] \notin {"built", "buildTip", "buildPool", "mining", "mined"}
    BY DEF Alone, TypeInv, TypeOK, ParkInv
  <2>1. /\ pc'[t] \in Unpooling => pc[t] \in Unpooling \/ PutChaintip(t) \/ PutUTXO(t)
        /\ pc[t] \in Unpooling /\ pc'[t] \notin Unpooling => CleanMempool(t)
    <3>1. isReorg[t] = FALSE
      BY DEF LineInv
    <3>2. QED
      BY <1>1, <2>0, <3>1, LineMoves
  <2>2. PutChaintip(t) => pc'[t] = "cancel"
    BY <2>0 DEF PutChaintip, Goto
  <2>3. ASSUME ~ PutChaintip(t), NEW x
        PROVE  InActiveUTXO(x)' <=> InActiveUTXO(x)
    <3>1. chaintip' = chaintip
      BY <1>1, <2>3, StoreWriters DEF PutObject, PutUTXO, FindNonce
    <3>2. chaintip # NoTip => utxo'[chaintip.id] = utxo[chaintip.id]
      <4>1. chaintip # NoTip => chaintip.id \in Block /\ HasUTXO(chaintip.id)
        BY DEF TypeInv, TypeOK, StoreInv, TipBacked, Chaintip
      <4>2. QED
        BY <1>1, <4>1, ThreadGrows DEF Grows
    <3>3. QED
      BY <3>1, <3>2 DEF InActiveUTXO
  <2>4. CASE CheckActive(t)
    <3>1. /\ pc[t] = "active" /\ mempool' = mempool /\ obj'[t] = obj[t]
          /\ pc'[t] = IF InActiveUTXO(obj[t]) THEN "poolDisk" ELSE "resolve"
      BY <2>0, <2>4 DEF CheckActive, At, Committed, Goto, memory
    <3>2. ~ PutChaintip(t)
      BY <3>1 DEF PutChaintip, At
    <3>3. \A x \in mempool : InActiveUTXO(x)
      BY <2>0, <3>1 DEF ActiveInv, Unpooling
    <3>4. \A x \in mempool' : InActiveUTXO(x)'
      BY <2>3, <3>1, <3>2, <3>3
    <3>5. pc'[t] = "poolDisk" => InActiveUTXO(obj[t])'
      BY <2>3, <3>1, <3>2
    <3>6. QED
      BY <2>0, <3>1, <3>4, <3>5 DEF ActiveInv, InActiveUTXO
  <2>5. CASE PoolPutDisk(t)
    <3>1. /\ pc[t] = "poolDisk" /\ UNCHANGED <<mempool, obj, chaintip, utxo>> /\ pc'[t] = "poolAdd"
      BY <2>0, <2>5 DEF PoolPutDisk, At, Goto, memory
    <3>2. QED
      BY <2>0, <3>1 DEF ActiveInv, InActiveUTXO, Unpooling
  <2>6. CASE PoolAdd(t)
    <3>1. /\ pc[t] = "poolAdd" /\ mempool' = mempool \cup {obj[t]} /\ UNCHANGED <<chaintip, utxo>>
          /\ pc'[t] = "resolve"
      BY <2>0, <2>6 DEF PoolAdd, At, Committed, Goto, disk
    <3>2. QED
      BY <2>0, <3>1 DEF ActiveInv, InActiveUTXO, Unpooling
  <2>7. CASE CleanMempool(t)
    <3>1. /\ chaintip # NoTip /\ utxo[chaintip.id] # NoUTXO
      BY <2>0, <2>7 DEF CleanMempool, At, LineInv, Unpooling, StoreInv, TipBacked, HasUTXO
    <3>2. /\ pc'[t] = "resolve" /\ UNCHANGED <<chaintip, utxo>>
          /\ mempool' = mempool \ {x \in mempool : ~ InActiveUTXO(x)}
      BY <2>0, <2>7, <3>1 DEF CleanMempool, Committed, Goto, disk
    <3>3. QED
      BY <2>0, <3>2 DEF ActiveInv, InActiveUTXO, Unpooling
  <2>8. CASE UnpoolDisk(t) \/ UnpoolMem(t)
    <3>1. pc'[t] \in Unpooling
      BY <2>0, <2>8 DEF UnpoolDisk, UnpoolMem, Goto, Unpooling
    <3>2. QED
      BY <2>0, <3>1 DEF ActiveInv, Unpooling
  <2>9. CASE PutChaintip(t)
    BY <2>0, <2>2, <2>9 DEF ActiveInv, Unpooling
  <2>10. CASE (PoolAside(t) \/ CheckSpent(t)) /\ ~ PutChaintip(t) /\ ~ CleanMempool(t)
    <3>1. mempool' = mempool /\ pc'[t] \notin {"poolDisk", "poolAdd"}
      <4>1. CheckSpent(t) => mempool' = mempool /\ pc'[t] \in {"active", "resolve"}
        BY <2>0 DEF CheckSpent, memory, Committed, Goto
      <4>2. QED
        BY <2>10, <4>1 DEF PoolAside
    <3>2. ASSUME pc'[t] \notin Unpooling
          PROVE  \A x \in mempool' : InActiveUTXO(x)'
      <4>1. pc[t] \notin Unpooling
        BY <2>1, <2>10, <3>2
      <4>2. \A x \in mempool : InActiveUTXO(x)
        BY <2>0, <4>1 DEF ActiveInv
      <4>3. QED
        BY <2>3, <2>10, <3>1, <4>2
    <3>3. QED
      BY <2>0, <3>1, <3>2 DEF ActiveInv
  <2>11. QED
    BY <1>1, <2>4, <2>5, <2>6, <2>7, <2>8, <2>9, <2>10, ThreadPool
<1>2. CASE ExpirePending \/ SetMiningCores \/ UNCHANGED vars
  <2>1. UNCHANGED <<utxo, chaintip, pc, obj, mempool>>
    BY <1>2 DEF ExpirePending, SetMiningCores, vars, disk, memory, local
  <2>2. QED
    BY <2>1 DEF ActiveInv, InActiveUTXO
<1>3. ~ CrashRestart
  BY DEF CrashRestart
<1>4. QED
  BY <1>1, <1>2, <1>3 DEF NodeNext

(* With one peer, no other goroutine, no crash and no fork, everything in  *)
(* the mempool of a node at rest can be mined on its chaintip.             *)
THEOREM PoolMinable ==
  ASSUME Alone, Thread = Peers, ~ CrashEnabled, NoForks
  PROVE  NodeSpec => []MempoolActive
<1>1. NodeInit => RiseInv /\ ParkInv /\ LineInv /\ ActiveInv
  BY DEF NodeInit, RiseInv, ParkInv, LineInv, ActiveInv, HasUTXO, Unpooling
<1>2. TypeInv /\ RiseInv /\ [NodeNext]_vars => RiseInv'
  BY RiseStep
<1>3. TypeInv /\ ParkInv /\ [NodeNext]_vars => ParkInv'
  BY ParkStep
<1>4. TypeInv /\ StoreInv /\ RiseInv /\ ParkInv /\ LineInv /\ [NodeNext]_vars => LineInv'
  BY LineStep
<1>5. TypeInv /\ StoreInv /\ ParkInv /\ LineInv /\ ActiveInv /\ [NodeNext]_vars => ActiveInv'
  BY ActiveStep
<1>6. ActiveInv => MempoolActive
  BY DEF ActiveInv, MempoolActive, Quiet, Unpooling
<1>7. QED
  BY <1>1, <1>2, <1>3, <1>4, <1>5, <1>6, TypeInit, TypeStep, StoreInit, StoreStep, PTL
  DEF NodeSpec

-----------------------------------------------------------------------------
(* What is removed from the mempool.  After the write of the chaintip it   *)
(* names the block in hand, and the ids left to remove are ids of it.      *)
UnpoolInv ==
  \A t \in Thread :
    /\ pc[t] \in Unpooling => chaintip.id = obj[t]
    /\ pc[t] \in {"readTip", "putTip"} \cup Unpooling =>
         \A i \in 1 .. Len(todo[t]) : todo[t][i] \in Ids(obj[t])

(* A thread leaves those steps in their order.                             *)
LEMMA UnpoolMoves ==
  ASSUME NEW t \in Thread, ThreadStep(t), pc[t] \in Unpooling
  PROVE  CancelMining(t) \/ UnpoolDisk(t) \/ UnpoolMem(t) \/ CleanMempool(t)
<1>1. ~ (\/ \E x \in Objects : HandleObject(t, x)
         \/ BuildTx(t) \/ ValidateOwnTx(t) \/ AcceptObject(t) \/ PutObject(t))
  BY DEF HandleObject, BuildTx, ValidateOwnTx, AcceptObject, PutObject, At, Unpooling
<1>2. ~ (CheckSpent(t) \/ CheckActive(t) \/ PoolPutDisk(t) \/ PoolAdd(t))
  BY DEF CheckSpent, CheckActive, PoolPutDisk, PoolAdd, At, Unpooling
<1>3. ~ (PutUTXO(t) \/ ReadTip(t) \/ PutChaintip(t))
  BY DEF PutUTXO, ReadTip, PutChaintip, At, Unpooling
<1>4. ~ (FetchPendingBlocks(t) \/ Revalidate(t) \/ AddPendingBlock(t))
  BY DEF FetchPendingBlocks, Revalidate, AddPendingBlock, At, Unpooling
<1>5. ~ MinerStep(t)
  BY DEF MinerStep, StartMining, BuildOnTip, BuildOfPool, FindNonce, AbortMining,
         ValidateOwnBlock, At, Unpooling
<1>6. QED
  BY <1>1, <1>2, <1>3, <1>4, <1>5 DEF ThreadStep, BusyStep

(* UnpoolInv is inductive without forks, where every block committed gets  *)
(* to be the chaintip.                                                     *)
LEMMA UnpoolStep ==
  Alone /\ Thread = Peers /\ ~ CrashEnabled /\ NoForks /\ TypeInv /\ StoreInv /\ RiseInv /\ ParkInv
    /\ LineInv /\ UnpoolInv /\ [NodeNext]_vars => UnpoolInv'
<1> SUFFICES ASSUME Alone, Thread = Peers, ~ CrashEnabled, NoForks, TypeInv, StoreInv, RiseInv,
                    ParkInv, LineInv, UnpoolInv, [NodeNext]_vars
             PROVE  UnpoolInv'
  OBVIOUS
<1>1. ASSUME NEW t \in Thread, ThreadStep(t)
      PROVE  UnpoolInv'
  <2>0. /\ Thread = {t} /\ PcOK(t) /\ pc \in [Thread -> PC] /\ t \in Peers
        /\ todo \in [Thread -> Seq(HashID)] /\ isReorg[t] = FALSE
        /\ pc[t] \notin {"built", "buildTip", "buildPool", "mining", "mined"}
    BY DEF Alone, TypeInv, TypeOK, ParkInv, LineInv
  <2>1. pc'[t] \in Unpooling => pc[t] \in Unpooling \/ PutChaintip(t) \/ PutUTXO(t)
    BY <1>1, <2>0, LineMoves
  <2>2. pc'[t] \in {"readTip", "putTip"} => PutUTXO(t) \/ ReadTip(t)
    BY <1>1, TipMoves
  <2>3. CASE PutUTXO(t)
    <3>1. /\ pc[t] = "putUTXO" /\ obj[t] \in Block /\ obj' = obj
          /\ todo'[t] = Txids[obj[t]]
          /\ pc'[t] = IF res[t].isNewTip THEN "readTip" ELSE "unpoolDisk"
      BY <2>0, <2>3 DEF PutUTXO, At, PcOK, Goto
    <3>2. pc'[t] = "readTip"
      <4>1. IsNewTip(res[t].height, chaintip)
        BY <3>1, OnTip
      <4>2. res[t].isNewTip = IsNewTip(res[t].height, chaintip)
        BY <3>1 DEF RiseInv
      <4>3. QED
        BY <3>1, <4>1, <4>2
    <3>3. \A i \in 1 .. Len(Txids[obj[t]]) : Txids[obj[t]][i] \in Ids(obj[t])
      BY <3>1, FieldTypes DEF Ids
    <3>4. QED
      BY <2>0, <3>1, <3>2, <3>3 DEF UnpoolInv, Unpooling
  <2>4. CASE PutChaintip(t)
    <3>1. /\ pc[t] = "putTip" /\ pc'[t] = "cancel" /\ chaintip'.id = obj[t]
          /\ UNCHANGED <<obj, todo>>
      BY <2>0, <2>4 DEF PutChaintip, At, Goto
    <3>2. QED
      BY <2>0, <3>1 DEF UnpoolInv, Unpooling
  <2>5. CASE ReadTip(t)
    <3>1. /\ pc[t] = "readTip" /\ pc'[t] \in {"readTip", "putTip"}
          /\ UNCHANGED <<obj, todo>>
      BY <2>0, <2>5 DEF ReadTip, At, Goto, Panic, local
    <3>2. QED
      BY <2>0, <3>1 DEF UnpoolInv, Unpooling
  <2>6. CASE CancelMining(t) \/ UnpoolDisk(t)
    <3>1. pc[t] \in Unpooling /\ pc'[t] \in Unpooling /\ UNCHANGED <<obj, todo, chaintip>>
      BY <2>0, <2>6 DEF CancelMining, UnpoolDisk, At, Goto, disk, Unpooling
    <3>2. QED
      BY <2>0, <3>1 DEF UnpoolInv, Unpooling
  <2>7. CASE UnpoolMem(t)
    <3>1. /\ pc[t] = "unpoolMem" /\ pc'[t] = "unpoolDisk" /\ UNCHANGED <<obj, chaintip>>
          /\ todo'[t] = Tail(todo[t]) /\ todo[t] # <<>> /\ todo[t] \in Seq(HashID)
      BY <2>0, <2>7 DEF UnpoolMem, At, Goto, disk, PcOK
    <3>2. \A i \in 1 .. Len(Tail(todo[t])) :
            i + 1 \in 1 .. Len(todo[t]) /\ Tail(todo[t])[i] = todo[t][i + 1]
      BY <3>1
    <3>3. \A i \in 1 .. Len(todo[t]) : todo[t][i] \in Ids(obj[t])
      BY <3>1 DEF UnpoolInv, Unpooling
    <3>4. chaintip.id = obj[t]
      BY <3>1 DEF UnpoolInv, Unpooling
    <3>5. \A i \in 1 .. Len(todo'[t]) : todo'[t][i] \in Ids(obj'[t])
      BY <3>1, <3>2, <3>3
    <3>6. QED
      BY <2>0, <3>1, <3>4, <3>5 DEF UnpoolInv, Unpooling
  <2>8. CASE CleanMempool(t)
    <3>1. pc'[t] = "resolve"
      BY <2>0, <2>8 DEF CleanMempool, Committed, Goto
    <3>2. QED
      BY <2>0, <3>1 DEF UnpoolInv, Unpooling
  <2>9. CASE pc'[t] \notin {"readTip", "putTip"} \cup Unpooling
    BY <2>0, <2>9 DEF UnpoolInv
  <2>10. QED
    BY <1>1, <2>1, <2>2, <2>3, <2>4, <2>5, <2>6, <2>7, <2>8, <2>9, UnpoolMoves
<1>2. CASE ExpirePending \/ SetMiningCores \/ UNCHANGED vars
  <2>1. UNCHANGED <<chaintip, pc, obj, todo>>
    BY <1>2 DEF ExpirePending, SetMiningCores, vars, disk, local
  <2>2. QED
    BY <2>1 DEF UnpoolInv
<1>3. ~ CrashRestart
  BY DEF CrashRestart
<1>4. QED
  BY <1>1, <1>2, <1>3 DEF NodeNext

(* No committed block of the node lists a transaction without inputs.      *)
LEMMA BlocksLegible == NodeSpec => []Proved!Legible
<1> DEFINE Same == <<{x \in objects : x \in Block => HasUTXO(x)}, utxo>>
<1>1. Serial!Init => Proved!Init
  BY DEF Serial!Init, Proved!Init, Serial!NoUTXO, Proved!NoUTXO
<1>2. [Serial!Next]_Same => [Proved!Next]_Same
  BY SameNext
<1>3. Proved!Init => Proved!Legible
  BY Proved!LegibleHolds, IdsDisjoint, FieldTypes DEF Proved!HashID, HashID, Proved!Outpoint, Outpoint
<1>4. Proved!LedgerInv /\ Proved!Legible /\ [Proved!Next]_Same => Proved!Legible'
  BY Proved!LegibleHolds, IdsDisjoint, FieldTypes DEF Proved!HashID, HashID, Proved!Outpoint, Outpoint
<1>5. QED
  BY <1>1, <1>2, <1>3, <1>4, LedgerHolds, CommitsSerial, PTL DEF SerialLedger, Serial!Spec

(* A transaction of the chaintip's block cannot be mined on the chaintip:  *)
(* it has inputs, and the block has spent them.                            *)
LEMMA MinedIsDead ==
  ASSUME TypeInv, StoreInv, Proved!LedgerInv, Proved!Legible,
         chaintip # NoTip, NEW x \in Tx, x \in Ids(chaintip.id)
  PROVE  ~ InActiveUTXO(x)
<1>1. PICK b \in Block : b = chaintip.id /\ HasUTXO(b)
  BY DEF StoreInv, TipBacked, TypeInv, TypeOK, Chaintip
<1>2. PICK o \in Ins(x) : TRUE
  <2>1. Proved!Committed(b) /\ x \in Proved!Ids(b)
    BY <1>1 DEF Proved!Committed, Proved!NoUTXO, HasUTXO, NoUTXO, Proved!Ids, Ids
  <2>2. Proved!Ins(x) # {}
    BY <2>1 DEF Proved!Legible
  <2>3. Proved!Ins(x) = Ins(x)
    BY DEF Proved!Ins, Ins
  <2>4. QED
    BY <2>2, <2>3
<1>3. x \in Serial!ChainTxs(b)
  <2>0. Proved!Chain[b] = {b} \cup (IF Previd[b] \in Block THEN Proved!Chain[Previd[b]] ELSE {})
    BY Proved!ChainIs, IdsDisjoint, FieldTypes DEF Proved!HashID, HashID, Proved!Outpoint, Outpoint
  <2>1. b \in Proved!Chain[b]
    BY <2>0
  <2>2. Proved!Chain = Serial!Chain
    BY DEF Proved!Chain, Serial!Chain
  <2>3. Serial!Ids(b) = Ids(b)
    BY DEF Serial!Ids, Ids
  <2>4. QED
    BY <1>1, <2>1, <2>2, <2>3 DEF Serial!ChainTxs
<1>4. o \notin utxo[b].utxos
  <2>1. Serial!UTXOExact
    BY LedgerSays
  <2>2. Serial!Ins(x) = Ins(x)
    BY DEF Serial!Ins, Ins
  <2>3. Serial!Committed(b)
    BY <1>1 DEF Serial!Committed, Serial!NoUTXO, HasUTXO, NoUTXO
  <2>4. QED
    BY <1>2, <1>3, <2>1, <2>2, <2>3 DEF Serial!UTXOExact
<1>5. QED
  BY <1>1, <1>2, <1>4 DEF InActiveUTXO

(* A step that removes a transaction finds it mined, or otherwise not      *)
(* minable.                                                                *)
LEMMA EvictStep ==
  Alone /\ ~ CrashEnabled /\ TypeInv /\ StoreInv /\ LineInv /\ UnpoolInv
    /\ Proved!LedgerInv /\ Proved!Legible /\ [NodeNext]_vars
      => \A x \in mempool \ mempool' : ~ InActiveUTXO(x)
<1> SUFFICES ASSUME Alone, ~ CrashEnabled, TypeInv, StoreInv, LineInv, UnpoolInv,
                    Proved!LedgerInv, Proved!Legible, [NodeNext]_vars,
                    NEW x \in mempool \ mempool'
             PROVE  ~ InActiveUTXO(x)
  OBVIOUS
<1>1. ASSUME NEW t \in Thread, ThreadStep(t)
      PROVE  ~ InActiveUTXO(x)
  <2>1. CASE UnpoolMem(t)
    <3>1. /\ pc[t] = "unpoolMem" /\ x = Head(todo[t]) /\ todo[t] # <<>> /\ todo[t] \in Seq(HashID)
      BY <2>1 DEF UnpoolMem, At, TypeInv, TypeOK, PcOK
    <3>2. x = todo[t][1] /\ 1 \in 1 .. Len(todo[t])
      BY <3>1
    <3>3. x \in Ids(chaintip.id)
      BY <3>1, <3>2 DEF UnpoolInv, Unpooling
    <3>4. chaintip # NoTip /\ x \in Tx
      BY <3>1 DEF LineInv, Unpooling, TypeInv, TypeOK
    <3>5. QED
      BY <3>3, <3>4, MinedIsDead
  <2>2. CASE CleanMempool(t)
    BY <2>2 DEF CleanMempool
  <2>3. CASE CheckSpent(t) \/ CheckActive(t) \/ PoolPutDisk(t) \/ PoolAdd(t) \/ UnpoolDisk(t)
    BY <2>3 DEF CheckSpent, CheckActive, PoolPutDisk, PoolAdd, UnpoolDisk, memory
  <2>4. CASE PoolAside(t)
    BY <2>4 DEF PoolAside
  <2>5. QED
    BY <1>1, <2>1, <2>2, <2>3, <2>4, ThreadPool
<1>2. CASE ExpirePending \/ SetMiningCores \/ UNCHANGED vars
  BY <1>2 DEF ExpirePending, SetMiningCores, vars, memory
<1>3. ~ CrashRestart
  BY DEF CrashRestart
<1>4. QED
  BY <1>1, <1>2, <1>3 DEF NodeNext

(* With one peer, no other goroutine, no crash and no fork, a transaction  *)
(* leaves the mempool only if it cannot be mined any more: commitBlock     *)
(* takes out what the new chaintip has mined, and CleanMempool what        *)
(* conflicts with that.                                                    *)
THEOREM PoolKeepsLive ==
  ASSUME Alone, Thread = Peers, ~ CrashEnabled, NoForks
  PROVE  NodeSpec => EvictOnlyDead
<1>1. NodeInit => RiseInv /\ ParkInv /\ LineInv /\ UnpoolInv
  BY DEF NodeInit, RiseInv, ParkInv, LineInv, UnpoolInv, HasUTXO, Unpooling
<1>2. TypeInv /\ RiseInv /\ [NodeNext]_vars => RiseInv'
  BY RiseStep
<1>3. TypeInv /\ ParkInv /\ [NodeNext]_vars => ParkInv'
  BY ParkStep
<1>4. TypeInv /\ StoreInv /\ RiseInv /\ ParkInv /\ LineInv /\ [NodeNext]_vars => LineInv'
  BY LineStep
<1>5. TypeInv /\ StoreInv /\ RiseInv /\ ParkInv /\ LineInv /\ UnpoolInv /\ [NodeNext]_vars
        => UnpoolInv'
  BY UnpoolStep
<1>6. TypeInv /\ StoreInv /\ LineInv /\ UnpoolInv /\ Proved!LedgerInv /\ Proved!Legible
        /\ [NodeNext]_vars => [\A x \in mempool \ mempool' : ~ InActiveUTXO(x)]_vars
  BY EvictStep
<1>7. QED
  BY <1>1, <1>2, <1>3, <1>4, <1>5, <1>6, TypeInit, TypeStep, StoreInit, StoreStep,
     LedgerHolds, BlocksLegible, PTL
  DEF NodeSpec, EvictOnlyDead
=============================================================================
