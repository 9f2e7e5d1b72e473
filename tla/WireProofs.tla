----------------------------- MODULE WireProofs -----------------------------
(***************************************************************************)
(* Proofs about Wire, for any network and any size of the socket buffers:  *)
(* its types, that a write always has its deadline, and that messages stay *)
(* whole.                                                                  *)
(***************************************************************************)
EXTENDS Wire, TLAPS

-----------------------------------------------------------------------------
(* A call is a pair of a goroutine and a stream, and NoCall is none.       *)
LEMMA CallParts ==
  /\ \A c \in Call : c[1] \in Thread /\ c[2] \in Stream
  /\ NoCall \notin Call
<1>1. \A c \in Call : c[1] \in Thread /\ c[2] \in Stream
  BY DEF Call
<1>2. SUFFICES ASSUME NoCall \in Thread \X Stream PROVE FALSE
  BY <1>1 DEF Call
<1>3. PICK t \in Thread, d \in Stream : <<>> = <<t, d>>
  BY <1>2 DEF NoCall
<1>4. Len(<<t, d>>) = 2 /\ Len(<<>>) = 0
  OBVIOUS
<1>5. QED
  BY <1>3, <1>4

(* The two streams of a connection.                                        *)
LEMMA InParts == \A d \in Stream : In(d) \in Stream /\ In(In(d)) = d
<1> SUFFICES ASSUME NEW d \in Stream PROVE In(d) \in Stream /\ In(In(d)) = d
  OBVIOUS
<1>1. d \in Node \X Node
  BY WireAssumption
<1>2. QED
  BY <1>1, WireAssumption DEF In

-----------------------------------------------------------------------------
(* Starting calls gives program counters.                                  *)
LEMMA StartType ==
  ASSUME TypeOK, NEW t \in Thread, NEW targets, Start(t, targets)
  PROVE  pc' \in [Call -> PC]
  BY DEF TypeOK, Start, PC

(* Every step keeps the types, one action after the other.                 *)
LEMMA TypeStep == TypeOK /\ [Next]_vars => TypeOK'
<1> SUFFICES ASSUME TypeOK, [Next]_vars PROVE TypeOK'
  OBVIOUS
<1> USE CallParts, InParts, WireAssumption
<1>1. ASSUME NEW c \in Call, Lock(c) PROVE TypeOK'
  BY <1>1 DEF TypeOK, Lock, Goto, PC
<1>2. ASSUME NEW c \in Call, SetWriteDeadline(c) PROVE TypeOK'
  BY <1>2 DEF TypeOK, SetWriteDeadline, Goto, PC
<1>3. ASSUME NEW c \in Call, WriteSegment(c) PROVE TypeOK'
  <2>1. c[2] \in Stream /\ pc[c] \in {"head", "tail"}
    BY <1>3 DEF WriteSegment
  <2>2. /\ Append(buf[c[2]], pc[c]) \in Seq({"head", "tail"})
        /\ Len(Append(buf[c[2]], pc[c])) <= Cap
    BY <1>3, <2>1 DEF TypeOK, WriteSegment
  <2>3. buf' \in [Stream -> Seq({"head", "tail"})] /\ \A d \in Stream : Len(buf'[d]) <= Cap
    BY <1>3, <2>1, <2>2 DEF TypeOK, WriteSegment
  <2>4. QED
    BY <1>3, <2>3 DEF TypeOK, WriteSegment, Goto, PC
<1>4. ASSUME NEW c \in Call, WriteClosed(c) PROVE TypeOK'
  BY <1>4 DEF TypeOK, WriteClosed, Goto, PC
<1>5. ASSUME NEW c \in Call, WriteTimeout(c) PROVE TypeOK'
  BY <1>5 DEF TypeOK, WriteTimeout, Goto, PC
<1>6. ASSUME NEW c \in Call, ClearDeadline(c) PROVE TypeOK'
  BY <1>6 DEF TypeOK, ClearDeadline, Goto, PC
<1>7. ASSUME NEW c \in Call, Unlock(c) PROVE TypeOK'
  BY <1>7 DEF TypeOK, Unlock, Goto, PC
<1>8. ASSUME NEW t \in Thread, Broadcast(t) PROVE TypeOK'
  BY <1>8, StartType DEF TypeOK, Broadcast
<1>9. ASSUME NEW r \in Reader, Reply(r) PROVE TypeOK'
  BY <1>9, StartType DEF TypeOK, Reply, Reader, Thread
<1>10. ASSUME NEW t \in Topology, GossipTick(t) PROVE TypeOK'
  BY <1>10 DEF TypeOK, GossipTick
<1>11. ASSUME NEW r \in Reader, ReadSegment(r) PROVE TypeOK'
  <2>1. In(r) \in Stream
    BY DEF Reader
  <2>2. Tail(buf[In(r)]) \in Seq({"head", "tail"}) /\ Len(Tail(buf[In(r)])) <= Cap
    BY <1>11, <2>1 DEF TypeOK, ReadSegment
  <2>3. buf' \in [Stream -> Seq({"head", "tail"})] /\ \A d \in Stream : Len(buf'[d]) <= Cap
    BY <1>11, <2>1, <2>2 DEF TypeOK, ReadSegment
  <2>4. sends' \in [Thread -> SUBSET {"reply", "broadcast"}] /\ partial' \subseteq Reader
    BY <1>11 DEF TypeOK, ReadSegment
  <2>5. QED
    BY <1>11, <2>3, <2>4 DEF TypeOK, ReadSegment
<1>12. ASSUME NEW r \in Reader, Disconnect(r) PROVE TypeOK'
  <2>1. <<>> \in Seq({"head", "tail"}) /\ Len(<<>>) <= Cap
    OBVIOUS
  <2>2. \A d \in open' : In(d) \in open'
    <3>1. \A d \in Stream : In(d) \in {r, In(r)} => d \in {r, In(r)}
      BY DEF Reader
    <3>2. QED
      BY <1>12, <3>1 DEF TypeOK, Disconnect
  <2>3. QED
    BY <1>12, <2>1, <2>2 DEF TypeOK, Disconnect
<1>13. ASSUME NEW d \in Stream, Dial(d) PROVE TypeOK'
  BY <1>13 DEF TypeOK, Dial
<1>14. CASE UNCHANGED vars
  BY <1>14 DEF TypeOK, vars
<1>15. QED
  BY <1>1, <1>2, <1>3, <1>4, <1>5, <1>6, <1>7, <1>8, <1>9, <1>10, <1>11, <1>12, <1>13,
     <1>14 DEF Next, CallStep, Write, Read

(* No call is running at first and every buffer is empty.                  *)
LEMMA TypeInit == Init => TypeOK
<1>1. <<>> \in Seq({"head", "tail"}) /\ Len(<<>>) <= Cap
  BY WireAssumption
<1>2. QED
  BY <1>1, InParts DEF Init, TypeOK, PC

(* The goroutines, locks, deadlines and buffers of the network have their  *)
(* types: no buffer ever holds more than Cap segments, and a connection    *)
(* is closed both ways or not at all.                                      *)
THEOREM WireTypes == Spec => []TypeOK
  BY TypeInit, TypeStep, PTL DEF Spec

-----------------------------------------------------------------------------
(* A call that is past Lock holds the mutex of its stream; so no two calls *)
(* on one stream are.                                                      *)
Inside(c) == pc[c] \notin {"none", "lock"}

Exclusive == \A c \in Call : Inside(c) => mutex[c[2]] = c

LockInv == Exclusive /\ DeadlineHeld

(* The holder of a mutex is the only call between Lock and Unlock.         *)
LEMMA LockStep == TypeOK /\ LockInv /\ [Next]_vars => LockInv'
<1> SUFFICES ASSUME TypeOK, LockInv, [Next]_vars PROVE LockInv'
  OBVIOUS
<1> USE CallParts DEF LockInv, Exclusive, DeadlineHeld, Inside
<1>1. ASSUME NEW c \in Call, Lock(c) PROVE LockInv'
  BY <1>1 DEF TypeOK, Lock, Goto
<1>2. ASSUME NEW c \in Call, SetWriteDeadline(c) PROVE LockInv'
  BY <1>2 DEF TypeOK, SetWriteDeadline, Goto
<1>3. ASSUME NEW c \in Call, WriteSegment(c) PROVE LockInv'
  BY <1>3 DEF TypeOK, WriteSegment, Goto
<1>4. ASSUME NEW c \in Call, WriteClosed(c) PROVE LockInv'
  BY <1>4 DEF TypeOK, WriteClosed, Goto
<1>5. ASSUME NEW c \in Call, WriteTimeout(c) PROVE LockInv'
  BY <1>5 DEF TypeOK, WriteTimeout, Goto
<1>6. ASSUME NEW c \in Call, ClearDeadline(c) PROVE LockInv'
  BY <1>6 DEF TypeOK, ClearDeadline, Goto
<1>7. ASSUME NEW c \in Call, Unlock(c) PROVE LockInv'
  BY <1>7 DEF TypeOK, Unlock, Goto
<1>8. ASSUME NEW t \in Thread, Broadcast(t) PROVE LockInv'
  BY <1>8 DEF TypeOK, Broadcast, Start
<1>9. ASSUME NEW r \in Reader, Reply(r) PROVE LockInv'
  BY <1>9 DEF TypeOK, Reply, Start
<1>10. ASSUME NEW t \in Topology, GossipTick(t) PROVE LockInv'
  BY <1>10 DEF GossipTick
<1>11. ASSUME NEW r \in Reader, Read(r) PROVE LockInv'
  BY <1>11 DEF Read, ReadSegment, Disconnect
<1>12. ASSUME NEW d \in Stream, Dial(d) PROVE LockInv'
  BY <1>12 DEF Dial
<1>13. CASE UNCHANGED vars
  BY <1>13 DEF vars
<1>14. QED
  BY <1>1, <1>2, <1>3, <1>4, <1>5, <1>6, <1>7, <1>8, <1>9, <1>10, <1>11, <1>12, <1>13
  DEF Next, CallStep, Write

(* No call has started.                                                    *)
LEMMA LockInit == Init => LockInv
  BY CallParts DEF Init, LockInv, Exclusive, DeadlineHeld, Inside

(* A write in progress always has a deadline, although every sender of the *)
(* connection sets and clears the same one: SetWriteDeadline, Write and    *)
(* the clearing are under networkMutex.                                    *)
THEOREM DeadlinesHeld == Spec => []DeadlineHeld
<1>1. LockInv => DeadlineHeld
  BY DEF LockInv
<1>2. QED
  BY <1>1, LockInit, LockStep, WireTypes, PTL DEF Spec

-----------------------------------------------------------------------------
(* One when the decoder at the other end of stream d is inside a message.  *)
Off(d) == IF In(d) \in partial THEN 1 ELSE 0

(* The segments of stream d, after the one that the decoder may have taken,*)
(* are heads and tails in turn.                                            *)
Alternates(d) == \A i \in 1 .. Len(buf[d]) : (buf[d][i] = "head") <=> ((i + Off(d)) % 2 = 1)

(* A message is incomplete only while somebody writes its second half.     *)
Balanced(d) ==
  ((Len(buf[d]) + Off(d)) % 2 = 1) <=> (\E c \in Call : c[2] = d /\ pc[c] = "tail")

Whole == \A d \in Stream : d \in open /\ d \notin torn => Alternates(d) /\ Balanced(d)

WholeInv == LockInv /\ Whole

(* Of the calls on a stream only one writes.                               *)
LEMMA OneWriter ==
  ASSUME LockInv, NEW c \in Call, NEW e \in Call, c[2] = e[2], Inside(c), Inside(e)
  PROVE  c = e
  BY DEF LockInv, Exclusive

(* What concerns stream d is as it was.                                    *)
Still(d) ==
  /\ buf'[d] = buf[d] /\ Off(d)' = Off(d)
  /\ \A c \in Call : c[2] = d => (pc'[c] = "tail" <=> pc[c] = "tail")
  /\ d \in open' /\ d \notin torn' => d \in open /\ d \notin torn

(* A stream on which nothing moves stays whole.                            *)
LEMMA StillWhole ==
  ASSUME Whole, NEW d \in Stream, Still(d), d \in open', d \notin torn'
  PROVE  Alternates(d)' /\ Balanced(d)'
  BY DEF Whole, Still, Alternates, Balanced

(* The number after an odd one is even.                                    *)
LEMMA Parity == \A m \in Nat : ((m + 1) % 2 = 1) <=> ~ (m % 2 = 1)
  OBVIOUS

(* Writing a segment continues the message.                                *)
LEMMA WriteWhole ==
  ASSUME TypeOK, LockInv, Whole, NEW c \in Call, WriteSegment(c)
  PROVE  Whole'
<1> USE CallParts DEF Whole
<1> SUFFICES ASSUME NEW d \in Stream, d \in open', d \notin torn'
             PROVE  Alternates(d)' /\ Balanced(d)'
  OBVIOUS
<1>1. CASE d # c[2]
  <2>1. Still(d)
    BY <1>1 DEF Still, WriteSegment, TypeOK, Goto, Off
  <2>2. QED
    BY <2>1, StillWhole
<1>2. CASE d = c[2]
  <2> DEFINE n == Len(buf[d])
  <2>1. /\ buf'[d] = Append(buf[d], pc[c]) /\ Off(d)' = Off(d)
        /\ d \in open /\ d \notin torn /\ buf[d] \in Seq({"head", "tail"})
        /\ pc[c] \in {"head", "tail"} /\ Inside(c)
    BY <1>2 DEF WriteSegment, TypeOK, Off, Inside
  <2>2. /\ n \in Nat /\ Off(d) \in {0, 1} /\ Len(buf'[d]) = n + 1
        /\ buf'[d][n + 1] = pc[c] /\ \A i \in 1 .. n : buf'[d][i] = buf[d][i]
    BY <2>1 DEF Off
  <2>3. \A e \in Call : e[2] = d /\ pc[e] = "tail" => e = c
    BY <1>2, <2>1, OneWriter DEF Inside
  <2>4. (pc[c] = "tail") <=> ((n + Off(d)) % 2 = 1)
    BY <1>2, <2>1, <2>3 DEF Balanced
  <2>5. (n + Off(d) + 1) % 2 = 1 <=> ~ ((n + Off(d)) % 2 = 1)
    BY <2>2, Parity
  <2>6. Alternates(d)'
    <3> SUFFICES ASSUME NEW i \in 1 .. n + 1
                 PROVE  (buf'[d][i] = "head") <=> ((i + Off(d)) % 2 = 1)
      BY <2>1, <2>2 DEF Alternates
    <3>1. CASE i \in 1 .. n
      BY <2>1, <2>2, <3>1 DEF Alternates
    <3>2. CASE i = n + 1
      <4>1. n + Off(d) + 1 = i + Off(d)
        BY <2>2, <3>2
      <4>2. QED
        BY <2>1, <2>2, <2>4, <2>5, <3>2, <4>1
    <3>3. QED
      BY <2>2, <3>1, <3>2
  <2>7. (pc'[c] = "tail") <=> (pc[c] = "head")
    BY <2>1 DEF WriteSegment, TypeOK, Goto
  <2>8. \A e \in Call : e[2] = d /\ pc'[e] = "tail" => e = c
    BY <2>3 DEF WriteSegment, TypeOK, Goto
  <2>9. ((n + 1 + Off(d)) % 2 = 1) <=> (pc[c] = "head")
    <3>1. n + Off(d) + 1 = n + 1 + Off(d)
      BY <2>2
    <3>2. QED
      BY <2>1, <2>4, <2>5, <3>1
  <2>10. Balanced(d)'
    BY <1>2, <2>1, <2>2, <2>7, <2>8, <2>9 DEF Balanced
  <2>11. QED
    BY <2>6, <2>10
<1>3. QED
  BY <1>1, <1>2

(* Reading a segment moves it from the buffer to the decoder.              *)
LEMMA ReadWhole ==
  ASSUME TypeOK, Whole, NEW r \in Reader, ReadSegment(r)
  PROVE  Whole'
<1> USE InParts DEF Whole, Reader
<1> SUFFICES ASSUME NEW d \in Stream, d \in open', d \notin torn'
             PROVE  Alternates(d)' /\ Balanced(d)'
  OBVIOUS
<1>0. /\ pc' = pc /\ open' = open /\ torn' = torn /\ buf[In(r)] # <<>>
      /\ buf' = [buf EXCEPT ![In(r)] = Tail(@)]
      /\ IF r \in partial THEN partial' = partial \ {r} ELSE partial' = partial \cup {r}
  BY DEF ReadSegment
<1>1. CASE d # In(r)
  <2>1. In(d) # r
    BY <1>1
  <2>2. Still(d)
    BY <1>0, <1>1, <2>1 DEF Still, TypeOK, Off
  <2>3. QED
    BY <2>2, StillWhole
<1>2. CASE d = In(r)
  <2> DEFINE n == Len(buf[d])
  <2>1. In(d) = r /\ buf[d] \in Seq({"head", "tail"}) /\ buf[d] # <<>> /\ buf'[d] = Tail(buf[d])
    BY <1>0, <1>2 DEF TypeOK
  <2>2. /\ n \in Nat \ {0} /\ Len(buf'[d]) = n - 1
        /\ \A i \in 1 .. n - 1 : buf'[d][i] = buf[d][i + 1]
    BY <2>1
  <2>3. Off(d) \in {0, 1} /\ Off(d)' = 1 - Off(d)
    BY <1>0, <2>1 DEF Off
  <2>4. Alternates(d) /\ Balanced(d)
    BY <1>0
  <2>5. Alternates(d)'
    <3> SUFFICES ASSUME NEW i \in 1 .. n - 1
                 PROVE  (buf'[d][i] = "head") <=> ((i + 1 - Off(d)) % 2 = 1)
      BY <2>2, <2>3 DEF Alternates
    <3>1. (buf[d][i + 1] = "head") <=> ((i + 1 + Off(d)) % 2 = 1)
      BY <2>2, <2>4 DEF Alternates
    <3>2. (i + 1 + Off(d)) % 2 = (i + 1 - Off(d)) % 2
      BY <2>3
    <3>3. QED
      BY <2>2, <3>1, <3>2
  <2>6. (n - 1 + (1 - Off(d))) % 2 = (n + Off(d)) % 2
    BY <2>2, <2>3
  <2>7. Balanced(d)'
    BY <1>0, <2>2, <2>3, <2>4, <2>6 DEF Balanced
  <2>8. QED
    BY <2>5, <2>7
<1>3. QED
  BY <1>1, <1>2

(* Only Write, Read, Disconnect and Dial touch what is on a stream.        *)
LEMMA WholeStep == TypeOK /\ WholeInv /\ [Next]_vars => WholeInv'
<1> SUFFICES ASSUME TypeOK, LockInv, Whole, [Next]_vars PROVE Whole'
  BY LockStep DEF WholeInv
<1> USE CallParts, InParts
<1>0. ASSUME \A d \in Stream : Still(d) PROVE Whole'
  BY <1>0, StillWhole DEF Whole
<1>1. ASSUME NEW c \in Call, Lock(c) \/ SetWriteDeadline(c) \/ ClearDeadline(c) \/ Unlock(c)
      PROVE  Whole'
  <2>1. buf' = buf /\ partial' = partial /\ open' = open /\ torn' = torn
    BY <1>1 DEF Lock, SetWriteDeadline, ClearDeadline, Unlock
  <2>2. \A e \in Call : pc'[e] = "tail" <=> pc[e] = "tail"
    BY <1>1 DEF Lock, SetWriteDeadline, ClearDeadline, Unlock, Goto, TypeOK
  <2>3. QED
    BY <1>0, <2>1, <2>2 DEF Still, Off
<1>2. ASSUME NEW c \in Call, WriteSegment(c) PROVE Whole'
  BY <1>2, WriteWhole
<1>3. ASSUME NEW c \in Call, WriteClosed(c) PROVE Whole'
  <2>1. \A e \in Call : e # c => pc'[e] = pc[e]
    BY <1>3 DEF WriteClosed, Goto, TypeOK
  <2>2. \A d \in Stream : d \in open' => Still(d)
    BY <1>3, <2>1 DEF WriteClosed, Still, Off
  <2>3. QED
    BY <2>2, StillWhole DEF Whole
<1>4. ASSUME NEW c \in Call, WriteTimeout(c) PROVE Whole'
  <2>1. buf' = buf /\ partial' = partial /\ open' = open
    BY <1>4 DEF WriteTimeout
  <2>2. \A e \in Call : e # c => pc'[e] = pc[e]
    BY <1>4 DEF WriteTimeout, Goto, TypeOK
  <2>3. CASE pc[c] = "head"
    <3>1. torn' = torn /\ pc'[c] # "tail"
      BY <1>4, <2>3 DEF WriteTimeout, Goto, TypeOK
    <3>2. QED
      BY <1>0, <2>1, <2>2, <2>3, <3>1 DEF Still, Off
  <2>4. CASE pc[c] = "tail"
    <3>1. torn' = torn \cup {c[2]}
      BY <1>4, <2>4 DEF WriteTimeout
    <3>2. \A d \in Stream : d \notin torn' => Still(d)
      BY <2>1, <2>2, <3>1 DEF Still, Off
    <3>3. QED
      BY <3>2, StillWhole DEF Whole
  <2>5. QED
    BY <1>4, <2>3, <2>4 DEF WriteTimeout
<1>5. ASSUME NEW t \in Thread, Broadcast(t) PROVE Whole'
  BY <1>0, <1>5 DEF Broadcast, Returned, Start, Still, Off
<1>6. ASSUME NEW r \in Reader, Reply(r) PROVE Whole'
  BY <1>0, <1>6 DEF Reply, Returned, Start, Still, Off
<1>7. ASSUME NEW t \in Topology, GossipTick(t) PROVE Whole'
  BY <1>0, <1>7 DEF GossipTick, Still, Off
<1>8. ASSUME NEW r \in Reader, ReadSegment(r) PROVE Whole'
  BY <1>8, ReadWhole
<1>9. ASSUME NEW r \in Reader, Disconnect(r) PROVE Whole'
  <2>1. \A d \in Stream : d \in open' => Still(d)
    BY <1>9 DEF Disconnect, Still, Off, TypeOK, Reader
  <2>2. QED
    BY <2>1, StillWhole DEF Whole
<1>10. ASSUME NEW d \in Stream, Dial(d) PROVE Whole'
  <2> SUFFICES ASSUME NEW e \in Stream, e \in open', e \notin torn'
               PROVE  Alternates(e)' /\ Balanced(e)'
    BY DEF Whole
  <2>1. CASE e \in {d, In(d)}
    <3>1. buf'[e] = <<>> /\ In(e) \in {d, In(d)}
      BY <1>10, <2>1 DEF Dial
    <3>2. Off(e)' = 0 /\ Len(buf'[e]) = 0
      BY <1>10, <3>1 DEF Dial, Off
    <3>3. \A c \in Call : c[2] = e => pc'[c] # "tail"
      BY <1>10, <2>1 DEF Dial
    <3>4. QED
      BY <3>2, <3>3 DEF Alternates, Balanced
  <2>2. CASE e \notin {d, In(d)}
    <3>1. In(e) \notin {d, In(d)}
      BY <2>2
    <3>2. Still(e)
      BY <1>10, <2>2, <3>1 DEF Dial, Still, Off
    <3>3. QED
      BY <3>2, StillWhole
  <2>3. QED
    BY <2>1, <2>2
<1>11. CASE UNCHANGED vars
  BY <1>0, <1>11 DEF vars, Still, Off
<1>12. QED
  BY <1>1, <1>2, <1>3, <1>4, <1>5, <1>6, <1>7, <1>8, <1>9, <1>10, <1>11
  DEF Next, CallStep, Write, Read

(* Empty buffers are whole.                                                *)
LEMMA WholeInit == Init => WholeInv
<1> SUFFICES ASSUME Init PROVE Whole
  BY LockInit DEF WholeInv
<1>1. \A d \in Stream : buf[d] = <<>> /\ Off(d) = 0 /\ \A c \in Call : pc[c] # "tail"
  BY DEF Init, Off
<1>2. QED
  BY <1>1 DEF Whole, Alternates, Balanced

(* What stands in the buffers of a stream in one line with the segment     *)
(* that the decoder has taken.                                             *)
LEMMA WholeFramed == TypeOK /\ WholeInv => Framed
<1> SUFFICES ASSUME TypeOK, LockInv, Whole, NEW d \in Stream, d \in open, d \notin torn
             PROVE  LET all == (IF In(d) \in partial THEN <<"head">> ELSE <<>>) \o buf[d]
                    IN  /\ \A i \in DOMAIN all : (all[i] = "head") <=> (i % 2 = 1)
                        /\ \A c \in Call : c[2] = d /\ pc[c] \in {"head", "tail"} =>
                             (pc[c] = "tail") <=> (Len(all) % 2 = 1)
  BY DEF WholeInv, Framed
<1> DEFINE all == (IF In(d) \in partial THEN <<"head">> ELSE <<>>) \o buf[d]
<1>1. buf[d] \in Seq({"head", "tail"}) /\ Len(buf[d]) \in Nat
  BY DEF TypeOK
<1>2. /\ DOMAIN all = 1 .. Len(all) /\ Len(all) = Len(buf[d]) + Off(d)
      /\ Off(d) = 1 => all[1] = "head"
      /\ \A i \in 1 .. Len(buf[d]) : all[i + Off(d)] = buf[d][i]
  <2>1. CASE In(d) \in partial
    BY <1>1, <2>1 DEF Off
  <2>2. CASE In(d) \notin partial
    BY <1>1, <2>2 DEF Off
  <2>3. QED
    BY <2>1, <2>2
<1> HIDE DEF all
<1>3. Alternates(d) /\ Balanced(d) /\ Off(d) \in {0, 1}
  BY DEF Whole, Off
<1>4. ASSUME NEW i \in 1 .. Len(all) PROVE (all[i] = "head") <=> (i % 2 = 1)
  <2>1. CASE i - Off(d) \in 1 .. Len(buf[d])
    <3>1. PICK j \in 1 .. Len(buf[d]) : j = i - Off(d)
      BY <2>1
    <3>2. i = j + Off(d)
      BY <1>2, <1>3, <3>1
    <3>3. QED
      BY <1>2, <1>3, <3>2 DEF Alternates
  <2>2. CASE i - Off(d) \notin 1 .. Len(buf[d])
    BY <1>1, <1>2, <1>3, <2>2
  <2>3. QED
    BY <2>1, <2>2
<1>5. ASSUME NEW c \in Call, c[2] = d, pc[c] \in {"head", "tail"}
      PROVE  (pc[c] = "tail") <=> (Len(all) % 2 = 1)
  <2>1. \A e \in Call : e[2] = d /\ pc[e] = "tail" => e = c
    BY <1>5, OneWriter DEF Inside
  <2>2. QED
    BY <1>2, <1>3, <1>5, <2>1 DEF Balanced
<1>6. QED
  BY <1>2, <1>4, <1>5 DEF all

(* However many goroutines write on a connection, its messages stay whole  *)
(* unless a deadline cuts one.                                             *)
THEOREM MessagesWhole == Spec => []Framed
  BY WholeInit, WholeStep, WholeFramed, WireTypes, PTL DEF Spec
=============================================================================
