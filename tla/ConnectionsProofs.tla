------------------------- MODULE ConnectionsProofs --------------------------
(***************************************************************************)
(* Proofs about Connections, for any number of connections, addresses and  *)
(* goroutines: the registry is exact, its cap holds, it loses no live      *)
(* connection and keeps no dead one, and a ban of a host takes effect.     *)
(***************************************************************************)
EXTENDS Connections, FiniteSetTheorems, TLAPS

(* A struct that is not yet, or never, in the registry has no reader, is   *)
(* not disconnected and has shaken no hands; goroutines disconnect only    *)
(* structs that have been added.                                           *)
Fresh(c) == pc[c] = "off" /\ ~ done[c] /\ ~ handshake[c] /\ ~ Registered(c)

Life ==
  /\ \A c \in Conn : phase[c] # "up" => Fresh(c)
  /\ \A t \in Thread : \A c \in kick[t] : phase[c] = "up"
  /\ \A t \in Thread : pc[t] \in {"close", "remove", "shut"} =>
       hand[t] \in Conn /\ phase[hand[t]] = "up"
  /\ \A c \in Conn : pc[c] = "hello" => hand[c] \in Agent

(* Whoever is about to call Remove has closed done himself, and nobody has *)
(* removed his connection: only one goroutine gets there for it.           *)
Removing ==
  /\ \A t \in Thread : pc[t] = "remove" => done[hand[t]] /\ Registered(hand[t])
  /\ \A s, t \in Thread : pc[s] = "remove" /\ pc[t] = "remove" /\ hand[s] = hand[t] => s = t

(* The connections of S that a registry p holds.                           *)
On(p, S) == {c \in S : p[Addr[c]] = c}

-----------------------------------------------------------------------------
(* The addresses of connections are addresses.                             *)
LEMMA AddrType == \A c \in Conn : Addr[c] \in Address
  BY DEF Address

(* Life is kept by every step.                                             *)
LEMMA LifeStep == TypeOK /\ Life /\ [Next]_vars => Life'
<1> SUFFICES ASSUME TypeOK, Life, [Next]_vars PROVE Life'
  OBVIOUS
<1> USE AddrType, ConnectionsAssumption DEF Life, Fresh, Registered
<1>1. ASSUME NEW c \in Conn, Open(c) PROVE Life'
  BY <1>1 DEF Open, TypeOK, registry, process
<1>2. ASSUME NEW c \in Conn, Add(c) PROVE Life'
  BY <1>2 DEF Add, TypeOK, registry, Goto, Thread, Count
<1>3. ASSUME NEW c \in Conn, Arrive(c) PROVE Life'
  BY <1>3 DEF Arrive, registry, process
<1>4. ASSUME NEW c \in Conn, CloseSocket(c) PROVE Life'
  BY <1>4 DEF CloseSocket, registry, process
<1>5. ASSUME NEW c \in Conn, ReadError(c) PROVE Life'
  BY <1>5 DEF ReadError, TypeOK, registry, structs, process, Goto, Kick, Thread
<1>6. ASSUME NEW c \in Conn, HandleHello(c) PROVE Life'
  <2>1. /\ UNCHANGED <<peers, phase, done, handshake>> /\ c \in Thread /\ phase[c] = "up"
    BY <1>6 DEF HandleHello, Take, registry, Thread
  <2>2. CASE Kick(c, {c}) /\ UNCHANGED hand
    BY <2>1, <2>2 DEF TypeOK, Goto, Kick, Thread
  <2>3. CASE UNCHANGED <<pc, kick, hand>>
    BY <2>1, <2>3
  <2>4. ASSUME NEW a \in Hellos, a # none, Goto(c, "hello"), hand' = [hand EXCEPT ![c] = a],
               UNCHANGED kick
        PROVE  Life'
    BY <2>1, <2>4 DEF TypeOK, Goto, Thread
  <2>5. QED
    BY <1>6, <2>2, <2>3, <2>4 DEF HandleHello
<1>7. ASSUME NEW c \in Conn, HelloDone(c) PROVE Life'
  BY <1>7 DEF HelloDone, TypeOK, registry, process, Goto, Thread
<1>8. ASSUME NEW c \in Conn, HandleUnexpected(c) PROVE Life'
  <2>1. UNCHANGED <<peers, phase, done, handshake, hand>> /\ c \in Thread /\ phase[c] = "up"
    BY <1>8 DEF HandleUnexpected, Take, registry, Thread
  <2>2. CASE Kick(c, {c})
    BY <2>1, <2>2 DEF TypeOK, Goto, Kick, Thread
  <2>3. CASE UNCHANGED <<pc, kick>>
    BY <2>1, <2>3
  <2>4. QED
    BY <1>8, <2>2, <2>3 DEF HandleUnexpected
<1>9. ASSUME NEW c \in Conn, HandleChainTip(c) PROVE Life'
  BY <1>9 DEF HandleChainTip, Take, TypeOK, registry, Thread
<1>10. ASSUME NEW c \in Conn, HandleBadPoW(c) PROVE Life'
  BY <1>10 DEF HandleBadPoW, Take, TypeOK, registry, Goto, Kick, Thread, Violators
<1>11. ASSUME NEW t \in Thread, Disconnect(t) PROVE Life'
  <2>1. UNCHANGED <<peers, phase, done, handshake>> /\ pc[t] = "kick"
    BY <1>11 DEF Disconnect, registry, structs
  <2>2. CASE Goto(t, IF t \in Conn THEN "read" ELSE "ready") /\ UNCHANGED <<kick, hand>>
    BY <2>1, <2>2 DEF TypeOK, Goto, Thread
  <2>3. ASSUME NEW c \in kick[t], kick' = [kick EXCEPT ![t] = @ \ {c}],
               UNCHANGED <<pc, hand>>
        PROVE  Life'
    BY <2>1, <2>3 DEF TypeOK
  <2>4. ASSUME NEW c \in kick[t], kick' = [kick EXCEPT ![t] = @ \ {c}],
               hand' = [hand EXCEPT ![t] = c], Goto(t, "close")
        PROVE  Life'
    <3>1. c \in Conn /\ phase[c] = "up"
      BY <2>4 DEF TypeOK
    <3>2. \A s \in Thread : \A d \in kick'[s] : phase[d] = "up"
      BY <2>4 DEF TypeOK
    <3>3. \A s \in Thread : s # t => pc'[s] = pc[s] /\ hand'[s] = hand[s]
      BY <2>4 DEF TypeOK, Goto
    <3>4. pc'[t] = "close" /\ hand'[t] = c
      BY <2>4 DEF TypeOK, Goto
    <3>5. QED
      BY <2>1, <3>1, <3>2, <3>3, <3>4 DEF Thread
  <2>5. QED
    BY <1>11, <2>2, <2>3, <2>4 DEF Disconnect
<1>12. ASSUME NEW t \in Thread, CloseDone(t) PROVE Life'
  <2>1. CASE done[hand[t]]
    BY <1>12, <2>1 DEF CloseDone, registry
  <2>2. CASE ~ done[hand[t]]
    <3>1. hand[t] \in Conn /\ phase[hand[t]] = "up" /\ pc[t] = "close"
      BY <1>12 DEF CloseDone
    <3>2. /\ UNCHANGED <<peers, phase, handshake, kick, hand>>
          /\ Goto(t, "remove") /\ done' = [done EXCEPT ![hand[t]] = TRUE]
      BY <1>12, <2>2 DEF CloseDone, registry
    <3>3. \A c \in Conn : c # hand[t] => done'[c] = done[c]
      BY <3>2 DEF TypeOK
    <3>4. QED
      BY <3>1, <3>2, <3>3 DEF TypeOK, Goto, Thread
  <2>3. QED
    BY <2>1, <2>2
<1>13. ASSUME NEW t \in Thread, Remove(t) PROVE Life'
  BY <1>13 DEF Remove, TypeOK, registry, structs, process, Goto, Thread
<1>14. ASSUME NEW t \in Thread, Shut(t) PROVE Life'
  BY <1>14 DEF Shut, TypeOK, registry, process, Goto, Thread
<1>15. ASSUME NEW t \in Admin, BanPeer(t) PROVE Life'
  BY <1>15 DEF BanPeer, TypeOK, registry, structs, process, Goto, Kick, Thread, Violators
<1>16. ASSUME NEW t \in Admin, UnbanPeer(t) \/ UnbanAll(t) PROVE Life'
  BY <1>16 DEF UnbanPeer, UnbanAll, registry, structs, process
<1>17. ASSUME NEW t \in Admin, CmdDisconnect(t) PROVE Life'
  BY <1>17 DEF CmdDisconnect, TypeOK, registry, structs, process, Goto, Kick, Thread
<1>18. CASE UNCHANGED vars
  BY <1>18 DEF vars, registry, structs, process
<1>19. QED
  BY <1>1, <1>2, <1>3, <1>4, <1>5, <1>6, <1>7, <1>8, <1>9, <1>10, <1>11, <1>12, <1>13,
     <1>14, <1>15, <1>16, <1>17, <1>18
  DEF Next, Reader, Kicker, RemoteClose, ChurnRandomPeer

-----------------------------------------------------------------------------
RegInv == LiveRegistered /\ Removing

(* Closing done, Add and Remove are what concerns the registry; whatever   *)
(* else a step does, RegInv holds on.                                      *)
LEMMA RegStill ==
  ASSUME TypeOK, RegInv, UNCHANGED <<peers, done>>,
         \A c \in Conn : phase'[c] = "up" => phase[c] = "up",
         \A t \in Thread : pc'[t] = "remove" => pc[t] = "remove" /\ hand'[t] = hand[t]
  PROVE  RegInv'
  BY DEF RegInv, Removing, LiveRegistered, Registered

(* Every step keeps live connections registered, and at most one goroutine *)
(* about to remove each connection.                                        *)
LEMMA RegStep == TypeOK /\ Life /\ RegInv /\ [Next]_vars => RegInv'
<1> SUFFICES ASSUME TypeOK, Life, RegInv, [Next]_vars PROVE RegInv'
  OBVIOUS
<1> USE AddrType
<1>1. ASSUME NEW c \in Conn, Open(c) PROVE RegInv'
  BY <1>1, RegStill DEF Open, TypeOK, registry
<1>2. ASSUME NEW c \in Conn, Add(c) PROVE RegInv'
  <2>1. CASE UNCHANGED <<registry, pc>>
    <3>1. \A d \in Conn : phase'[d] = "up" => phase[d] = "up"
      BY <1>2, <2>1, ConnectionsAssumption DEF Add, TypeOK, registry
    <3>2. QED
      BY <1>2, <2>1, <3>1, RegStill DEF Add, registry
  <2>2. CASE /\ peers[Addr[c]] = none /\ phase' = [phase EXCEPT ![c] = "up"]
             /\ peers' = [peers EXCEPT ![Addr[c]] = c] /\ Goto(c, "read")
    <3>1. \A d \in Conn : Registered(d) => Registered(d)'
      BY <2>2, ConnectionsAssumption DEF TypeOK, Registered
    <3>2. Registered(c)'
      BY <2>2 DEF TypeOK, Registered
    <3>3. \A t \in Thread : pc'[t] = "remove" => pc[t] = "remove"
      BY <2>2 DEF TypeOK, Goto
    <3>4. \A d \in Conn : d # c => phase'[d] = phase[d]
      BY <2>2 DEF TypeOK
    <3>5. done' = done /\ hand' = hand
      BY <1>2 DEF Add
    <3>6. \A t \in Thread : pc[t] = "remove" => hand[t] \in Conn
      BY DEF Life
    <3>7. QED
      BY <3>1, <3>2, <3>3, <3>4, <3>5, <3>6 DEF RegInv, Removing, LiveRegistered
  <2>3. QED
    BY <1>2, <2>1, <2>2 DEF Add
<1>3. ASSUME NEW c \in Conn, Arrive(c) \/ CloseSocket(c) PROVE RegInv'
  BY <1>3, RegStill DEF Arrive, CloseSocket, registry
<1>4. ASSUME NEW c \in Conn, Reader(c) PROVE RegInv'
  <2>1. UNCHANGED <<peers, done, phase>> /\ pc[c] \in {"read", "hello"} /\ c \in Thread
    BY <1>4 DEF Reader, ReadError, HandleHello, HelloDone, HandleUnexpected, HandleChainTip,
       HandleBadPoW, Take, registry, structs, Thread
  <2>2. pc' = pc \/ \E l \in {"end", "kick", "hello", "read"} : pc' = [pc EXCEPT ![c] = l]
    BY <1>4 DEF Reader, ReadError, HandleHello, HelloDone, HandleUnexpected, HandleChainTip,
       HandleBadPoW, Goto, Kick
  <2>3. \A t \in Thread : t # c => hand'[t] = hand[t]
    BY <1>4, <2>1 DEF Reader, ReadError, HandleHello, HelloDone, HandleUnexpected,
       HandleChainTip, HandleBadPoW, TypeOK
  <2>4. \A t \in Thread : pc'[t] = "remove" => pc[t] = "remove" /\ t # c
    BY <2>1, <2>2 DEF TypeOK
  <2>5. QED
    BY <2>1, <2>3, <2>4, RegStill
<1>5. ASSUME NEW t \in Thread, Disconnect(t) PROVE RegInv'
  <2>1. UNCHANGED <<peers, done, phase>> /\ pc[t] = "kick"
    BY <1>5 DEF Disconnect, registry, structs
  <2>2. pc' = pc \/ \E l \in {"read", "ready", "close"} : pc' = [pc EXCEPT ![t] = l]
    BY <1>5 DEF Disconnect, Goto
  <2>3. \A s \in Thread : s # t => hand'[s] = hand[s]
    BY <1>5 DEF Disconnect, TypeOK
  <2>4. \A s \in Thread : pc'[s] = "remove" => pc[s] = "remove" /\ s # t
    BY <2>1, <2>2 DEF TypeOK
  <2>5. QED
    BY <2>1, <2>3, <2>4, RegStill
<1>6. ASSUME NEW t \in Thread, CloseDone(t) PROVE RegInv'
  <2>1. CASE done[hand[t]]
    BY <1>6, <2>1, RegStill DEF CloseDone, registry
  <2>2. CASE ~ done[hand[t]]
    <3>1. hand[t] \in Conn /\ phase[hand[t]] = "up"
      BY <1>6 DEF CloseDone, Life
    <3>2. Registered(hand[t])
      BY <2>2, <3>1 DEF RegInv, LiveRegistered
    <3>3. /\ UNCHANGED <<peers, phase, hand>>
          /\ pc' = [pc EXCEPT ![t] = "remove"] /\ done' = [done EXCEPT ![hand[t]] = TRUE]
      BY <1>6, <2>2 DEF CloseDone, registry, Goto
    <3>4. done'[hand[t]] /\ \A c \in Conn : done[c] => done'[c]
      BY <3>1, <3>3 DEF TypeOK
    <3>5. \A s \in Thread : pc[s] = "remove" => hand[s] # hand[t]
      BY <2>2 DEF RegInv, Removing
    <3>6. \A s \in Thread : pc'[s] = "remove" => s = t \/ pc[s] = "remove"
      BY <3>3 DEF TypeOK
    <3>7. \A s \in Thread : pc[s] = "remove" => hand[s] \in Conn
      BY DEF Life
    <3>8. Removing'
      BY <3>1, <3>2, <3>3, <3>4, <3>5, <3>6, <3>7 DEF RegInv, Removing, Registered
    <3>9. LiveRegistered'
      BY <3>3, <3>4 DEF RegInv, LiveRegistered, Registered
    <3>10. QED
      BY <3>8, <3>9 DEF RegInv
  <2>3. QED
    BY <2>1, <2>2
<1>7. ASSUME NEW t \in Thread, Remove(t) PROVE RegInv'
  <2> DEFINE c == hand[t]
  <2>1. c \in Conn /\ pc[t] = "remove" /\ Registered(c) /\ done[c]
    BY <1>7 DEF Remove, Life, RegInv, Removing
  <2>2. /\ peers' = [peers EXCEPT ![Addr[c]] = none] /\ pc' = [pc EXCEPT ![t] = "shut"]
        /\ UNCHANGED <<done, phase, hand>>
    BY <1>7, <2>1, ConnectionsAssumption DEF Remove, Registered, Goto, structs
  <2>3. \A d \in Conn : d # c /\ Registered(d) => Registered(d)'
    BY <2>1, <2>2 DEF TypeOK, Registered
  <2>4. \A s \in Thread : pc'[s] = "remove" => s # t /\ pc[s] = "remove" /\ hand[s] # c
    BY <2>1, <2>2 DEF TypeOK, RegInv, Removing
  <2>5. \A s \in Thread : pc[s] = "remove" => hand[s] \in Conn
    BY DEF Life
  <2> HIDE DEF c
  <2>6. Removing'
    BY <2>2, <2>3, <2>4, <2>5 DEF RegInv, Removing
  <2>7. LiveRegistered'
    BY <2>1, <2>2, <2>3 DEF RegInv, LiveRegistered
  <2>8. QED
    BY <2>6, <2>7 DEF RegInv
<1>8. ASSUME NEW t \in Thread, Shut(t) PROVE RegInv'
  BY <1>8, RegStill DEF Shut, registry, Goto, TypeOK
<1>9. ASSUME NEW t \in Admin, BanPeer(t) \/ CmdDisconnect(t) PROVE RegInv'
  BY <1>9, RegStill DEF BanPeer, CmdDisconnect, registry, structs, Goto, Kick, TypeOK, Thread
<1>10. ASSUME NEW t \in Admin, UnbanPeer(t) \/ UnbanAll(t) PROVE RegInv'
  BY <1>10, RegStill DEF UnbanPeer, UnbanAll, registry, structs
<1>11. CASE UNCHANGED vars
  BY <1>11, RegStill DEF vars, registry, structs
<1>12. QED
  BY <1>1, <1>2, <1>3, <1>4, <1>5, <1>6, <1>7, <1>8, <1>9, <1>10, <1>11
  DEF Next, Kicker, RemoteClose, ChurnRandomPeer

-----------------------------------------------------------------------------
(* The counters and the cap, in terms of On; finitely many connections are *)
(* registered at a time.                                                   *)
Finite == IsFiniteSet(On(peers, Conn))

CountInv == Finite /\ CountsExact /\ OutboundCapped

(* The kinds of connections that are counted are finite when registered.   *)
LEMMA OnFinite ==
  ASSUME NEW p, IsFiniteSet(On(p, Conn)), NEW S \in SUBSET Conn
  PROVE  IsFiniteSet(On(p, S)) /\ Cardinality(On(p, S)) \in Nat
<1>1. On(p, S) \in SUBSET On(p, Conn)
  BY DEF On
<1>2. QED
  BY <1>1, FS_Subset, FS_CardinalityType

(* Steps that leave the registry alone.                                    *)
LEMMA CountStill == CountInv /\ UNCHANGED registry => CountInv'
  BY DEF CountInv, Finite, CountsExact, OutboundCapped, On, Registered, registry

(* Registering a connection adds one to the number of each kind it has.    *)
LEMMA AddOne ==
  ASSUME TypeOK, IsFiniteSet(On(peers, Conn)), NEW c \in Conn, peers[Addr[c]] = none,
         NEW S \in SUBSET Conn, NEW q, q = [peers EXCEPT ![Addr[c]] = c]
  PROVE  /\ IsFiniteSet(On(q, S)) /\ Cardinality(On(peers, S)) \in Nat
         /\ Cardinality(On(q, S)) = Cardinality(On(peers, S)) + One(c \in S)
<1>1. On(q, S) = (IF c \in S THEN On(peers, S) \cup {c} ELSE On(peers, S))
      /\ c \notin On(peers, S)
  BY AddrType, ConnectionsAssumption DEF TypeOK, On
<1>2. IsFiniteSet(On(peers, S)) /\ Cardinality(On(peers, S)) \in Nat
  BY OnFinite
<1>3. CASE c \in S
  <2>1. /\ IsFiniteSet(On(peers, S) \cup {c})
        /\ Cardinality(On(peers, S) \cup {c}) = Cardinality(On(peers, S)) + 1
    <3>1. \A T, x : IsFiniteSet(T) /\ x \notin T =>
             IsFiniteSet(T \cup {x}) /\ Cardinality(T \cup {x}) = Cardinality(T) + 1
      BY FS_AddElement
    <3>2. QED
      BY <1>1, <1>2, <3>1
  <2>2. QED
    BY <1>1, <1>2, <1>3, <2>1 DEF One
<1>4. CASE c \notin S
  BY <1>1, <1>2, <1>4 DEF One
<1>5. QED
  BY <1>3, <1>4

(* Removing it takes one away.                                             *)
LEMMA RemoveOne ==
  ASSUME TypeOK, IsFiniteSet(On(peers, Conn)), NEW c \in Conn, peers[Addr[c]] = c,
         NEW S \in SUBSET Conn, NEW q, q = [peers EXCEPT ![Addr[c]] = none]
  PROVE  /\ IsFiniteSet(On(q, S)) /\ Cardinality(On(peers, S)) \in Nat
         /\ Cardinality(On(q, S)) = Cardinality(On(peers, S)) - One(c \in S)
<1>1. On(q, S) = On(peers, S) \ {c} /\ (c \in On(peers, S) <=> c \in S)
  BY AddrType, ConnectionsAssumption DEF TypeOK, On
<1>2. IsFiniteSet(On(peers, S)) /\ Cardinality(On(peers, S)) \in Nat
  BY OnFinite
<1>3. /\ IsFiniteSet(On(peers, S) \ {c})
      /\ Cardinality(On(peers, S) \ {c})
           = IF c \in On(peers, S) THEN Cardinality(On(peers, S)) - 1
             ELSE Cardinality(On(peers, S))
  BY <1>2, FS_RemoveElement
<1>4. CASE c \in S
  BY <1>1, <1>2, <1>3, <1>4 DEF One
<1>5. CASE c \notin S
  <2>1. On(q, S) = On(peers, S) /\ One(c \in S) = 0
    BY <1>1, <1>5 DEF One
  <2>2. QED
    BY <1>2, <2>1
<1>6. QED
  BY <1>4, <1>5

(* What is counted is one or nothing.                                      *)
LEMMA OneOf == \A c, S : One(c \in S) = (IF c \in S THEN 1 ELSE 0)
  BY DEF One

(* Count(c, 1), as sums.                                                   *)
LEMMA CountUp ==
  ASSUME TypeOK, NEW c \in Conn, Count(c, 1)
  PROVE  /\ inboundCount' = inboundCount + One(c \in Inbound)
         /\ outboundCount' = outboundCount + One(c \in Conn \ Inbound)
         /\ persistentCount' = persistentCount + One(c \in Persistent)
  BY DEF Count, One

(* Count(c, -1), as differences.                                           *)
LEMMA CountDown ==
  ASSUME TypeOK, NEW c \in Conn, Count(c, -1)
  PROVE  /\ inboundCount' = inboundCount - One(c \in Inbound)
         /\ outboundCount' = outboundCount - One(c \in Conn \ Inbound)
         /\ persistentCount' = persistentCount - One(c \in Persistent)
<1>1. \A n \in Nat : n + (-1) * 1 = n - 1 /\ n + (-1) * 0 = n - 0
  OBVIOUS
<1>2. QED
  BY <1>1 DEF Count, One, TypeOK

(* Adding keeps the counters exact and, not being done when the cap is     *)
(* reached, the cap.                                                       *)
LEMMA CountAdd ==
  ASSUME TypeOK, CountInv, NEW c \in Conn, ~ Full(c), peers[Addr[c]] = none,
         peers' = [peers EXCEPT ![Addr[c]] = c], Count(c, 1)
  PROVE  CountInv'
<1>1. ASSUME NEW S \in SUBSET Conn
      PROVE  /\ IsFiniteSet(On(peers', S)) /\ Cardinality(On(peers, S)) \in Nat
             /\ Cardinality(On(peers', S)) = Cardinality(On(peers, S)) + One(c \in S)
  BY AddOne DEF CountInv, Finite
<1>2. /\ Inbound \in SUBSET Conn /\ Conn \ Inbound \in SUBSET Conn
      /\ Persistent \in SUBSET Conn /\ Disposable \in SUBSET Conn
      /\ MaxOutbound \in Nat
  BY ConnectionsAssumption DEF Disposable
<1> DEFINE N(p, S) == Cardinality(On(p, S))
<1>2a. /\ N(peers, Inbound) \in Nat /\ N(peers, Conn \ Inbound) \in Nat
      /\ N(peers, Persistent) \in Nat /\ N(peers, Disposable) \in Nat
  BY <1>1, <1>2
<1>2b. /\ N(peers', Inbound) = N(peers, Inbound) + One(c \in Inbound)
      /\ N(peers', Conn \ Inbound) = N(peers, Conn \ Inbound) + One(c \in Conn \ Inbound)
      /\ N(peers', Persistent) = N(peers, Persistent) + One(c \in Persistent)
      /\ N(peers', Disposable) = N(peers, Disposable) + One(c \in Disposable)
  BY <1>1, <1>2
<1>3. Finite'
  BY <1>1 DEF Finite
<1>4. /\ inboundCount = Cardinality(On(peers, Inbound))
      /\ outboundCount = Cardinality(On(peers, Conn \ Inbound))
      /\ persistentCount = Cardinality(On(peers, Persistent))
      /\ Cardinality(On(peers, Disposable)) <= MaxOutbound
  BY DEF CountInv, CountsExact, OutboundCapped, On, Registered
<1>5. CountsExact'
  <2>1. /\ inboundCount' = Cardinality(On(peers', Inbound))
        /\ outboundCount' = Cardinality(On(peers', Conn \ Inbound))
        /\ persistentCount' = Cardinality(On(peers', Persistent))
    BY <1>2b, <1>4, CountUp
  <2>2. QED
    BY <2>1 DEF CountsExact, On, Registered
<1>6. Cardinality(On(peers', Disposable)) <= MaxOutbound
  <2>1. CASE c \in Disposable
    <3>1. Cardinality(On(peers, Conn \ Inbound)) < MaxOutbound
      BY <1>2a, <1>2, <1>4, <2>1 DEF Full
    <3>2. On(peers, Disposable) \in SUBSET On(peers, Conn \ Inbound)
      BY DEF On, Disposable
    <3>3. Cardinality(On(peers, Disposable)) <= Cardinality(On(peers, Conn \ Inbound))
      BY <1>2, <3>2, OnFinite, FS_Subset DEF CountInv, Finite
    <3>4. QED
      BY <1>2a, <1>2b, <1>2, <3>1, <3>3, OneOf
  <2>2. CASE c \notin Disposable
    BY <1>2a, <1>2b, <1>4, <2>2, OneOf
  <2>3. QED
    BY <2>1, <2>2
<1>7. OutboundCapped'
  BY <1>6 DEF OutboundCapped, On, Registered
<1>8. QED
  BY <1>3, <1>5, <1>7 DEF CountInv

(* Removing a registered connection keeps them too.                        *)
LEMMA CountRemove ==
  ASSUME TypeOK, CountInv, NEW c \in Conn, peers[Addr[c]] = c,
         peers' = [peers EXCEPT ![Addr[c]] = none], Count(c, -1)
  PROVE  CountInv'
<1>1. ASSUME NEW S \in SUBSET Conn
      PROVE  /\ IsFiniteSet(On(peers', S)) /\ Cardinality(On(peers, S)) \in Nat
             /\ Cardinality(On(peers', S)) = Cardinality(On(peers, S)) - One(c \in S)
  BY RemoveOne DEF CountInv, Finite
<1>2. /\ Inbound \in SUBSET Conn /\ Conn \ Inbound \in SUBSET Conn
      /\ Persistent \in SUBSET Conn /\ Disposable \in SUBSET Conn
      /\ MaxOutbound \in Nat
  BY ConnectionsAssumption DEF Disposable
<1> DEFINE N(p, S) == Cardinality(On(p, S))
<1>2a. /\ N(peers, Inbound) \in Nat /\ N(peers, Conn \ Inbound) \in Nat
      /\ N(peers, Persistent) \in Nat /\ N(peers, Disposable) \in Nat
  BY <1>1, <1>2
<1>2b. /\ N(peers', Inbound) = N(peers, Inbound) - One(c \in Inbound)
      /\ N(peers', Conn \ Inbound) = N(peers, Conn \ Inbound) - One(c \in Conn \ Inbound)
      /\ N(peers', Persistent) = N(peers, Persistent) - One(c \in Persistent)
      /\ N(peers', Disposable) = N(peers, Disposable) - One(c \in Disposable)
  BY <1>1, <1>2
<1>3. Finite'
  BY <1>1 DEF Finite
<1>4. /\ inboundCount = Cardinality(On(peers, Inbound))
      /\ outboundCount = Cardinality(On(peers, Conn \ Inbound))
      /\ persistentCount = Cardinality(On(peers, Persistent))
      /\ Cardinality(On(peers, Disposable)) <= MaxOutbound
  BY DEF CountInv, CountsExact, OutboundCapped, On, Registered
<1>5. CountsExact'
  <2>1. /\ inboundCount' = Cardinality(On(peers', Inbound))
        /\ outboundCount' = Cardinality(On(peers', Conn \ Inbound))
        /\ persistentCount' = Cardinality(On(peers', Persistent))
    BY <1>2b, <1>4, CountDown
  <2>2. QED
    BY <2>1 DEF CountsExact, On, Registered
<1>6. Cardinality(On(peers', Disposable)) <= MaxOutbound
  BY <1>2a, <1>2b, <1>2, <1>4, OneOf
<1>7. OutboundCapped'
  BY <1>6 DEF OutboundCapped, On, Registered
<1>8. QED
  BY <1>3, <1>5, <1>7 DEF CountInv

(* Every step keeps the counters exact and the cap.                        *)
LEMMA CountStep == TypeOK /\ Life /\ RegInv /\ CountInv /\ [Next]_vars => CountInv'
<1> SUFFICES ASSUME TypeOK, Life, RegInv, CountInv, [Next]_vars PROVE CountInv'
  OBVIOUS
<1>1. ASSUME NEW c \in Conn, Add(c) PROVE CountInv'
  BY <1>1, CountAdd, CountStill DEF Add
<1>2. ASSUME NEW t \in Thread, Remove(t) PROVE CountInv'
  <2>1. hand[t] \in Conn /\ Registered(hand[t])
    BY <1>2 DEF Remove, Life, RegInv, Removing
  <2>2. peers[Addr[hand[t]]] = hand[t] /\ hand[t] # none
    BY <2>1, ConnectionsAssumption DEF Registered
  <2>3. peers' = [peers EXCEPT ![Addr[hand[t]]] = none] /\ Count(hand[t], -1)
    BY <1>2, <2>2 DEF Remove
  <2>4. QED
    BY <2>1, <2>2, <2>3, CountRemove
<1>3. CASE UNCHANGED registry
  BY <1>3, CountStill
<1>4. ASSUME NEW c \in Conn,
             Open(c) \/ Arrive(c) \/ RemoteClose(c) \/ ChurnRandomPeer(c) \/ Reader(c)
      PROVE  UNCHANGED registry
  BY <1>4 DEF Open, Arrive, RemoteClose, ChurnRandomPeer, CloseSocket, Reader, ReadError,
     HandleHello, HelloDone, HandleUnexpected, HandleChainTip, HandleBadPoW, Take
<1>5. ASSUME NEW t \in Thread, Disconnect(t) \/ CloseDone(t) \/ Shut(t)
      PROVE  UNCHANGED registry
  BY <1>5 DEF Disconnect, CloseDone, Shut
<1>6. ASSUME NEW t \in Admin, BanPeer(t) \/ UnbanPeer(t) \/ UnbanAll(t) \/ CmdDisconnect(t)
      PROVE  UNCHANGED registry
  BY <1>6 DEF BanPeer, UnbanPeer, UnbanAll, CmdDisconnect
<1>7. CASE UNCHANGED vars
  BY <1>3, <1>7 DEF vars
<1>8. QED
  BY <1>1, <1>2, <1>3, <1>4, <1>5, <1>6, <1>7 DEF Next, Kicker

-----------------------------------------------------------------------------
(* The types; that the counters stay natural numbers is not a matter of    *)
(* types, and comes from their being exact.                                *)
Naturals3 == inboundCount \in Nat /\ outboundCount \in Nat /\ persistentCount \in Nat

(* Exact counters are natural numbers.                                     *)
LEMMA CountNatural == CountInv => Naturals3
<1> SUFFICES ASSUME CountInv PROVE Naturals3
  OBVIOUS
<1>1. /\ Inbound \in SUBSET Conn /\ Conn \ Inbound \in SUBSET Conn
      /\ Persistent \in SUBSET Conn
  BY ConnectionsAssumption
<1>2. \A S \in SUBSET Conn : Cardinality(On(peers, S)) \in Nat
  BY OnFinite DEF CountInv, Finite
<1>3. QED
  BY <1>1, <1>2 DEF CountInv, CountsExact, On, Registered, Naturals3

(* Every step keeps the types of everything else.                          *)
LEMMA TypeStep == TypeOK /\ Life /\ Naturals3' /\ [Next]_vars => TypeOK'
<1> SUFFICES ASSUME TypeOK, Life, Naturals3', [Next]_vars PROVE TypeOK'
  OBVIOUS
<1> USE AddrType, ConnectionsAssumption DEF TypeOK, Naturals3
<1>1. ASSUME NEW c \in Conn, Open(c) PROVE TypeOK'
  BY <1>1 DEF Open, registry, process
<1>2. ASSUME NEW c \in Conn, Add(c) PROVE TypeOK'
  <2>1. CASE Full(c) \/ peers[Addr[c]] # none
    BY <1>2, <2>1 DEF Add, registry
  <2>2. CASE ~ (Full(c) \/ peers[Addr[c]] # none)
    BY <1>2, <2>2 DEF Add, Goto, Thread
  <2>3. QED
    BY <2>1, <2>2
<1>3. ASSUME NEW c \in Conn, Arrive(c) PROVE TypeOK'
  BY <1>3 DEF Arrive, registry, process
<1>4. ASSUME NEW c \in Conn, CloseSocket(c) PROVE TypeOK'
  BY <1>4 DEF CloseSocket, registry, process
<1>5. ASSUME NEW c \in Conn, ReadError(c) PROVE TypeOK'
  BY <1>5 DEF ReadError, registry, structs, process, Goto, Kick, Thread
<1>6. ASSUME NEW c \in Conn, HandleHello(c) PROVE TypeOK'
  <2>1. c \in Thread /\ buffer[c] \in 0 .. MaxBuffer /\ buffer[c] > 0
    BY <1>6 DEF HandleHello, Take, Thread
  <2>2. \A l \in {"hello", "kick"} : Goto(c, l) =>
          pc' \in [Thread -> {"off", "read", "hello", "kick", "close", "remove",
                             "shut", "end", "ready"}]
    BY <2>1 DEF Goto
  <2>3. kick' \in [Thread -> SUBSET Conn] /\ hand' \in [Thread -> Conn \cup Agent \cup {none}]
    BY <1>6, <2>1 DEF HandleHello, Kick
  <2>4. /\ pc' \in [Thread -> {"off", "read", "hello", "kick", "close", "remove",
                             "shut", "end", "ready"}]
        /\ up' \in BOOLEAN
    BY <1>6, <2>2 DEF HandleHello, Kick
  <2>5. buffer' \in [Conn -> 0 .. MaxBuffer]
    BY <1>6, <2>1 DEF HandleHello, Take
  <2>6. QED
    BY <1>6, <2>3, <2>4, <2>5 DEF HandleHello, Take, registry
<1>7. ASSUME NEW c \in Conn, HelloDone(c) PROVE TypeOK'
  BY <1>7 DEF HelloDone, Life, registry, process, Goto, Thread
<1>8. ASSUME NEW c \in Conn, HandleUnexpected(c) PROVE TypeOK'
  BY <1>8 DEF HandleUnexpected, Take, registry, Goto, Kick, Thread
<1>9. ASSUME NEW c \in Conn, HandleChainTip(c) PROVE TypeOK'
  BY <1>9 DEF HandleChainTip, Take, registry, Thread, One
<1>10. ASSUME NEW c \in Conn, HandleBadPoW(c) PROVE TypeOK'
  <2>1. c \in Thread /\ Violators(Host[c]) \cup {c} \in SUBSET Conn
    BY DEF Violators, Thread
  <2>2. buffer' \in [Conn -> 0 .. MaxBuffer]
    BY <1>10 DEF HandleBadPoW, Take
  <2>3. kick' \in [Thread -> SUBSET Conn]
    BY <1>10, <2>1 DEF HandleBadPoW, Kick
  <2>4. pc' \in [Thread -> {"off", "read", "hello", "kick", "close", "remove",
                           "shut", "end", "ready"}]
    BY <1>10, <2>1 DEF HandleBadPoW, Kick, Goto
  <2>5. QED
    BY <1>10, <2>2, <2>3, <2>4 DEF HandleBadPoW, Take, registry
<1>11. ASSUME NEW t \in Thread, Disconnect(t) PROVE TypeOK'
  BY <1>11 DEF Disconnect, registry, structs, process, Goto, Thread
<1>12. ASSUME NEW t \in Thread, CloseDone(t) PROVE TypeOK'
  BY <1>12 DEF CloseDone, registry, Goto
<1>13. ASSUME NEW t \in Thread, Remove(t) PROVE TypeOK'
  BY <1>13 DEF Remove, registry, structs, process, Goto
<1>14. ASSUME NEW t \in Thread, Shut(t) PROVE TypeOK'
  BY <1>14 DEF Shut, registry, process, Goto
<1>15. ASSUME NEW t \in Admin, BanPeer(t) PROVE TypeOK'
  BY <1>15 DEF BanPeer, registry, structs, process, Goto, Kick, Thread, Violators
<1>16. ASSUME NEW t \in Admin, UnbanPeer(t) \/ UnbanAll(t) PROVE TypeOK'
  BY <1>16 DEF UnbanPeer, UnbanAll, registry, structs, process
<1>17. ASSUME NEW t \in Admin, CmdDisconnect(t) PROVE TypeOK'
  BY <1>17 DEF CmdDisconnect, registry, structs, process, Goto, Kick, Thread
<1>18. CASE UNCHANGED vars
  BY <1>18 DEF vars, registry, structs, process
<1>19. QED
  BY <1>1, <1>2, <1>3, <1>4, <1>5, <1>6, <1>7, <1>8, <1>9, <1>10, <1>11, <1>12, <1>13,
     <1>14, <1>15, <1>16, <1>17, <1>18
  DEF Next, Reader, Kicker, RemoteClose, ChurnRandomPeer

(* The inductive invariant of the registry.                                *)
ConnInv == TypeOK /\ Life /\ RegInv /\ CountInv

(* Every step keeps it.                                                    *)
LEMMA ConnStep == ConnInv /\ [Next]_vars => ConnInv'
<1>1. CountInv' => Naturals3'
  BY CountNatural, PTL
<1>2. QED
  BY <1>1, LifeStep, RegStep, CountStep, TypeStep DEF ConnInv

(* It holds of the empty registry.                                         *)
LEMMA ConnInit == Init => ConnInv
<1> SUFFICES ASSUME Init PROVE ConnInv
  OBVIOUS
<1> USE AddrType, ConnectionsAssumption DEF Init
<1>1. TypeOK
  BY DEF TypeOK, Thread
<1>2. Life
  BY DEF Life, Fresh, Registered, Thread
<1>3. RegInv
  BY DEF RegInv, LiveRegistered, Removing, Thread
<1>4. CountInv
  <2>1. \A S \in SUBSET Conn : On(peers, S) = {}
    <3>1. \A c \in Conn : peers[Addr[c]] # c
      OBVIOUS
    <3>2. QED
      BY <3>1 DEF On
  <2>2. /\ Inbound \in SUBSET Conn /\ Conn \ Inbound \in SUBSET Conn
        /\ Persistent \in SUBSET Conn /\ Disposable \in SUBSET Conn
    BY DEF Disposable
  <2>3. /\ On(peers, Inbound) = {} /\ On(peers, Conn \ Inbound) = {}
        /\ On(peers, Persistent) = {} /\ On(peers, Disposable) = {} /\ On(peers, Conn) = {}
    BY <2>1, <2>2
  <2>4. CountsExact
    BY <2>3, FS_EmptySet DEF CountsExact, On, Registered
  <2>5. OutboundCapped
    <3>1. On(peers, Disposable) = {c \in Disposable : Registered(c)}
      BY DEF On, Registered
    <3>2. Cardinality({c \in Disposable : Registered(c)}) = 0
      BY <2>3, <3>1, FS_EmptySet
    <3>3. QED
      BY <3>2 DEF OutboundCapped
  <2>6. QED
    BY <2>3, <2>4, <2>5, FS_EmptySet DEF CountInv, Finite
<1>5. QED
  BY <1>1, <1>2, <1>3, <1>4 DEF ConnInv

-----------------------------------------------------------------------------
(* A ban of a host: a goroutine is on its way to disconnect c, or has just *)
(* closed done and is about to remove it.                                  *)
Pursues(t, c) ==
  \/ c \in kick[t] /\ pc[t] \in {"kick", "close", "remove", "shut"}
  \/ hand[t] = c /\ pc[t] \in {"close", "remove"}

(* What makes HostBanHolds inductive: a registered peer with a banned host *)
(* that is past the check of its hello is pursued, and a registered peer   *)
(* whose done is closed is about to be removed.                            *)
Ending ==
  \A c \in Conn : Registered(c) /\ done[c] =>
    \E t \in Thread : pc[t] = "remove" /\ hand[t] = c

Pursuit ==
  \A c \in Conn : Registered(c) /\ Host[c] \in bannedPeers /\ (handshake[c] \/ pc[c] = "hello")
    => \E t \in Thread : Pursues(t, c)

BanInv == Ending /\ Pursuit

(* A step of a thread that is not disconnecting anybody, leaves the        *)
(* registry alone and bans no host.                                        *)
LEMMA BanStill ==
  ASSUME TypeOK, BanInv, NEW a \in Thread,
         pc[a] \notin {"kick", "close", "remove", "shut"},
         UNCHANGED <<peers, done>>,
         \A t \in Thread : t # a => pc'[t] = pc[t] /\ kick'[t] = kick[t] /\ hand'[t] = hand[t],
         \A c \in Conn : Host[c] \in bannedPeers' /\ (handshake'[c] \/ pc'[c] = "hello") =>
           \/ Host[c] \in bannedPeers /\ (handshake[c] \/ pc[c] = "hello")
           \/ ~ Registered(c)
           \/ \E t \in Thread : Pursues(t, c)'
  PROVE  BanInv'
<1>1. \A c \in Conn : Registered(c)' <=> Registered(c)
  BY DEF Registered
<1>2. Ending'
  BY <1>1 DEF BanInv, Ending
<1>3. \A t \in Thread : \A c : Pursues(t, c) => Pursues(t, c)'
  BY DEF Pursues
<1>4. Pursuit'
  BY <1>1, <1>3 DEF BanInv, Pursuit
<1>5. QED
  BY <1>2, <1>4 DEF BanInv

(* A step of a reader.                                                     *)
LEMMA BanReader ==
  ASSUME TypeOK, Life, BanInv, NEW c \in Conn, Reader(c) PROVE BanInv'
<1>1. /\ UNCHANGED <<peers, done>> /\ c \in Thread /\ pc[c] \in {"read", "hello"}
  BY DEF Reader, ReadError, HandleHello, HelloDone, HandleUnexpected, HandleChainTip,
     HandleBadPoW, Take, registry, structs, Thread
<1>2. \A t \in Thread : t # c => pc'[t] = pc[t]
  BY <1>1 DEF Reader, ReadError, HandleHello, HelloDone, HandleUnexpected, HandleChainTip,
     HandleBadPoW, Goto, Kick, TypeOK
<1>3. \A t \in Thread : t # c => kick'[t] = kick[t]
  BY <1>1 DEF Reader, ReadError, HandleHello, HelloDone, HandleUnexpected, HandleChainTip,
     HandleBadPoW, Kick, TypeOK
<1>4. \A t \in Thread : t # c => hand'[t] = hand[t]
  BY <1>1 DEF Reader, ReadError, HandleHello, HelloDone, HandleUnexpected, HandleChainTip,
     HandleBadPoW, TypeOK
<1> DEFINE Late(d) == Host[d] \in bannedPeers' /\ (handshake'[d] \/ pc'[d] = "hello")
           Old(d)  == Host[d] \in bannedPeers /\ (handshake[d] \/ pc[d] = "hello")
<1>5. ASSUME NEW d \in Conn, Late(d), Registered(d), ~ Old(d)
      PROVE  \E t \in Thread : Pursues(t, d)'
  <2>1. CASE HandleBadPoW(c)
    <3>1. /\ bannedPeers' = bannedPeers \cup {Host[c]} /\ handshake' = handshake
          /\ pc' = [pc EXCEPT ![c] = "kick"]
          /\ kick' = [kick EXCEPT ![c] = Violators(Host[c]) \cup {c}]
      BY <2>1 DEF HandleBadPoW, Kick, Goto
    <3>2. d # c => pc'[d] = pc[d]
      BY <1>2 DEF Thread
    <3>3. Host[d] = Host[c]
      BY <1>1, <1>5, <3>1, <3>2 DEF TypeOK
    <3>4. d \in kick'[c] /\ pc'[c] = "kick"
      BY <1>1, <1>5, <3>1, <3>3 DEF Violators, TypeOK
    <3>5. QED
      BY <1>1, <3>4 DEF Pursues
  <2>2. CASE HandleHello(c)
    <3>1. bannedPeers' = bannedPeers /\ handshake' = handshake
      BY <2>2 DEF HandleHello
    <3>2. d = c /\ pc'[c] = "hello"
      BY <1>2, <1>5, <3>1 DEF Thread
    <3>3. Host[c] \notin bannedPeers
      BY <1>1, <1>5, <2>2, <3>2 DEF HandleHello, HelloBanned, Kick, Goto, TypeOK
    <3>4. QED
      BY <1>5, <3>1, <3>2, <3>3
  <2>3. CASE HelloDone(c)
    <3>1. /\ bannedPeers' = bannedPeers /\ handshake' = [handshake EXCEPT ![c] = TRUE]
          /\ pc[c] = "hello" /\ pc' = [pc EXCEPT ![c] = "read"]
      BY <2>3 DEF HelloDone, Goto
    <3>2. QED
      BY <1>1, <1>5, <3>1 DEF TypeOK, Thread
  <2>4. CASE ReadError(c) \/ HandleUnexpected(c) \/ HandleChainTip(c)
    <3>1. bannedPeers' = bannedPeers /\ handshake' = handshake
      BY <2>4 DEF ReadError, HandleUnexpected, HandleChainTip, structs
    <3>2. pc'[d] = "hello" => pc[d] = "hello"
      BY <1>1, <2>4 DEF ReadError, HandleUnexpected, HandleChainTip, Goto, Kick, TypeOK, Thread
    <3>3. QED
      BY <1>5, <3>1, <3>2
  <2>5. QED
    BY <2>1, <2>2, <2>3, <2>4 DEF Reader
<1>6. QED
  BY <1>1, <1>2, <1>3, <1>4, <1>5, BanStill

(* A step of Disconnect: whoever takes c off his list has found done       *)
(* closed, or goes on to close it.                                         *)
LEMMA BanDisconnect ==
  ASSUME TypeOK, Life, BanInv, NEW t \in Thread, Disconnect(t) PROVE BanInv'
<1>1. /\ UNCHANGED <<peers, done, handshake, bannedPeers>> /\ pc[t] = "kick"
  BY DEF Disconnect, registry, structs
<1>2. \A c \in Conn : Registered(c)' <=> Registered(c)
  BY <1>1 DEF Registered
<1>3. \A s \in Thread : s # t => pc'[s] = pc[s] /\ kick'[s] = kick[s] /\ hand'[s] = hand[s]
  BY DEF Disconnect, Goto, TypeOK
<1>4. pc'[t] \in {"kick", "read", "ready", "close"}
  BY <1>1 DEF Disconnect, Goto, TypeOK
<1>5. Ending'
  BY <1>1, <1>2, <1>3 DEF BanInv, Ending
<1>6. ASSUME NEW c \in Conn, c \in kick[t]
      PROVE  done[c] \/ Pursues(t, c)'
  <2>1. CASE kick[t] = {}
    BY <1>6, <2>1
  <2>2. ASSUME NEW d \in kick[t], kick' = [kick EXCEPT ![t] = @ \ {d}],
               done[d], UNCHANGED <<pc, hand>>
        PROVE  done[c] \/ Pursues(t, c)'
    BY <1>1, <1>6, <2>2 DEF Pursues, TypeOK
  <2>3. ASSUME NEW d \in kick[t], kick' = [kick EXCEPT ![t] = @ \ {d}],
               hand' = [hand EXCEPT ![t] = d], Goto(t, "close")
        PROVE  Pursues(t, c)'
    <3>1. pc'[t] = "close" /\ hand'[t] = d /\ kick'[t] = kick[t] \ {d}
      BY <2>3 DEF Goto, TypeOK
    <3>2. QED
      BY <1>6, <3>1 DEF Pursues
  <2>4. QED
    BY <2>1, <2>2, <2>3 DEF Disconnect
<1>7. Pursuit'
  <2> SUFFICES ASSUME NEW c \in Conn, Registered(c)', Host[c] \in bannedPeers',
                      handshake'[c] \/ pc'[c] = "hello"
               PROVE  \E s \in Thread : Pursues(s, c)'
    BY DEF Pursuit
  <2>1. PICK s \in Thread : Pursues(s, c)
    BY <1>1, <1>2, <1>3, <1>4 DEF BanInv, Pursuit, Thread
  <2>2. CASE s # t
    BY <1>3, <2>1, <2>2 DEF Pursues
  <2>3. CASE s = t
    <3>1. c \in kick[t]
      BY <1>1, <2>1, <2>3 DEF Pursues
    <3>2. CASE done[c]
      <4>1. PICK r \in Thread : pc[r] = "remove" /\ hand[r] = c
        BY <1>2, <3>2 DEF BanInv, Ending
      <4>2. r # t
        BY <1>1, <4>1
      <4>3. QED
        BY <1>3, <4>1, <4>2 DEF Pursues
    <3>3. QED
      BY <1>6, <3>1, <3>2
  <2>4. QED
    BY <2>2, <2>3
<1>8. QED
  BY <1>5, <1>7 DEF BanInv

(* Closing done: from here the connection is about to be removed.          *)
LEMMA BanCloseDone ==
  ASSUME TypeOK, Life, BanInv, NEW t \in Thread, CloseDone(t) PROVE BanInv'
<1>1. /\ UNCHANGED <<peers, handshake, bannedPeers, kick, hand>> /\ pc[t] = "close"
      /\ hand[t] \in Conn
  BY DEF CloseDone, registry, Life
<1>2. \A c \in Conn : Registered(c)' <=> Registered(c)
  BY <1>1 DEF Registered
<1>3. CASE done[hand[t]]
  <2>1. UNCHANGED <<done, pc>>
    BY <1>3 DEF CloseDone
  <2>2. QED
    BY <1>1, <1>2, <2>1 DEF BanInv, Ending, Pursuit, Pursues
<1>4. CASE ~ done[hand[t]]
  <2>1. done' = [done EXCEPT ![hand[t]] = TRUE] /\ pc' = [pc EXCEPT ![t] = "remove"]
    BY <1>4 DEF CloseDone, Goto
  <2>2. /\ pc'[t] = "remove" /\ \A s \in Thread : s # t => pc'[s] = pc[s]
        /\ \A c \in Conn : c # hand[t] => done'[c] = done[c]
    BY <2>1 DEF TypeOK
  <2>3. Ending'
    BY <1>1, <1>2, <2>2 DEF BanInv, Ending
  <2>4. \A s \in Thread : \A c : Pursues(s, c) => Pursues(s, c)'
    BY <1>1, <2>2 DEF Pursues
  <2>5. Pursuit'
    BY <1>1, <1>2, <2>2, <2>4 DEF BanInv, Pursuit, Thread
  <2>6. QED
    BY <2>3, <2>5 DEF BanInv
<1>5. QED
  BY <1>3, <1>4

(* Remove: what it was called for leaves the registry, and nothing else.   *)
LEMMA BanRemove ==
  ASSUME TypeOK, Life, RegInv, BanInv, NEW t \in Thread, Remove(t) PROVE BanInv'
<1>1. /\ UNCHANGED <<done, handshake, bannedPeers, kick, hand>> /\ pc[t] = "remove"
      /\ hand[t] \in Conn /\ pc' = [pc EXCEPT ![t] = "shut"]
      /\ peers' = peers \/ peers' = [peers EXCEPT ![Addr[hand[t]]] = none]
  BY DEF Remove, structs, registry, Life, Goto
<1>2. Registered(hand[t]) /\ peers' = [peers EXCEPT ![Addr[hand[t]]] = none]
  BY <1>1, ConnectionsAssumption DEF Remove, RegInv, Removing, Registered
<1>3. \A c \in Conn : Registered(c)' => Registered(c) /\ c # hand[t]
  BY <1>1, <1>2, AddrType, ConnectionsAssumption DEF Registered, TypeOK
<1>4. pc'[t] = "shut" /\ \A s \in Thread : s # t => pc'[s] = pc[s]
  BY <1>1 DEF TypeOK
<1>5. Ending'
  BY <1>1, <1>3, <1>4 DEF BanInv, Ending
<1>6. \A s \in Thread : \A c : c # hand[t] /\ Pursues(s, c) => Pursues(s, c)'
  BY <1>1, <1>4 DEF Pursues
<1>7. Pursuit'
  BY <1>1, <1>3, <1>4, <1>6 DEF BanInv, Pursuit, Thread
<1>8. QED
  BY <1>5, <1>7 DEF BanInv

(* Every step keeps whoever is banned pursued.                             *)
LEMMA BanStep == ConnInv /\ BanInv /\ [Next]_vars => BanInv'
<1> SUFFICES ASSUME ConnInv, BanInv, [Next]_vars PROVE BanInv'
  OBVIOUS
<1> USE DEF ConnInv
<1>1. ASSUME NEW c \in Conn, Add(c) PROVE BanInv'
  <2>1. /\ UNCHANGED <<done, handshake, bannedPeers, kick, hand>> /\ phase[c] = "checked"
        /\ pc[c] = "off" /\ ~ done[c] /\ ~ handshake[c] /\ c \in Thread
    BY <1>1 DEF Add, Life, Fresh, Thread
  <2>2. /\ pc' = pc \/ pc' = [pc EXCEPT ![c] = "read"]
        /\ peers' = peers \/ peers' = [peers EXCEPT ![Addr[c]] = c]
    BY <1>1 DEF Add, Goto, registry
  <2>3. pc'[c] # "hello" /\ \A s \in Thread : s # c => pc'[s] = pc[s]
    BY <2>1, <2>2 DEF TypeOK
  <2>4. \A d \in Conn : d # c /\ Registered(d)' => Registered(d)
    BY <2>2, AddrType DEF Registered, TypeOK
  <2>5. Ending'
    BY <2>1, <2>3, <2>4 DEF BanInv, Ending
  <2>6. \A s \in Thread : \A d : Pursues(s, d) => Pursues(s, d)'
    BY <2>1, <2>3 DEF Pursues
  <2>7. Pursuit'
    BY <2>1, <2>3, <2>4, <2>6 DEF BanInv, Pursuit, Thread
  <2>8. QED
    BY <2>5, <2>7 DEF BanInv
<1>2. ASSUME NEW c \in Conn, Open(c) \/ Arrive(c) \/ CloseSocket(c) PROVE BanInv'
  BY <1>2 DEF Open, Arrive, CloseSocket, registry, BanInv, Ending, Pursuit, Pursues, Registered
<1>3. ASSUME NEW t \in Thread, Shut(t) PROVE BanInv'
  <2>1. /\ UNCHANGED <<peers, done, handshake, bannedPeers, kick>> /\ pc[t] = "shut"
        /\ pc' = [pc EXCEPT ![t] = "kick"] /\ hand' = [hand EXCEPT ![t] = none]
    BY <1>3 DEF Shut, registry, Goto
  <2>2. /\ pc'[t] = "kick"
        /\ \A s \in Thread : s # t => pc'[s] = pc[s] /\ hand'[s] = hand[s]
    BY <2>1 DEF TypeOK
  <2>3. \A c \in Conn : Registered(c)' <=> Registered(c)
    BY <2>1 DEF Registered
  <2>4. Ending'
    BY <2>1, <2>2, <2>3 DEF BanInv, Ending
  <2>5. \A s \in Thread : \A c : Pursues(s, c) => Pursues(s, c)'
    BY <2>1, <2>2 DEF Pursues
  <2>6. Pursuit'
    BY <2>1, <2>2, <2>3, <2>5 DEF BanInv, Pursuit, Thread
  <2>7. QED
    BY <2>4, <2>6 DEF BanInv
<1>4. ASSUME NEW t \in Admin, BanPeer(t) PROVE BanInv'
  <2>1. PICK x \in Target : bannedPeers' = bannedPeers \cup {x} /\ Kick(t, Violators(x))
    BY <1>4 DEF BanPeer
  <2>2. /\ UNCHANGED <<peers, done, handshake, hand>> /\ pc[t] = "ready" /\ t \in Thread
        /\ pc' = [pc EXCEPT ![t] = "kick"] /\ kick' = [kick EXCEPT ![t] = Violators(x)]
    BY <1>4, <2>1 DEF BanPeer, Kick, Goto, registry, structs, Thread
  <2>3. \A s \in Thread : s # t => pc'[s] = pc[s] /\ kick'[s] = kick[s] /\ hand'[s] = hand[s]
    BY <2>2 DEF TypeOK
  <2>4. pc'[t] = "kick" /\ kick'[t] = Violators(x)
    BY <2>2 DEF TypeOK
  <2>5. \A c \in Conn : Registered(c) /\ Host[c] = x => Pursues(t, c)'
    BY <2>4 DEF Pursues, Violators
  <2>6. \A c \in Conn : pc'[c] = "hello" => pc[c] = "hello"
    BY <2>3, <2>4 DEF Thread
  <2>7. QED
    BY <2>1, <2>2, <2>3, <2>5, <2>6, BanStill
<1>5. ASSUME NEW t \in Admin, UnbanPeer(t) \/ UnbanAll(t) PROVE BanInv'
  <2>1. UNCHANGED <<peers, done, handshake, pc, kick, hand>> /\ bannedPeers' \subseteq bannedPeers
    BY <1>5 DEF UnbanPeer, UnbanAll, registry, structs
  <2>2. QED
    BY <2>1 DEF BanInv, Ending, Pursuit, Pursues, Registered
<1>6. ASSUME NEW t \in Admin, CmdDisconnect(t) PROVE BanInv'
  <2>1. PICK c \in Conn : Kick(t, {c})
    BY <1>6 DEF CmdDisconnect
  <2>2. /\ UNCHANGED <<peers, done, handshake, bannedPeers, hand>> /\ pc[t] = "ready"
        /\ t \in Thread
        /\ pc' = [pc EXCEPT ![t] = "kick"] /\ kick' = [kick EXCEPT ![t] = {c}]
    BY <1>6, <2>1 DEF CmdDisconnect, Kick, Goto, registry, structs, Thread
  <2>3. \A s \in Thread : s # t => pc'[s] = pc[s] /\ kick'[s] = kick[s] /\ hand'[s] = hand[s]
    BY <2>2 DEF TypeOK
  <2>4. \A d \in Conn : pc'[d] = "hello" => pc[d] = "hello"
    BY <2>2 DEF Thread, TypeOK
  <2>5. QED
    BY <2>2, <2>3, <2>4, BanStill
<1>7. CASE UNCHANGED vars
  BY <1>7 DEF vars, registry, structs, BanInv, Ending, Pursuit, Pursues, Registered
<1>8. QED
  BY <1>1, <1>2, <1>3, <1>4, <1>5, <1>6, <1>7, BanReader, BanDisconnect, BanCloseDone,
     BanRemove
  DEF Next, Kicker, RemoteClose, ChurnRandomPeer

-----------------------------------------------------------------------------
(* The state of the connections has its types: in particular no counter    *)
(* ever falls below zero, although Remove subtracts without looking.       *)
THEOREM ConnectionTypes == Spec => []TypeOK
<1>1. ConnInv => TypeOK
  BY DEF ConnInv
<1>2. QED
  BY <1>1, ConnInit, ConnStep, PTL DEF Spec

(* Remove looks at the address only, and several goroutines may disconnect *)
(* one peer: a connection that nobody has begun to disconnect stays        *)
(* registered all the same.                                                *)
THEOREM LiveStayRegistered == Spec => []LiveRegistered
<1>1. ConnInv => LiveRegistered
  BY DEF ConnInv, RegInv
<1>2. QED
  BY <1>1, ConnInit, ConnStep, PTL DEF Spec

(* inboundCount, outboundCount and persistentCount are the numbers of      *)
(* registered connections of each kind.                                    *)
THEOREM CountersExact == Spec => []CountsExact
<1>1. ConnInv => CountsExact
  BY DEF ConnInv, CountInv
<1>2. QED
  BY <1>1, ConnInit, ConnStep, PTL DEF Spec

(* The cap of Add holds however many dials are in transit.                 *)
THEOREM CapHolds == Spec => []OutboundCapped
<1>1. ConnInv => OutboundCapped
  BY DEF ConnInv, CountInv
<1>2. QED
  BY <1>1, ConnInit, ConnStep, PTL DEF Spec

(* A ban of a host takes effect wherever it falls between the check that   *)
(* precedes a connection, Add, and the check of handleHello.               *)
THEOREM HostBans == Spec => []HostBanHolds
<1>1. Init => BanInv
  BY AddrType, ConnectionsAssumption DEF Init, BanInv, Ending, Pursuit, Registered
<1>2. BanInv => HostBanHolds
  BY DEF BanInv, Pursuit, Pursues, HostBanHolds, AtRest
<1>3. QED
  BY <1>1, <1>2, ConnInit, ConnStep, BanStep, PTL DEF Spec

-----------------------------------------------------------------------------
(* A reader that has ended has found done closed, and a connection that is *)
(* registered has had its reader started.                                  *)
Manned ==
  \A c \in Conn : /\ pc[c] = "end" => done[c]
                  /\ Registered(c) => pc[c] # "off"
                  /\ pc[c] # "ready"

(* Every step keeps it.                                                    *)
LEMMA MannedStep == ConnInv /\ Manned /\ [Next]_vars => Manned'
<1> SUFFICES ASSUME ConnInv, Manned, [Next]_vars PROVE Manned'
  OBVIOUS
<1> USE DEF ConnInv
<1>0. Conn \subseteq Thread /\ Conn \cap Admin = {}
  BY ConnectionsAssumption DEF Thread
<1>1. ASSUME NEW c \in Conn, Add(c) PROVE Manned'
  <2>1. /\ done' = done /\ phase[c] = "checked"
        /\ \/ pc' = pc /\ peers' = peers
           \/ pc' = [pc EXCEPT ![c] = "read"] /\ peers' = [peers EXCEPT ![Addr[c]] = c]
    BY <1>1 DEF Add, Goto, registry
  <2>2. \A d \in Conn : d # c /\ Registered(d)' => Registered(d)
    BY <2>1, AddrType DEF Registered, TypeOK
  <2>3. pc' # pc => pc'[c] = "read" /\ \A d \in Conn : d # c => pc'[d] = pc[d]
    BY <1>0, <2>1 DEF TypeOK
  <2>4. CASE pc' = pc /\ peers' = peers
    BY <2>1, <2>4 DEF Manned, Registered
  <2>5. CASE pc' = [pc EXCEPT ![c] = "read"]
    <3>1. pc'[c] = "read" /\ \A d \in Conn : d # c => pc'[d] = pc[d]
      BY <1>0, <2>5 DEF TypeOK
    <3>2. QED
      BY <2>1, <2>2, <3>1 DEF Manned
  <2>6. QED
    BY <2>1, <2>4, <2>5
<1>2. ASSUME NEW c \in Conn, Open(c) \/ Arrive(c) \/ CloseSocket(c) PROVE Manned'
  BY <1>2 DEF Open, Arrive, CloseSocket, registry, Manned, Registered
<1>3. ASSUME NEW c \in Conn, Reader(c) PROVE Manned'
  <2>1. UNCHANGED <<peers, done>> /\ pc[c] \in {"read", "hello"}
    BY <1>3 DEF Reader, ReadError, HandleHello, HelloDone, HandleUnexpected, HandleChainTip,
       HandleBadPoW, Take, registry, structs
  <2>2. /\ \A d \in Conn : d # c => pc'[d] = pc[d]
        /\ pc'[c] \in {"read", "hello", "kick", "end"}
        /\ pc'[c] = "end" => done[c]
    BY <1>0, <1>3, <2>1 DEF Reader, ReadError, HandleHello, HelloDone, HandleUnexpected,
       HandleChainTip, HandleBadPoW, Goto, Kick, TypeOK
  <2>3. QED
    BY <2>1, <2>2 DEF Manned, Registered
<1>4. ASSUME NEW t \in Thread, Kicker(t) PROVE Manned'
  <2>1. pc[t] \in {"kick", "close", "remove", "shut"}
    BY <1>4 DEF Kicker, Disconnect, CloseDone, Remove, Shut
  <2>2. /\ \A s \in Thread : s # t => pc'[s] = pc[s]
        /\ t \in Conn => pc'[t] \in {"read", "kick", "close", "remove", "shut"}
    BY <1>4, <2>1 DEF Kicker, Disconnect, CloseDone, Remove, Shut, Goto, TypeOK
  <2>3. \A c \in Conn : done[c] => done'[c]
    BY <1>4 DEF Kicker, Disconnect, CloseDone, Remove, Shut, structs, TypeOK
  <2>4. \A c \in Conn : Registered(c)' => Registered(c)
    <3>1. \/ peers' = peers
          \/ pc[t] = "remove" /\ peers' = [peers EXCEPT ![Addr[hand[t]]] = none]
      BY <1>4 DEF Kicker, Disconnect, CloseDone, Remove, Shut, registry
    <3>2. QED
      BY <3>1, AddrType, ConnectionsAssumption DEF Registered, TypeOK, Life
  <2>5. QED
    BY <1>0, <2>2, <2>3, <2>4 DEF Manned
<1>5. ASSUME NEW t \in Admin, BanPeer(t) \/ CmdDisconnect(t) PROVE Manned'
  <2>1. UNCHANGED <<peers, done>>
    BY <1>5 DEF BanPeer, CmdDisconnect, registry, structs
  <2>2. \A c \in Conn : pc'[c] = pc[c]
    <3>1. \A c \in Conn : c # t
      BY <1>0
    <3>2. QED
      BY <1>0, <1>5, <3>1 DEF BanPeer, CmdDisconnect, Kick, Goto, TypeOK
  <2>3. QED
    BY <2>1, <2>2 DEF Manned, Registered
<1>6. ASSUME NEW t \in Admin, UnbanPeer(t) \/ UnbanAll(t) PROVE Manned'
  BY <1>6 DEF UnbanPeer, UnbanAll, registry, structs, Manned, Registered
<1>7. CASE UNCHANGED vars
  BY <1>7 DEF vars, registry, structs, Manned, Registered
<1>8. QED
  BY <1>1, <1>2, <1>3, <1>4, <1>5, <1>6, <1>7 DEF Next, RemoteClose, ChurnRandomPeer

(* Nobody but a live reader is behind an entry of the registry once no     *)
(* goroutine is in the middle of a Disconnect, although the test of done   *)
(* and its closing are two steps and several goroutines take them.         *)
THEOREM ReadersServe == Spec => []RegisteredServed
<1>1. Init => BanInv /\ Manned
  BY AddrType, ConnectionsAssumption
  DEF Init, BanInv, Ending, Pursuit, Registered, Manned, Thread
<1>2. ConnInv /\ BanInv /\ Manned => RegisteredServed
  <2> SUFFICES ASSUME ConnInv, BanInv, Manned, AtRest, NEW c \in Conn, Registered(c)
               PROVE  pc[c] = "read" /\ ~ done[c]
    BY DEF RegisteredServed
  <2>1. ~ done[c]
    BY DEF BanInv, Ending, AtRest
  <2>2. c \in Thread
    BY DEF Thread
  <2>3. QED
    BY <2>1, <2>2 DEF Manned, AtRest
<1>3. QED
  BY <1>1, <1>2, ConnInit, ConnStep, BanStep, MannedStep, PTL DEF Spec
=============================================================================
