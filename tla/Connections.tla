---------------------------- MODULE Connections -----------------------------
(***************************************************************************)
(* The connections of a node: the registry of peers and its ban rules      *)
(* (internal/peer/connections.go), the life of a connection from the dial  *)
(* or accept to Disconnect (peer.go), the handshake (handlers.go) and the  *)
(* churn of topology.go.                                                   *)
(*                                                                         *)
(* A member of Conn is one TCP connection and the Peer struct made for it. *)
(* Its reader goroutine and the goroutines in Admin (the commands of the   *)
(* user) are threads; a step is one section under the registry's mutex,    *)
(* one channel operation on done, or one use of the socket.                *)
(***************************************************************************)
EXTENDS Integers, FiniteSets

CONSTANTS
  Conn,         \* connections
  Inbound,      \* those that the remote side opens; we dial the others
  Persistent,   \* those dialled to the bootstrap peers
  Addr,         \* Conn: host and port of the remote side
  Host,         \* Conn: its host
  Agent,        \* agent names
  Hellos,       \* agents that hello messages carry; none for a hello without
  none,         \* no connection; no agent name
  Target,       \* hosts, addresses and agents that the user may ban
  MaxOutbound,  \* cap on outbound connections
  MaxBuffer,    \* messages that a socket and its decoder can hold
  Admin         \* goroutines that run the user's commands

Thread == Conn \cup Admin
Address == {Addr[c] : c \in Conn}

ASSUME ConnectionsAssumption ==
  /\ Inbound \subseteq Conn /\ Persistent \subseteq Conn \ Inbound
  /\ Conn \cap Admin = {} /\ none \notin Conn \cup Agent
  /\ "unknown" \notin Agent /\ Hellos \subseteq Agent \cup {none}
  /\ DOMAIN Addr = Conn /\ DOMAIN Host = Conn
  /\ MaxOutbound \in Nat /\ MaxBuffer \in Nat

VARIABLES
  \* ConnManager
  peers,            \* the registry: the connection of each address, or none
  inboundCount, outboundCount, persistentCount,
  bannedPeers,      \* ban rules
  \* the Peer structs and their sockets
  phase,            \* "new", "checked" (between the ban check and Add),
                    \* "up" (added), or "refused"
  sock,             \* "none", "open" or "closed"
  done,             \* whether the channel done is closed
  handshake,        \* handshakeComplete
  agent,            \* the agent name, or none
  sentChainTip,     \* whether the peer has sent a chaintip
  buffer,           \* messages received and not yet handled
  \* the process
  chaintipsReceived, \* counter of the Manager
  listening,        \* the loop of StartServer runs
  up,               \* FALSE once a goroutine has panicked
  \* locals of the goroutines
  pc,               \* next step
  kick,             \* connections left to disconnect
  hand              \* the connection being disconnected, or the agent name
                    \* of the hello being handled

registry == <<peers, inboundCount, outboundCount, persistentCount>>
structs  == <<phase, sock, done, handshake, agent, sentChainTip, buffer>>
process  == <<chaintipsReceived, listening, up>>
vars     == <<registry, bannedPeers, structs, process, pc, kick, hand>>

Init ==
  /\ peers = [a \in Address |-> none]
  /\ inboundCount = 0 /\ outboundCount = 0 /\ persistentCount = 0
  /\ bannedPeers = {}
  /\ phase = [c \in Conn |-> "new"] /\ sock = [c \in Conn |-> "none"]
  /\ done = [c \in Conn |-> FALSE] /\ handshake = [c \in Conn |-> FALSE]
  /\ agent = [c \in Conn |-> none]
  /\ sentChainTip = [c \in Conn |-> FALSE] /\ buffer = [c \in Conn |-> 0]
  /\ chaintipsReceived = 0 /\ listening = TRUE /\ up = TRUE
  /\ pc = [t \in Thread |-> IF t \in Admin THEN "ready" ELSE "off"]
  /\ kick = [t \in Thread |-> {}] /\ hand = [t \in Thread |-> none]

Goto(t, label) == pc' = [pc EXCEPT ![t] = label]

One(b) == IF b THEN 1 ELSE 0

Registered(c) == peers[Addr[c]] = c

(* Peers that GetDisposable returns and that the cap is about.             *)
Disposable == Conn \ (Inbound \cup Persistent)

-----------------------------------------------------------------------------
(* The check that precedes a connection: StartServer tests the host of an  *)
(* accepted socket, StartClient the host it is about to dial.  The accept  *)
(* loop handles one socket at a time, and two open inbound sockets never   *)
(* have the same remote address.                                           *)
Open(c) ==
  /\ up /\ phase[c] = "new"
  /\ c \in Inbound =>
       /\ listening
       /\ \A d \in Inbound : phase[d] # "checked"
       /\ \A d \in Inbound : Addr[d] = Addr[c] => sock[d] # "open"
  /\ IF Host[c] \in bannedPeers
     THEN phase' = [phase EXCEPT ![c] = "refused"] /\ UNCHANGED sock
     ELSE /\ phase' = [phase EXCEPT ![c] = "checked"]
          /\ sock' = [sock EXCEPT ![c] = "open"]
  /\ UNCHANGED <<registry, bannedPeers, done, handshake, agent, sentChainTip,
                 buffer, process, pc, kick, hand>>

(* Mutant: one connection too many.                                        *)
Full_Late(c) == c \in Disposable /\ outboundCount > MaxOutbound

Full(c) == c \in Disposable /\ outboundCount >= MaxOutbound

(* Mutants: inbound connections are only ever discounted; persistent ones  *)
(* are not counted as outbound.                                            *)
Count_Drop(c, n) ==
  /\ persistentCount' = persistentCount + n * One(c \in Persistent)
  /\ inboundCount' = inboundCount - One(c \in Inbound /\ n < 0)
  /\ outboundCount' = outboundCount + n * One(c \notin Inbound)

Count_Kind(c, n) ==
  /\ persistentCount' = persistentCount + n * One(c \in Persistent)
  /\ inboundCount' = inboundCount + n * One(c \in Inbound)
  /\ outboundCount' = outboundCount + n * One(c \in Disposable)

Count(c, n) ==
  /\ persistentCount' = persistentCount + n * One(c \in Persistent)
  /\ inboundCount' = inboundCount + n * One(c \in Inbound)
  /\ outboundCount' = outboundCount + n * One(c \notin Inbound)

(* NewPeer: Add under the mutex, then the reader is started.  An error     *)
(* closes the socket, and makes StartServer return.                        *)
Add(c) ==
  /\ up /\ phase[c] = "checked"
  /\ IF Full(c) \/ peers[Addr[c]] # none
     THEN /\ phase' = [phase EXCEPT ![c] = "refused"]
          /\ sock' = [sock EXCEPT ![c] = "closed"]
          /\ listening' = (listening /\ c \notin Inbound)
          /\ UNCHANGED <<registry, pc>>
     ELSE /\ phase' = [phase EXCEPT ![c] = "up"]
          /\ peers' = [peers EXCEPT ![Addr[c]] = c]
          /\ Count(c, 1)
          /\ Goto(c, "read")
          /\ UNCHANGED <<sock, listening>>
  /\ UNCHANGED <<bannedPeers, done, handshake, agent, sentChainTip, buffer,
                 chaintipsReceived, up, kick, hand>>

(* A message arrives; the remote side closes the connection; churn closes  *)
(* the socket of a disposable peer.                                        *)
Arrive(c) ==
  /\ up /\ sock[c] = "open" /\ buffer[c] < MaxBuffer
  /\ buffer' = [buffer EXCEPT ![c] = @ + 1]
  /\ UNCHANGED <<registry, bannedPeers, phase, sock, done, handshake, agent,
                 sentChainTip, process, pc, kick, hand>>

CloseSocket(c) ==
  /\ up /\ sock[c] = "open" /\ phase[c] = "up"
  /\ sock' = [sock EXCEPT ![c] = "closed"]
  /\ UNCHANGED <<registry, bannedPeers, phase, done, handshake, agent,
                 sentChainTip, buffer, process, pc, kick, hand>>

RemoteClose(c) == CloseSocket(c)

ChurnRandomPeer(c) == c \in Disposable /\ Registered(c) /\ CloseSocket(c)

-----------------------------------------------------------------------------
(* Disconnect, called by thread t for each connection in kick: the select  *)
(* on done, close(done), Remove, and conn.Close.                           *)
Disconnect(t) ==
  /\ up /\ pc[t] = "kick"
  /\ \/ /\ kick[t] = {}
        /\ Goto(t, IF t \in Conn THEN "read" ELSE "ready")
        /\ UNCHANGED <<kick, hand>>
     \/ \E c \in kick[t] :
          /\ kick' = [kick EXCEPT ![t] = @ \ {c}]
          /\ IF done[c]
             THEN UNCHANGED <<pc, hand>>
             ELSE hand' = [hand EXCEPT ![t] = c] /\ Goto(t, "close")
  /\ UNCHANGED <<registry, bannedPeers, structs, process>>

(* Mutant: done is tested and never closed.                                *)
CloseDone_Never(t) ==
  /\ up /\ pc[t] = "close"
  /\ Goto(t, "remove")
  /\ UNCHANGED <<registry, bannedPeers, structs, process, kick, hand>>

(* Closing a closed channel panics.                                        *)
CloseDone(t) ==
  /\ up /\ pc[t] = "close"
  /\ IF done[hand[t]]
     THEN up' = FALSE /\ UNCHANGED <<done, pc>>
     ELSE /\ done' = [done EXCEPT ![hand[t]] = TRUE]
          /\ Goto(t, "remove") /\ UNCHANGED up
  /\ UNCHANGED <<registry, bannedPeers, phase, sock, handshake, agent,
                 sentChainTip, buffer, chaintipsReceived, listening, kick, hand>>

(* Remove deletes whatever is registered under the address, and discounts  *)
(* the connection it was called for.                                       *)
Remove(t) ==
  /\ up /\ pc[t] = "remove"
  /\ LET c == hand[t]
     IN  IF peers[Addr[c]] = none
         THEN UNCHANGED registry
         ELSE /\ peers' = [peers EXCEPT ![Addr[c]] = none]
              /\ Count(c, -1)
  /\ Goto(t, "shut")
  /\ UNCHANGED <<bannedPeers, structs, process, kick, hand>>

Shut(t) ==
  /\ up /\ pc[t] = "shut"
  /\ sock' = [sock EXCEPT ![hand[t]] = "closed"]
  /\ hand' = [hand EXCEPT ![t] = none]
  /\ Goto(t, "kick")
  /\ UNCHANGED <<registry, bannedPeers, phase, done, handshake, agent,
                 sentChainTip, buffer, process, kick>>

Kick(t, S) == kick' = [kick EXCEPT ![t] = S] /\ Goto(t, "kick")

-----------------------------------------------------------------------------
(* The loop of a reader (initializeSocket, handleMessage).  The decoder    *)
(* gives out what it has buffered also when the socket has been closed.    *)
Take(c) ==
  /\ up /\ pc[c] = "read" /\ buffer[c] > 0
  /\ buffer' = [buffer EXCEPT ![c] = @ - 1]
  /\ UNCHANGED <<registry, phase, sock, done, listening>>

(* Mutant: the reader of a broken connection just ends.                    *)
ReadError_Leave(c) ==
  /\ up /\ pc[c] = "read" /\ buffer[c] = 0 /\ sock[c] = "closed"
  /\ Goto(c, "end") /\ UNCHANGED kick
  /\ UNCHANGED <<registry, bannedPeers, structs, process, hand>>

(* Decode fails.  A stream that stops being JSON on an open socket takes   *)
(* the same way as one that has ended, and nothing after it is decoded: it *)
(* is the RemoteClose of a peer that sends no more, which is the same to   *)
(* this reader.                                                            *)
ReadError(c) ==
  /\ up /\ pc[c] = "read" /\ buffer[c] = 0 /\ sock[c] = "closed"
  /\ IF done[c] THEN Goto(c, "end") /\ UNCHANGED kick ELSE Kick(c, {c})
  /\ UNCHANGED <<registry, bannedPeers, structs, process, hand>>

(* Mutant: only the agent name is looked up.                               *)
HelloBanned_AgentOnly(c, a) == a \in bannedPeers

HelloBanned(c, a) == {Host[c], a, Addr[c]} \cap bannedPeers # {}

(* handleHello: the ban check for a hello with the agent a, and, in a step *)
(* of its own, what it does to a peer that is not banned.  Without an      *)
(* agent the log line between them dereferences a nil pointer.             *)
HandleHello(c) ==
  /\ Take(c)
  /\ \E a \in Hellos :
       \/ /\ HelloBanned(c, IF a = none THEN "unknown" ELSE a)
          /\ Kick(c, {c}) /\ UNCHANGED <<up, hand>>
       \/ /\ ~ HelloBanned(c, IF a = none THEN "unknown" ELSE a)
          /\ IF a = none
             THEN up' = FALSE /\ UNCHANGED <<pc, hand>>
             ELSE Goto(c, "hello") /\ hand' = [hand EXCEPT ![c] = a] /\ UNCHANGED up
          /\ UNCHANGED kick
  /\ UNCHANGED <<bannedPeers, handshake, agent, sentChainTip, chaintipsReceived>>

HelloDone(c) ==
  /\ up /\ pc[c] = "hello"
  /\ handshake' = [handshake EXCEPT ![c] = TRUE]
  /\ agent' = [agent EXCEPT ![c] = hand[c]]
  /\ hand' = [hand EXCEPT ![c] = none]
  /\ Goto(c, "read")
  /\ UNCHANGED <<registry, bannedPeers, phase, sock, done, sentChainTip, buffer,
                 process, kick>>

(* A message that is not valid, or that is no hello before the handshake,  *)
(* ends the connection; an invalid one after the handshake does not.       *)
HandleUnexpected(c) ==
  /\ Take(c)
  /\ IF handshake[c] THEN UNCHANGED <<pc, kick>> ELSE Kick(c, {c})
  /\ UNCHANGED <<bannedPeers, handshake, agent, sentChainTip, chaintipsReceived,
                 up, hand>>

(* handleChainTip counts the first chaintip of each Peer struct.           *)
HandleChainTip(c) ==
  /\ handshake[c] /\ Take(c)
  /\ sentChainTip' = [sentChainTip EXCEPT ![c] = TRUE]
  /\ chaintipsReceived' = chaintipsReceived + One(~ sentChainTip[c])
  /\ UNCHANGED <<bannedPeers, handshake, agent, up, pc, kick, hand>>

(* BanPeer, under the mutex: the rule is added and the registered peers    *)
(* that it names are listed.  They are disconnected after the unlock.      *)
Violators(x) == {c \in Conn : Registered(c) /\ x \in {Host[c], agent[c]}}

(* handleObject of a block without proof of work.                          *)
HandleBadPoW(c) ==
  /\ handshake[c] /\ Take(c)
  /\ bannedPeers' = bannedPeers \cup {Host[c]}
  /\ Kick(c, Violators(Host[c]) \cup {c})
  /\ UNCHANGED <<handshake, agent, sentChainTip, chaintipsReceived, up, hand>>

-----------------------------------------------------------------------------
(* The commands ban, unban and disconnect.                                 *)
BanPeer(t) ==
  /\ up /\ pc[t] = "ready" /\ t \in Admin
  /\ \E x \in Target : bannedPeers' = bannedPeers \cup {x} /\ Kick(t, Violators(x))
  /\ UNCHANGED <<registry, structs, process, hand>>

UnbanPeer(t) ==
  /\ up /\ pc[t] = "ready" /\ t \in Admin
  /\ \E x \in bannedPeers : bannedPeers' = bannedPeers \ {x}
  /\ UNCHANGED <<registry, structs, process, pc, kick, hand>>

UnbanAll(t) ==
  /\ up /\ pc[t] = "ready" /\ t \in Admin
  /\ bannedPeers # {} /\ bannedPeers' = {}
  /\ UNCHANGED <<registry, structs, process, pc, kick, hand>>

CmdDisconnect(t) ==
  /\ up /\ pc[t] = "ready" /\ t \in Admin
  /\ \E c \in Conn : Registered(c) /\ Kick(t, {c})
  /\ UNCHANGED <<registry, bannedPeers, structs, process, hand>>

Reader(c) ==
  \/ ReadError(c) \/ HandleHello(c) \/ HelloDone(c) \/ HandleUnexpected(c)
  \/ HandleChainTip(c) \/ HandleBadPoW(c)

Kicker(t) == Disconnect(t) \/ CloseDone(t) \/ Remove(t) \/ Shut(t)

Next ==
  \/ \E c \in Conn : \/ Open(c) \/ Add(c) \/ Arrive(c) \/ RemoteClose(c)
                      \/ ChurnRandomPeer(c) \/ Reader(c)
  \/ \E t \in Thread : Kicker(t)
  \/ \E t \in Admin : BanPeer(t) \/ UnbanPeer(t) \/ UnbanAll(t) \/ CmdDisconnect(t)

Spec == Init /\ [][Next]_vars

(* Goroutines that can run do.                                             *)
FairSpec ==
  /\ Spec
  /\ \A c \in Conn : WF_vars(Reader(c))
  /\ \A t \in Thread : WF_vars(Kicker(t))

-----------------------------------------------------------------------------
(* Type invariant of the connections.                                      *)
TypeOK ==
  /\ peers \in [Address -> Conn \cup {none}]
  /\ inboundCount \in Nat /\ outboundCount \in Nat /\ persistentCount \in Nat
  /\ bannedPeers \subseteq Target \cup {Host[c] : c \in Conn}
  /\ phase \in [Conn -> {"new", "checked", "up", "refused"}]
  /\ sock \in [Conn -> {"none", "open", "closed"}]
  /\ done \in [Conn -> BOOLEAN] /\ handshake \in [Conn -> BOOLEAN]
  /\ agent \in [Conn -> Agent \cup {none}]
  /\ sentChainTip \in [Conn -> BOOLEAN] /\ buffer \in [Conn -> 0 .. MaxBuffer]
  /\ chaintipsReceived \in Nat /\ listening \in BOOLEAN /\ up \in BOOLEAN
  /\ pc \in [Thread -> {"off", "read", "hello", "kick", "close", "remove",
                        "shut", "end", "ready"}]
  /\ kick \in [Thread -> SUBSET Conn]
  /\ hand \in [Thread -> Conn \cup Agent \cup {none}]

(* The three counters, which the cap of Add and the status display rely    *)
(* on, are the numbers of registered connections of each kind, although    *)
(* several goroutines may disconnect the same peer and an address may be   *)
(* taken again by a connection of another kind.                            *)
CountsExact ==
  LET On(S) == Cardinality({c \in S : Registered(c)})
  IN  /\ inboundCount = On(Inbound)
      /\ outboundCount = On(Conn \ Inbound)
      /\ persistentCount = On(Persistent)

(* Remove looks at the address only, yet it never takes a connection out   *)
(* of the registry that nobody has begun to disconnect.                    *)
LiveRegistered == \A c \in Conn : phase[c] = "up" /\ ~ done[c] => Registered(c)

(* However many dials are in transit, no more than MaxOutbound disposable  *)
(* connections are registered.                                             *)
OutboundCapped == Cardinality({c \in Disposable : Registered(c)}) <= MaxOutbound

AtRest == up /\ \A t \in Thread : pc[t] \in {"off", "read", "end", "ready"}

(* When no goroutine is in the middle of anything, every registered        *)
(* connection still has its reader, and none is on its way out: whoever    *)
(* closes done, and whichever goroutines try to, the connection leaves the *)
(* registry, and a reader that ends leaves no entry behind that nobody     *)
(* would ever remove.                                                      *)
RegisteredServed ==
  AtRest => \A c \in Conn : Registered(c) => pc[c] = "read" /\ ~ done[c]

(* When no goroutine is in the middle of anything, no registered peer that *)
(* has shaken hands has a banned host, wherever the ban fell between the   *)
(* check of StartServer or StartClient, Add and the check of handleHello.  *)
HostBanHolds ==
  AtRest => \A c \in Conn : Registered(c) /\ handshake[c] => Host[c] \notin bannedPeers

(* The same of the agent name.                                             *)
AgentBanHolds ==
  AtRest => \A c \in Conn : Registered(c) /\ handshake[c] => agent[c] \notin bannedPeers

(* No goroutine panics.                                                    *)
NoPanic == up

(* The server goes on accepting connections.                               *)
ServerListens == listening

(* Nothing more is handled of a peer that has been banned and whose        *)
(* connection has been closed.                                             *)
BannedIgnored ==
  [][\A c \in Conn : HandleChainTip(c) =>
       ~ (Host[c] \in bannedPeers /\ done[c] /\ sock[c] = "closed")]_vars

(* The counter that SyncNodeState waits for counts distinct peers.         *)
ChaintipsDistinct ==
  chaintipsReceived <= Cardinality({Host[c] : c \in {d \in Conn : sentChainTip[d]}})

(* A connection whose socket is closed, by either side or by churn, does   *)
(* not stay in the registry, where it would hold its address and its place *)
(* under the cap.                                                          *)
DeadRemoved ==
  \A c \in Conn : (phase[c] = "up" /\ sock[c] = "closed") ~> (~ Registered(c) \/ ~ up)
=============================================================================
