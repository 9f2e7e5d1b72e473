----------------------------- MODULE Discovery ------------------------------
(***************************************************************************)
(* The routing table of a node, its file peers.csv (internal/discovery),   *)
(* and the rounds of dials that keep up the outbound connections           *)
(* (replenishOutbound of internal/peer/topology.go).                       *)
(*                                                                         *)
(* Every operation on the table holds KnownPeersMutex; the file is written *)
(* under it, in steps that a crash can separate.                           *)
(***************************************************************************)
EXTENDS Integers, FiniteSetsExt

CONSTANTS
  Peer,             \* addresses
  BOOTSTRAP_PEERS,  \* those the program knows
  Batch,            \* how many candidates a round of dials selects
  MaxOutbound,      \* the number of outbound connections that is enough
  MaxTime,          \* bound of the clock
  absent            \* the value of an address that has no record

ASSUME DiscoveryAssumption ==
  /\ IsFiniteSet(Peer) /\ BOOTSTRAP_PEERS \subseteq Peer
  /\ Batch \in Nat /\ MaxOutbound \in Nat /\ MaxTime \in Nat

VARIABLES
  KnownPeers,  \* the table: a PeerRecord for each known address
  DeadPeers,   \* addresses that could not be dialled
  file,        \* the records of peers.csv
  saving,      \* a save has truncated the file and not yet flushed it
  clock,
  connected,   \* addresses with an outbound connection
  dialing,     \* candidates of the current round, not yet dialled
  reachable    \* addresses that would answer a dial

table == <<KnownPeers, DeadPeers, file, saving>>
vars  == <<table, clock, connected, dialing, reachable>>

(* Who told us of a peer, and when it last said hello.                     *)
Source == Peer \cup {"bootstrap", "direct", ""}
PeerRecord == [Source : Source, LastSeen : 0 .. MaxTime]

Known(t) == {p \in Peer : t[p] # absent}

NoRecords == [p \in Peer |-> absent]

-----------------------------------------------------------------------------
(* Mutant: the source is read from the column of the agent.                *)
LoadPeers_Column(records) ==
  [p \in Peer |->
     IF records[p] # absent THEN [records[p] EXCEPT !.Source = "unknown"]
     ELSE IF p \in BOOTSTRAP_PEERS THEN [Source |-> "bootstrap", LastSeen |-> 0]
     ELSE absent]

(* loadPeers: the records of the file over those of the bootstrap peers.   *)
LoadPeers(records) ==
  [p \in Peer |->
     IF records[p] # absent THEN records[p]
     ELSE IF p \in BOOTSTRAP_PEERS THEN [Source |-> "bootstrap", LastSeen |-> 0]
     ELSE absent]

Init ==
  /\ KnownPeers = LoadPeers(NoRecords) /\ file = KnownPeers
  /\ DeadPeers = {} /\ saving = FALSE /\ clock = 0
  /\ connected = {} /\ dialing = {} /\ reachable = Peer

(* savePeers: os.Create truncates the file; the records get there when the *)
(* writer is flushed, in the next step.  The mutex is held throughout.     *)
(* os.Create is taken to succeed: its failure is logged and saves nothing. *)
SavePeers == file' = NoRecords /\ saving' = TRUE

Flush ==
  /\ saving
  /\ file' = KnownPeers /\ saving' = FALSE
  /\ UNCHANGED <<KnownPeers, DeadPeers, clock, connected, dialing, reachable>>

(* Mutant: what is new is not saved.                                       *)
AppendPeers_NoSave(S, source) ==
  LET new == {p \in S \ DeadPeers : KnownPeers[p] = absent}
  IN  /\ ~ saving /\ new # {}
      /\ KnownPeers' = [p \in Peer |-> IF p \in new
                          THEN [Source |-> source, LastSeen |-> 0] ELSE KnownPeers[p]]
      /\ UNCHANGED <<DeadPeers, file, saving, clock, connected, dialing, reachable>>

(* handlePeers: a neighbour tells us of the addresses S.                   *)
AppendPeers(S, source) ==
  LET new == {p \in S \ DeadPeers : KnownPeers[p] = absent}
  IN  /\ ~ saving /\ new # {}
      /\ KnownPeers' = [p \in Peer |-> IF p \in new
                          THEN [Source |-> source, LastSeen |-> 0] ELSE KnownPeers[p]]
      /\ SavePeers
      /\ UNCHANGED <<DeadPeers, clock, connected, dialing, reachable>>

(* handleHello.  The record is the zero value if there was none: the one   *)
(* with the source "direct" that has just been put there is overwritten.   *)
UpdatePeer(p) ==
  /\ ~ saving
  /\ LET record == IF KnownPeers[p] = absent THEN [Source |-> "", LastSeen |-> 0]
                   ELSE KnownPeers[p]
     IN  KnownPeers' = [KnownPeers EXCEPT ![p] = [record EXCEPT !.LastSeen = clock]]
  /\ SavePeers
  /\ UNCHANGED <<DeadPeers, clock, connected, dialing, reachable>>

(* RemovePeer does not write the file.                                     *)
RemovePeer(p) ==
  /\ KnownPeers' = [KnownPeers EXCEPT ![p] = absent]
  /\ DeadPeers' = DeadPeers \cup {p}

(* Tombstones older than twelve hours are swept.                           *)
DeadPeersTimer ==
  /\ ~ saving
  /\ \E old \in (SUBSET DeadPeers) \ {{}} : DeadPeers' = DeadPeers \ old
  /\ UNCHANGED <<KnownPeers, file, saving, clock, connected, dialing, reachable>>

-----------------------------------------------------------------------------
(* The results that SelectRecentPeers can give: all known addresses that   *)
(* are not ignored, if they are few; otherwise four fifths of the count    *)
(* are most recently seen ones and the others any.                         *)
SelectRecentPeers(count, ignore) ==
  LET valid  == Known(KnownPeers) \ ignore
      recent == (4 * count) \div 5
      Newest(S) == \A p \in S, q \in valid \ S :
                     KnownPeers[p].LastSeen >= KnownPeers[q].LastSeen
  IN  IF Cardinality(valid) <= count THEN {valid}
      ELSE {S \in kSubset(count, valid) : \E R \in kSubset(recent, S) : Newest(R)}

(* replenishOutbound: a round ends when all its dials have.                *)
Replenish ==
  /\ ~ saving /\ dialing = {}
  /\ Cardinality(connected) < MaxOutbound
  /\ dialing' \in SelectRecentPeers(Batch, connected)
  /\ UNCHANGED <<table, clock, connected, reachable>>

(* A dial goroutine: StartClient, and RemovePeer if the dial failed.  One  *)
(* that finds the registry full leaves the table alone.                    *)
Dial(p) ==
  /\ p \in dialing
  /\ dialing' = dialing \ {p}
  /\ IF p \in reachable
     THEN /\ connected' = IF Cardinality(connected) < MaxOutbound
                          THEN connected \cup {p} ELSE connected
          /\ UNCHANGED <<KnownPeers, DeadPeers>>
     ELSE ~ saving /\ RemovePeer(p) /\ UNCHANGED connected
  /\ UNCHANGED <<file, saving, clock, reachable>>

(* A connection is lost or churned; the network fails and recovers.        *)
Lose(p) ==
  /\ p \in connected
  /\ connected' = connected \ {p}
  /\ UNCHANGED <<table, clock, dialing, reachable>>

Network ==
  /\ reachable' \in {{}, Peer} \ {reachable}
  /\ UNCHANGED <<table, clock, connected, dialing>>

Tick ==
  /\ clock < MaxTime /\ clock' = clock + 1
  /\ UNCHANGED <<table, connected, dialing, reachable>>

(* The process is killed and started again.  While a save is under way the *)
(* file holds some of the records.                                         *)
CrashRestart ==
  /\ \E S \in IF saving THEN SUBSET Known(KnownPeers) ELSE {Known(file)} :
       LET kept == [p \in Peer |-> IF p \notin S THEN absent
                                   ELSE IF saving THEN KnownPeers[p] ELSE file[p]]
       IN  file' = kept /\ KnownPeers' = LoadPeers(kept)
  /\ DeadPeers' = {} /\ saving' = FALSE
  /\ connected' = {} /\ dialing' = {}
  /\ UNCHANGED <<clock, reachable>>

Gossip == \E S \in SUBSET Peer, source \in Peer : AppendPeers(S, source)

Dials == Replenish \/ \E p \in Peer : Dial(p)

Run ==
  \/ Flush \/ Gossip \/ DeadPeersTimer \/ Dials \/ Network \/ Tick
  \/ \E p \in Peer : UpdatePeer(p) \/ Lose(p)

Spec == Init /\ [][Run \/ CrashRestart]_vars

(* A process that is not killed: the tickers fire, saves and dials end,    *)
(* and nobody waits for ever for a mutex that is released again and again. *)
Fairness ==
  /\ WF_vars(Flush) /\ SF_vars(Replenish) /\ SF_vars(DeadPeersTimer)
  /\ \A p \in Peer : SF_vars(Dial(p))

(* No neighbour tells us anything: none has dialled us.                    *)
AloneSpec ==
  /\ Init
  /\ [][Flush \/ DeadPeersTimer \/ Dials \/ Network \/ \E p \in Peer : Lose(p)]_vars
  /\ Fairness

(* Some neighbour that has dialled us goes on telling us of all peers.     *)
GossipSpec ==
  /\ Init /\ [][Run]_vars
  /\ Fairness /\ SF_vars(\E source \in Peer : AppendPeers(Peer, source))

-----------------------------------------------------------------------------
(* Type invariant of the table and the dials.                              *)
TypeOK ==
  /\ KnownPeers \in [Peer -> PeerRecord \cup {absent}]
  /\ file \in [Peer -> PeerRecord \cup {absent}]
  /\ DeadPeers \subseteq Peer /\ connected \subseteq Peer /\ dialing \subseteq Peer
  /\ reachable \subseteq Peer
  /\ saving \in BOOLEAN /\ clock \in 0 .. MaxTime

(* Whatever was learned, seen, removed or lost in a crash, when no save is *)
(* under way the file has the table's record of every peer that the        *)
(* program itself does not know: a restart reads back all of them.         *)
TableSaved ==
  ~ saving => \A p \in Known(KnownPeers) \ BOOTSTRAP_PEERS : file[p] = KnownPeers[p]

(* A restart keeps every peer of the table.                                *)
RestartKeeps ==
  [][CrashRestart => Known(KnownPeers) \subseteq Known(KnownPeers')]_vars

(* Every record tells where its peer comes from.                           *)
SourceRecorded == \A p \in Known(KnownPeers) : KnownPeers[p].Source # ""

(* Once the network is back for good, the node has outbound connections    *)
(* again and again, whatever was removed from the table during the outage. *)
Reconnects == <>[](reachable = Peer) => []<>(connected # {})
=============================================================================
