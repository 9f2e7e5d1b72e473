-------------------------- MODULE DiscoveryProofs ---------------------------
(***************************************************************************)
(* Proofs about Discovery, for any addresses, batches and limits and with  *)
(* crashes at any point of a save.                                         *)
(***************************************************************************)
EXTENDS Discovery, TLAPS

Table == [Peer -> PeerRecord \cup {absent}]

(* A record that is made when its peer has not been seen.                  *)
LEMMA UnseenType ==
  ASSUME NEW source \in Source
  PROVE  [Source |-> source, LastSeen |-> 0] \in PeerRecord
<1>1. 0 \in 0 .. MaxTime
  BY DiscoveryAssumption
<1>2. QED
  BY <1>1 DEF PeerRecord

(* Loading any records gives a table.                                      *)
LEMMA LoadType ==
  ASSUME NEW records \in Table
  PROVE  LoadPeers(records) \in Table
<1>1. [Source |-> "bootstrap", LastSeen |-> 0] \in PeerRecord
  BY UnseenType DEF Source
<1>2. QED
  BY <1>1 DEF LoadPeers, Table

(* The candidates of a round are addresses of the table.                   *)
LEMMA SelectType ==
  ASSUME NEW count, NEW ignore, NEW S \in SelectRecentPeers(count, ignore)
  PROVE  S \subseteq Peer
BY DEF SelectRecentPeers, kSubset, Known

(* The types hold at first.                                                *)
LEMMA TypeInit == Init => TypeOK
<1> SUFFICES ASSUME Init
             PROVE  TypeOK
  OBVIOUS
<1>1. NoRecords \in Table
  BY DEF NoRecords, Table
<1>2. KnownPeers \in Table /\ file \in Table
  BY <1>1, LoadType DEF Init
<1>3. clock \in 0 .. MaxTime
  BY DiscoveryAssumption DEF Init
<1>4. QED
  BY <1>2, <1>3 DEF Init, TypeOK, Table

(* Every step keeps the types.                                             *)
LEMMA TypeStep == TypeOK /\ [Run \/ CrashRestart]_vars => TypeOK'
<1> SUFFICES ASSUME TypeOK, [Run \/ CrashRestart]_vars
             PROVE  TypeOK'
  OBVIOUS
<1>0. NoRecords \in Table /\ KnownPeers \in Table /\ file \in Table
  BY DEF NoRecords, Table, TypeOK
<1>1. CASE Flush
  BY <1>1 DEF Flush, TypeOK
<1>2. ASSUME NEW S \in SUBSET Peer, NEW source \in Peer, AppendPeers(S, source)
      PROVE  TypeOK'
  <2>1. [Source |-> source, LastSeen |-> 0] \in PeerRecord
    BY UnseenType DEF Source
  <2>2. KnownPeers' \in Table
    BY <1>0, <1>2, <2>1 DEF AppendPeers, Table
  <2>3. QED
    BY <1>0, <1>2, <2>2 DEF AppendPeers, SavePeers, TypeOK, Table
<1>3. ASSUME NEW p \in Peer, UpdatePeer(p)
      PROVE  TypeOK'
  <2> DEFINE record == IF KnownPeers[p] = absent THEN [Source |-> "", LastSeen |-> 0]
                       ELSE KnownPeers[p]
  <2>1. record \in PeerRecord
    BY <1>0, UnseenType DEF Table, Source
  <2>2. [record EXCEPT !.LastSeen = clock] \in PeerRecord
    BY <2>1 DEF PeerRecord, TypeOK
  <2>3. KnownPeers' \in Table
    BY <1>0, <1>3, <2>2 DEF UpdatePeer, Table
  <2>4. QED
    BY <1>0, <1>3, <2>3 DEF UpdatePeer, SavePeers, TypeOK, Table
<1>4. CASE DeadPeersTimer \/ Network \/ Tick
  BY <1>4, DiscoveryAssumption DEF DeadPeersTimer, Network, Tick, TypeOK, table
<1>5. CASE Replenish
  <2>1. dialing' \subseteq Peer
    BY <1>5, SelectType DEF Replenish
  <2>2. QED
    BY <1>5, <2>1 DEF Replenish, TypeOK, table
<1>6. ASSUME NEW p \in Peer, Dial(p) \/ Lose(p)
      PROVE  TypeOK'
  <2>1. CASE Lose(p)
    BY <2>1 DEF Lose, TypeOK, table
  <2>2. CASE Dial(p)
    BY <2>2 DEF Dial, RemovePeer, TypeOK
  <2>3. QED
    BY <1>6, <2>1, <2>2
<1>7. CASE CrashRestart
  <2>1. file' \in Table /\ KnownPeers' = LoadPeers(file')
    BY <1>0, <1>7 DEF CrashRestart, Table
  <2>2. KnownPeers' \in Table
    BY <2>1, LoadType
  <2>3. QED
    BY <1>7, <2>1, <2>2 DEF CrashRestart, TypeOK, Table
<1>8. CASE UNCHANGED vars
  BY <1>8 DEF vars, table, TypeOK
<1>9. QED
  BY <1>1, <1>2, <1>3, <1>4, <1>5, <1>6, <1>7, <1>8 DEF Run, Gossip, Dials

(* The table, the file and the dials keep their types.                     *)
THEOREM DiscoveryTypes == Spec => []TypeOK
BY TypeInit, TypeStep, PTL DEF Spec

(* Every step that ends with no save under way leaves the table's records  *)
(* in the file: a save writes them all, a failed dial only removes one     *)
(* from the table, and a restart takes its table from the file.            *)
LEMMA SavedStep == TypeOK /\ TableSaved /\ [Run \/ CrashRestart]_vars => TableSaved'
<1> SUFFICES ASSUME TypeOK, TableSaved, [Run \/ CrashRestart]_vars
             PROVE  TableSaved'
  OBVIOUS
<1>0. KnownPeers \in Table /\ file \in Table
  BY DEF TypeOK, Table
<1>1. CASE Flush
  BY <1>1 DEF Flush, TableSaved
<1>2. ASSUME saving'
      PROVE  TableSaved'
  BY <1>2 DEF TableSaved
<1>3. ASSUME NEW p \in Peer, Dial(p)
      PROVE  TableSaved'
  <2>1. UNCHANGED <<file, saving>>
    BY <1>3 DEF Dial
  <2>2. \A q \in Peer : KnownPeers'[q] # absent => KnownPeers'[q] = KnownPeers[q]
    BY <1>0, <1>3 DEF Dial, RemovePeer, Table
  <2>3. QED
    BY <2>1, <2>2 DEF TableSaved, Known
<1>4. CASE CrashRestart
  <2>1. KnownPeers' = LoadPeers(file')
    BY <1>4 DEF CrashRestart
  <2>2. \A p \in Peer \ BOOTSTRAP_PEERS : KnownPeers'[p] = file'[p]
    BY <2>1 DEF LoadPeers
  <2>3. QED
    BY <2>2 DEF TableSaved, Known
<1>5. CASE UNCHANGED table
  BY <1>5 DEF table, TableSaved
<1>6. CASE DeadPeersTimer
  BY <1>6 DEF DeadPeersTimer, TableSaved
<1>7. ASSUME NEW S \in SUBSET Peer, NEW source \in Peer, AppendPeers(S, source)
      PROVE  TableSaved'
  BY <1>2, <1>7 DEF AppendPeers, SavePeers
<1>8. ASSUME NEW p \in Peer, UpdatePeer(p)
      PROVE  TableSaved'
  BY <1>2, <1>8 DEF UpdatePeer, SavePeers
<1>9. QED
  <2>1. ASSUME NEW p \in Peer, Lose(p)
        PROVE  UNCHANGED table
    BY <2>1 DEF Lose
  <2>2. Replenish \/ Network \/ Tick \/ UNCHANGED vars => UNCHANGED table
    BY DEF Replenish, Network, Tick, vars
  <2>3. QED
    BY <1>1, <1>3, <1>4, <1>5, <1>6, <1>7, <1>8, <2>1, <2>2 DEF Run, Gossip, Dials

(* Whenever no save is under way, the file has the table's record of every *)
(* peer that the program itself does not know, after any gossip, hellos,   *)
(* failed dials, crashes and restarts.                                     *)
THEOREM RecordsSaved == Spec => []TableSaved
<1>1. Init => TableSaved
  BY DEF Init, TableSaved
<1>2. QED
  BY <1>1, SavedStep, TypeInit, TypeStep, PTL DEF Spec
=============================================================================
