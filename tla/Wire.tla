-------------------------------- MODULE Wire --------------------------------
(***************************************************************************)
(* Sending on the connections between nodes (internal/peer/sendMessages.go *)
(* and the read loop of peer.go).                                          *)
(*                                                                         *)
(* A stream <<n, m>> carries the bytes that n writes for m, through socket *)
(* buffers of bounded size; a message is two segments, so that a write can *)
(* stop in its middle.  Goroutines of n are the readers <<n, m>>, one for  *)
(* each connection, and the topology manager <<n, n>>.  A goroutine sends  *)
(* by one call of SendMessage for each target, the calls of a Broadcast    *)
(* running side by side; it goes on when all of them have returned.        *)
(***************************************************************************)
EXTENDS Integers, Sequences

CONSTANTS
  Node,
  Stream,  \* pairs of nodes with a connection, both ways
  Cap      \* segments that the socket buffers of a stream hold

ASSUME WireAssumption ==
  /\ Stream \subseteq {d \in Node \X Node : d[1] # d[2]}
  /\ \A d \in Stream : <<d[2], d[1]>> \in Stream
  /\ Cap \in Nat \ {0}

Reader  == Stream
Topology == {<<n, n>> : n \in Node}
Thread  == Reader \cup Topology

(* A call of SendMessage: the goroutine that waits for it, the stream.     *)
Call == {c \in Thread \X Stream : c[1][1] = c[2][1]}

NoCall == <<>>

VARIABLES
  open,      \* streams whose connection is open
  buf,       \* segments written and not yet read
  torn,      \* streams on which a write stopped in the middle
  mutex,     \* Peer.networkMutex: the call that holds it, or NoCall
  deadline,  \* streams whose connection has a write deadline
  pc,        \* where each call is; "none" when there is no call
  sends,     \* what the handler of each goroutine still has to send
  partial    \* readers whose decoder is inside a message

vars == <<open, buf, torn, mutex, deadline, pc, sends, partial>>

PC == {"none", "lock", "arm", "head", "tail", "clear", "unlock"}

In(r) == <<r[2], r[1]>>

Init ==
  /\ open = Stream /\ buf = [d \in Stream |-> <<>>] /\ torn = {}
  /\ mutex = [d \in Stream |-> NoCall] /\ deadline = {}
  /\ pc = [c \in Call |-> "none"] /\ sends = [t \in Thread |-> {}]
  /\ partial = {}

Goto(c, label) == pc' = [pc EXCEPT ![c] = label]

-----------------------------------------------------------------------------
(* Mutant: the mutex is not taken.                                         *)
Lock_None(c) ==
  /\ pc[c] = "lock"
  /\ Goto(c, "arm")
  /\ UNCHANGED <<open, buf, torn, mutex, deadline, sends, partial>>

(* SendMessage.                                                            *)
Lock(c) ==
  /\ pc[c] = "lock" /\ mutex[c[2]] = NoCall
  /\ mutex' = [mutex EXCEPT ![c[2]] = c]
  /\ Goto(c, "arm")
  /\ UNCHANGED <<open, buf, torn, deadline, sends, partial>>

SetWriteDeadline(c) ==
  /\ pc[c] = "arm"
  /\ deadline' = deadline \cup {c[2]}
  /\ Goto(c, "head")
  /\ UNCHANGED <<open, buf, torn, mutex, sends, partial>>

(* conn.Write: segments are taken as the buffers have room; on a closed    *)
(* connection it fails, and with the buffers full until the deadline it    *)
(* gives up, leaving what it has written.                                  *)
WriteSegment(c) ==
  /\ pc[c] \in {"head", "tail"} /\ c[2] \in open
  /\ Len(buf[c[2]]) < Cap
  /\ buf' = [buf EXCEPT ![c[2]] = Append(@, pc[c])]
  /\ Goto(c, IF pc[c] = "head" THEN "tail" ELSE "clear")
  /\ UNCHANGED <<open, torn, mutex, deadline, sends, partial>>

WriteClosed(c) ==
  /\ pc[c] \in {"head", "tail"} /\ c[2] \notin open
  /\ Goto(c, "clear")
  /\ UNCHANGED <<open, buf, torn, mutex, deadline, sends, partial>>

(* Mutant: a write that times out is tried again.                          *)
WriteTimeout_Retry(c) ==
  /\ pc[c] \in {"head", "tail"} /\ c[2] \in open
  /\ Len(buf[c[2]]) = Cap /\ c[2] \in deadline
  /\ UNCHANGED vars

WriteTimeout(c) ==
  /\ pc[c] \in {"head", "tail"} /\ c[2] \in open
  /\ Len(buf[c[2]]) = Cap /\ c[2] \in deadline
  /\ torn' = IF pc[c] = "tail" THEN torn \cup {c[2]} ELSE torn
  /\ Goto(c, "clear")
  /\ UNCHANGED <<open, buf, mutex, deadline, sends, partial>>

Write(c) == WriteSegment(c) \/ WriteClosed(c) \/ WriteTimeout(c)

(* Mutant: the mutex is released before the deadline is cleared.           *)
ClearDeadline_Unlocked(c) ==
  \/ /\ pc[c] = "clear" /\ mutex[c[2]] = c
     /\ mutex' = [mutex EXCEPT ![c[2]] = NoCall]
     /\ UNCHANGED <<open, buf, torn, pc, deadline, sends, partial>>
  \/ /\ pc[c] = "clear" /\ mutex[c[2]] # c
     /\ deadline' = deadline \ {c[2]}
     /\ Goto(c, "none")
     /\ UNCHANGED <<open, buf, torn, mutex, sends, partial>>

ClearDeadline(c) ==
  /\ pc[c] = "clear"
  /\ deadline' = deadline \ {c[2]}
  /\ Goto(c, "unlock")
  /\ UNCHANGED <<open, buf, torn, mutex, sends, partial>>

Unlock(c) ==
  /\ pc[c] = "unlock"
  /\ mutex' = [mutex EXCEPT ![c[2]] = NoCall]
  /\ Goto(c, "none")
  /\ UNCHANGED <<open, buf, torn, deadline, sends, partial>>

CallStep(c) ==
  Lock(c) \/ SetWriteDeadline(c) \/ Write(c) \/ ClearDeadline(c) \/ Unlock(c)

-----------------------------------------------------------------------------
(* All calls of SendMessage that t waits for have returned (wg.Wait).      *)
Returned(t) == \A c \in Call : c[1] = t => pc[c] = "none"

Start(t, targets) ==
  pc' = [c \in Call |-> IF c[1] = t /\ c[2] \in targets THEN "lock" ELSE pc[c]]

(* Broadcast: to every connection there is.                                *)
Broadcast(t) ==
  /\ Returned(t) /\ "broadcast" \in sends[t]
  /\ Start(t, {d \in open : d[1] = t[1]})
  /\ sends' = [sends EXCEPT ![t] = @ \ {"broadcast"}]
  /\ UNCHANGED <<open, buf, torn, mutex, deadline, partial>>

(* A message to the peer whose message is handled.                         *)
Reply(r) ==
  /\ Returned(r) /\ sends[r] = {"reply"}
  /\ Start(r, {r})
  /\ sends' = [sends EXCEPT ![r] = {}]
  /\ UNCHANGED <<open, buf, torn, mutex, deadline, partial>>

AtRest(t) == Returned(t) /\ sends[t] = {}

(* The gossip ticker of StartTopologyManager.                              *)
GossipTick(t) ==
  /\ t \in Topology /\ AtRest(t)
  /\ sends' = [sends EXCEPT ![t] = {"broadcast"}]
  /\ UNCHANGED <<open, buf, torn, mutex, deadline, pc, partial>>

(* Mutant: what does not decode is skipped.                                *)
ReadSegment_Skip(r) ==
  /\ AtRest(r) /\ buf[In(r)] # <<>>
  /\ buf' = [buf EXCEPT ![In(r)] = Tail(@)]
  /\ partial' = IF Head(buf[In(r)]) = "head" THEN partial \cup {r} ELSE partial \ {r}
  /\ \E s \in SUBSET {"reply", "broadcast"} : sends' = [sends EXCEPT ![r] = s]
  /\ UNCHANGED <<open, torn, mutex, deadline, pc>>

(* initializeSocket: the decoder takes a segment; the last one of a        *)
(* message starts its handler, which sends nothing, an answer, a broadcast *)
(* or both.                                                                *)
ReadSegment(r) ==
  /\ AtRest(r) /\ buf[In(r)] # <<>>
  /\ (r \in partial) <=> (Head(buf[In(r)]) = "tail")
  /\ buf' = [buf EXCEPT ![In(r)] = Tail(@)]
  /\ IF r \in partial
     THEN /\ partial' = partial \ {r}
          /\ \E s \in SUBSET {"reply", "broadcast"} :
               sends' = [sends EXCEPT ![r] = s]
     ELSE partial' = partial \cup {r} /\ UNCHANGED sends
  /\ UNCHANGED <<open, torn, mutex, deadline, pc>>

(* Mutant: only the reader's own direction is closed.                      *)
Disconnect_Half(r) ==
  /\ AtRest(r) /\ buf[In(r)] # <<>>
  /\ ~ ((r \in partial) <=> (Head(buf[In(r)]) = "tail"))
  /\ open' = open \ {In(r)}
  /\ buf' = [buf EXCEPT ![In(r)] = <<>>]
  /\ UNCHANGED <<torn, mutex, deadline, pc, sends, partial>>

(* A segment that does not continue the message is invalid JSON: the       *)
(* reader disconnects.                                                     *)
Disconnect(r) ==
  /\ AtRest(r) /\ buf[In(r)] # <<>>
  /\ ~ ((r \in partial) <=> (Head(buf[In(r)]) = "tail"))
  /\ open' = open \ {r, In(r)}
  /\ buf' = [buf EXCEPT ![In(r)] = <<>>]
  /\ UNCHANGED <<torn, mutex, deadline, pc, sends, partial>>

Read(r) == ReadSegment(r) \/ Disconnect(r)

(* A new connection, with Peers of its own, once the readers of the old    *)
(* one have come to its end and no call uses it.                           *)
Dial(d) ==
  /\ d \notin open
  /\ AtRest(d) /\ AtRest(In(d)) /\ buf[d] = <<>> /\ buf[In(d)] = <<>>
  /\ \A c \in Call : c[2] \in {d, In(d)} => pc[c] = "none"
  /\ open' = open \cup {d, In(d)}
  /\ torn' = torn \ {d, In(d)} /\ partial' = partial \ {d, In(d)}
  /\ UNCHANGED <<buf, mutex, deadline, pc, sends>>

Next ==
  \/ \E c \in Call : CallStep(c)
  \/ \E t \in Thread : Broadcast(t)
  \/ \E r \in Reader : Reply(r) \/ Read(r)
  \/ \E t \in Topology : GossipTick(t)
  \/ \E d \in Stream : Dial(d)

(* Goroutines are scheduled; sync.Mutex hands itself in turn to the        *)
(* waiting ones; the gossip ticker goes on.                                *)
Fairness ==
  /\ \A c \in Call :
       /\ SF_vars(Lock(c)) /\ WF_vars(SetWriteDeadline(c)) /\ WF_vars(Write(c))
       /\ WF_vars(ClearDeadline(c)) /\ WF_vars(Unlock(c))
  /\ \A t \in Thread : WF_vars(Broadcast(t))
  /\ \A r \in Reader : WF_vars(Reply(r)) /\ WF_vars(Read(r))
  /\ \A t \in Topology : WF_vars(GossipTick(t))

Spec == Init /\ [][Next]_vars /\ Fairness

-----------------------------------------------------------------------------
(* Type invariant of the wire; a connection is open or closed both ways.   *)
TypeOK ==
  /\ open \subseteq Stream /\ \A d \in open : In(d) \in open
  /\ torn \subseteq Stream
  /\ buf \in [Stream -> Seq({"head", "tail"})]
  /\ \A d \in Stream : Len(buf[d]) <= Cap
  /\ mutex \in [Stream -> Call \cup {NoCall}]
  /\ deadline \subseteq Stream
  /\ pc \in [Call -> PC]
  /\ sends \in [Thread -> SUBSET {"reply", "broadcast"}]
  /\ partial \subseteq Reader

(* The deadline belongs to the connection and not to the write, and each   *)
(* call clears it when it is done: a write in progress still always has    *)
(* one, so that a peer that does not read cannot block it for good.        *)
DeadlineHeld == \A c \in Call : pc[c] \in {"head", "tail"} => c[2] \in deadline

(* Whoever writes on a stream, its messages stay whole: unless a deadline  *)
(* cut one, what is in the buffers continues what the reader's decoder has *)
(* and ends where the writer in progress stands.                           *)
Framed ==
  \A d \in Stream : d \in open /\ d \notin torn =>
    LET all == (IF In(d) \in partial THEN <<"head">> ELSE <<>>) \o buf[d]
    IN  /\ \A i \in DOMAIN all : (all[i] = "head") <=> (i % 2 = 1)
        /\ \A c \in Call : c[2] = d /\ pc[c] \in {"head", "tail"} =>
             (pc[c] = "tail") <=> (Len(all) % 2 = 1)

(* A reader blocked in an answer or a broadcast does not read, so the      *)
(* other end's writes fill up and its reader may block in turn; all the    *)
(* same every goroutine that has something to send gets done with it.      *)
SendsEnd == \A t \in Thread : []<>AtRest(t)

(* SendMessage keeps the connection of a message that was cut; the reader  *)
(* at the other end closes it for the messages that follow.                *)
TornCloses == \A d \in Stream : d \in torn ~> d \notin open

(* A cut message never stays on an open connection.                        *)
NoTornStream == torn \cap open = {}
=============================================================================
