---------------------------- MODULE ServerProofs ----------------------------
(***************************************************************************)
(* Theorems about Server, for every number of connections, slots and       *)
(* messages: the slots of the channel outstanding and what they bound, and *)
(* the messages and responses under way.                                   *)
(***************************************************************************)
EXTENDS Server, IndexProofs, SequenceTheorems, TLAPS

Labels == {"none", "read", "delay", "call", "respond", "close", "release", "done"}

\* Where serve is until it closes its connection.
Handling == Labels \ {"none", "release", "done"}

\* How the two ends of a connection and its goroutine go together: a client
\* that has not dialled has no connection, one that Serve has not let in has
\* no goroutine, and an open connection has a goroutine that will close it.
ConnInv(c) == /\ client[c] = "none" => sock[c] = "none"
              /\ sock[c] \in {"none", "backlog", "accepted"} => pc[c] = "none"
              /\ sock[c] = "open" => pc[c] \in Handling

SlotInv == /\ pc \in [Goroutine -> Labels]
           /\ DOMAIN sock = Goroutine
           /\ DOMAIN client = Goroutine
           /\ \A c \in Goroutine : ConnInv(c)
           /\ IsFiniteSet(Serving)
           /\ SlotsExact
           /\ outstanding <= MaxConns

-----------------------------------------------------------------------------

LEMMA InitSlotInv == SInit => SlotInv
<1> SUFFICES ASSUME SInit PROVE SlotInv
  OBVIOUS
<1>1. Serving = {}
  BY DEF SInit, Serving
<1>2. IsFiniteSet(Serving) /\ Cardinality(Serving) = 0
  BY <1>1, FS_EmptySet
<1>3. pc \in [Goroutine -> Labels] /\ DOMAIN sock = Goroutine /\ DOMAIN client = Goroutine
  BY DEF SInit, Labels
<1>4. \A c \in Goroutine : ConnInv(c)
  BY DEF SInit, ConnInv
<1> QED
  BY <1>2, <1>3, <1>4, ServerAssumption DEF SlotInv, SlotsExact, SInit

(* A step that leaves connections, slots, goroutines and clients alone.    *)
LEMMA UnchangedSlotInv ==
  ASSUME SlotInv, UNCHANGED <<sock, outstanding, pc, client>>
  PROVE  SlotInv'
BY DEF SlotInv, ConnInv, Serving, SlotsExact

(* A step of serve that neither starts nor ends it keeps its slot; before  *)
(* it goes on to give it back the connection is closed.                    *)
LEMMA GotoSlotInv ==
  ASSUME SlotInv, NEW c \in Goroutine, pc[c] \in Labels \ {"none", "done"},
         NEW l \in Labels \ {"none", "done"}, Goto(c, l),
         UNCHANGED <<sock, outstanding, client>>,
         l = "release" => sock[c] # "open"
  PROVE  SlotInv'
<1>1. pc' = [pc EXCEPT ![c] = l]
  BY DEF Goto, Set
<1>2. pc' \in [Goroutine -> Labels]
  BY <1>1 DEF SlotInv
<1>3. Serving' = Serving
  BY <1>1 DEF SlotInv, Serving, Labels
<1>4. ASSUME NEW d \in Goroutine PROVE ConnInv(d)'
  BY <1>1 DEF SlotInv, ConnInv, Handling, Labels
<1> QED
  BY <1>2, <1>3, <1>4 DEF SlotInv, SlotsExact

(* Serve takes a slot for the goroutine it starts.                         *)
LEMMA SpawnSlotInv ==
  ASSUME SlotInv, NEW c \in Goroutine, Spawn(c)
  PROVE  SlotInv'
<1>1. /\ pc' = [pc EXCEPT ![c] = "read"]
      /\ sock' = [sock EXCEPT ![c] = "open"]
      /\ sock[c] = "accepted"
      /\ outstanding < MaxConns /\ outstanding' = outstanding + 1
      /\ UNCHANGED client
  BY DEF Spawn, Goto, Set, peers
<1>2. pc[c] = "none" /\ client[c] # "none"
  BY <1>1 DEF SlotInv, ConnInv
<1>3. pc' \in [Goroutine -> Labels]
  BY <1>1 DEF SlotInv, Labels
<1>4. Serving' = Serving \cup {c} /\ c \notin Serving
  BY <1>1, <1>2 DEF SlotInv, Serving
<1>5. IsFiniteSet(Serving') /\ Cardinality(Serving') = Cardinality(Serving) + 1
  BY <1>4, FS_AddElement DEF SlotInv
<1>6. outstanding \in Nat /\ outstanding' <= MaxConns
  BY <1>1, FS_CardinalityType, ServerAssumption DEF SlotInv, SlotsExact
<1>7. ASSUME NEW d \in Goroutine PROVE ConnInv(d)'
  BY <1>1, <1>2 DEF SlotInv, ConnInv, Handling, Labels
<1> QED
  BY <1>1, <1>3, <1>5, <1>6, <1>7 DEF SlotInv, SlotsExact

(* The deferred function of serve gives its slot back.                     *)
LEMMA ReleaseSlotInv ==
  ASSUME SlotInv, NEW c \in Goroutine, Release(c)
  PROVE  SlotInv'
<1>1. /\ pc' = [pc EXCEPT ![c] = "done"]
      /\ pc[c] = "release"
      /\ outstanding' = outstanding - 1
      /\ UNCHANGED <<sock, client>>
  BY DEF Release, Goto, Set, peers
<1>2. pc' \in [Goroutine -> Labels]
  BY <1>1 DEF SlotInv, Labels
<1>3. Serving' = Serving \ {c} /\ c \in Serving
  BY <1>1 DEF SlotInv, Serving
<1>4. IsFiniteSet(Serving') /\ Cardinality(Serving') = Cardinality(Serving) - 1
  BY <1>3, FS_RemoveElement DEF SlotInv
<1>5. outstanding' <= MaxConns
  BY <1>1, FS_CardinalityType, ServerAssumption DEF SlotInv, SlotsExact
<1>6. ASSUME NEW d \in Goroutine PROVE ConnInv(d)'
  BY <1>1 DEF SlotInv, ConnInv, Handling, Labels
<1> QED
  BY <1>1, <1>2, <1>4, <1>5, <1>6 DEF SlotInv, SlotsExact

(* A step that moves a connection between its states, or a client between  *)
(* its own, and leaves slots and goroutines alone.                         *)
LEMMA ConnSlotInv ==
  ASSUME SlotInv, UNCHANGED <<outstanding, pc>>,
         DOMAIN sock' = Goroutine, DOMAIN client' = Goroutine,
         \A c \in Goroutine : ConnInv(c)'
  PROVE  SlotInv'
BY DEF SlotInv, Serving, SlotsExact

LEMMA AcceptorSlotInv ==
  ASSUME SlotInv, Acceptor
  PROVE  SlotInv'
<1>1. CASE Accept
  <2>1. PICK c \in Goroutine : sock[c] = "backlog" /\ sock' = [sock EXCEPT ![c] = "accepted"]
    BY <1>1 DEF Accept, Set
  <2>2. UNCHANGED <<outstanding, pc, client>>
    BY <1>1 DEF Accept, peers
  <2>3. ASSUME NEW d \in Goroutine PROVE ConnInv(d)'
    BY <2>1, <2>2 DEF SlotInv, ConnInv
  <2> QED
    BY <2>1, <2>2, <2>3, ConnSlotInv DEF SlotInv
<1>2. CASE AcceptTemporary \/ AcceptAgain \/ AcceptFails \/ Exit
  BY <1>2, UnchangedSlotInv DEF AcceptTemporary, AcceptAgain, AcceptFails, Exit, conns, peers
<1>3. ASSUME NEW c \in Goroutine, Spawn(c) PROVE SlotInv'
  BY <1>3, SpawnSlotInv
<1>4. ASSUME NEW c \in Goroutine, Refuse(c) PROVE SlotInv'
  <2>1. sock[c] = "accepted" /\ sock' = [sock EXCEPT ![c] = "closed"]
    BY <1>4 DEF Refuse, Set
  <2>2. UNCHANGED <<outstanding, pc, client>>
    BY <1>4 DEF Refuse, peers
  <2>3. ASSUME NEW d \in Goroutine PROVE ConnInv(d)'
    BY <2>1, <2>2 DEF SlotInv, ConnInv
  <2> QED
    BY <2>1, <2>2, <2>3, ConnSlotInv DEF SlotInv
<1> QED
  BY <1>1, <1>2, <1>3, <1>4 DEF Acceptor

LEMMA ServeSlotInv ==
  ASSUME SlotInv, NEW c \in Goroutine, Serve(c)
  PROVE  SlotInv'
<1>1. CASE ReadRequest(c)
  BY <1>1, GotoSlotInv DEF ReadRequest, Reading, conns, peers, Labels
<1>2. CASE ReadBad(c)
  BY <1>2, GotoSlotInv DEF ReadBad, Reading, conns, peers, Labels
<1>3. CASE ReadEOF(c) \/ ReadTimeout(c)
  BY <1>3, GotoSlotInv DEF ReadEOF, ReadTimeout, Reading, conns, peers, Labels
<1>4. CASE ReadError(c)
  BY <1>4, GotoSlotInv DEF ReadError, Reading, conns, peers, Labels
<1>5. CASE Wake(c)
  BY <1>5, GotoSlotInv DEF Wake, conns, peers, Labels
<1>6. CASE CallIndex(c)
  BY <1>6, GotoSlotInv DEF CallIndex, conns, peers, Labels
<1>7. CASE Respond(c) \/ WriteTimeout(c) \/ WriteLost(c)
  BY <1>7, GotoSlotInv
  DEF Respond, WriteTimeout, WriteLost, Responding, conns, peers, Labels
<1>8. CASE Close(c)
  <2>1. /\ pc[c] = "close" /\ pc' = [pc EXCEPT ![c] = "release"]
        /\ sock' = [sock EXCEPT ![c] = "closed"]
        /\ UNCHANGED <<outstanding, client>>
    BY <1>8 DEF Close, Goto, Set, peers
  <2>2. pc' \in [Goroutine -> Labels]
    BY <2>1 DEF SlotInv, Labels
  <2>3. Serving' = Serving
    BY <2>1 DEF SlotInv, Serving
  <2>4. ASSUME NEW d \in Goroutine PROVE ConnInv(d)'
    BY <2>1 DEF SlotInv, ConnInv, Handling, Labels
  <2> QED
    BY <2>1, <2>2, <2>3, <2>4 DEF SlotInv, SlotsExact
<1>9. CASE Release(c)
  BY <1>9, ReleaseSlotInv
<1> QED
  BY <1>1, <1>2, <1>3, <1>4, <1>5, <1>6, <1>7, <1>8, <1>9 DEF Serve

LEMMA ClientSlotInv ==
  ASSUME SlotInv, NEW c \in Goroutine, Client(c)
  PROVE  SlotInv'
<1>1. CASE Dial(c)
  <2>1. /\ client[c] = "none" /\ client' = [client EXCEPT ![c] = "open"]
        /\ sock' = [sock EXCEPT ![c] = "backlog"]
        /\ UNCHANGED <<outstanding, pc>>
    BY <1>1 DEF Dial, Set
  <2>2. ASSUME NEW d \in Goroutine PROVE ConnInv(d)'
    BY <2>1 DEF SlotInv, ConnInv
  <2> QED
    BY <2>1, <2>2, ConnSlotInv DEF SlotInv
<1>2. CASE Send(c) \/ Receive(c)
  BY <1>2, UnchangedSlotInv DEF Send, Receive, conns
<1>3. CASE HangUp(c) \/ Break(c)
  <2>1. client' = [client EXCEPT ![c] = "closed"] /\ UNCHANGED <<sock, outstanding, pc>>
    BY <1>3 DEF HangUp, Break, Set, conns
  <2>2. ASSUME NEW d \in Goroutine PROVE ConnInv(d)'
    BY <2>1 DEF SlotInv, ConnInv
  <2> QED
    BY <2>1, <2>2, ConnSlotInv DEF SlotInv
<1> QED
  BY <1>1, <1>2, <1>3 DEF Client

LEMMA NextSlotInv == SlotInv /\ [SNext]_svars => SlotInv'
<1> SUFFICES ASSUME SlotInv, [SNext]_svars PROVE SlotInv'
  OBVIOUS
<1>1. CASE Acceptor
  BY <1>1, AcceptorSlotInv
<1>2. ASSUME NEW c \in Goroutine, Serve(c) PROVE SlotInv'
  BY <1>2, ServeSlotInv
<1>3. ASSUME NEW c \in Goroutine, Client(c) PROVE SlotInv'
  BY <1>3, ClientSlotInv
<1>4. CASE UNCHANGED svars
  BY <1>4, UnchangedSlotInv DEF svars, conns, peers
<1> QED
  BY <1>1, <1>2, <1>3, <1>4 DEF SNext

LEMMA AlwaysSlotInv == SSpec => []SlotInv
BY InitSlotInv, NextSlotInv, PTL DEF SSpec

-----------------------------------------------------------------------------

(* The slots in use are those of the goroutines of serve that run, after   *)
(* any mix of refusals, timeouts, resets, hang-ups and lost responses.     *)
THEOREM SlotsAlwaysExact == SSpec => []SlotsExact
<1>1. SlotInv => SlotsExact
  BY DEF SlotInv
<1> QED
  BY <1>1, AlwaysSlotInv, PTL

(* The server never holds more than MaxConns connections open that it has  *)
(* let in: an open connection has a goroutine that has not given its slot  *)
(* back, because serve closes before it receives from outstanding.         *)
THEOREM ConnsAlwaysBounded == SSpec => []ConnsBounded
<1>1. ASSUME SlotInv PROVE ConnsBounded
  <2> DEFINE Open == {c \in Goroutine : sock[c] = "open"}
  <2>1. Open \subseteq Serving
    BY <1>1 DEF SlotInv, ConnInv, Serving, Handling
  <2>2. IsFiniteSet(Open) /\ Cardinality(Open) <= Cardinality(Serving)
    BY <1>1, <2>1, FS_Subset DEF SlotInv
  <2>3. Cardinality(Open) \in Nat /\ Cardinality(Serving) \in Nat
    BY <1>1, <2>2, FS_CardinalityType DEF SlotInv
  <2> QED
    BY <1>1, <2>2, <2>3, ServerAssumption DEF SlotInv, SlotsExact, ConnsBounded
<1> QED
  BY <1>1, AlwaysSlotInv, PTL

-----------------------------------------------------------------------------
(* The index behind the server.                                            *)

LEMMA CallType ==
  ASSUME IndexInv, UNCHANGED m, NEW c \in Goroutine, NEW k \in Call,
         call' = [call EXCEPT ![c] = k]
  PROVE  IndexInv'
<1>1. call' \in [Goroutine -> Call]
  BY DEF IndexInv, TypeOK
<1> QED
  BY <1>1, UnchangedMapInv

LEMMA NextIndexInv == IndexInv /\ [SNext]_svars => IndexInv'
<1> SUFFICES ASSUME IndexInv, [SNext]_svars PROVE IndexInv'
  OBVIOUS
<1>1. CASE UNCHANGED <<m, call>>
  BY <1>1, NextInv DEF vars
<1>2. ASSUME NEW c \in Goroutine, ReadRequest(c) PROVE IndexInv'
  <2>1. /\ Head(inbox[c]) \in Calls /\ UNCHANGED m
        /\ call' = [call EXCEPT ![c] = CallOf(Head(inbox[c]), "pending")]
    BY <1>2 DEF ReadRequest, Set
  <2>2. CallOf(Head(inbox[c]), "pending") \in Call
    BY <2>1, CallsAssumption DEF Call
  <2> QED
    BY <2>1, <2>2, CallType
<1>3. ASSUME NEW c \in Goroutine, Responding(c) PROVE IndexInv'
  <2>1. UNCHANGED m /\ call' = [call EXCEPT ![c] = Idle]
    BY <1>3 DEF Responding, Set
  <2>2. Idle \in Call
    BY DEF Call
  <2> QED
    BY <2>1, <2>2, CallType
<1>4. ASSUME NEW c \in Goroutine, CallIndex(c) PROVE IndexInv'
  <2>1. Next
    BY <1>4 DEF CallIndex, Next
  <2> QED
    BY <2>1, NextInv
<1>5. ASSUME Acceptor PROVE UNCHANGED <<m, call>>
  BY <1>5 DEF Acceptor, Accept, AcceptTemporary, AcceptAgain, AcceptFails, Exit, Spawn, Refuse
<1>6. ASSUME NEW c \in Goroutine, Client(c) PROVE UNCHANGED <<m, call>>
  BY <1>6 DEF Client, Dial, Send, Receive, HangUp, Break
<1>7. ASSUME NEW c \in Goroutine, Serve(c),
             ~ReadRequest(c), ~Responding(c), ~CallIndex(c)
      PROVE  UNCHANGED <<m, call>>
  BY <1>7 DEF Serve, ReadBad, ReadEOF, ReadTimeout, ReadError, Wake, Respond, WriteTimeout,
              WriteLost, Close, Release
<1>8. CASE UNCHANGED svars
  BY <1>1, <1>8 DEF svars
<1> QED
  BY <1>1, <1>2, <1>3, <1>4, <1>5, <1>6, <1>7, <1>8 DEF SNext

-----------------------------------------------------------------------------
(* The messages and the responses under way.                               *)

Replies == {"OK", "FAIL", "ERROR"}

WireTyped == /\ acceptor \in {"accept", "delay", "select", "failed", "exited"}
             /\ sock \in [Goroutine -> {"none", "backlog", "accepted", "open", "closed"}]
             /\ net \in [Goroutine -> {"up", "reset", "dead"}]
             /\ client \in [Goroutine -> {"none", "open", "closed"}]
             /\ left \in [Goroutine -> 0..Messages]
             /\ inbox \in [Goroutine -> Seq(Message)]
             /\ replies \in [Goroutine -> Seq(Replies)]
             /\ sent \in [Goroutine -> Seq(Message)]

\* Whether the server works on a message of c.
Work(c) == IF pc[c] \in {"call", "respond"} THEN 1 ELSE 0

\* Whatever becomes of a connection, its client is the first to know.
FlowInv(c) ==
  /\ client[c] # "closed" => net[c] = "up"
  /\ client[c] = "none" => inbox[c] = <<>> /\ replies[c] = <<>>
  /\ client[c] = "open" => Len(replies[c]) + Len(inbox[c]) + Work(c) <= Len(sent[c])

WireInv == WireTyped /\ \A c \in Goroutine : FlowInv(c)

LEMMA RestsShorter ==
  ASSUME NEW s \in Seq(Message), s # <<>>, NEW rest \in Rests(s)
  PROVE  rest \in Seq(Message) /\ Len(rest) < Len(s)
<1> DEFINE T == {SubSeq(s, i, Len(s)) : i \in 2..Len(s) + 1}
<1>1. ASSUME NEW t \in T PROVE t \in Seq(Message) /\ Len(t) < Len(s)
  <2>1. PICK i \in 2..Len(s) + 1 : t = SubSeq(s, i, Len(s))
    OBVIOUS
  <2>2. i \in 1..Len(s) + 1 /\ Len(s) \in i - 1..Len(s)
    BY <2>1
  <2>3. Len(s) \in Nat \ {0}
    BY EmptySeq
  <2>4. t \in Seq(Message)
    BY <2>1, <2>2
  <2>5. Len(t) = (Len(s) - i) + 1
    BY <2>1, <2>2, <2>3
  <2> QED
    BY <2>3, <2>4, <2>5
<1> HIDE DEF T
<1>2. ASSUME NEW t \in T, t # <<>>, NEW x \in Cut(Head(t))
      PROVE  <<x>> \o Tail(t) \in Seq(Message) /\ Len(<<x>> \o Tail(t)) < Len(s)
  <2>1. Head(t) \in Message /\ Tail(t) \in Seq(Message) /\ Len(Tail(t)) = Len(t) - 1
    BY <1>1, <1>2
  <2>2. x \in Message
    BY <2>1 DEF Cut, Message
  <2>3. <<x>> \in Seq(Message) /\ Len(<<x>>) = 1
    BY <2>2
  <2>4. <<x>> \o Tail(t) \in Seq(Message) /\ Len(<<x>> \o Tail(t)) = 1 + Len(Tail(t))
    BY <2>1, <2>3
  <2> QED
    BY <1>1, <2>1, <2>4
<1>3. rest \in T \/ \E t \in T \ {<<>>} : \E x \in Cut(Head(t)) : rest = <<x>> \o Tail(t)
  BY DEF Rests, T
<1> QED
  BY <1>1, <1>2, <1>3

LEMMA InitWireInv == SInit => WireInv
<1> SUFFICES ASSUME SInit PROVE WireInv
  OBVIOUS
<1>1. WireTyped
  BY ServerAssumption DEF SInit, WireTyped
<1>2. ASSUME NEW c \in Goroutine PROVE FlowInv(c)
  BY DEF SInit, FlowInv
<1> QED
  BY <1>1, <1>2 DEF WireInv

(* Serve sends and receives nothing, and works on no message.              *)
LEMMA AcceptorWireInv ==
  ASSUME SlotInv, WireInv, Acceptor
  PROVE  WireInv'
<1>1. WireTyped /\ (\A c \in Goroutine : FlowInv(c)) /\ pc \in [Goroutine -> Labels]
  BY DEF WireInv, SlotInv
<1>2. CASE Accept
  <2>1. PICK c \in Goroutine : sock' = [sock EXCEPT ![c] = "accepted"]
    BY <1>2 DEF Accept, Set
  <2>2. acceptor' = "select" /\ UNCHANGED <<pc, net, inbox, replies, client, sent, left>>
    BY <1>2 DEF Accept, wire, peers
  <2>3. WireTyped'
    BY <1>1, <2>1, <2>2 DEF WireTyped
  <2> QED
    BY <1>1, <2>2, <2>3 DEF WireInv, FlowInv, Work
<1>3. CASE AcceptTemporary \/ AcceptAgain \/ AcceptFails \/ Exit
  <2>1. /\ UNCHANGED <<sock, pc, net, inbox, replies, client, sent, left>>
        /\ acceptor' \in {"accept", "delay", "failed", "exited"}
    BY <1>3 DEF AcceptTemporary, AcceptAgain, AcceptFails, Exit, conns, wire, peers
  <2>2. WireTyped'
    BY <1>1, <2>1 DEF WireTyped
  <2> QED
    BY <1>1, <2>1, <2>2 DEF WireInv, FlowInv, Work
<1>4. ASSUME NEW c \in Goroutine, Spawn(c) PROVE WireInv'
  <2>1. /\ sock' = [sock EXCEPT ![c] = "open"] /\ pc' = [pc EXCEPT ![c] = "read"]
        /\ acceptor' = "accept" /\ UNCHANGED <<net, inbox, replies, client, sent, left>>
    BY <1>4 DEF Spawn, Set, Goto, wire, peers
  <2>2. WireTyped'
    BY <1>1, <2>1 DEF WireTyped
  <2>3. ASSUME NEW d \in Goroutine PROVE Work(d)' <= Work(d) /\ Work(d)' \in Nat /\ Work(d) \in Nat
    BY <1>1, <2>1 DEF Work
  <2>4. ASSUME NEW d \in Goroutine PROVE FlowInv(d)'
    BY <1>1, <2>1, <2>3 DEF FlowInv, WireTyped
  <2> QED
    BY <2>2, <2>4 DEF WireInv
<1>5. ASSUME NEW c \in Goroutine, Refuse(c) PROVE WireInv'
  <2>1. /\ sock' = [sock EXCEPT ![c] = "closed"] /\ inbox' = [inbox EXCEPT ![c] = <<>>]
        /\ acceptor' = "accept" /\ UNCHANGED <<pc, net, replies, client, sent, left>>
    BY <1>5 DEF Refuse, Set, peers
  <2>2. WireTyped'
    BY <1>1, <2>1 DEF WireTyped
  <2>3. ASSUME NEW d \in Goroutine PROVE FlowInv(d)'
    <3>1. FlowInv(d) /\ Work(d)' = Work(d) /\ Work(d) \in Nat
      BY <1>1, <2>1 DEF Work
    <3>2. CASE d = c
      BY <1>1, <2>1, <3>1, <3>2 DEF FlowInv, WireTyped
    <3>3. CASE d # c
      BY <1>1, <2>1, <3>1, <3>3 DEF FlowInv, WireTyped
    <3> QED
      BY <3>2, <3>3
  <2> QED
    BY <2>2, <2>3 DEF WireInv
<1> QED
  BY <1>2, <1>3, <1>4, <1>5 DEF Acceptor

(* A step of serve: what it takes from the messages and what it works on   *)
(* is no less than what it adds to the responses.                          *)
LEMMA FlowStep ==
  ASSUME SlotInv, WireInv, NEW c \in Goroutine, NEW l \in Labels, Goto(c, l),
         NEW s \in Seq(Message), inbox' = [inbox EXCEPT ![c] = s],
         NEW r \in Seq(Replies), replies' = [replies EXCEPT ![c] = r],
         NEW n \in {"up", "reset", "dead"}, net' = [net EXCEPT ![c] = n],
         sock' \in [Goroutine -> {"none", "backlog", "accepted", "open", "closed"}],
         UNCHANGED <<acceptor, client, sent, left>>,
         client[c] # "none",
         client[c] = "open" =>
           /\ n = "up"
           /\ Len(r) + Len(s) + (IF l \in {"call", "respond"} THEN 1 ELSE 0)
                <= Len(replies[c]) + Len(inbox[c]) + Work(c)
  PROVE  WireInv'
<1>1. WireTyped /\ (\A d \in Goroutine : FlowInv(d)) /\ pc \in [Goroutine -> Labels]
  BY DEF WireInv, SlotInv
<1>2. WireTyped'
  BY <1>1 DEF WireTyped
<1>3. pc' = [pc EXCEPT ![c] = l]
  BY DEF Goto, Set
<1>4. FlowInv(c)'
  <2>1. /\ inbox'[c] = s /\ replies'[c] = r /\ net'[c] = n /\ pc'[c] = l
        /\ client'[c] = client[c] /\ sent'[c] = sent[c]
    BY <1>1, <1>3 DEF WireTyped
  <2>2. Work(c)' = IF l \in {"call", "respond"} THEN 1 ELSE 0
    BY <2>1 DEF Work
  <2>3. client[c] \in {"open", "closed"}
    BY <1>1 DEF WireTyped
  <2>4. CASE client[c] = "closed"
    BY <2>1, <2>4 DEF FlowInv
  <2>5. CASE client[c] = "open"
    <3> DEFINE w == IF l \in {"call", "respond"} THEN 1 ELSE 0
               before == Len(replies[c]) + Len(inbox[c]) + Work(c)
    <3>1. before <= Len(sent[c])
      BY <1>1, <2>5 DEF FlowInv
    <3>2. Len(r) + Len(s) + w <= before /\ n = "up"
      BY <2>5
    <3>3. w \in Nat /\ Len(r) \in Nat /\ Len(s) \in Nat /\ Len(sent[c]) \in Nat
      BY <1>1 DEF WireTyped
    <3>4. before \in Nat
      BY <1>1 DEF WireTyped, Work
    <3>5. Work(c)' = w
      BY <2>2
    <3> HIDE DEF w, before
    <3>6. Len(r) + Len(s) + w <= Len(sent[c])
      BY <3>1, <3>2, <3>3, <3>4
    <3> QED
      BY <2>1, <2>5, <3>2, <3>5, <3>6 DEF FlowInv
  <2> QED
    BY <2>3, <2>4, <2>5
<1>5. ASSUME NEW d \in Goroutine \ {c} PROVE FlowInv(d)'
  <2>1. /\ inbox'[d] = inbox[d] /\ replies'[d] = replies[d] /\ net'[d] = net[d] /\ pc'[d] = pc[d]
        /\ client'[d] = client[d] /\ sent'[d] = sent[d]
    BY <1>1, <1>3 DEF WireTyped
  <2>2. Work(d)' = Work(d) /\ FlowInv(d)
    BY <1>1, <2>1 DEF Work
  <2> QED
    BY <2>1, <2>2 DEF FlowInv
<1> QED
  BY <1>2, <1>4, <1>5 DEF WireInv

(* A step of serve that leaves the messages and the responses alone, and   *)
(* starts on no message that it has not worked on before.                  *)
LEMMA FlowKept ==
  ASSUME SlotInv, WireInv, NEW c \in Goroutine, NEW l \in Labels, Goto(c, l),
         UNCHANGED <<acceptor, sock, wire, client, sent, left>>, client[c] # "none",
         l \in {"call", "respond"} => Work(c) = 1
  PROVE  WireInv'
<1>1. WireTyped /\ (\A d \in Goroutine : FlowInv(d))
  BY DEF WireInv
<1>2. /\ inbox[c] \in Seq(Message) /\ replies[c] \in Seq(Replies)
      /\ net[c] \in {"up", "reset", "dead"}
  BY <1>1 DEF WireTyped
<1>3. PICK s \in Seq(Message), r \in Seq(Replies), n \in {"up", "reset", "dead"} :
        s = inbox[c] /\ r = replies[c] /\ n = net[c]
  BY <1>2
<1>4. /\ inbox' = [inbox EXCEPT ![c] = s] /\ replies' = [replies EXCEPT ![c] = r]
      /\ net' = [net EXCEPT ![c] = n] /\ sock' = sock
  BY <1>1, <1>3 DEF WireTyped, wire
<1>5. client[c] = "open" => n = "up"
  BY <1>1, <1>3 DEF FlowInv
<1>6. (IF l \in {"call", "respond"} THEN 1 ELSE 0) <= Work(c)
  BY DEF Work
<1>7. Len(r) + Len(s) + (IF l \in {"call", "respond"} THEN 1 ELSE 0)
        <= Len(replies[c]) + Len(inbox[c]) + Work(c)
  BY <1>3, <1>6 DEF Work
<1>8. sock' \in [Goroutine -> {"none", "backlog", "accepted", "open", "closed"}]
  BY <1>1, <1>4 DEF WireTyped
<1> QED
  BY <1>4, <1>5, <1>7, <1>8, FlowStep

(* Only a client that has dialled has a goroutine.                         *)
LEMMA ServedClient ==
  ASSUME SlotInv, NEW c \in Goroutine, pc[c] # "none"
  PROVE  client[c] # "none"
BY DEF SlotInv, ConnInv

LEMMA ServeWireInv ==
  ASSUME SlotInv, WireInv, NEW c \in Goroutine, Serve(c)
  PROVE  WireInv'
<1>1. WireTyped /\ (\A d \in Goroutine : FlowInv(d))
  BY DEF WireInv
<1>2. /\ inbox[c] \in Seq(Message) /\ replies[c] \in Seq(Replies)
      /\ net[c] \in {"up", "reset", "dead"} /\ Work(c) \in {0, 1}
      /\ Len(inbox[c]) \in Nat /\ Len(replies[c]) \in Nat
  BY <1>1 DEF WireTyped, Work
<1>3. PICK r \in Seq(Replies) : r = replies[c]
  BY <1>2
<1>4. PICK n \in {"up", "reset", "dead"} : n = net[c]
  BY <1>2
<1>5. PICK q \in Seq(Message) : q = inbox[c]
  BY <1>2
<1>6. replies = [replies EXCEPT ![c] = r] /\ net = [net EXCEPT ![c] = n]
      /\ inbox = [inbox EXCEPT ![c] = q]
  BY <1>1, <1>3, <1>4, <1>5 DEF WireTyped
<1>7. client[c] = "open" => net[c] = "up"
  BY <1>1 DEF FlowInv
<1>8. sock \in [Goroutine -> {"none", "backlog", "accepted", "open", "closed"}]
  BY <1>1 DEF WireTyped
<1>9. ASSUME NEW l \in {"call", "respond"}, pc[c] = "read", Goto(c, l), inbox[c] # <<>>,
             NEW rest \in Rests(inbox[c]), inbox' = [inbox EXCEPT ![c] = rest],
             UNCHANGED <<acceptor, sock, net, replies, client, sent, left>>
      PROVE  WireInv'
  <2>1. rest \in Seq(Message) /\ Len(rest) < Len(q)
    BY <1>5, <1>9, RestsShorter
  <2>2. client[c] # "none"
    BY <1>9, ServedClient
  <2>3. Len(r) + Len(rest) + 1 <= Len(r) + Len(q) + 0
    BY <2>1
  <2>4. Work(c) = 0
    BY <1>9 DEF Work
  <2>5. Len(r) + Len(rest) + (IF l \in {"call", "respond"} THEN 1 ELSE 0)
          <= Len(replies[c]) + Len(inbox[c]) + Work(c)
    BY <1>3, <1>5, <2>3, <2>4
  <2>6. l \in Labels
    BY DEF Labels
  <2>7. sock' \in [Goroutine -> {"none", "backlog", "accepted", "open", "closed"}]
    BY <1>8, <1>9
  <2>8. client[c] = "open" => n = "up"
    BY <1>4, <1>7
  <2>9. replies' = [replies EXCEPT ![c] = r] /\ net' = [net EXCEPT ![c] = n]
    BY <1>6, <1>9
  <2> QED
    BY <1>9, <2>1, <2>2, <2>5, <2>6, <2>7, <2>8, <2>9, FlowStep
<1>10. CASE ReadRequest(c) \/ ReadBad(c)
  <2>1. PICK rest \in Rests(inbox[c]) : inbox' = [inbox EXCEPT ![c] = rest]
    BY <1>10 DEF ReadRequest, ReadBad, Set
  <2>2. PICK l \in {"call", "respond"} : Goto(c, l)
    BY <1>10 DEF ReadRequest, ReadBad
  <2>3. /\ pc[c] = "read" /\ inbox[c] # <<>>
        /\ UNCHANGED <<acceptor, sock, net, replies, client, sent, left>>
    BY <1>10 DEF ReadRequest, ReadBad, Reading, conns, peers
  <2> QED
    BY <1>9, <2>1, <2>2, <2>3
<1>11. CASE ReadEOF(c) \/ ReadTimeout(c) \/ Wake(c) \/ Release(c)
  <2>1. PICK l \in {"close", "read", "done"} : Goto(c, l)
    BY <1>11 DEF ReadEOF, ReadTimeout, Wake, Release
  <2>2. UNCHANGED <<acceptor, sock, wire, client, sent, left>> /\ pc[c] # "none"
    BY <1>11 DEF ReadEOF, ReadTimeout, Wake, Release, Reading, conns, peers
  <2> QED
    BY <2>1, <2>2, ServedClient, FlowKept DEF Labels
<1>12. CASE CallIndex(c)
  <2>1. Goto(c, "respond") /\ pc[c] = "call"
        /\ UNCHANGED <<acceptor, sock, wire, client, sent, left>>
    BY <1>12 DEF CallIndex, conns, peers
  <2>2. Work(c) = 1
    BY <2>1 DEF Work
  <2> QED
    BY <2>1, <2>2, ServedClient, FlowKept DEF Labels
<1>13. CASE WriteTimeout(c)
  <2>1. Goto(c, "read") /\ pc[c] = "respond"
        /\ UNCHANGED <<acceptor, sock, wire, client, sent, left>>
    BY <1>13 DEF WriteTimeout, Responding, conns, wire, peers
  <2> QED
    BY <2>1, ServedClient, FlowKept DEF Labels
<1>14. CASE ReadError(c)
  <2>1. PICK l \in {"delay", "respond"} : Goto(c, l)
    BY <1>14 DEF ReadError
  <2>2. /\ pc[c] = "read" /\ net[c] = "reset" /\ net' = [net EXCEPT ![c] = "dead"]
        /\ inbox' = [inbox EXCEPT ![c] = <<>>]
        /\ UNCHANGED <<acceptor, sock, replies, client, sent, left>>
    BY <1>14 DEF ReadError, Reading, Set, conns, peers
  <2>3. client[c] # "none" /\ client[c] # "open"
    BY <1>7, <2>2, ServedClient
  <2>4. <<>> \in Seq(Message) /\ l \in Labels /\ "dead" \in {"up", "reset", "dead"}
    BY DEF Labels
  <2>5. replies' = [replies EXCEPT ![c] = r]
    BY <1>6, <2>2
  <2>6. sock' \in [Goroutine -> {"none", "backlog", "accepted", "open", "closed"}]
    BY <1>8, <2>2
  <2> QED
    BY <2>1, <2>2, <2>3, <2>4, <2>5, <2>6, FlowStep
<1>15. CASE WriteLost(c)
  <2>1. /\ Goto(c, "read") /\ pc[c] = "respond"
        /\ UNCHANGED <<acceptor, sock, inbox, replies, client, sent, left>>
        /\ net[c] # "up" \/ client[c] = "closed"
    BY <1>15 DEF WriteLost, Responding, conns, peers
  <2>2. PICK k \in {"up", "reset", "dead"} : net' = [net EXCEPT ![c] = k]
    BY <1>15 DEF WriteLost, Set
  <2>3. client[c] # "none" /\ client[c] # "open"
    BY <1>7, <2>1, ServedClient
  <2>4. inbox' = [inbox EXCEPT ![c] = q] /\ replies' = [replies EXCEPT ![c] = r]
    BY <1>6, <2>1
  <2>5. sock' \in [Goroutine -> {"none", "backlog", "accepted", "open", "closed"}]
    BY <1>8, <2>1
  <2>6. "read" \in Labels
    BY DEF Labels
  <2> QED
    BY <2>1, <2>2, <2>3, <2>4, <2>5, <2>6, FlowStep
<1>16. CASE Respond(c)
  <2>1. /\ Goto(c, "read") /\ pc[c] = "respond"
        /\ replies' = [replies EXCEPT ![c] = Append(replies[c], Response(c))]
        /\ UNCHANGED <<acceptor, sock, inbox, net, client, sent, left>>
    BY <1>16 DEF Respond, Responding, Set, conns, peers
  <2>2. Response(c) \in Replies
    BY DEF Response, Replies
  <2>3. PICK a \in Replies : a = Response(c)
    BY <2>2
  <2>4. Append(r, a) \in Seq(Replies) /\ Len(Append(r, a)) = Len(r) + 1
    BY <2>3
  <2>5. replies' = [replies EXCEPT ![c] = Append(r, a)]
    BY <1>3, <2>1, <2>3
  <2>6. Work(c) = 1
    BY <2>1 DEF Work
  <2>7. Len(Append(r, a)) + Len(q) + 0 <= Len(r) + Len(q) + 1
    BY <2>4
  <2>8. Len(Append(r, a)) + Len(q) + (IF "read" \in {"call", "respond"} THEN 1 ELSE 0)
          <= Len(replies[c]) + Len(inbox[c]) + Work(c)
    BY <1>3, <1>5, <2>6, <2>7
  <2>9. inbox' = [inbox EXCEPT ![c] = q] /\ net' = [net EXCEPT ![c] = n]
    BY <1>6, <2>1
  <2>10. client[c] # "none" /\ (client[c] = "open" => n = "up")
    BY <1>4, <1>7, <2>1, ServedClient
  <2>11. sock' \in [Goroutine -> {"none", "backlog", "accepted", "open", "closed"}]
    BY <1>8, <2>1
  <2>12. "read" \in Labels
    BY DEF Labels
  <2> QED
    BY <2>1, <2>4, <2>5, <2>8, <2>9, <2>10, <2>11, <2>12, FlowStep
<1>17. CASE Close(c)
  <2>1. /\ Goto(c, "release") /\ pc[c] = "close" /\ sock' = [sock EXCEPT ![c] = "closed"]
        /\ inbox' = [inbox EXCEPT ![c] = <<>>]
        /\ UNCHANGED <<acceptor, net, client, sent, left>>
    BY <1>17 DEF Close, Set, peers
  <2>2. PICK t \in Seq(Replies) :
          replies' = [replies EXCEPT ![c] = t] /\ Len(t) <= Len(r)
    <3>1. CASE UNCHANGED replies
      BY <1>6, <3>1
    <3>2. CASE replies' = [replies EXCEPT ![c] = <<>>]
      <4>1. <<>> \in Seq(Replies) /\ Len(<<>>) = 0 /\ Len(r) \in Nat
        OBVIOUS
      <4>2. Len(<<>>) <= Len(r)
        BY <4>1
      <4> QED
        BY <3>2, <4>1, <4>2
    <3> QED
      BY <1>17, <3>1, <3>2 DEF Close, Set
  <2>3. Work(c) = 0
    BY <2>1 DEF Work
  <2>4. Len(t) + Len(<<>>) + 0 <= Len(r) + Len(q) + 0
    BY <2>2
  <2>5. Len(t) + Len(<<>>) + (IF "release" \in {"call", "respond"} THEN 1 ELSE 0)
          <= Len(replies[c]) + Len(inbox[c]) + Work(c)
    BY <1>3, <1>5, <2>3, <2>4
  <2>6. net' = [net EXCEPT ![c] = n]
    BY <1>6, <2>1
  <2>7. client[c] # "none" /\ (client[c] = "open" => n = "up")
    BY <1>4, <1>7, <2>1, ServedClient
  <2>8. sock' \in [Goroutine -> {"none", "backlog", "accepted", "open", "closed"}]
    BY <1>8, <2>1
  <2>9. "release" \in Labels /\ <<>> \in Seq(Message)
    BY DEF Labels
  <2> QED
    BY <2>1, <2>2, <2>5, <2>6, <2>7, <2>8, <2>9, FlowStep
<1> QED
  BY <1>10, <1>11, <1>12, <1>13, <1>14, <1>15, <1>16, <1>17 DEF Serve

LEMMA OneMoreOrLess ==
  ASSUME NEW a \in Nat, NEW b \in Nat, NEW w \in Nat, NEW x \in Nat, a + b + w <= x
  PROVE  /\ a + b + w <= x + 1
         /\ a + (b + 1) + w <= x + 1
         /\ a >= 1 => x >= 1 /\ (a - 1) + b + w <= x - 1
OBVIOUS

(* The client's own steps: it waits for what it has sent.                  *)
LEMMA ClientWireInv ==
  ASSUME SlotInv, WireInv, NEW c \in Goroutine, Client(c)
  PROVE  WireInv'
<1>1. WireTyped /\ (\A d \in Goroutine : FlowInv(d)) /\ pc \in [Goroutine -> Labels]
  BY DEF WireInv, SlotInv
<1>2. acceptor' = acceptor /\ pc' = pc
  BY DEF Client, Dial, Send, Receive, HangUp, Break
<1>3. ASSUME WireTyped', FlowInv(c)',
             \A d \in Goroutine \ {c} :
               /\ inbox'[d] = inbox[d] /\ replies'[d] = replies[d] /\ net'[d] = net[d]
               /\ client'[d] = client[d] /\ sent'[d] = sent[d]
      PROVE  WireInv'
  <2>1. ASSUME NEW d \in Goroutine \ {c} PROVE FlowInv(d)'
    BY <1>1, <1>2, <1>3, <2>1 DEF FlowInv, Work
  <2> QED
    BY <1>3, <2>1 DEF WireInv
<1>4. /\ inbox[c] \in Seq(Message) /\ replies[c] \in Seq(Replies) /\ sent[c] \in Seq(Message)
      /\ Len(inbox[c]) \in Nat /\ Len(replies[c]) \in Nat /\ Len(sent[c]) \in Nat
      /\ Work(c) \in {0, 1} /\ Work(c)' = Work(c) /\ left[c] \in 0..Messages
  BY <1>1, <1>2 DEF WireTyped, Work
<1> PICK a \in Nat : a = Len(replies[c])
  BY <1>4
<1> PICK b \in Nat : b = Len(inbox[c])
  BY <1>4
<1> PICK x \in Nat : x = Len(sent[c])
  BY <1>4
<1> PICK w \in Nat : w = Work(c)
  BY <1>4
<1>5. CASE Dial(c)
  <2>1. /\ client[c] = "none" /\ client' = [client EXCEPT ![c] = "open"]
        /\ sock' = [sock EXCEPT ![c] = "backlog"]
        /\ UNCHANGED <<net, inbox, replies, sent, left>>
    BY <1>5 DEF Dial, Set, wire
  <2>2. WireTyped'
    BY <1>1, <1>2, <2>1 DEF WireTyped
  <2>3. pc[c] = "none"
    BY <2>1 DEF SlotInv, ConnInv
  <2>4. Work(c)' = 0
    BY <1>2, <2>3 DEF Work
  <2>5. client'[c] = "open"
    BY <1>1, <2>1 DEF WireTyped
  <2>6. net'[c] = "up" /\ replies'[c] = <<>> /\ inbox'[c] = <<>> /\ sent'[c] = sent[c]
    BY <1>1, <2>1 DEF FlowInv
  <2>7. Len(replies'[c]) + Len(inbox'[c]) + 0 <= Len(sent'[c])
    BY <1>4, <2>6
  <2>8. FlowInv(c)'
    BY <2>4, <2>5, <2>6, <2>7 DEF FlowInv
  <2>20. ASSUME NEW d \in Goroutine \ {c}
         PROVE  /\ inbox'[d] = inbox[d] /\ replies'[d] = replies[d] /\ net'[d] = net[d]
                /\ client'[d] = client[d] /\ sent'[d] = sent[d]
    BY <1>1, <2>1 DEF WireTyped
  <2> QED
    BY <1>3, <2>2, <2>8, <2>20
<1>6. CASE Send(c)
  <2>1. /\ client[c] = "open" /\ left[c] > 0 /\ left' = [left EXCEPT ![c] = left[c] - 1]
        /\ UNCHANGED <<sock, net, replies, client>>
    BY <1>6 DEF Send, Set, conns
  <2>2. PICK msg \in Message :
          /\ sent' = [sent EXCEPT ![c] = Append(sent[c], msg)]
          /\ inbox' = IF sock[c] = "closed" THEN inbox
                      ELSE [inbox EXCEPT ![c] = Append(inbox[c], msg)]
    BY <1>6 DEF Send, Set
  <2>3. left[c] - 1 \in 0..Messages
    BY <1>4, <2>1, ServerAssumption
  <2>4. Append(inbox[c], msg) \in Seq(Message) /\ Append(sent[c], msg) \in Seq(Message)
    BY <1>4
  <2>5. WireTyped'
    BY <1>1, <1>2, <2>1, <2>2, <2>3, <2>4 DEF WireTyped
  <2>6. inbox'[c] = inbox[c] \/ inbox'[c] = Append(inbox[c], msg)
    BY <1>1, <2>2 DEF WireTyped
  <2>7. /\ Len(inbox'[c]) \in {b, b + 1}
        /\ Len(sent'[c]) = x + 1
    BY <1>1, <1>4, <2>2, <2>6 DEF WireTyped
  <2>8. a + b + w <= x
    BY <1>1, <2>1 DEF FlowInv
  <2>9. a + b + w <= x + 1 /\ a + (b + 1) + w <= x + 1
    BY <2>8, OneMoreOrLess
  <2>10. Len(replies[c]) + Len(inbox'[c]) + Work(c) <= Len(sent'[c])
    BY <2>7, <2>9
  <2>11. FlowInv(c)'
    BY <1>1, <1>4, <2>1, <2>10 DEF FlowInv
  <2>20. ASSUME NEW d \in Goroutine \ {c}
         PROVE  /\ inbox'[d] = inbox[d] /\ replies'[d] = replies[d] /\ net'[d] = net[d]
                /\ client'[d] = client[d] /\ sent'[d] = sent[d]
    BY <1>1, <2>1, <2>2 DEF WireTyped
  <2> QED
    BY <1>3, <2>5, <2>11, <2>20
<1>7. CASE Receive(c)
  <2>1. /\ client[c] = "open" /\ replies[c] # <<>>
        /\ replies' = [replies EXCEPT ![c] = Tail(replies[c])]
        /\ sent' = [sent EXCEPT ![c] = Tail(sent[c])]
        /\ UNCHANGED <<sock, net, inbox, client, left>>
    BY <1>7 DEF Receive, Set, conns
  <2>2. a + b + w <= x
    BY <1>1, <2>1 DEF FlowInv
  <2>3. a >= 1
    BY <1>4, <2>1, EmptySeq
  <2>4. x >= 1 /\ (a - 1) + b + w <= x - 1
    BY <2>2, <2>3, OneMoreOrLess
  <2>5. /\ Tail(replies[c]) \in Seq(Replies) /\ Len(Tail(replies[c])) = a - 1
        /\ Tail(sent[c]) \in Seq(Message) /\ Len(Tail(sent[c])) = x - 1
    <3>1. sent[c] # <<>>
      BY <1>4, <2>4, EmptySeq
    <3> QED
      BY <1>4, <2>1, <3>1
  <2>6. WireTyped'
    BY <1>1, <1>2, <2>1, <2>5 DEF WireTyped
  <2>7. Len(replies'[c]) = a - 1 /\ Len(sent'[c]) = x - 1
    BY <1>1, <2>1, <2>5 DEF WireTyped
  <2>8. Len(replies'[c]) + Len(inbox[c]) + Work(c) <= Len(sent'[c])
    BY <2>4, <2>7
  <2>9. FlowInv(c)'
    BY <1>1, <1>4, <2>1, <2>8 DEF FlowInv
  <2>20. ASSUME NEW d \in Goroutine \ {c}
         PROVE  /\ inbox'[d] = inbox[d] /\ replies'[d] = replies[d] /\ net'[d] = net[d]
                /\ client'[d] = client[d] /\ sent'[d] = sent[d]
    BY <1>1, <2>1 DEF WireTyped
  <2> QED
    BY <1>3, <2>6, <2>9, <2>20
<1>8. CASE HangUp(c) \/ Break(c)
  <2>1. /\ client' = [client EXCEPT ![c] = "closed"]
        /\ replies' = [replies EXCEPT ![c] = <<>>]
        /\ UNCHANGED <<sock, inbox, sent, left>>
        /\ net' = net \/ net' = [net EXCEPT ![c] = "reset"]
    BY <1>8 DEF HangUp, Break, Set, conns
  <2>2. WireTyped'
    <3>1. client' \in [Goroutine -> {"none", "open", "closed"}]
      BY <1>1, <2>1 DEF WireTyped
    <3>2. net' \in [Goroutine -> {"up", "reset", "dead"}]
      BY <1>1, <2>1 DEF WireTyped
    <3>3. replies' \in [Goroutine -> Seq(Replies)]
      <4>1. <<>> \in Seq(Replies)
        OBVIOUS
      <4> QED
        BY <1>1, <2>1, <4>1 DEF WireTyped
    <3> QED
      BY <1>1, <1>2, <2>1, <3>1, <3>2, <3>3 DEF WireTyped
  <2>3. client'[c] = "closed"
    BY <1>1, <2>1 DEF WireTyped
  <2>4. FlowInv(c)'
    BY <2>3 DEF FlowInv
  <2>20. ASSUME NEW d \in Goroutine \ {c}
         PROVE  /\ inbox'[d] = inbox[d] /\ replies'[d] = replies[d] /\ net'[d] = net[d]
                /\ client'[d] = client[d] /\ sent'[d] = sent[d]
    BY <1>1, <2>1 DEF WireTyped
  <2> QED
    BY <1>3, <2>2, <2>4, <2>20
<1> QED
  BY <1>5, <1>6, <1>7, <1>8 DEF Client

LEMMA NextWireInv == SlotInv /\ WireInv /\ [SNext]_svars => WireInv'
<1> SUFFICES ASSUME SlotInv, WireInv, [SNext]_svars PROVE WireInv'
  OBVIOUS
<1>1. CASE Acceptor
  BY <1>1, AcceptorWireInv
<1>2. ASSUME NEW c \in Goroutine, Serve(c) PROVE WireInv'
  BY <1>2, ServeWireInv
<1>3. ASSUME NEW c \in Goroutine, Client(c) PROVE WireInv'
  BY <1>3, ClientWireInv
<1>4. CASE UNCHANGED svars
  BY <1>4 DEF svars, conns, wire, peers, WireInv, WireTyped, FlowInv, Work
<1> QED
  BY <1>1, <1>2, <1>3, <1>4 DEF SNext

LEMMA AlwaysWireInv == SSpec => [](SlotInv /\ WireInv)
<1>1. SInit => SlotInv /\ WireInv
  BY InitSlotInv, InitWireInv
<1>2. (SlotInv /\ WireInv) /\ [SNext]_svars => (SlotInv /\ WireInv)'
  BY NextSlotInv, NextWireInv
<1> QED
  BY <1>1, <1>2, PTL DEF SSpec

(* No client is ever sent a response too many, whatever it sends ahead     *)
(* and however many lines readMessage throws away or cuts: each step of    *)
(* serve answers what it has taken out of the messages.                    *)
THEOREM NoResponseTooMany == SSpec => []NoExtraResponse
<1>1. WireInv => NoExtraResponse
  BY DEF WireInv, FlowInv, Work, NoExtraResponse
<1> QED
  BY <1>1, AlwaysWireInv, PTL

(* The index, the connections, the goroutines and the clients only hold    *)
(* the values that the server's code has a name for.                       *)
THEOREM ServerTypeCorrect == SSpec => []STypeOK
<1>1. SInit => IndexInv
  BY InitInv DEF SInit
<1>2. IndexInv /\ [SNext]_svars => IndexInv'
  BY NextIndexInv
<1>3. SSpec => []IndexInv
  BY <1>1, <1>2, PTL DEF SSpec
<1>4. ASSUME IndexInv, SlotInv, WireInv PROVE STypeOK
  <2>1. outstanding \in 0..MaxConns
    BY <1>4, FS_CardinalityType, ServerAssumption DEF SlotInv, SlotsExact
  <2> QED
    BY <1>4, <2>1 DEF IndexInv, SlotInv, WireInv, WireTyped, STypeOK, Labels, Replies
<1> QED
  BY <1>3, <1>4, AlwaysWireInv, PTL

-----------------------------------------------------------------------------
(* What each client is owed.                                               *)

\* The call that answers what c waits for, with ok what the index returned.
Awaited(c, ok) == CallOf(Head(sent[c]), ok)

\* Where serve is while it works on a message.
Working == {"call", "respond"}

\* Where the one message of a client that waits for each response is: on its
\* way, in serve, or answered by the response that is its own.  A client whose
\* connection is gone may still have serve work for it.
PatientInv(c) ==
  /\ sent[c] # <<>> => \E msg \in Message : sent[c] = <<msg>>
  /\ pc[c] \notin Working => call[c] = Idle
  /\ inbox[c] # <<>> => inbox[c] = sent[c] /\ pc[c] \notin Working
  /\ replies[c] # <<>> =>
       /\ client[c] = "open" /\ sent[c] # <<>>
       /\ inbox[c] = <<>> /\ pc[c] \notin Working
       /\ \E r \in IF Head(sent[c]) \in Calls THEN {"OK", "FAIL"} ELSE {"ERROR"} :
            replies[c] = <<r>>
  /\ pc[c] = "call" => /\ sent[c] # <<>> /\ Head(sent[c]) \in Calls
                       /\ call[c] = Awaited(c, "pending")
  /\ pc[c] = "respond" =>
       \/ call[c] = Idle /\ (client[c] = "open" => sent[c] = <<Garbage>>)
       \/ /\ sent[c] # <<>> /\ Head(sent[c]) \in Calls
          /\ \E ok \in {"true", "false"} : call[c] = Awaited(c, ok)

ServiceInv == IndexInv /\ SlotInv /\ WireInv /\ \A c \in Goroutine : PatientInv(c)

\* A step that has nothing to do with any client but c.
Others(c) == \A d \in Goroutine \ {c} :
               /\ call'[d] = call[d] /\ pc'[d] = pc[d] /\ inbox'[d] = inbox[d]
               /\ replies'[d] = replies[d] /\ client'[d] = client[d] /\ sent'[d] = sent[d]

\* What a step that leaves the index alone may do to the request of c.
Moves(c) == \/ Pending(c)' = Pending(c)
            \/ Pending(c)' = Idle
            \/ Pending(c) = Idle /\ \E r \in Calls : Pending(c)' = CallOf(r, "pending")

LEMMA CallFields ==
  ASSUME NEW r \in Calls, NEW ok
  PROVE  CallOf(r, ok) # Idle /\ CallOf(r, ok).ok = ok
<1>1. r \in Request
  BY CallsAssumption
<1>2. r.op # "none"
  BY <1>1 DEF Request
<1>3. CallOf(r, ok).op = r.op /\ CallOf(r, ok).ok = ok /\ Idle.op = "none"
  BY DEF CallOf, Idle
<1> QED
  BY <1>2, <1>3

LEMMA GarbageNoCall == Garbage \notin Calls
<1>1. \A r \in Request : r.op # "garbage"
  BY DEF Request
<1>2. Garbage.op = "garbage"
  BY DEF Garbage
<1> QED
  BY <1>1, <1>2, CallsAssumption

LEMMA OneMessage ==
  ASSUME NEW msg
  PROVE  /\ Head(<<msg>>) = msg /\ Tail(<<msg>>) = <<>> /\ <<msg>> # <<>>
         /\ Append(<<>>, msg) = <<msg>>
OBVIOUS

(* Pending, case by case, before a step and after it.                      *)
LEMMA PendingCases ==
  ASSUME NEW c \in Goroutine
  PROVE  /\ replies[c] = <<>> /\ call[c] # Idle => Pending(c) = call[c]
         /\ replies[c] = <<>> /\ call[c] = Idle /\ inbox[c] = <<>> => Pending(c) = Idle
         /\ replies[c] = <<>> /\ call[c] = Idle /\ inbox[c] # <<>> =>
              Pending(c) = IF Head(inbox[c]) \in Calls
                           THEN CallOf(Head(inbox[c]), "pending") ELSE Idle
BY DEF Pending

LEMMA PendingCasesAfter ==
  ASSUME NEW c \in Goroutine
  PROVE  /\ replies'[c] = <<>> /\ call'[c] # Idle => Pending(c)' = call'[c]
         /\ replies'[c] = <<>> /\ call'[c] = Idle /\ inbox'[c] = <<>> => Pending(c)' = Idle
         /\ replies'[c] = <<>> /\ call'[c] = Idle /\ inbox'[c] # <<>> =>
              Pending(c)' = IF Head(inbox'[c]) \in Calls
                            THEN CallOf(Head(inbox'[c]), "pending") ELSE Idle
BY DEF Pending, Idle

(* Nothing but the first response and the request matter once there is one. *)
LEMMA PendingRepliedAfter ==
  ASSUME NEW c \in Goroutine, NEW r \in Replies, replies'[c] = <<r>>
  PROVE  Pending(c)' = IF Head(sent'[c]) \in Calls
                       THEN CallOf(Head(sent'[c]), IF r = "OK" THEN "true"
                                   ELSE IF r = "FAIL" THEN "false" ELSE "error")
                       ELSE IF r = "ERROR" THEN Idle ELSE [op |-> "nonsense"]
<1>1. Head(replies'[c]) = r /\ replies'[c] # <<>>
  BY OneMessage
<1>2. [OK |-> "true", FAIL |-> "false", ERROR |-> "error"][r]
        = IF r = "OK" THEN "true" ELSE IF r = "FAIL" THEN "false" ELSE "error"
  BY DEF Replies
<1> QED
  BY <1>1, <1>2 DEF Pending, Idle

(* A step that has to do with c alone keeps every other client's invariant *)
(* and request as they are.                                                *)
LEMMA OthersKept ==
  ASSUME NEW c \in Goroutine, Others(c), NEW d \in Goroutine \ {c}
  PROVE  /\ PatientInv(d) => PatientInv(d)'
         /\ Pending(d)' = Pending(d)
<1>1. /\ call'[d] = call[d] /\ pc'[d] = pc[d] /\ inbox'[d] = inbox[d]
      /\ replies'[d] = replies[d] /\ client'[d] = client[d] /\ sent'[d] = sent[d]
  BY DEF Others
<1>2. PatientInv(d) => PatientInv(d)'
  BY <1>1 DEF PatientInv, Working, Awaited, Idle, Garbage, Message
<1>3. Pending(d)' = Pending(d)
  BY <1>1 DEF Pending, Idle
<1> QED
  BY <1>2, <1>3

LEMMA ServeOthers ==
  ASSUME ServiceInv, NEW c \in Goroutine, Serve(c) \/ Client(c)
  PROVE  Others(c)
<1>1. /\ DOMAIN call = Goroutine /\ DOMAIN pc = Goroutine /\ DOMAIN inbox = Goroutine
      /\ DOMAIN replies = Goroutine /\ DOMAIN client = Goroutine /\ DOMAIN sent = Goroutine
  BY DEF ServiceInv, IndexInv, TypeOK, SlotInv, WireInv, WireTyped
<1> SUFFICES ASSUME NEW d \in Goroutine \ {c}
             PROVE  /\ call'[d] = call[d] /\ pc'[d] = pc[d] /\ inbox'[d] = inbox[d]
                    /\ replies'[d] = replies[d] /\ client'[d] = client[d] /\ sent'[d] = sent[d]
  BY DEF Others
<1> USE DEF Set, Goto, wire, peers, conns
<1>2. CASE ReadRequest(c) \/ ReadBad(c)
  <2>1. \E q : inbox' = [inbox EXCEPT ![c] = q]
    BY <1>2 DEF ReadRequest, ReadBad
  <2>2. call' = call \/ \E k : call' = [call EXCEPT ![c] = k]
    BY <1>2 DEF ReadRequest, ReadBad
  <2>3. /\ \E l : pc' = [pc EXCEPT ![c] = l]
        /\ UNCHANGED <<replies, client, sent>>
    BY <1>2 DEF ReadRequest, ReadBad
  <2> QED
    BY <1>1, <2>1, <2>2, <2>3
<1>3. CASE ReadEOF(c) \/ ReadTimeout(c) \/ Wake(c) \/ Release(c)
  BY <1>1, <1>3 DEF ReadEOF, ReadTimeout, Wake, Release
<1>4. CASE ReadError(c)
  BY <1>1, <1>4 DEF ReadError
<1>5. CASE CallIndex(c)
  <2>1. \E ok : call' = [call EXCEPT ![c].ok = ok]
    BY <1>5 DEF CallIndex, Execute, IndexPresent, IndexMissing, IndexNew, RemoveAbsent,
                RemoveReferenced, RemoveUnreferenced, Query, Answer
  <2> QED
    BY <1>1, <1>5, <2>1 DEF CallIndex
<1>6. CASE Respond(c) \/ WriteTimeout(c) \/ WriteLost(c)
  BY <1>1, <1>6 DEF Respond, WriteTimeout, WriteLost, Responding
<1>7. CASE Close(c)
  BY <1>1, <1>7 DEF Close
<1>8. CASE Dial(c) \/ HangUp(c) \/ Break(c)
  BY <1>1, <1>8 DEF Dial, HangUp, Break
<1>9. CASE Send(c)
  BY <1>1, <1>9 DEF Send
<1>10. CASE Receive(c)
  BY <1>1, <1>10 DEF Receive
<1> QED
  BY <1>2, <1>3, <1>4, <1>5, <1>6, <1>7, <1>8, <1>9, <1>10 DEF Serve, Client

-----------------------------------------------------------------------------
(* The steps of serve and of its client, each on its own message.          *)

(* What the types say of c.                                                *)
LEMMA ServiceTyped ==
  ASSUME ServiceInv, NEW c \in Goroutine
  PROVE  /\ PatientInv(c) /\ FlowInv(c)
         /\ sent[c] \in Seq(Message) /\ inbox[c] \in Seq(Message) /\ replies[c] \in Seq(Replies)
         /\ call[c] \in Call /\ pc[c] \in Labels
         /\ client[c] \in {"none", "open", "closed"} /\ net[c] \in {"up", "reset", "dead"}
BY DEF ServiceInv, IndexInv, TypeOK, SlotInv, WireInv, WireTyped

(* What readMessage leaves behind a message that came alone: nothing.      *)
LEMMA NothingBehind ==
  ASSUME NEW msg \in Message, NEW rest \in Rests(<<msg>>)
  PROVE  rest = <<>>
<1>1. <<msg>> \in Seq(Message) /\ <<msg>> # <<>> /\ Len(<<msg>>) = 1
  OBVIOUS
<1>2. rest \in Seq(Message) /\ Len(rest) < 1
  BY <1>1, RestsShorter
<1> QED
  BY <1>2, EmptySeq

LEMMA ReadMoves ==
  ASSUME ServiceInv, NEW c \in Goroutine, ReadRequest(c) \/ ReadBad(c)
  PROVE  PatientInv(c)' /\ Moves(c)
<1>1. /\ pc[c] = "read" /\ inbox[c] # <<>> /\ PatientInv(c)
      /\ UNCHANGED <<replies, client, sent>>
  BY ServiceTyped DEF ReadRequest, ReadBad, Reading, peers
<1>2. PICK msg \in Message : sent[c] = <<msg>> /\ inbox[c] = <<msg>>
  BY <1>1, ServiceTyped DEF PatientInv, Working
<1>3. call[c] = Idle /\ replies[c] = <<>>
  BY <1>1 DEF PatientInv, Working
<1>4. /\ DOMAIN call = Goroutine /\ DOMAIN pc = Goroutine /\ DOMAIN inbox = Goroutine
  BY DEF ServiceInv, IndexInv, TypeOK, SlotInv, WireInv, WireTyped
<1>5. inbox'[c] = <<>>
  <2>1. PICK rest \in Rests(inbox[c]) : inbox' = [inbox EXCEPT ![c] = rest]
    BY DEF ReadRequest, ReadBad, Set
  <2>2. rest = <<>>
    BY <1>2, <2>1, NothingBehind
  <2> QED
    BY <1>4, <2>1, <2>2
<1>6. Head(sent[c]) = msg /\ Head(inbox[c]) = msg /\ Head(sent'[c]) = msg /\ <<msg>> # <<>>
  BY <1>1, <1>2, OneMessage
<1>7. Pending(c) = IF msg \in Calls THEN CallOf(msg, "pending") ELSE Idle
  BY <1>1, <1>3, <1>6, PendingCases
<1>8. CASE ReadRequest(c)
  <2>1. msg \in Calls /\ call'[c] = CallOf(msg, "pending") /\ pc'[c] = "call"
    BY <1>4, <1>6, <1>8 DEF ReadRequest, Set, Goto
  <2>2. call'[c] # Idle
    BY <2>1, CallFields
  <2>3. Pending(c)' = Pending(c)
    BY <1>1, <1>3, <1>7, <2>1, <2>2, PendingCasesAfter
  <2>4. PatientInv(c)'
    BY <1>1, <1>2, <1>3, <1>5, <1>6, <2>1 DEF PatientInv, Working, Awaited, Message
  <2> QED
    BY <2>3, <2>4 DEF Moves
<1>9. CASE ReadBad(c)
  <2>1. msg = Garbage /\ call'[c] = Idle /\ pc'[c] = "respond"
    BY <1>3, <1>4, <1>6, <1>9 DEF ReadBad, Set, Goto
  <2>2. Pending(c)' = Idle
    BY <1>1, <1>3, <1>5, <2>1, PendingCasesAfter
  <2>3. sent'[c] = <<Garbage>>
    BY <1>1, <1>2, <2>1
  <2>4. PatientInv(c)'
    BY <1>1, <1>3, <1>5, <2>1, <2>3 DEF PatientInv, Working, Message, Garbage, Idle
  <2> QED
    BY <2>2, <2>4 DEF Moves
<1> QED
  BY <1>8, <1>9

(* A step of serve that only goes on to another of its labels.             *)
LEMMA GoesOn ==
  ASSUME ServiceInv, NEW c \in Goroutine, pc[c] \notin Working,
         NEW l \in Labels \ Working, Goto(c, l),
         call' = call /\ inbox' = inbox /\ replies' = replies /\ client' = client /\ sent' = sent
  PROVE  PatientInv(c)' /\ Moves(c)
<1>1. pc'[c] = l /\ PatientInv(c)
  BY ServiceTyped DEF ServiceInv, SlotInv, Goto, Set
<1>2. PatientInv(c)'
  BY <1>1 DEF PatientInv, Working, Awaited, Idle, Garbage, Message
<1>3. Pending(c)' = Pending(c)
  BY DEF Pending, Idle
<1> QED
  BY <1>2, <1>3 DEF Moves

(* The connection was reset, which its client has seen first: what it has  *)
(* sent is lost, unless serve has read it.                                 *)
LEMMA ReadErrorMoves ==
  ASSUME ServiceInv, NEW c \in Goroutine, ReadError(c)
  PROVE  PatientInv(c)' /\ Moves(c)
<1>1. /\ pc[c] = "read" /\ net[c] = "reset" /\ PatientInv(c) /\ FlowInv(c)
      /\ UNCHANGED <<call, replies, client, sent>>
  BY ServiceTyped DEF ReadError, Reading, peers
<1>2. inbox'[c] = <<>> /\ pc'[c] \in {"delay", "respond"}
  BY DEF ReadError, ServiceInv, SlotInv, WireInv, WireTyped, Goto, Set
<1>3. client[c] = "closed"
  BY <1>1 DEF FlowInv
<1>4. call[c] = Idle /\ replies[c] = <<>>
  BY <1>1, <1>3 DEF PatientInv, Working
<1>5. call'[c] = Idle /\ replies'[c] = <<>> /\ client'[c] = "closed" /\ sent'[c] = sent[c]
  BY <1>1, <1>3, <1>4
<1>6. Pending(c)' = Idle
  BY <1>2, <1>5, PendingCasesAfter
<1>7. PatientInv(c)'
  <2>1. sent'[c] # <<>> => \E msg \in Message : sent'[c] = <<msg>>
    BY <1>1, <1>5 DEF PatientInv, Working
  <2> QED
    BY <1>2, <1>5, <2>1 DEF PatientInv, Working, Message, Garbage, Idle
<1> QED
  BY <1>6, <1>7 DEF Moves

(* respond: the response is that to the request, and a client that has     *)
(* left loses it.                                                          *)
LEMMA RespondMoves ==
  ASSUME ServiceInv, NEW c \in Goroutine, Respond(c) \/ WriteTimeout(c) \/ WriteLost(c)
  PROVE  PatientInv(c)' /\ Moves(c)
<1>1. /\ pc[c] = "respond" /\ PatientInv(c) /\ FlowInv(c)
      /\ UNCHANGED <<inbox, client, sent>>
  BY ServiceTyped DEF Respond, WriteTimeout, WriteLost, Responding, peers
<1>2. pc'[c] = "read" /\ call'[c] = Idle
  BY DEF Respond, WriteTimeout, WriteLost, Responding, ServiceInv, IndexInv, TypeOK, SlotInv,
         Goto, Set
<1>3. replies[c] = <<>> /\ inbox[c] = <<>>
  BY <1>1 DEF PatientInv, Working
<1>4. ~WriteTimeout(c)
  <2>1. Len(replies[c]) = 0 /\ ~(0 >= Unread)
    BY <1>3, ServerAssumption
  <2> QED
    BY <2>1 DEF WriteTimeout
<1>5. inbox'[c] = <<>> /\ client'[c] = client[c] /\ sent'[c] = sent[c]
  BY <1>1, <1>3
<1>6. sent[c] # <<>> => \E msg \in Message : sent[c] = <<msg>>
  BY <1>1 DEF PatientInv, Working
<1>7. CASE WriteLost(c)
  <2>1. replies'[c] = <<>>
    BY <1>3, <1>7 DEF WriteLost
  <2>2. Pending(c)' = Idle
    BY <1>2, <1>5, <2>1, PendingCasesAfter
  <2>3. PatientInv(c)'
    BY <1>2, <1>5, <1>6, <2>1 DEF PatientInv, Working, Message, Garbage, Idle
  <2> QED
    BY <2>2, <2>3 DEF Moves
<1>8. CASE Respond(c)
  <2>1. client[c] = "open" /\ replies'[c] = <<Response(c)>>
    <3>1. replies'[c] = Append(replies[c], Response(c))
      BY <1>8 DEF Respond, ServiceInv, WireInv, WireTyped, Set
    <3> QED
      BY <1>3, <1>8, <3>1, OneMessage DEF Respond
  <2>2. CASE call[c] = Idle
    <3>1. sent[c] = <<Garbage>>
      <4>1. ASSUME NEW ok, Head(sent[c]) \in Calls PROVE call[c] # Awaited(c, ok)
        BY <2>2, <4>1, CallFields DEF Awaited
      <4> QED
        BY <1>1, <2>1, <4>1 DEF PatientInv
    <3>2. Head(sent[c]) = Garbage /\ Head(sent'[c]) = Garbage
      BY <1>5, <3>1, OneMessage
    <3>3. Pending(c) = Idle
      BY <1>3, <2>2, PendingCases
    <3>4. replies'[c] = <<"ERROR">> /\ "ERROR" \in Replies
      BY <2>1, <2>2 DEF Response, Replies
    <3>5. Pending(c)' = Idle
      BY <3>2, <3>4, GarbageNoCall, PendingRepliedAfter
    <3>6. PatientInv(c)'
      BY <1>2, <1>5, <2>1, <3>1, <3>2, <3>4, GarbageNoCall
      DEF PatientInv, Working, Message, Garbage, Idle
    <3> QED
      BY <3>3, <3>5, <3>6 DEF Moves
  <2>3. CASE call[c] # Idle
    <3>1. PICK ok \in {"true", "false"} : call[c] = Awaited(c, ok)
      BY <1>1, <2>3 DEF PatientInv
    <3>2. PICK msg \in Calls : sent[c] = <<msg>>
      BY <1>1, <2>3, OneMessage DEF PatientInv
    <3>3. Head(sent[c]) = msg /\ Head(sent'[c]) = msg /\ call[c] = CallOf(msg, ok)
      BY <1>5, <3>1, <3>2, OneMessage DEF Awaited
    <3>4. PICK r \in {"OK", "FAIL"} :
            replies'[c] = <<r>> /\ ok = IF r = "OK" THEN "true" ELSE "false"
      <4>1. call[c].ok = ok
        BY <3>3, CallFields
      <4> QED
        BY <2>1, <2>3, <4>1 DEF Response
    <3>5. Pending(c) = call[c]
      BY <1>3, <2>3, PendingCases
    <3>6. Pending(c)' = CallOf(msg, ok)
      <4>1. r \in Replies /\ Head(sent'[c]) \in Calls
        BY <3>3 DEF Replies
      <4>2. Pending(c)' = CallOf(Head(sent'[c]), IF r = "OK" THEN "true"
                                 ELSE IF r = "FAIL" THEN "false" ELSE "error")
        BY <3>4, <4>1, PendingRepliedAfter
      <4> QED
        BY <3>3, <3>4, <4>2
    <3>7. PatientInv(c)'
      <4>1. \E x \in Message : sent'[c] = <<x>>
        BY <1>5, <3>2 DEF Message
      <4>2. sent'[c] # <<>>
        BY <1>5, <3>2, OneMessage
      <4>3. \E x \in IF Head(sent'[c]) \in Calls THEN {"OK", "FAIL"} ELSE {"ERROR"} :
              replies'[c] = <<x>>
        BY <3>3, <3>4
      <4> QED
        BY <1>2, <1>5, <2>1, <4>1, <4>2, <4>3 DEF PatientInv, Working, Message, Garbage, Idle
    <3> QED
      BY <3>3, <3>5, <3>6, <3>7 DEF Moves
  <2> QED
    BY <2>2, <2>3
<1> QED
  BY <1>4, <1>7, <1>8

(* The server's side closes: what it has not read of the client's is lost. *)
LEMMA CloseMoves ==
  ASSUME ServiceInv, NEW c \in Goroutine, Close(c) \/ Refuse(c)
  PROVE  PatientInv(c)' /\ Moves(c)
<1>1. /\ PatientInv(c) /\ pc[c] \notin Working /\ pc'[c] \notin Working
      /\ UNCHANGED <<call, client, sent>> /\ inbox'[c] = <<>>
      /\ replies'[c] = replies[c] \/ (inbox[c] # <<>> /\ replies'[c] = <<>>)
  <2>1. CASE Close(c)
    BY <2>1, ServiceTyped
    DEF Close, Goto, Set, peers, Working, ServiceInv, SlotInv, WireInv, WireTyped
  <2>2. CASE Refuse(c)
    <3>1. pc[c] = "none"
      BY <2>2 DEF Refuse, ServiceInv, SlotInv, ConnInv
    <3> QED
      BY <2>2, <3>1, ServiceTyped DEF Refuse, Set, peers, Working, ServiceInv, WireInv, WireTyped
  <2> QED
    BY <2>1, <2>2
<1>2. call[c] = Idle /\ call'[c] = Idle /\ client'[c] = client[c] /\ sent'[c] = sent[c]
  BY <1>1 DEF PatientInv
<1>3. replies'[c] = replies[c]
  BY <1>1 DEF PatientInv
<1>4. PatientInv(c)'
  BY <1>1, <1>2, <1>3 DEF PatientInv, Working, Awaited, Message, Garbage, Idle
<1>5. CASE replies[c] = <<>>
  <2>1. Pending(c)' = Idle
    BY <1>1, <1>2, <1>3, <1>5, PendingCasesAfter
  <2> QED
    BY <1>4, <2>1 DEF Moves
<1>6. CASE replies[c] # <<>>
  <2>1. inbox[c] = <<>>
    BY <1>1, <1>6 DEF PatientInv
  <2>2. Pending(c)' = Pending(c)
    BY <1>1, <1>2, <1>3, <2>1 DEF Pending, Idle
  <2> QED
    BY <1>4, <2>2 DEF Moves
<1> QED
  BY <1>5, <1>6

(* A client sends only when it has nothing under way.                      *)
LEMMA SendMoves ==
  ASSUME ServiceInv, Window = 1, NEW c \in Goroutine, Send(c)
  PROVE  PatientInv(c)' /\ Moves(c)
<1>1. /\ PatientInv(c) /\ client[c] = "open" /\ UNCHANGED <<call, pc, replies, client>>
      /\ sent[c] \in Seq(Message) /\ Len(sent[c]) < 1
  BY ServiceTyped DEF Send
<1>2. sent[c] = <<>>
  BY <1>1, EmptySeq
<1>3. replies[c] = <<>> /\ inbox[c] = <<>> /\ pc[c] \notin Working /\ call[c] = Idle
  <2>1. pc[c] # "respond"
    BY <1>1, <1>2, OneMessage DEF PatientInv
  <2>2. pc[c] # "call" /\ replies[c] = <<>>
    BY <1>1, <1>2 DEF PatientInv
  <2>3. inbox[c] = <<>>
    BY <1>1, <1>2 DEF PatientInv
  <2> QED
    BY <1>1, <2>1, <2>2, <2>3 DEF PatientInv, Working
<1>4. PICK msg \in Message : /\ sent' = [sent EXCEPT ![c] = Append(sent[c], msg)]
                             /\ inbox' = IF sock[c] = "closed" THEN inbox
                                         ELSE [inbox EXCEPT ![c] = Append(inbox[c], msg)]
  BY DEF Send, Set
<1>5. sent'[c] = <<msg>> /\ inbox'[c] \in {<<>>, <<msg>>}
  BY <1>2, <1>3, <1>4, OneMessage DEF ServiceInv, WireInv, WireTyped
<1>6. /\ replies'[c] = <<>> /\ pc'[c] \notin Working /\ call'[c] = Idle
      /\ Head(<<msg>>) = msg /\ <<msg>> # <<>>
  BY <1>1, <1>3, OneMessage
<1>7. PatientInv(c)'
  BY <1>5, <1>6 DEF PatientInv, Working, Message, Garbage, Idle
<1>8. Pending(c) = Idle
  BY <1>3, PendingCases
<1>9. Pending(c)' = Idle \/ (msg \in Calls /\ Pending(c)' = CallOf(msg, "pending"))
  BY <1>5, <1>6, PendingCasesAfter
<1> QED
  BY <1>7, <1>8, <1>9 DEF Moves

(* Whether it receives the response or leaves, the client has nothing      *)
(* under way after it that had been answered.                              *)
LEMMA ClientMoves ==
  ASSUME ServiceInv, NEW c \in Goroutine, Dial(c) \/ Receive(c) \/ HangUp(c) \/ Break(c)
  PROVE  PatientInv(c)' /\ Moves(c)
<1>1. /\ PatientInv(c) /\ FlowInv(c) /\ UNCHANGED <<call, pc, inbox>>
  BY ServiceTyped DEF Dial, Receive, HangUp, Break, wire
<1>2. CASE Receive(c)
  <2>1. /\ client[c] = "open" /\ replies[c] # <<>> /\ client' = client
        /\ replies'[c] = Tail(replies[c]) /\ sent'[c] = Tail(sent[c])
    BY <1>2 DEF Receive, ServiceInv, WireInv, WireTyped, Set
  <2>2. inbox[c] = <<>> /\ pc[c] \notin Working /\ call[c] = Idle
    BY <1>1, <2>1 DEF PatientInv
  <2>3. sent'[c] = <<>> /\ replies'[c] = <<>>
    BY <1>1, <2>1, OneMessage DEF PatientInv
  <2>4. inbox'[c] = <<>> /\ pc'[c] \notin Working /\ call'[c] = Idle
    BY <1>1, <2>2
  <2>5. Pending(c)' = Idle
    BY <2>3, <2>4, PendingCasesAfter
  <2>6. PatientInv(c)'
    BY <2>3, <2>4 DEF PatientInv, Working, Idle
  <2> QED
    BY <2>5, <2>6 DEF Moves
<1>3. CASE HangUp(c) \/ Break(c)
  <2>1. client'[c] = "closed" /\ replies'[c] = <<>> /\ sent' = sent
    BY <1>3 DEF HangUp, Break, ServiceInv, WireInv, WireTyped, Set
  <2>2. PatientInv(c)'
    BY <1>1, <2>1 DEF PatientInv, Working, Awaited, Message, Garbage, Idle
  <2>3. CASE replies[c] = <<>>
    <3>1. Pending(c)' = Pending(c)
      BY <1>1, <2>1, <2>3 DEF Pending, Idle
    <3> QED
      BY <2>2, <3>1 DEF Moves
  <2>4. CASE replies[c] # <<>>
    <3>1. inbox[c] = <<>> /\ call[c] = Idle
      BY <1>1, <2>4 DEF PatientInv
    <3>2. inbox'[c] = <<>> /\ call'[c] = Idle
      BY <1>1, <3>1
    <3>3. Pending(c)' = Idle
      BY <2>1, <3>2, PendingCasesAfter
    <3> QED
      BY <2>2, <3>3 DEF Moves
  <2> QED
    BY <2>3, <2>4
<1>4. CASE Dial(c)
  <2>1. client[c] = "none" /\ client'[c] = "open" /\ replies' = replies /\ sent' = sent
    BY <1>4 DEF Dial, ServiceInv, WireInv, WireTyped, Set, wire
  <2>2. pc[c] = "none"
    BY <2>1 DEF ServiceInv, SlotInv, ConnInv
  <2>3. inbox[c] = <<>> /\ replies[c] = <<>> /\ call[c] = Idle
    BY <1>1, <2>1, <2>2 DEF PatientInv, FlowInv, Working
  <2>4. /\ inbox'[c] = <<>> /\ replies'[c] = <<>> /\ call'[c] = Idle /\ pc'[c] = "none"
        /\ sent'[c] = sent[c]
    BY <1>1, <2>1, <2>2, <2>3
  <2>5. PatientInv(c)'
    BY <1>1, <2>4 DEF PatientInv, Working, Message, Garbage, Idle
  <2>6. Pending(c)' = Idle
    BY <2>4, PendingCasesAfter
  <2> QED
    BY <2>5, <2>6 DEF Moves
<1> QED
  BY <1>2, <1>3, <1>4

-----------------------------------------------------------------------------
(* The refinement.                                                         *)

LEMMA ExecuteAnswers ==
  ASSUME NEW c \in Goroutine, Execute(c)
  PROVE  \E ok \in {"true", "false"} : Answer(c, ok)
BY DEF Execute, IndexPresent, IndexMissing, IndexNew, RemoveAbsent, RemoveReferenced,
       RemoveUnreferenced, Query

(* serve calls the index for the request that its client waits for.        *)
LEMMA CallIndexAnswers ==
  ASSUME ServiceInv, NEW c \in Goroutine, CallIndex(c)
  PROVE  PatientInv(c)' /\ Pending(c) = call[c] /\ Pending(c)' = call'[c]
<1>1. /\ pc[c] = "call" /\ PatientInv(c) /\ pc'[c] = "respond" /\ Execute(c)
      /\ UNCHANGED <<inbox, replies, client, sent>>
  BY ServiceTyped DEF CallIndex, ServiceInv, SlotInv, Goto, Set, wire, peers
<1>2. /\ replies[c] = <<>> /\ inbox[c] = <<>> /\ sent[c] # <<>> /\ Head(sent[c]) \in Calls
      /\ call[c] = Awaited(c, "pending")
  BY <1>1 DEF PatientInv, Working
<1>3. PICK ok \in {"true", "false"} : Answer(c, ok)
  BY <1>1, ExecuteAnswers
<1>4. call'[c] = CallOf(Head(sent[c]), ok)
  <2>1. call'[c] = [call[c] EXCEPT !.ok = ok]
    BY <1>3 DEF Answer, ServiceInv, IndexInv, TypeOK
  <2> QED
    BY <1>2, <2>1 DEF Awaited, CallOf
<1>5. call[c] # Idle /\ call'[c] # Idle
  BY <1>2, <1>4, CallFields DEF Awaited
<1>6. Pending(c) = call[c] /\ Pending(c)' = call'[c]
  BY <1>1, <1>2, <1>5, PendingCases, PendingCasesAfter
<1>7. PatientInv(c)'
  <2>1. sent'[c] = sent[c] /\ inbox'[c] = <<>> /\ replies'[c] = <<>>
    BY <1>1, <1>2
  <2>2. \E msg \in Message : sent'[c] = <<msg>>
    BY <1>1, <1>2, <2>1 DEF PatientInv
  <2> QED
    BY <1>1, <1>2, <1>4, <2>1, <2>2 DEF PatientInv, Working, Awaited, Message, Garbage, Idle
<1> QED
  BY <1>6, <1>7

(* The index answers the request as the promise to clients says.           *)
LEMMA ServiceExecute ==
  ASSUME IndexInv, NEW c \in Goroutine, Execute(c),
         Pending(c) = call[c], Pending(c)' = call'[c],
         \A d \in Goroutine \ {c} : Pending(d)' = Pending(d)
  PROVE  Service!ServiceNext
<1>1. Pending(c) # Idle
  BY DEF Execute, IndexPresent, IndexMissing, IndexNew, RemoveAbsent, RemoveReferenced,
         RemoveUnreferenced, Query, Awaiting, Busy
<1>2. ASSUME NEW op, G!Awaiting(c, op) PROVE Service!Awaiting(c, op)
  BY <1>1, <1>2 DEF G!Awaiting, Service!Awaiting, Service!Busy, Idle, Service!Idle
<1>3. ASSUME NEW ok, G!Answer(c, ok) PROVE Service!Answer(c, ok)
  <2>1. call'[c] = [call[c] EXCEPT !.ok = ok]
    BY <1>3 DEF G!Answer, IndexInv, TypeOK
  <2> QED
    BY <2>1 DEF Service!Answer
<1>4. [d \in Goroutine |-> Pending(d)][c] = call[c]
  OBVIOUS
<1>5. G!Index(c) => Service!Index(c)
  BY <1>2, <1>3, <1>4 DEF G!Index, Service!Index, G!Indexed, Service!Indexed
<1>6. G!Remove(c) => Service!Remove(c)
  BY <1>2, <1>3, <1>4 DEF G!Remove, Service!Remove, G!Indexed, Service!Indexed,
                          G!Dependents, Service!Dependents
<1>7. G!Query(c) => Service!Query(c)
  BY <1>2, <1>3, <1>4 DEF G!Query, Service!Query, G!Indexed, Service!Indexed
<1>8. G!Index(c) \/ G!Remove(c) \/ G!Query(c)
  BY GraphIndex, GraphRemove, GraphQuery DEF Execute
<1> QED
  BY <1>5, <1>6, <1>7, <1>8 DEF Service!ServiceNext, Service!Next

(* What a step that leaves the index alone does to the request of c is to  *)
(* send it, to return its answer, or to lose it.                           *)
LEMMA ServiceMove ==
  ASSUME NEW c \in Goroutine, m' = m, Moves(c),
         \A d \in Goroutine \ {c} : Pending(d)' = Pending(d)
  PROVE  [Service!ServiceNext]_Service!gvars
<1>1. [p \in DOMAIN m |-> m[p].deps]' = [p \in DOMAIN m |-> m[p].deps]
  OBVIOUS
<1>2. [d \in Goroutine |-> Pending(d)]'
        = [[d \in Goroutine |-> Pending(d)] EXCEPT ![c] = Pending(c)']
  OBVIOUS
<1>3. [d \in Goroutine |-> Pending(d)][c] = Pending(c)
  OBVIOUS
<1>4. CASE Pending(c)' = Pending(c)
  <2>1. [d \in Goroutine |-> Pending(d)]' = [d \in Goroutine |-> Pending(d)]
    BY <1>4
  <2> QED
    BY <1>1, <2>1 DEF Service!gvars
<1>5. CASE Pending(c) # Idle /\ Pending(c)' = Idle
  <2>1. Service!Lose(c) \/ (Service!Return(c) /\ UNCHANGED [p \in DOMAIN m |-> m[p].deps])
    BY <1>1, <1>2, <1>3, <1>5
    DEF Service!Lose, Service!Return, Service!Busy, Service!Idle, Idle
  <2> QED
    BY <2>1 DEF Service!ServiceNext, Service!Next
<1>6. CASE Pending(c) = Idle /\ \E r \in Calls : Pending(c)' = CallOf(r, "pending")
  <2>1. Service!Invoke(c)
    BY <1>2, <1>3, <1>6
    DEF Service!Invoke, Service!Busy, Service!Idle, Idle, Service!CallOf, CallOf
  <2> QED
    BY <1>1, <2>1 DEF Service!ServiceNext, Service!Next
<1> QED
  BY <1>4, <1>5, <1>6 DEF Moves

(* A step that changes nothing of what the promise is about.               *)
LEMMA ServiceStutter ==
  ASSUME m' = m, \A d \in Goroutine : Pending(d)' = Pending(d)
  PROVE  [Service!ServiceNext]_Service!gvars
<1>1. [p \in DOMAIN m |-> m[p].deps]' = [p \in DOMAIN m |-> m[p].deps]
  OBVIOUS
<1>2. [d \in Goroutine |-> Pending(d)]' = [d \in Goroutine |-> Pending(d)]
  OBVIOUS
<1> QED
  BY <1>1, <1>2 DEF Service!gvars

LEMMA ServeService ==
  ASSUME ServiceInv, NEW c \in Goroutine, Serve(c)
  PROVE  /\ \A d \in Goroutine : PatientInv(d)'
         /\ [Service!ServiceNext]_Service!gvars
<1>1. /\ \A d \in Goroutine \ {c} : PatientInv(d)'
      /\ \A d \in Goroutine \ {c} : Pending(d)' = Pending(d)
  BY ServeOthers, OthersKept DEF ServiceInv
<1>2. CASE CallIndex(c)
  <2>1. IndexInv /\ Execute(c)
    BY <1>2 DEF ServiceInv, CallIndex
  <2> QED
    BY <1>1, <1>2, <2>1, CallIndexAnswers, ServiceExecute
<1>3. CASE ~CallIndex(c)
  <2>1. m' = m
    BY <1>3 DEF Serve, ReadRequest, ReadBad, ReadEOF, ReadTimeout, ReadError, Wake, Respond,
                WriteTimeout, WriteLost, Responding, Close, Release
  <2>2. PatientInv(c)' /\ Moves(c)
    <3>1. CASE ReadEOF(c) \/ ReadTimeout(c) \/ Wake(c) \/ Release(c)
      <4>1. PICK l \in {"close", "read", "done"} : Goto(c, l)
        BY <3>1 DEF ReadEOF, ReadTimeout, Wake, Release
      <4>2. /\ call' = call /\ inbox' = inbox /\ replies' = replies
            /\ client' = client /\ sent' = sent
        BY <3>1 DEF ReadEOF, ReadTimeout, Wake, Release, wire, peers
      <4>3. pc[c] \notin Working /\ l \in Labels \ Working
        BY <3>1 DEF ReadEOF, ReadTimeout, Wake, Release, Reading, Working, Labels
      <4> QED
        BY <4>1, <4>2, <4>3, GoesOn
    <3> QED
      BY <1>3, <3>1, ReadMoves, ReadErrorMoves, RespondMoves, CloseMoves DEF Serve
  <2> QED
    BY <1>1, <2>1, <2>2, ServiceMove
<1> QED
  BY <1>2, <1>3

LEMMA ClientService ==
  ASSUME ServiceInv, Window = 1, NEW c \in Goroutine, Client(c)
  PROVE  /\ \A d \in Goroutine : PatientInv(d)'
         /\ [Service!ServiceNext]_Service!gvars
<1>1. /\ \A d \in Goroutine \ {c} : PatientInv(d)'
      /\ \A d \in Goroutine \ {c} : Pending(d)' = Pending(d)
  BY ServeOthers, OthersKept DEF ServiceInv
<1>2. PatientInv(c)' /\ Moves(c)
  BY SendMoves, ClientMoves DEF Client
<1>3. m' = m
  BY DEF Client, Dial, Send, Receive, HangUp, Break
<1> QED
  BY <1>1, <1>2, <1>3, ServiceMove

LEMMA AcceptorService ==
  ASSUME ServiceInv, Acceptor
  PROVE  /\ \A d \in Goroutine : PatientInv(d)'
         /\ [Service!ServiceNext]_Service!gvars
<1>1. CASE Accept \/ AcceptTemporary \/ AcceptAgain \/ AcceptFails \/ Exit
  <2>1. /\ m' = m /\ call' = call /\ pc' = pc /\ inbox' = inbox /\ replies' = replies
        /\ client' = client /\ sent' = sent
    BY <1>1 DEF Accept, AcceptTemporary, AcceptAgain, AcceptFails, Exit, wire, peers
  <2>2. \A d \in Goroutine : PatientInv(d)'
    BY <2>1 DEF ServiceInv, PatientInv, Working, Awaited, Message, Garbage, Idle
  <2>3. \A d \in Goroutine : Pending(d)' = Pending(d)
    BY <2>1 DEF Pending, Idle
  <2> QED
    BY <2>1, <2>2, <2>3, ServiceStutter
<1>2. ASSUME NEW c \in Goroutine, Spawn(c) \/ Refuse(c)
      PROVE  /\ \A d \in Goroutine : PatientInv(d)'
             /\ [Service!ServiceNext]_Service!gvars
  <2>1. m' = m /\ call' = call /\ replies' = replies /\ client' = client /\ sent' = sent
    BY <1>2 DEF Spawn, Refuse, wire, peers
  <2>2. Others(c)
    BY <1>2, <2>1 DEF Spawn, Refuse, Others, Goto, Set, wire, ServiceInv, SlotInv, WireInv, WireTyped
  <2>3. PatientInv(c)' /\ Moves(c)
    <3>1. CASE Spawn(c)
      <4>1. pc[c] = "none"
        BY <3>1 DEF Spawn, ServiceInv, SlotInv, ConnInv
      <4>2. Goto(c, "read") /\ inbox' = inbox
        BY <3>1 DEF Spawn, wire
      <4>3. pc[c] \notin Working /\ "read" \in Labels \ Working
        BY <4>1 DEF Working, Labels
      <4> QED
        BY <2>1, <4>2, <4>3, GoesOn
    <3> QED
      BY <1>2, <3>1, CloseMoves
  <2>4. \A d \in Goroutine \ {c} : PatientInv(d)' /\ Pending(d)' = Pending(d)
    BY <2>2, OthersKept DEF ServiceInv
  <2> QED
    BY <2>1, <2>3, <2>4, ServiceMove
<1> QED
  BY <1>1, <1>2 DEF Acceptor

LEMMA NextService ==
  ASSUME ServiceInv, Window = 1, [SNext]_svars
  PROVE  ServiceInv' /\ [Service!ServiceNext]_Service!gvars
<1>1. IndexInv' /\ SlotInv' /\ WireInv'
  BY NextIndexInv, NextSlotInv, NextWireInv DEF ServiceInv
<1>2. (\A d \in Goroutine : PatientInv(d)') /\ [Service!ServiceNext]_Service!gvars
  <2>1. CASE UNCHANGED svars
    <3>1. /\ m' = m /\ call' = call /\ pc' = pc /\ inbox' = inbox /\ replies' = replies
          /\ client' = client /\ sent' = sent
      BY <2>1 DEF svars, wire, peers
    <3>2. \A d \in Goroutine : PatientInv(d)'
      BY <3>1 DEF ServiceInv, PatientInv, Working, Awaited, Message, Garbage, Idle
    <3>3. \A d \in Goroutine : Pending(d)' = Pending(d)
      BY <3>1 DEF Pending, Idle
    <3> QED
      BY <3>1, <3>2, <3>3, ServiceStutter
  <2> QED
    BY <2>1, AcceptorService, ServeService, ClientService DEF SNext
<1> QED
  BY <1>1, <1>2 DEF ServiceInv

LEMMA InitService == SInit => ServiceInv /\ Service!Init
<1> SUFFICES ASSUME SInit PROVE ServiceInv /\ Service!Init
  OBVIOUS
<1>1. IndexInv /\ SlotInv /\ WireInv
  BY InitInv, InitSlotInv, InitWireInv DEF SInit
<1>2. ASSUME NEW c \in Goroutine PROVE PatientInv(c) /\ Pending(c) = Idle
  <2>1. /\ call[c] = Idle /\ pc[c] = "none" /\ inbox[c] = <<>> /\ replies[c] = <<>>
        /\ sent[c] = <<>>
    BY DEF SInit, Init
  <2> QED
    BY <2>1, PendingCases DEF PatientInv, Working
<1>3. Service!Init
  <2>1. [c \in Goroutine |-> Pending(c)] = [c \in Goroutine |-> Idle]
    BY <1>2
  <2>2. [p \in DOMAIN m |-> m[p].deps] = [p \in {} |-> {}]
    BY DEF SInit, Init
  <2> QED
    BY <2>1, <2>2 DEF Service!Init, Service!Idle, Idle
<1> QED
  BY <1>1, <1>2, <1>3 DEF ServiceInv

(* Clients that wait for each response are served as the interface of the  *)
(* index promises, each request at most once and at one moment, with its   *)
(* own answer: however many clients there are, whatever they ask, and      *)
(* whichever connections are refused, time out, break or are closed.       *)
THEOREM ServerImplementsService == Window = 1 => (SSpec => ImplementsService)
<1> SUFFICES ASSUME Window = 1 PROVE SSpec => ImplementsService
  OBVIOUS
<1>1. SInit => ServiceInv /\ Service!Init
  BY InitService
<1>2. ServiceInv /\ [SNext]_svars => ServiceInv' /\ [Service!ServiceNext]_Service!gvars
  BY NextService
<1> QED
  BY <1>1, <1>2, PTL DEF SSpec, ImplementsService, Service!ServiceSpec

=============================================================================
