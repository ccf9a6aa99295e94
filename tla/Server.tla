------------------------------- MODULE Server -------------------------------
(***************************************************************************)
(* server/server.go: the loop of Serve that accepts connections, one       *)
(* goroutine per connection that reads messages, calls the index and       *)
(* responds, and the clients and the TCP connections they depend on.  A    *)
(* connection and its goroutine share a name, from Goroutine.  The index   *)
(* is Index, whose calls are one step.                                     *)
(***************************************************************************)
EXTENDS Index, Sequences

CONSTANTS MaxConns,   \* s.MaxConns
          Messages,   \* bound: how many messages each client sends
          Window,     \* how many unanswered messages a client may have
          Unread      \* how many responses TCP takes that a client does not read

ASSUME ServerAssumption == MaxConns \in Nat /\ Messages \in Nat /\ Unread \in Nat \ {0}

VARIABLES acceptor,     \* where Serve, and main after it, is
          sock,         \* sock[c]: the server's side of connection c
          outstanding,  \* the number of elements in the channel outstanding
          pc,           \* pc[c]: where s.serve(c) is
          net,          \* net[c]: whether TCP still works
          inbox,        \* inbox[c]: the messages the server has not read
          replies,      \* replies[c]: the responses the client has not read
          client,       \* client[c]: the client's side of connection c
          sent,         \* sent[c]: the client's messages without a response
          left          \* left[c]: how many messages the client will still send

conns == <<sock, outstanding>>
wire  == <<net, inbox, replies>>
peers == <<client, sent, left>>
svars == <<m, call, acceptor, conns, pc, wire, peers>>

\* A line that gets an ERROR: parseMessage or the buffer's size rejects it, or
\* its command is none of the three.
Garbage == [op |-> "garbage"]
Message == Calls \cup {Garbage}

SInit == /\ Init
         /\ acceptor = "accept"
         /\ sock = [c \in Goroutine |-> "none"]
         /\ outstanding = 0
         /\ pc = [c \in Goroutine |-> "none"]
         /\ net = [c \in Goroutine |-> "up"]
         /\ inbox = [c \in Goroutine |-> <<>>]
         /\ replies = [c \in Goroutine |-> <<>>]
         /\ client = [c \in Goroutine |-> "none"]
         /\ sent = [c \in Goroutine |-> <<>>]
         /\ left = [c \in Goroutine |-> Messages]

Set(f, c, v) == [f EXCEPT ![c] = v]

Goto(c, l) == pc' = Set(pc, c, l)

Running == acceptor # "exited"

-----------------------------------------------------------------------------
(* Serve.  A client that dials is in the kernel's backlog until AcceptTCP  *)
(* returns its connection.                                                 *)

Accept == /\ acceptor = "accept"
          /\ \E c \in Goroutine : /\ sock[c] = "backlog"
                                  /\ sock' = Set(sock, c, "accepted")
          /\ acceptor' = "select"
          /\ UNCHANGED <<m, call, outstanding, pc, wire, peers>>

\* A temporary error: time.Sleep(s.AcceptDelay), then AcceptTCP again.
AcceptTemporary == /\ acceptor = "accept"
                   /\ acceptor' = "delay"
                   /\ UNCHANGED <<m, call, conns, pc, wire, peers>>

AcceptAgain == /\ acceptor = "delay"
               /\ acceptor' = "accept"
               /\ UNCHANGED <<m, call, conns, pc, wire, peers>>

AcceptFails == /\ acceptor = "accept"
               /\ acceptor' = "failed"
               /\ UNCHANGED <<m, call, conns, pc, wire, peers>>

\* main ends the process; goroutines run on until then.
Exit == /\ acceptor = "failed"
        /\ acceptor' = "exited"
        /\ UNCHANGED <<m, call, conns, pc, wire, peers>>

\* Mutant: one connection too many.
SpawnOneMore(c) == /\ acceptor = "select"
                   /\ sock[c] = "accepted"
                   /\ outstanding <= MaxConns
                   /\ outstanding' = outstanding + 1
                   /\ sock' = Set(sock, c, "open")
                   /\ Goto(c, "read")
                   /\ acceptor' = "accept"
                   /\ UNCHANGED <<m, call, wire, peers>>

Spawn(c) == /\ acceptor = "select"
            /\ sock[c] = "accepted"
            /\ outstanding < MaxConns
            /\ outstanding' = outstanding + 1
            /\ sock' = Set(sock, c, "open")
            /\ Goto(c, "read")
            /\ acceptor' = "accept"
            /\ UNCHANGED <<m, call, wire, peers>>

\* Mutant: a connection too many is dropped but not closed.
RefuseSilently(c) == /\ acceptor = "select"
                     /\ sock[c] = "accepted"
                     /\ outstanding >= MaxConns
                     /\ acceptor' = "accept"
                     /\ UNCHANGED <<m, call, conns, pc, wire, peers>>

Refuse(c) == /\ acceptor = "select"
             /\ sock[c] = "accepted"
             /\ outstanding >= MaxConns
             /\ sock' = Set(sock, c, "closed")
             /\ inbox' = Set(inbox, c, <<>>)
             /\ acceptor' = "accept"
             /\ UNCHANGED <<m, call, outstanding, pc, net, replies, peers>>

Acceptor == \/ Accept \/ AcceptTemporary \/ AcceptAgain \/ AcceptFails \/ Exit
            \/ \E c \in Goroutine : Spawn(c) \/ Refuse(c)

-----------------------------------------------------------------------------
(* serve: reading.  readMessage takes the first line, and with it whatever *)
(* else had arrived in its buffer: that is thrown away, so of the lines    *)
(* behind it any number may be gone and the next be cut in two.            *)

\* What a line can be taken for when its beginning is gone: a request leaves
\* no request (WireFormat), another line may leave anything.
Cut(msg) == IF msg = Garbage THEN Message ELSE {Garbage}

Rests(s) == LET T == {SubSeq(s, i, Len(s)) : i \in 2..Len(s) + 1}
            IN T \cup UNION {{<<x>> \o Tail(t) : x \in Cut(Head(t))} : t \in T \ {<<>>}}

Reading(c) == Running /\ pc[c] = "read"

ReadRequest(c) ==
  /\ Reading(c)
  /\ inbox[c] # <<>>
  /\ Head(inbox[c]) \in Calls
  /\ call' = Set(call, c, CallOf(Head(inbox[c]), "pending"))
  /\ \E rest \in Rests(inbox[c]) : inbox' = Set(inbox, c, rest)
  /\ Goto(c, "call")
  /\ UNCHANGED <<m, acceptor, conns, net, replies, peers>>

\* An error from readMessage that is not a net.Error, or a command that is
\* none of the three: the response is ERROR either way.
ReadBad(c) ==
  /\ Reading(c)
  /\ inbox[c] # <<>>
  /\ Head(inbox[c]) = Garbage
  /\ \E rest \in Rests(inbox[c]) : inbox' = Set(inbox, c, rest)
  /\ Goto(c, "respond")
  /\ UNCHANGED <<m, call, acceptor, conns, net, replies, peers>>

\* The client closed its side, or the connection has reported its error.
ReadEOF(c) ==
  /\ Reading(c)
  /\ inbox[c] = <<>>
  /\ net[c] = "dead" \/ (net[c] = "up" /\ client[c] = "closed")
  /\ Goto(c, "close")
  /\ UNCHANGED <<m, call, acceptor, conns, wire, peers>>

\* Mutant: serve returns without running its deferred function.
ReadTimeoutReturns(c) ==
  /\ Reading(c)
  /\ Goto(c, "done")
  /\ UNCHANGED <<m, call, acceptor, conns, wire, peers>>

\* Mutant: a timeout is taken for a temporary error, and serve reads on.
ReadTimeoutContinues(c) ==
  /\ Reading(c)
  /\ Goto(c, "delay")
  /\ UNCHANGED <<m, call, acceptor, conns, wire, peers>>

\* The deadline passes; Go then fails the read even if a line has arrived.
ReadTimeout(c) ==
  /\ Reading(c)
  /\ Goto(c, "close")
  /\ UNCHANGED <<m, call, acceptor, conns, wire, peers>>

\* The connection was reset: the read reports it, once, as an error that is
\* temporary or not (Go releases differ), and what had arrived is lost.
ReadError(c) ==
  /\ Reading(c)
  /\ net[c] = "reset"
  /\ net' = Set(net, c, "dead")
  /\ inbox' = Set(inbox, c, <<>>)
  /\ Goto(c, "delay") \/ Goto(c, "respond")
  /\ UNCHANGED <<m, call, acceptor, conns, replies, peers>>

\* time.Sleep(s.ConnReadDelay)
Wake(c) == /\ Running
           /\ pc[c] = "delay"
           /\ Goto(c, "read")
           /\ UNCHANGED <<m, call, acceptor, conns, wire, peers>>

CallIndex(c) == /\ Running
                /\ pc[c] = "call"
                /\ Execute(c)
                /\ Goto(c, "respond")
                /\ UNCHANGED <<acceptor, conns, wire, peers>>

-----------------------------------------------------------------------------
(* serve: responding and closing.  respond logs a failed write and returns *)
(* nothing, so whatever it does the loop goes on to read.                  *)

\* Mutant: ERROR for a call that returned false.
ResponseError(c) == IF call[c] = Idle \/ call[c].ok # "true" THEN "ERROR" ELSE "OK"

Response(c) == IF call[c] = Idle THEN "ERROR"
               ELSE IF call[c].ok = "true" THEN "OK" ELSE "FAIL"

Responding(c) == /\ Running
                 /\ pc[c] = "respond"
                 /\ call' = Set(call, c, Idle)
                 /\ Goto(c, "read")
                 /\ UNCHANGED <<m, acceptor, conns, inbox, peers>>

\* Mutant: after the ERROR for an unknown command serve falls through to FAIL.
RespondTwice(c) ==
  /\ Responding(c)
  /\ net[c] = "up"
  /\ client[c] = "open"
  /\ Len(replies[c]) < Unread
  /\ replies' = Set(replies, c, replies[c] \o
                      IF call[c] = Idle THEN <<"ERROR", "FAIL">> ELSE <<Response(c)>>)
  /\ UNCHANGED net

Respond(c) == /\ Responding(c)
              /\ net[c] = "up"
              /\ client[c] = "open"
              /\ Len(replies[c]) < Unread
              /\ replies' = Set(replies, c, Append(replies[c], Response(c)))
              /\ UNCHANGED net

\* The client does not read and TCP can take no more.
WriteTimeout(c) == /\ Responding(c)
                   /\ net[c] = "up"
                   /\ client[c] = "open"
                   /\ Len(replies[c]) >= Unread
                   /\ UNCHANGED <<net, replies>>

\* Nobody is there: a client that has closed answers with a reset, and a
\* connection that was reset fails the write, which uses up its error.
WriteLost(c) == /\ Responding(c)
                /\ net[c] # "up" \/ client[c] = "closed"
                /\ net' = Set(net, c, IF net[c] = "up" THEN "reset" ELSE "dead")
                /\ UNCHANGED replies

\* Mutant: the slot is given back but the connection stays open.
CloseForgotten(c) == /\ Running
                     /\ pc[c] = "close"
                     /\ Goto(c, "release")
                     /\ UNCHANGED <<m, call, acceptor, conns, wire, peers>>

\* conn.Close: if lines were not read TCP resets the connection, and the
\* client may lose responses it had not read.
Close(c) == /\ Running
            /\ pc[c] = "close"
            /\ sock' = Set(sock, c, "closed")
            /\ \/ UNCHANGED replies
               \/ inbox[c] # <<>> /\ replies' = Set(replies, c, <<>>)
            /\ inbox' = Set(inbox, c, <<>>)
            /\ Goto(c, "release")
            /\ UNCHANGED <<m, call, acceptor, outstanding, net, peers>>

\* <-outstanding
Release(c) == /\ Running
              /\ pc[c] = "release"
              /\ outstanding' = outstanding - 1
              /\ Goto(c, "done")
              /\ UNCHANGED <<m, call, acceptor, sock, wire, peers>>

Serve(c) == \/ ReadRequest(c) \/ ReadBad(c) \/ ReadEOF(c) \/ ReadTimeout(c)
            \/ ReadError(c) \/ Wake(c) \/ CallIndex(c)
            \/ Respond(c) \/ WriteTimeout(c) \/ WriteLost(c) \/ Close(c) \/ Release(c)

-----------------------------------------------------------------------------
(* The clients, and the network between.                                   *)

Dial(c) == /\ Running
           /\ client[c] = "none"
           /\ client' = Set(client, c, "open")
           /\ sock' = Set(sock, c, "backlog")
           /\ UNCHANGED <<m, call, acceptor, outstanding, pc, wire, sent, left>>

\* A line sent to a connection the server has closed goes nowhere.
Send(c) == /\ client[c] = "open"
           /\ left[c] > 0
           /\ Len(sent[c]) < Window
           /\ left' = Set(left, c, left[c] - 1)
           /\ \E msg \in Message :
                /\ sent' = Set(sent, c, Append(sent[c], msg))
                /\ inbox' = IF sock[c] = "closed" THEN inbox
                            ELSE Set(inbox, c, Append(inbox[c], msg))
           /\ UNCHANGED <<m, call, acceptor, conns, pc, net, replies, client>>

Receive(c) == /\ client[c] = "open"
              /\ replies[c] # <<>>
              /\ replies' = Set(replies, c, Tail(replies[c]))
              /\ sent' = Set(sent, c, Tail(sent[c]))
              /\ UNCHANGED <<m, call, acceptor, conns, pc, net, inbox, client, left>>

\* The client closes, and with responses unread that resets the connection.
HangUp(c) == /\ client[c] = "open"
             /\ client' = Set(client, c, "closed")
             /\ net' = IF replies[c] # <<>> /\ net[c] = "up" THEN Set(net, c, "reset") ELSE net
             /\ replies' = Set(replies, c, <<>>)
             /\ UNCHANGED <<m, call, acceptor, conns, pc, inbox, sent, left>>

\* The connection breaks under both of them.
Break(c) == /\ client[c] = "open"
            /\ net[c] = "up"
            /\ client' = Set(client, c, "closed")
            /\ net' = Set(net, c, "reset")
            /\ replies' = Set(replies, c, <<>>)
            /\ UNCHANGED <<m, call, acceptor, conns, pc, inbox, sent, left>>

Client(c) == Dial(c) \/ Send(c) \/ Receive(c) \/ HangUp(c) \/ Break(c)

SNext == Acceptor \/ \E c \in Goroutine : Serve(c) \/ Client(c)

SSpec == SInit /\ [][SNext]_svars

\* Go keeps running every goroutine that can run, and the deadline of a read
\* that finds nothing does pass.  Temporary accept errors do not go on for
\* ever while clients wait: what Temporary() means, and why Accept is strong.
SFairSpec == /\ SSpec
             /\ \A c \in Goroutine : /\ WF_svars(Serve(c))
                                     /\ WF_svars(Spawn(c) \/ Refuse(c))
             /\ SF_svars(Accept)
             /\ WF_svars(AcceptAgain)
             /\ WF_svars(Exit)

-----------------------------------------------------------------------------

STypeOK ==
  /\ TypeOK
  /\ acceptor \in {"accept", "delay", "select", "failed", "exited"}
  /\ sock \in [Goroutine -> {"none", "backlog", "accepted", "open", "closed"}]
  /\ outstanding \in 0..MaxConns
  /\ pc \in [Goroutine -> {"none", "read", "delay", "call", "respond",
                           "close", "release", "done"}]
  /\ net \in [Goroutine -> {"up", "reset", "dead"}]
  /\ \A c \in Goroutine : /\ inbox[c] \in Seq(Message)
                          /\ replies[c] \in Seq({"OK", "FAIL", "ERROR"})
                          /\ sent[c] \in Seq(Message)
  /\ client \in [Goroutine -> {"none", "open", "closed"}]
  /\ left \in [Goroutine -> 0..Messages]

\* The goroutines of serve that have not returned yet.
Serving == {c \in Goroutine : pc[c] \notin {"none", "done"}}

\* Every way out of serve gives back the slot that Serve took for it, exactly
\* once: after any mix of refusals, timeouts, resets and hang-ups the slots in
\* use are those of the goroutines that run.
SlotsExact == outstanding = Cardinality(Serving)

\* The server never holds more than MaxConns connections open, besides the
\* one that Serve has just accepted: a connection is closed before its slot
\* can go to the next.
ConnsBounded == Cardinality({c \in Goroutine : sock[c] = "open"}) <= MaxConns

\* Clients are never sent a response too many, even those that do not wait
\* for one before they send again: what a client has not received an answer
\* to covers the responses on their way, the message the server works on and
\* those it has still to read.
NoExtraResponse ==
  \A c \in Goroutine :
    client[c] = "open" /\ net[c] = "up" =>
      Len(replies[c]) + Len(inbox[c]) + (IF pc[c] \in {"call", "respond"} THEN 1 ELSE 0)
        <= Len(sent[c])

\* What a client that waits for each response has under way, from the moment
\* it sends a request until it receives the response or one of the two ends
\* loses the connection.
Pending(c) ==
  LET answer == [OK |-> "true", FAIL |-> "false", ERROR |-> "error"]
      request == Head(sent[c])
      reply   == Head(replies[c])
  IN CASE replies[c] # <<>> ->
            IF request \in Calls THEN CallOf(request, answer[reply])
            ELSE IF reply = "ERROR" THEN Idle ELSE [op |-> "nonsense"]
       [] replies[c] = <<>> /\ call[c] # Idle -> call[c]
       [] replies[c] = <<>> /\ call[c] = Idle /\ inbox[c] # <<>> ->
            IF Head(inbox[c]) \in Calls THEN CallOf(Head(inbox[c]), "pending") ELSE Idle
       [] OTHER -> Idle

Service == INSTANCE PackageService WITH
             graph <- [p \in DOMAIN m |-> m[p].deps],
             call  <- [c \in Goroutine |-> Pending(c)]

\* From where the clients sit (Window = 1): each request is carried out at most
\* once and at one moment between sending it and receiving its response, the
\* response is the one to that request, a request is never answered ERROR nor
\* anything else OK or FAIL, and what fails on the way costs the client its
\* answer or its request, never another's.
ImplementsService == Service!ServiceSpec

\* A connection whose client falls silent or leaves gives its slot back, no
\* matter where its goroutine was.
SlotReturned ==
  \A c \in Goroutine :
    (pc[c] # "none" /\ (left[c] = 0 \/ client[c] = "closed")) ~> (pc[c] = "done" \/ ~Running)

\* A client that waits for a response gets one, or its connection is closed,
\* as long as the process runs: it is never left hanging in the backlog, in
\* the server's loop, or behind a message the server has lost.
ClientAnswered ==
  \A c \in Goroutine :
    (client[c] = "open" /\ sent[c] # <<>>) ~>
      (replies[c] # <<>> \/ client[c] = "closed" \/ sock[c] = "closed" \/ ~Running)

\* server.go:42-43: "If the client does not accept a response for longer than
\* this the server will close the connection."
WriteTimeoutCloses == [][\A c \in Goroutine : WriteTimeout(c) => pc'[c] = "close"]_svars

=============================================================================
