------------------------------ MODULE TestRun -------------------------------
(***************************************************************************)
(* test-suite/test_run.go and client.go: the five steps of a test run,     *)
(* each with one client per segment of the package list, the wait group    *)
(* between them and the responses that come late, against a server that    *)
(* carries out what it reads as DependencyGraph promises.                  *)
(***************************************************************************)
EXTENDS DependencyGraph, Segments, FiniteSets

CONSTANTS List,          \* the packages, in the order of the list
          Deps,          \* Deps[p]: the dependencies of p
          Concurrency,   \* t.ConcurrencyLevel
          Unlucky,       \* whether t.Unluckiness is above 0
          MaxConns,      \* the server's limit on connections
          Faults         \* bound: how many deadlines pass too early and connections break

\* A goroutine, its connection and the server's goroutine for it are named by
\* the step it belongs to and its segment.
ASSUME TestRunAssumption ==
  /\ Concurrency \in Nat \ {0} /\ MaxConns \in Nat /\ Faults \in Nat
  /\ List \in Seq(Package) /\ ~DividesByZero(List, Concurrency)
  /\ Deps \in [Package -> SUBSET Package]
  /\ Goroutine = (1..5) \X (1..Concurrency)
  /\ \A p \in Package : /\ [op |-> "Index", pkg |-> p, deps |-> Deps[p]] \in Calls
                        /\ \A o \in {"Remove", "Query"} : [op |-> o, pkg |-> p, deps |-> {}] \in Calls

VARIABLES step,      \* the step main is in, 6 after the last
          main,      \* "start" or, in t.waiting.Wait(), "wait"
          waiting,   \* the counter of t.waiting
          exit,      \* "no", or how the process ended: "end" or "fail"
          at,        \* at[c]: where the goroutine of client c is
          pos,       \* pos[c]: the package of its segment it is at
          hits,      \* hits[c]: how many were answered OK in this pass
          net,       \* net[c]: the connection, "none", "up" or "down"
          held,      \* the connections that hold a slot of the server
          inbox,     \* inbox[c]: what the server has not read
          replies,   \* replies[c]: what the client has not read
          faults     \* how many faults there have been

\* The status of the process: what Fail hands to os.Exit, or 0 where main returns.
Status == CASE exit = "fail" -> 0
            [] exit = "end"  -> 0

control == <<step, main, waiting>>
loop    == <<at, pos, hits>>
tvars   == <<graph, call, control, exit, loop, net, held, inbox, replies, faults>>

Set(f, c, v) == [f EXCEPT ![c] = v]

Goto(c, l) == at' = Set(at, c, l)

\* MakeBrokenMessage: rejected by the server, whichever it is.
Broken == [op |-> "broken"]

\* The operation of each step.
Op(c) == <<"Remove", "Index", "Query", "Remove", "Query">>[c[1]]

Segmented == SegmentListPackages(List, Concurrency)

Packages(c) == Segmented[c[2]]

\* The message for the package that client c is at.
Message(c) == LET p == Packages(c)[pos[c]]
               IN [op |-> Op(c), pkg |-> p, deps |-> IF Op(c) = "Index" THEN Deps[p] ELSE {}]

\* An earlier run that failed may have left packages in the index.
TInit == /\ \E S \in SUBSET Package :
              /\ \A p \in S : Deps[p] \subseteq S
              /\ graph = [p \in S |-> Deps[p]]
         /\ call = [c \in Goroutine |-> Idle]
         /\ step = 1
         /\ main = "start"
         /\ waiting = 0
         /\ exit = "no"
         /\ at = [c \in Goroutine |-> "none"]
         /\ pos = [c \in Goroutine |-> 1]
         /\ hits = [c \in Goroutine |-> 0]
         /\ net = [c \in Goroutine |-> "none"]
         /\ held = {}
         /\ inbox = [c \in Goroutine |-> <<>>]
         /\ replies = [c \in Goroutine |-> <<>>]
         /\ faults = 0

-----------------------------------------------------------------------------
(* Run and the functions concurrent... that it calls.                      *)

\* Mutant: the wait group counts one client too few.
StartStepFew ==
  /\ exit = "no" /\ main = "start" /\ step <= 5
  /\ waiting' = waiting + Concurrency - 1
  /\ at' = [c \in Goroutine |-> IF c[1] = step /\ c[2] \in DOMAIN Segmented THEN "dial" ELSE at[c]]
  /\ main' = "wait"
  /\ UNCHANGED <<graph, call, step, exit, pos, hits, net, held, inbox, replies, faults>>

\* t.waiting.Add, and a goroutine for each segment.
StartStep ==
  /\ exit = "no" /\ main = "start" /\ step <= 5
  /\ waiting' = waiting + Concurrency
  /\ at' = [c \in Goroutine |-> IF c[1] = step /\ c[2] \in DOMAIN Segmented THEN "dial" ELSE at[c]]
  /\ main' = "wait"
  /\ UNCHANGED <<graph, call, step, exit, pos, hits, net, held, inbox, replies, faults>>

WaitReturns ==
  /\ exit = "no" /\ main = "wait" /\ waiting = 0
  /\ step' = step + 1
  /\ main' = "start"
  /\ UNCHANGED <<graph, call, waiting, exit, loop, net, held, inbox, replies, faults>>

\* After the last step Run returns, and main after it.
RunReturns ==
  /\ exit = "no" /\ main = "start" /\ step = 6
  /\ exit' = "end"
  /\ UNCHANGED <<graph, call, control, loop, net, held, inbox, replies, faults>>

Main == StartStep \/ WaitReturns \/ RunReturns

-----------------------------------------------------------------------------
(* A client's goroutine.                                                   *)

Active(c, l) == exit = "no" /\ at[c] = l

\* The server closes the connection at once if all its slots are taken.
Dial(c) ==
  /\ Active(c, "dial")
  /\ IF Cardinality(held) < MaxConns
       THEN net' = Set(net, c, "up") /\ held' = held \cup {c}
       ELSE net' = Set(net, c, "down") /\ UNCHANGED held
  /\ Goto(c, "roll")
  /\ UNCHANGED <<graph, call, control, exit, pos, hits, inbox, replies, faults>>

Put(c, msg) == inbox' = IF net[c] = "up" THEN Set(inbox, c, Append(inbox[c], msg)) ELSE inbox

\* Mutant: the response to a broken message is left to be read by another Send.
SendBrokenOnly(c) ==
  /\ Active(c, "roll")
  /\ Unlucky /\ Op(c) = "Index"
  /\ Put(c, Broken)
  /\ Goto(c, "send")
  /\ UNCHANGED <<graph, call, control, exit, pos, hits, net, held, replies, faults>>

\* While indexing, something bad may happen before the message.
SendBroken(c) ==
  /\ Active(c, "roll")
  /\ Unlucky /\ Op(c) = "Index"
  /\ Put(c, Broken)
  /\ Goto(c, "awaitBroken")
  /\ UNCHANGED <<graph, call, control, exit, pos, hits, net, held, replies, faults>>

SendRequest(c) ==
  /\ Active(c, "roll") \/ Active(c, "send")
  /\ Put(c, Message(c))
  /\ Goto(c, "await")
  /\ UNCHANGED <<graph, call, control, exit, pos, hits, net, held, replies, faults>>

InSend(c) == Active(c, "await") \/ Active(c, "awaitBroken")

Expected(c) == IF c[1] = 3 THEN "OK" ELSE "FAIL"

\* Mutant: removing goes on when Send fails, as indexing does.
FailsNotRemoving(c, r) ==
  \/ at[c] = "awaitBroken" /\ r # "ERROR"
  \/ at[c] = "await" /\ Op(c) = "Query" /\ r # Expected(c)

\* Whether the goroutine calls t.Fail on what Send returned.
Fails(c, r) ==
  \/ at[c] = "awaitBroken" /\ r # "ERROR"
  \/ at[c] = "await" /\ Op(c) = "Remove" /\ r = "err"
  \/ at[c] = "await" /\ Op(c) = "Query" /\ r # Expected(c)

\* Mutant: every loop is left after its first pass.
NextPackageOnce(c, r) ==
  IF pos[c] < Len(Packages(c))
  THEN pos' = Set(pos, c, pos[c] + 1) /\ UNCHANGED hits /\ Goto(c, "roll")
  ELSE pos' = Set(pos, c, 1) /\ UNCHANGED hits /\ Goto(c, "close")

\* The loop goes on to the next package, starts over if not all the packages
\* of the pass were answered OK, or is done.
NextPackage(c, r) ==
  LET n    == Len(Packages(c))
      hit  == hits[c] + (IF r = "OK" THEN 1 ELSE 0)
      pass == Op(c) = "Query" \/ hit = n
  IN IF pos[c] < n
     THEN pos' = Set(pos, c, pos[c] + 1) /\ hits' = Set(hits, c, hit) /\ Goto(c, "roll")
     ELSE /\ pos' = Set(pos, c, 1)
          /\ hits' = Set(hits, c, 0)
          /\ Goto(c, IF pass THEN "close" ELSE "roll")

\* What follows when Send returns r.  Fail ends the process.
SendReturns(c, r) ==
  IF Fails(c, r) THEN exit' = "fail" /\ UNCHANGED loop
  ELSE /\ UNCHANGED exit
       /\ IF at[c] = "awaitBroken" THEN Goto(c, "send") /\ UNCHANGED <<pos, hits>>
          ELSE NextPackage(c, r)

\* What is left of s when its first element is read into a buffer and the
\* buffer thrown away: what had arrived behind it is gone.
Behind(s) == {SubSeq(s, i, Len(s)) : i \in 2..Len(s) + 1}

\* The same when the last that had arrived was not whole.
CutBehind(s, x) == {<<x>> \o Tail(t) : t \in Behind(s) \ {<<>>}}

\* Whole lines and responses arrive; one that is cut in two is a fault.
Unread(s, x, rest) ==
  \/ rest \in Behind(s) /\ UNCHANGED faults
  \/ rest \in CutBehind(s, x) /\ faults < Faults /\ faults' = faults + 1

\* Send makes a reader for each response and throws it away.
Receive(c) ==
  /\ InSend(c)
  /\ replies[c] # <<>>
  /\ SendReturns(c, Head(replies[c]))
  /\ \E rest \in Behind(replies[c]) \cup CutBehind(replies[c], "err") :
       replies' = Set(replies, c, rest) /\ Unread(replies[c], "err", rest)
  /\ UNCHANGED <<graph, call, control, net, held, inbox>>

\* The connection was refused or has broken.
SendFails(c) ==
  /\ InSend(c)
  /\ net[c] = "down" /\ replies[c] = <<>>
  /\ SendReturns(c, "err")
  /\ UNCHANGED <<graph, call, control, net, held, inbox, replies, faults>>

\* Nothing is on its way to client c.
Lost(c) == net[c] = "up" /\ inbox[c] = <<>> /\ call[c] = Idle /\ replies[c] = <<>>

\* Ten seconds pass: for want of a response, or before it comes.
Timeout(c) ==
  /\ InSend(c)
  /\ net[c] = "up"
  /\ IF Lost(c) THEN UNCHANGED faults ELSE faults < Faults /\ faults' = faults + 1
  /\ SendReturns(c, "err")
  /\ UNCHANGED <<graph, call, control, net, held, inbox, replies>>

\* Mutant: a client that goes on where Wait should have been told.
CloseNotDone(c) ==
  /\ Active(c, "close")
  /\ Goto(c, "done")
  /\ net' = Set(net, c, IF replies[c] = <<>> THEN net[c] ELSE "down")
  /\ replies' = Set(replies, c, <<>>)
  /\ UNCHANGED <<graph, call, control, exit, pos, hits, held, inbox, faults>>

\* The deferred calls: client.Close, which resets a connection on which
\* something is unread, and t.waiting.Done.
Close(c) ==
  /\ Active(c, "close")
  /\ Goto(c, "done")
  /\ waiting' = waiting - 1
  /\ net' = Set(net, c, IF replies[c] = <<>> THEN net[c] ELSE "down")
  /\ replies' = Set(replies, c, <<>>)
  /\ UNCHANGED <<graph, call, step, main, exit, pos, hits, held, inbox, faults>>

Client(c) == \/ Dial(c) \/ SendBroken(c) \/ SendRequest(c)
             \/ Receive(c) \/ SendFails(c) \/ Timeout(c) \/ Close(c)

\* The connection breaks, and what was on its way may be lost.
Break(c) ==
  /\ exit = "no" /\ at[c] \notin {"none", "dial", "done"}
  /\ net[c] = "up"
  /\ faults < Faults /\ faults' = faults + 1
  /\ net' = Set(net, c, "down")
  /\ \E f \in {replies[c], <<>>} : replies' = Set(replies, c, f)
  /\ UNCHANGED <<graph, call, control, exit, loop, held, inbox>>

-----------------------------------------------------------------------------
(* The server, as its own modules have it.                                 *)

\* A response to a client that has closed its side resets the connection.
Reply(c, r) ==
  IF net[c] = "up" /\ at[c] # "done"
  THEN replies' = Set(replies, c, Append(replies[c], r)) /\ UNCHANGED net
  ELSE UNCHANGED replies /\ net' = Set(net, c, "down")

ServerReads(c) ==
  /\ c \in held /\ ~Busy(c)
  /\ inbox[c] # <<>>
  /\ \E rest \in Behind(inbox[c]) \cup CutBehind(inbox[c], Broken) :
       inbox' = Set(inbox, c, rest) /\ Unread(inbox[c], Broken, rest)
  /\ IF Head(inbox[c]) = Broken
       THEN Reply(c, "ERROR") /\ UNCHANGED call
       ELSE /\ call' = Set(call, c, CallOf(Head(inbox[c]), "pending"))
            /\ UNCHANGED <<net, replies>>
  /\ UNCHANGED <<graph, control, exit, loop, held>>

ServerExecutes(c) ==
  /\ Index(c) \/ Remove(c) \/ Query(c)
  /\ UNCHANGED <<control, exit, loop, net, held, inbox, replies, faults>>

ServerResponds(c) ==
  /\ Return(c)
  /\ Reply(c, IF call[c].ok = "true" THEN "OK" ELSE "FAIL")
  /\ UNCHANGED <<graph, control, exit, loop, held, inbox, faults>>

\* The server notices that the client is gone and gives the slot back.
ServerReleases(c) ==
  /\ c \in held /\ ~Busy(c)
  /\ net[c] = "down" \/ (at[c] = "done" /\ inbox[c] = <<>>)
  /\ held' = held \ {c}
  /\ inbox' = Set(inbox, c, <<>>)
  /\ UNCHANGED <<graph, call, control, exit, loop, net, replies, faults>>

Server(c) == ServerReads(c) \/ ServerExecutes(c) \/ ServerResponds(c) \/ ServerReleases(c)

TNext == Main \/ \E c \in Goroutine : Client(c) \/ Break(c) \/ Server(c)

TSpec == TInit /\ [][TNext]_tvars

\* Goroutines that can run do run, in both processes, and deadlines pass.
TFairSpec == /\ TSpec
             /\ WF_tvars(Main)
             /\ \A c \in Goroutine : WF_tvars(Client(c)) /\ WF_tvars(Server(c))

-----------------------------------------------------------------------------

TTypeOK ==
  /\ call \in [Goroutine -> Call]
  /\ Indexed \subseteq Package
  /\ step \in 1..6
  /\ main \in {"start", "wait"}
  /\ waiting \in 0..Concurrency
  /\ exit \in {"no", "end", "fail"}
  /\ at \in [Goroutine -> {"none", "dial", "roll", "send", "await", "awaitBroken", "close", "done"}]
  /\ pos \in [Goroutine -> 1..Len(List)]
  /\ hits \in [Goroutine -> 0..Len(List)]
  /\ net \in [Goroutine -> {"none", "up", "down"}]
  /\ held \subseteq Goroutine
  /\ \A c \in Goroutine : /\ inbox[c] \in Seq(Calls \cup {Broken})
                          /\ replies[c] \in Seq({"OK", "FAIL", "ERROR", "err"})
  /\ faults \in 0..Faults

\* The clients that have not called Done.
Running == {c \in Goroutine : at[c] \notin {"none", "done"}}

\* A step begins only when every client of the step before has left its loop:
\* the counter of the wait group, which all steps share, is that of the clients
\* under way and of the goroutines that were counted but never started.
StepsApart ==
  /\ waiting = Cardinality(Running)
                 + (IF main = "wait" THEN Concurrency - Len(Segmented) ELSE 0)
  /\ \A c \in Running : c[1] = step /\ main = "wait"

\* A server with a slot for each client of a step refuses one only for the sake
\* of a client that has left, whose slot it has not yet given back.
RefusedForGone ==
  MaxConns >= Concurrency =>
    \A c \in Goroutine : Active(c, "dial") /\ Cardinality(held) >= MaxConns =>
      \E d \in held : at[d] = "done"

\* The messages of client c whose responses it has not read.
Outstanding(c) == Len(inbox[c]) + (IF Busy(c) THEN 1 ELSE 0) + Len(replies[c])

\* A client takes late responses for those to later messages, but it is behind
\* by no more of them than deadlines passed early and connections broke: without
\* either, each response that Send returns is the response to its message.
LateByFaults ==
  \A c \in Goroutine : at[c] # "done" =>
    Outstanding(c) <= faults + (IF at[c] \in {"await", "awaitBroken"} THEN 1 ELSE 0)

\* The run complains of a server that does what it promises only after a
\* deadline that passed too early, or a connection that broke or was refused.
NoFalseAlarm == exit = "fail" => faults > 0 \/ \E c \in Goroutine : net[c] = "down"

InList(p) == \E i \in DOMAIN List : List[i] = p

\* When step 3 is over every package of the list is indexed, whatever deadlines
\* and connections did: an INDEX that is carried out late can do no harm.
IndexVerified == step = 4 /\ main = "start" => \A p \in Package : InList(p) => p \in Indexed

\* At the end of the run none is, unless a deadline passed early or a connection
\* broke: an INDEX may then still be on its way.
RemovalVerified == exit = "end" /\ faults = 0 => \A p \in Indexed : ~InList(p)

\* A client that took late responses for those to later messages, and left its
\* loop with a package of its own still to be indexed, or removed.
LeftBehind(c) ==
  /\ at[c] = "done" /\ c[1] = step
  /\ \E i \in DOMAIN Packages(c) : \/ Op(c) = "Index" /\ Packages(c)[i] \notin Indexed
                                   \/ Op(c) = "Remove" /\ Packages(c)[i] \in Indexed

\* The run comes to its end, with the packages spread over the clients in any
\* way and late responses taken for others, but for three ways in which the
\* suite can wait forever: the wait group counts clients that were not started,
\* a client without a connection goes on indexing, or one has left behind a
\* package that stops the others.
RunEnds == <>[](\/ exit # "no"
                \/ Len(Segmented) < Concurrency
                \/ \E c \in Running : Op(c) = "Index" /\ net[c] = "down"
                \/ \E c \in Goroutine : LeftBehind(c))

\* "Fail fails the test": a status of 0, on which run.sh calls the image
\* shippable, says that all five steps were taken.
SuccessMeansVerified == exit # "no" /\ Status = 0 => step = 6

\* "A positive value indicating how many concurrent clients to use": with any,
\* the run ends if no deadline passes early and no connection breaks.
AnyConcurrency == <>(exit # "no")

=============================================================================
