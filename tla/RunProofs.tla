------------------------------ MODULE RunProofs ------------------------------
(***************************************************************************)
(* Theorems about TestRun, for every list of packages, number of clients,  *)
(* limit on connections and number of faults: what the wait group keeps    *)
(* apart, what a run has verified when it comes to its end, and what it    *)
(* does not complain of.                                                   *)
(***************************************************************************)
EXTENDS TestRun, OperatorProofs, FiniteSetTheorems

\* Where a client is that has not called Done.
Live   == {"dial", "roll", "send", "await", "awaitBroken", "close"}
Labels == Live \cup {"none", "done"}

\* A client runs in its own step and while main waits for it, and has not been
\* started before.
PlaceInv(c) == /\ at[c] \in Live => c[1] = step /\ main = "wait"
               /\ c[1] > step \/ (c[1] = step /\ main = "start") => at[c] = "none"

StepInv == /\ at \in [Goroutine -> Labels]
           /\ step \in 1..6
           /\ main \in {"start", "wait"}
           /\ main = "wait" => step <= 5
           /\ \A c \in Goroutine : PlaceInv(c)
           /\ IsFiniteSet(Running)
           /\ waiting = Cardinality(Running)
                          + (IF main = "wait" THEN Concurrency - Len(Segmented) ELSE 0)

-----------------------------------------------------------------------------

(* There is at least one segment, and none without a client.               *)
LEMMA SegmentCount ==
  /\ Len(Segmented) \in 1..Concurrency
  /\ DOMAIN Segmented = 1..Len(Segmented)
<1>1. List # <<>> /\ List \in Seq(Package) /\ Concurrency \in Nat \ {0}
  BY TestRunAssumption DEF DividesByZero
<1>2. Len(Segmented) \in 1..Concurrency
  BY <1>1, SegmentsFollow, SMTT(30) DEF Segmented
<1>3. DOMAIN Segmented = 1..Len(Segmented)
  BY <1>1, <1>2 DEF Segmented, SegmentListPackages, Clamp
<1> QED
  BY <1>2, <1>3

LEMMA RunningIs == StepInv => Running = {c \in Goroutine : at[c] \in Live}
BY DEF StepInv, Running, Live, Labels

LEMMA InitStepInv == TInit => StepInv
<1> SUFFICES ASSUME TInit PROVE StepInv
  OBVIOUS
<1>1. Running = {}
  BY DEF TInit, Running
<1>2. IsFiniteSet(Running) /\ Cardinality(Running) = 0
  BY <1>1, FS_EmptySet
<1> QED
  BY <1>2 DEF TInit, StepInv, PlaceInv, Labels, Live

LEMMA UnchangedStepInv ==
  ASSUME StepInv, UNCHANGED <<control, at>>
  PROVE  StepInv'
BY DEF StepInv, PlaceInv, Running, control

(* A step of a client that stays in its loop.                              *)
LEMMA LoopStepInv ==
  ASSUME StepInv, NEW c \in Goroutine, at[c] \in Live,
         UNCHANGED at \/ \E l \in Live : Goto(c, l),
         UNCHANGED control
  PROVE  StepInv'
<1>1. CASE UNCHANGED at
  BY <1>1, UnchangedStepInv
<1>2. ASSUME NEW l \in Live, Goto(c, l) PROVE StepInv'
  <2>1. at' = [at EXCEPT ![c] = l]
    BY <1>2 DEF Goto, Set
  <2>2. at' \in [Goroutine -> Labels]
    BY <2>1 DEF StepInv, Labels
  <2>3. Running' = Running
    BY <2>1 DEF StepInv, Running, Live
  <2>4. ASSUME NEW d \in Goroutine PROVE PlaceInv(d)'
    BY <2>1 DEF StepInv, PlaceInv, Live, control
  <2> QED
    BY <2>2, <2>3, <2>4 DEF StepInv, control
<1> QED
  BY <1>1, <1>2

(* A client calls Done, and is no longer counted.                          *)
LEMMA CloseStepInv ==
  ASSUME StepInv, NEW c \in Goroutine, Close(c)
  PROVE  StepInv'
<1>1. at[c] = "close" /\ at' = [at EXCEPT ![c] = "done"]
  BY DEF Close, Active, Goto, Set
<1>2. waiting' = waiting - 1 /\ UNCHANGED <<step, main>>
  BY DEF Close
<1>3. at' \in [Goroutine -> Labels]
  BY <1>1 DEF StepInv, Labels
<1>4. Running' = Running \ {c} /\ c \in Running
  BY <1>1 DEF StepInv, Running
<1>5. IsFiniteSet(Running') /\ Cardinality(Running') = Cardinality(Running) - 1
  BY <1>4, FS_RemoveElement DEF StepInv
<1>6. ASSUME NEW d \in Goroutine PROVE PlaceInv(d)'
  BY <1>1, <1>2 DEF StepInv, PlaceInv, Live
<1>7. Cardinality(Running) \in Nat /\ Concurrency \in Nat /\ Len(Segmented) \in Nat
  BY FS_CardinalityType, SegmentCount, TestRunAssumption DEF StepInv
<1>8. Segmented' = Segmented
  BY DEF Segmented
<1>9. waiting' = Cardinality(Running')
                   + (IF main' = "wait" THEN Concurrency - Len(Segmented) ELSE 0)
  BY <1>2, <1>5, <1>7 DEF StepInv
<1> QED
  BY <1>2, <1>3, <1>5, <1>6, <1>8, <1>9 DEF StepInv

(* main counts the clients of a step and starts those that have a segment. *)
LEMMA StartStepInv ==
  ASSUME StepInv, StartStep
  PROVE  StepInv'
<1>1. /\ main = "start" /\ main' = "wait" /\ step <= 5 /\ step' = step
      /\ waiting' = waiting + Concurrency
      /\ at' = [c \in Goroutine |->
                  IF c[1] = step /\ c[2] \in DOMAIN Segmented THEN "dial" ELSE at[c]]
  BY DEF StartStep
<1>2. Running = {} /\ \A c \in Goroutine : at[c] \in {"none", "done"}
  BY <1>1 DEF StepInv, PlaceInv, Running, Live, Labels
<1>3. at' \in [Goroutine -> Labels]
  BY <1>1 DEF StepInv, Labels, Live
<1>4. Running' = {<<step, i>> : i \in 1..Len(Segmented)}
  <2>1. Goroutine = (1..5) \X (1..Concurrency) /\ step \in 1..5
    BY <1>1, TestRunAssumption DEF StepInv
  <2>2. Running' = {c \in Goroutine : c[1] = step /\ c[2] \in 1..Len(Segmented)}
    BY <1>1, <1>2, SegmentCount DEF Running
  <2>3. ASSUME NEW c \in Running' PROVE c \in {<<step, i>> : i \in 1..Len(Segmented)}
    BY <2>1, <2>2, <2>3
  <2>4. ASSUME NEW i \in 1..Len(Segmented) PROVE <<step, i>> \in Running'
    <3>1. i \in 1..Concurrency
      BY SegmentCount, TestRunAssumption
    <3> QED
      BY <2>1, <2>2, <3>1
  <2> QED
    BY <2>3, <2>4
<1>5. IsFiniteSet(Running') /\ Cardinality(Running') = Len(Segmented)
  <2> DEFINE f == [i \in 1..Len(Segmented) |-> <<step, i>>]
  <2>1. f \in Bijection(1..Len(Segmented), Running')
    BY <1>4 DEF Bijection, Injection, Surjection, IsInjective
  <2>2. ExistsBijection(1..Len(Segmented), Running')
    BY <2>1 DEF ExistsBijection
  <2>3. IsFiniteSet(1..Len(Segmented)) /\ Cardinality(1..Len(Segmented)) = Len(Segmented)
    BY SegmentCount, FS_Interval
  <2> QED
    BY <2>2, <2>3, FS_Bijection
<1>6. ASSUME NEW d \in Goroutine PROVE PlaceInv(d)'
  BY <1>1, <1>2, TestRunAssumption DEF StepInv, PlaceInv, Live
<1>7. waiting = 0
  BY <1>1, <1>2, FS_EmptySet DEF StepInv
<1>8. Segmented' = Segmented
  BY DEF Segmented
<1>9. waiting' = Cardinality(Running') + (Concurrency - Len(Segmented))
  BY <1>1, <1>5, <1>7, SegmentCount, TestRunAssumption
<1> QED
  BY <1>1, <1>3, <1>5, <1>6, <1>8, <1>9 DEF StepInv

(* Wait returns only when no client is left.                               *)
LEMMA WaitStepInv ==
  ASSUME StepInv, WaitReturns
  PROVE  StepInv'
<1>1. /\ main = "wait" /\ main' = "start" /\ waiting = 0 /\ waiting' = waiting
      /\ step' = step + 1 /\ step \in 1..5
  BY DEF WaitReturns, StepInv
<1>2. UNCHANGED at
  BY DEF WaitReturns, loop
<1>3. Cardinality(Running) = 0
  BY <1>1, FS_CardinalityType, SegmentCount, TestRunAssumption DEF StepInv
<1>4. Running = {} /\ Running' = Running
  BY <1>2, <1>3, FS_EmptySet DEF StepInv, Running
<1>5. ASSUME NEW d \in Goroutine PROVE PlaceInv(d)'
  <2>1. at[d] \notin Live
    BY <1>4 DEF Running, Live
  <2>2. d[1] \in 1..5
    BY TestRunAssumption
  <2> QED
    BY <1>1, <1>2, <2>1, <2>2 DEF StepInv, PlaceInv
<1> QED
  BY <1>1, <1>2, <1>3, <1>4, <1>5 DEF StepInv

-----------------------------------------------------------------------------

LEMMA SendReturnsLoop ==
  ASSUME NEW c \in Goroutine, NEW r, SendReturns(c, r)
  PROVE  UNCHANGED at \/ \E l \in Live : Goto(c, l)
BY DEF SendReturns, NextPackage, loop, Live

LEMMA ClientStepInv ==
  ASSUME StepInv, NEW c \in Goroutine, Client(c)
  PROVE  StepInv'
<1>1. CASE Dial(c)
  BY <1>1, LoopStepInv DEF Dial, Active, Live
<1>2. CASE SendBroken(c)
  BY <1>2, LoopStepInv DEF SendBroken, Active, Live
<1>3. CASE SendRequest(c)
  BY <1>3, LoopStepInv DEF SendRequest, Active, Live
<1>4. CASE Receive(c) \/ SendFails(c) \/ Timeout(c)
  <2>1. at[c] \in Live /\ UNCHANGED control
    BY <1>4 DEF Receive, SendFails, Timeout, InSend, Active, Live
  <2>2. \E r : SendReturns(c, r)
    BY <1>4 DEF Receive, SendFails, Timeout
  <2> QED
    BY <2>1, <2>2, SendReturnsLoop, LoopStepInv
<1>5. CASE Close(c)
  BY <1>5, CloseStepInv
<1> QED
  BY <1>1, <1>2, <1>3, <1>4, <1>5 DEF Client

LEMMA NextStepInv == StepInv /\ [TNext]_tvars => StepInv'
<1> SUFFICES ASSUME StepInv, [TNext]_tvars PROVE StepInv'
  OBVIOUS
<1>1. CASE StartStep
  BY <1>1, StartStepInv
<1>2. CASE WaitReturns
  BY <1>2, WaitStepInv
<1>3. CASE RunReturns
  BY <1>3, UnchangedStepInv DEF RunReturns, loop
<1>4. ASSUME NEW c \in Goroutine, Client(c) PROVE StepInv'
  BY <1>4, ClientStepInv
<1>5. ASSUME NEW c \in Goroutine, Break(c) \/ Server(c) PROVE StepInv'
  BY <1>5, UnchangedStepInv
  DEF Break, Server, ServerReads, ServerExecutes, ServerResponds, ServerReleases, loop
<1>6. CASE UNCHANGED tvars
  BY <1>6, UnchangedStepInv DEF tvars, loop
<1> QED
  BY <1>1, <1>2, <1>3, <1>4, <1>5, <1>6 DEF TNext, Main

LEMMA AlwaysStepInv == TSpec => []StepInv
BY InitStepInv, NextStepInv, PTL DEF TSpec

(* The five steps never overlap, for any number of clients and whatever    *)
(* their connections do: the one wait group counts exactly the clients     *)
(* that run and the goroutines that were counted but not started.          *)
THEOREM StepsNeverOverlap == TSpec => []StepsApart
<1>1. StepInv => StepsApart
  BY RunningIs DEF StepInv, StepsApart, PlaceInv
<1> QED
  BY <1>1, AlwaysStepInv, PTL

-----------------------------------------------------------------------------
(* What a run has verified. *)

Responses == {"OK", "FAIL", "ERROR", "err"}

\* The requests that client c may send.
Requests(c) == {m \in Calls : m.op = Op(c)}

\* A client has a segment, and sends only requests of its step.
ClientType(c) ==
  /\ call[c] \in {Idle} \cup {CallOf(m, ok) : m \in Requests(c), ok \in {"pending", "true", "false"}}
  /\ inbox[c] \in Seq(Requests(c) \cup {Broken})
  /\ replies[c] \in Seq(Responses)
  /\ net[c] \in {"none", "up", "down"}
  /\ at[c] = "none" => pos[c] = 1 /\ hits[c] = 0
  /\ at[c] # "none" => /\ c[2] \in DOMAIN Segmented
                       /\ pos[c] \in 1..Len(Packages(c))
                       /\ hits[c] \in 0..pos[c] - 1
  /\ at[c] \in {"none", "dial"} => pos[c] = 1
  /\ at[c] \notin {"none", "dial"} => net[c] # "none"
  /\ at[c] \in {"send", "awaitBroken"} => Op(c) = "Index"

RunType ==
  /\ Indexed \subseteq Package
  /\ exit \in {"no", "end", "fail"}
  /\ exit = "end" => step = 6
  /\ held \subseteq Goroutine
  /\ faults \in 0..Faults
  /\ DOMAIN call = Goroutine /\ DOMAIN pos = Goroutine /\ DOMAIN hits = Goroutine
  /\ DOMAIN net = Goroutine /\ DOMAIN inbox = Goroutine /\ DOMAIN replies = Goroutine
  /\ \A c \in Goroutine : ClientType(c)
  /\ main = "wait" => \A c \in Goroutine : c[1] = step /\ c[2] \in DOMAIN Segmented => at[c] # "none"

\* What may be on its way to or from client c.
Quiet(c)     == inbox[c] = <<>> /\ call[c] = Idle /\ replies[c] = <<>>
Sent(c, m)   == inbox[c] = <<m>> /\ call[c] = Idle /\ replies[c] = <<>>
Working(c)   == /\ inbox[c] = <<>> /\ replies[c] = <<>>
                /\ \E ok \in {"pending", "true", "false"} : call[c] = CallOf(Message(c), ok)
Replied(c,R) == /\ inbox[c] = <<>> /\ call[c] = Idle
                /\ \E r \in R : replies[c] = <<r>>

\* The clients whose responses never come late: the first Send that fails ends
\* the process in every step but that of the INDEX requests.
Tame(c) == c[1] # 2 \/ faults = 0

\* A tame client has at most one message on its way, and only while it waits.
FlightInv(c) ==
  /\ at[c] \in {"none", "dial"} => Quiet(c)
  /\ Tame(c) =>
       /\ at[c] \notin {"await", "awaitBroken"} => Quiet(c)
       /\ at[c] = "await" =>
            Quiet(c) \/ Sent(c, Message(c)) \/ Working(c) \/ Replied(c, {"OK", "FAIL"})
       /\ at[c] = "awaitBroken" => Quiet(c) \/ Sent(c, Broken) \/ Replied(c, {"ERROR"})
  /\ faults = 0 /\ net[c] = "down" => Quiet(c)
  /\ faults = 0 /\ at[c] \in {"await", "awaitBroken"} /\ net[c] = "up" => ~Quiet(c)

\* What is to become of a package in the step of client c.
Good(c, p) == IF c[1] \in {2, 3} THEN p \in Indexed ELSE p \notin Indexed

\* The answer and the response from which the client takes that it has.
WantedOk(c) == IF c[1] = 5 THEN "false" ELSE "true"
Wanted(c)   == IF c[1] = 5 THEN "FAIL" ELSE "OK"

\* The clients that nobody can disturb.
Tracked(c) == c[1] = step /\ (c[1] = 3 \/ (c[1] # 1 /\ faults = 0))

\* Of the packages a client has passed, all have become what they should, or
\* it has noted that one has not.
SettledInv(c) ==
  Tracked(c) =>
    /\ at[c] \in {"dial", "roll", "send", "await", "awaitBroken"}
         /\ (Op(c) = "Query" \/ hits[c] = pos[c] - 1) =>
            \A i \in 1..pos[c] - 1 : Good(c, Packages(c)[i])
    /\ at[c] \in {"close", "done"} =>
            \A i \in DOMAIN Packages(c) : Good(c, Packages(c)[i])
    /\ at[c] = "await" /\ ((Busy(c) /\ call[c].ok = WantedOk(c)) \/ replies[c] = <<Wanted(c)>>) =>
            Good(c, Packages(c)[pos[c]])

AllIndexed  == \A p \in Package : InList(p) => p \in Indexed
NoneIndexed == \A p \in Package : InList(p) => p \notin Indexed

\* What the steps before have done to the whole list.
ListInv ==
  /\ step = 3 /\ faults = 0 => AllIndexed
  /\ step = 4 /\ main = "start" => AllIndexed
  /\ step \in {5, 6} /\ faults = 0 => NoneIndexed

\* A query gets the answer the client expects.
ExpectedInv(c) ==
  faults = 0 /\ c[1] = step /\ Op(c) = "Query" /\ at[c] = "await" =>
    /\ Busy(c) => call[c].ok \in {"pending", WantedOk(c)}
    /\ replies[c] \in {<<>>, <<Wanted(c)>>}

\* While the run goes on, and once it has come to its end.
GoingInv == /\ \A c \in Goroutine : FlightInv(c)
            /\ \A c \in Goroutine : SettledInv(c)
            /\ \A c \in Goroutine : ExpectedInv(c)
            /\ ListInv

RunInv == exit # "fail" => GoingInv

-----------------------------------------------------------------------------
(* The steps, the packages of a client and its messages.                   *)

LEMMA Operations ==
  ASSUME NEW c \in Goroutine
  PROVE  /\ c[1] \in 1..5 /\ c[2] \in 1..Concurrency
         /\ Op(c) \in {"Remove", "Index", "Query"}
         /\ Op(c) = "Remove" <=> c[1] \in {1, 4}
         /\ Op(c) = "Index" <=> c[1] = 2
         /\ Op(c) = "Query" <=> c[1] \in {3, 5}
<1>1. c[1] \in {1, 2, 3, 4, 5} /\ c[2] \in 1..Concurrency
  BY TestRunAssumption
<1> DEFINE ops == <<"Remove", "Index", "Query", "Remove", "Query">>
<1>2. /\ ops[1] = "Remove" /\ ops[2] = "Index" /\ ops[3] = "Query"
      /\ ops[4] = "Remove" /\ ops[5] = "Query"
  OBVIOUS
<1>3. Op(c) = ops[c[1]]
  BY DEF Op
<1> HIDE DEF ops
<1> QED
  BY <1>1, <1>2, <1>3

LEMMA PackagesType ==
  ASSUME NEW c \in Goroutine, c[2] \in DOMAIN Segmented
  PROVE  /\ Len(Packages(c)) \in 1..Len(List)
         /\ DOMAIN Packages(c) = 1..Len(Packages(c))
         /\ \A i \in 1..Len(Packages(c)) : Packages(c)[i] \in Package /\ InList(Packages(c)[i])
<1>1. List # <<>> /\ List \in Seq(Package) /\ Concurrency \in Nat \ {0}
  BY TestRunAssumption DEF DividesByZero
<1> DEFINE n == Clamp(List, Concurrency)
<1>2. /\ n \in 1..Concurrency /\ Len(Segmented) = n
      /\ \E cut \in [0..n -> 0..Len(List)] :
           \A i \in 1..n : /\ cut[i - 1] < cut[i]
                           /\ Segmented[i] = SubSeq(List, cut[i - 1] + 1, cut[i])
  BY <1>1, SegmentsFollow DEF Segmented
<1> HIDE DEF n
<1>3. PICK cut \in [0..n -> 0..Len(List)] :
        \A i \in 1..n : /\ cut[i - 1] < cut[i]
                        /\ Segmented[i] = SubSeq(List, cut[i - 1] + 1, cut[i])
  BY <1>2
<1>4. c[2] \in 1..n /\ c[2] - 1 \in 0..n /\ c[2] \in 0..n
  <2>1. n \in Nat
    BY <1>1, <1>2
  <2>2. PICK i \in 1..n : i = c[2]
    BY <1>2, SegmentCount
  <2>3. i - 1 \in 0..n /\ i \in 0..n
    BY <2>1
  <2> QED
    BY <2>2, <2>3
<1>5. PICK lo \in 0..Len(List), hi \in 0..Len(List) : lo < hi /\ Packages(c) = SubSeq(List, lo + 1, hi)
  BY <1>3, <1>4 DEF Packages
<1>6. /\ Len(SubSeq(List, lo + 1, hi)) = hi - lo /\ hi - lo \in 1..Len(List)
      /\ DOMAIN SubSeq(List, lo + 1, hi) = 1..hi - lo
      /\ \A i \in 1..hi - lo : /\ SubSeq(List, lo + 1, hi)[i] = List[lo + i]
                               /\ lo + i \in 1..Len(List)
  BY <1>1, <1>5
<1>7. \A k \in 1..Len(List) : List[k] \in Package /\ k \in DOMAIN List
  BY <1>1
<1> QED
  BY <1>5, <1>6, <1>7 DEF InList

(* Every package is some client's, in each step.                           *)
LEMMA ListReached ==
  ASSUME NEW s \in 1..5, NEW p, InList(p)
  PROVE  \E c \in Goroutine : /\ c[1] = s /\ c[2] \in DOMAIN Segmented
                              /\ \E j \in DOMAIN Packages(c) : Packages(c)[j] = p
<1>1. List # <<>> /\ List \in Seq(Package) /\ Concurrency \in Nat \ {0}
  BY TestRunAssumption DEF DividesByZero
<1>2. PICK k \in 1..Len(List) : List[k] = p
  BY <1>1 DEF InList
<1>3. \E i \in DOMAIN Segmented : \E j \in DOMAIN Segmented[i] : Segmented[i][j] = List[k]
  BY <1>1, <1>2, SegmentsReach DEF Segmented
<1>4. PICK i \in DOMAIN Segmented : \E j \in DOMAIN Segmented[i] : Segmented[i][j] = p
  BY <1>2, <1>3
<1>5. i \in 1..Concurrency
  BY SegmentCount, <1>1
<1>6. <<s, i>> \in Goroutine /\ <<s, i>>[1] = s /\ <<s, i>>[2] = i
  BY <1>5, TestRunAssumption
<1>7. Packages(<<s, i>>) = Segmented[i]
  BY <1>6 DEF Packages
<1> QED
  BY <1>4, <1>6, <1>7

(* The place of a client that has been started, in its segment.            *)
LEMMA PosType ==
  ASSUME RunType, NEW c \in Goroutine, at[c] # "none"
  PROVE  \E n \in Nat, p \in Nat, h \in Nat :
           /\ n = Len(Packages(c)) /\ p = pos[c] /\ h = hits[c]
           /\ 1 <= p /\ p <= n /\ h <= p - 1 /\ DOMAIN Packages(c) = 1..n
<1>1. /\ c[2] \in DOMAIN Segmented
      /\ pos[c] \in 1..Len(Packages(c)) /\ hits[c] \in 0..pos[c] - 1
  <2>1. ClientType(c)
    BY DEF RunType
  <2> QED
    BY <2>1 DEF ClientType
<1>2. /\ Len(Packages(c)) \in 1..Len(List)
      /\ DOMAIN Packages(c) = 1..Len(Packages(c))
      /\ \A i \in 1..Len(Packages(c)) : Packages(c)[i] \in Package /\ InList(Packages(c)[i])
  BY <1>1, PackagesType, ZenonT(60)
<1>3. PICK n \in 1..Len(List) : n = Len(Packages(c)) /\ DOMAIN Packages(c) = 1..n
  BY <1>2
<1>4. Len(List) \in Nat
  BY TestRunAssumption
<1>5. n \in Nat
  BY <1>4
<1>6. PICK p \in 1..n : p = pos[c]
  BY <1>1, <1>3
<1>7. p \in Nat /\ 1 <= p /\ p <= n
  BY <1>5
<1>8. PICK h \in 0..p - 1 : h = hits[c]
  BY <1>1, <1>6
<1>9. h \in Nat /\ h <= p - 1
  BY <1>7
<1> QED
  BY <1>3, <1>5, <1>6, <1>7, <1>8, <1>9

LEMMA MessageType ==
  ASSUME NEW c \in Goroutine, c[2] \in DOMAIN Segmented, pos[c] \in 1..Len(Packages(c))
  PROVE  /\ Message(c) \in Requests(c) /\ Message(c) # Broken
         /\ Message(c).op = Op(c) /\ Message(c).pkg = Packages(c)[pos[c]]
<1>1. PICK p \in Package : p = Packages(c)[pos[c]]
  BY PackagesType
<1>2. Message(c) = [op |-> Op(c), pkg |-> p, deps |-> IF Op(c) = "Index" THEN Deps[p] ELSE {}]
  BY <1>1 DEF Message
<1>3. Message(c).op = Op(c) /\ Message(c).pkg = p
  BY <1>2
<1>4. Message(c) \in Calls
  <2>1. CASE Op(c) = "Index"
    BY <1>2, <2>1, TestRunAssumption
  <2>2. CASE Op(c) \in {"Remove", "Query"}
    BY <1>2, <2>2, TestRunAssumption
  <2> QED
    BY <2>1, <2>2, Operations
<1>5. Message(c).op # Broken.op
  <2>1. Broken.op = "broken"
    BY DEF Broken
  <2>2. Op(c) # "broken"
    BY Operations
  <2> QED
    BY <1>3, <2>1, <2>2
<1>6. Message(c) # Broken
  BY <1>5
<1> QED
  BY <1>1, <1>3, <1>4, <1>6 DEF Requests

(* What a reader that is thrown away leaves.                               *)
LEMMA BehindType ==
  ASSUME NEW T, NEW s \in Seq(T), s # <<>>, NEW x \in T
  PROVE  Behind(s) \cup CutBehind(s, x) \subseteq Seq(T)
<1>1. ASSUME NEW i \in 2..Len(s) + 1 PROVE SubSeq(s, i, Len(s)) \in Seq(T)
  <2>1. Len(s) \in Int /\ i \in Int /\ \A j \in i..Len(s) : s[j] \in T
    OBVIOUS
  <2> QED
    BY <2>1, SubSeqProperties
<1>2. \A t \in Seq(T) : t # <<>> => <<x>> \o Tail(t) \in Seq(T)
  OBVIOUS
<1> QED
  BY <1>1, <1>2 DEF Behind, CutBehind

LEMMA BehindOne ==
  ASSUME NEW x, NEW y
  PROVE  Behind(<<x>>) = {<<>>} /\ CutBehind(<<x>>, y) = {}
<1>1. Len(<<x>>) = 1 /\ SubSeq(<<x>>, 2, 1) = <<>>
  OBVIOUS
<1>2. 2..1 + 1 = {2}
  OBVIOUS
<1>3. Behind(<<x>>) = {<<>>}
  BY <1>1, <1>2 DEF Behind
<1> QED
  BY <1>3 DEF CutBehind

-----------------------------------------------------------------------------
(* What a step of a client, or of the server for it, changes.              *)

\* Nothing of client d.
Same(d) == /\ call'[d] = call[d] /\ inbox'[d] = inbox[d] /\ replies'[d] = replies[d]
           /\ net'[d] = net[d] /\ at'[d] = at[d] /\ pos'[d] = pos[d] /\ hits'[d] = hits[d]

Hit(r) == IF r = "OK" THEN 1 ELSE 0

LEMMA OthersSame ==
  ASSUME RunType, StepInv, NEW c \in Goroutine, NEW d \in Goroutine \ {c},
         Client(c) \/ Break(c) \/ Server(c)
  PROVE  Same(d)
<1>1. /\ DOMAIN call = Goroutine /\ DOMAIN pos = Goroutine /\ DOMAIN hits = Goroutine
      /\ DOMAIN net = Goroutine /\ DOMAIN inbox = Goroutine /\ DOMAIN replies = Goroutine
      /\ DOMAIN at = Goroutine
  BY DEF RunType, StepInv
<1>2. CASE Dial(c) \/ SendBroken(c) \/ SendRequest(c) \/ Close(c)
  BY <1>1, <1>2 DEF Dial, SendBroken, SendRequest, Close, Put, Goto, Set, Same
<1>3. CASE Receive(c) \/ SendFails(c) \/ Timeout(c)
  <2>1. \E r : SendReturns(c, r)
    BY <1>3 DEF Receive, SendFails, Timeout
  <2>2. at'[d] = at[d] /\ pos'[d] = pos[d] /\ hits'[d] = hits[d]
    BY <1>1, <2>1 DEF SendReturns, NextPackage, Goto, Set, loop
  <2>3. call' = call /\ net' = net /\ inbox' = inbox /\ replies'[d] = replies[d]
    BY <1>1, <1>3 DEF Receive, SendFails, Timeout, Set
  <2> QED
    BY <2>2, <2>3 DEF Same
<1>4. CASE Break(c)
  BY <1>1, <1>4 DEF Break, Set, loop, Same
<1>5. CASE ServerReads(c)
  BY <1>1, <1>5 DEF ServerReads, Reply, Set, loop, Same
<1>6. CASE ServerExecutes(c)
  <2>1. \E ok : Answer(c, ok)
    BY <1>6 DEF ServerExecutes, Index, Remove, Query
  <2>2. call'[d] = call[d]
    BY <1>1, <2>1 DEF Answer
  <2> QED
    BY <1>6, <2>2 DEF ServerExecutes, loop, Same
<1>7. CASE ServerResponds(c)
  <2>1. call'[d] = call[d]
    BY <1>1, <1>7 DEF ServerResponds, Return
  <2> QED
    BY <1>1, <1>7, <2>1 DEF ServerResponds, Reply, Set, loop, Same
<1>8. CASE ServerReleases(c)
  BY <1>1, <1>8 DEF ServerReleases, Set, loop, Same
<1> QED
  BY <1>2, <1>3, <1>4, <1>5, <1>6, <1>7, <1>8 DEF Client, Server

LEMMA SendReturnsDoes ==
  ASSUME RunType, StepInv, NEW c \in Goroutine, InSend(c), NEW r, SendReturns(c, r)
  PROVE  \/ Fails(c, r) /\ exit' = "fail" /\ at' = at /\ pos' = pos /\ hits' = hits
         \/ /\ ~Fails(c, r) /\ exit' = exit
            /\ \/ /\ at[c] = "awaitBroken" /\ r = "ERROR" /\ at'[c] = "send"
                  /\ pos' = pos /\ hits' = hits
               \/ /\ at[c] = "await" /\ pos[c] < Len(Packages(c))
                  /\ pos'[c] = pos[c] + 1 /\ hits'[c] = hits[c] + Hit(r) /\ at'[c] = "roll"
               \/ /\ at[c] = "await" /\ ~(pos[c] < Len(Packages(c)))
                  /\ pos'[c] = 1 /\ hits'[c] = 0
                  /\ \/ /\ Op(c) = "Query" \/ hits[c] + Hit(r) = Len(Packages(c))
                        /\ at'[c] = "close"
                     \/ at'[c] = "roll" /\ Op(c) # "Query"
<1>1. DOMAIN pos = Goroutine /\ DOMAIN hits = Goroutine /\ DOMAIN at = Goroutine
  BY DEF RunType, StepInv
<1>2. CASE Fails(c, r)
  BY <1>2 DEF SendReturns, loop
<1>3. CASE ~Fails(c, r) /\ at[c] = "awaitBroken"
  BY <1>1, <1>3 DEF SendReturns, Fails, Goto, Set
<1>4. CASE ~Fails(c, r) /\ at[c] = "await"
  <2>1. exit' = exit /\ NextPackage(c, r)
    BY <1>4 DEF SendReturns
  <2>2. CASE pos[c] < Len(Packages(c))
    BY <1>1, <1>4, <2>1, <2>2 DEF NextPackage, Goto, Set, Hit
  <2>3. CASE ~(pos[c] < Len(Packages(c)))
    BY <1>1, <1>4, <2>1, <2>3 DEF NextPackage, Goto, Set, Hit
  <2> QED
    BY <2>2, <2>3
<1> QED
  BY <1>2, <1>3, <1>4 DEF InSend, Active

-----------------------------------------------------------------------------
(* The types.                                                              *)

LEMMA SameType ==
  ASSUME NEW d \in Goroutine, ClientType(d), Same(d)
  PROVE  ClientType(d)'
<1>1. Packages(d)' = Packages(d) /\ Segmented' = Segmented
  BY DEF Packages, Segmented
<1>2. Requests(d)' = Requests(d) /\ Op(d)' = Op(d) /\ Broken' = Broken /\ Responses' = Responses
  BY DEF Requests, Op, Broken, Responses
<1> QED
  BY <1>1, <1>2 DEF ClientType, Same, CallOf, Idle

(* A step that moves a client on and may send or lose something.           *)
LEMMA MovedType ==
  ASSUME NEW c \in Goroutine, ClientType(c), at[c] # "none",
         call'[c] = call[c] \/ call'[c] = Idle
           \/ \E m \in Requests(c), ok \in {"pending", "true", "false"} : call'[c] = CallOf(m, ok),
         inbox'[c] \in Seq(Requests(c) \cup {Broken}),
         replies'[c] \in Seq(Responses),
         net'[c] \in {"none", "up", "down"},
         at'[c] # "none",
         pos'[c] \in 1..Len(Packages(c)) /\ hits'[c] \in 0..pos'[c] - 1,
         at'[c] # "dial" \/ (pos'[c] = 1 /\ at[c] = "dial"),
         at'[c] # "dial" => net'[c] # "none",
         at'[c] \in {"send", "awaitBroken"} => Op(c) = "Index"
  PROVE  ClientType(c)'
<1>1. Packages(c)' = Packages(c) /\ Segmented' = Segmented
  BY DEF Packages, Segmented
<1>2. Requests(c)' = Requests(c) /\ Op(c)' = Op(c) /\ Broken' = Broken /\ Responses' = Responses
  BY DEF Requests, Op, Broken, Responses
<1>3. c[2] \in DOMAIN Segmented
  BY DEF ClientType
<1>4. call'[c] \in {Idle} \cup {CallOf(m, ok) : m \in Requests(c), ok \in {"pending", "true", "false"}}
  BY DEF ClientType
<1> QED
  BY <1>1, <1>2, <1>3, <1>4 DEF ClientType, CallOf, Idle

LEMMA OwnClientType ==
  ASSUME RunType, StepInv, NEW c \in Goroutine, Client(c)
  PROVE  ClientType(c)'
<1>1. /\ DOMAIN call = Goroutine /\ DOMAIN pos = Goroutine /\ DOMAIN hits = Goroutine
      /\ DOMAIN net = Goroutine /\ DOMAIN inbox = Goroutine /\ DOMAIN replies = Goroutine
      /\ DOMAIN at = Goroutine
  BY DEF RunType, StepInv
<1>2. ClientType(c)
  BY DEF RunType
<1>3. CASE Dial(c)
  BY <1>1, <1>2, <1>3, MovedType DEF Dial, Active, Goto, Set, ClientType
<1>4. ASSUME at[c] # "none", NEW m \in Requests(c) \cup {Broken}, Put(c, m)
      PROVE  inbox'[c] \in Seq(Requests(c) \cup {Broken})
  BY <1>1, <1>2, <1>4 DEF Put, Set, ClientType
<1>5. CASE SendBroken(c)
  <2>1. at[c] = "roll" /\ Op(c) = "Index" /\ at'[c] = "awaitBroken" /\ Put(c, Broken)
    BY <1>1, <1>5 DEF SendBroken, Active, Goto, Set
  <2>2. call' = call /\ pos' = pos /\ hits' = hits /\ net' = net /\ replies' = replies
    BY <1>5 DEF SendBroken
  <2>3. inbox'[c] \in Seq(Requests(c) \cup {Broken})
    BY <1>4, <2>1
  <2> QED
    BY <1>2, <2>1, <2>2, <2>3, MovedType DEF ClientType
<1>6. CASE SendRequest(c)
  <2>1. at[c] \in {"roll", "send"} /\ at'[c] = "await" /\ Put(c, Message(c))
    BY <1>1, <1>6 DEF SendRequest, Active, Goto, Set
  <2>2. call' = call /\ pos' = pos /\ hits' = hits /\ net' = net /\ replies' = replies
    BY <1>6 DEF SendRequest
  <2>3. Message(c) \in Requests(c)
    BY <1>2, <2>1, MessageType DEF ClientType
  <2>4. inbox'[c] \in Seq(Requests(c) \cup {Broken})
    BY <1>4, <2>1, <2>3
  <2> QED
    BY <1>2, <2>1, <2>2, <2>4, MovedType DEF ClientType
<1>7. CASE Receive(c) \/ SendFails(c) \/ Timeout(c)
  <2>1. PICK r : SendReturns(c, r)
    BY <1>7 DEF Receive, SendFails, Timeout
  <2>2. InSend(c) /\ call' = call /\ net' = net /\ inbox' = inbox
    BY <1>7 DEF Receive, SendFails, Timeout
  <2>3. replies'[c] \in Seq(Responses)
    <3>1. CASE Receive(c)
      <4>1. /\ replies[c] # <<>> /\ replies[c] \in Seq(Responses) /\ "err" \in Responses
            /\ replies'[c] \in Behind(replies[c]) \cup CutBehind(replies[c], "err")
        BY <1>1, <1>2, <3>1 DEF Receive, ClientType, Set, Responses
      <4> QED
        BY <4>1, BehindType
    <3>2. CASE SendFails(c) \/ Timeout(c)
      BY <1>2, <3>2 DEF SendFails, Timeout, ClientType
    <3> QED
      BY <1>7, <3>1, <3>2
  <2>4. at[c] \in {"await", "awaitBroken"}
    BY <2>2 DEF InSend, Active
  <2>5. PICK n \in Nat, h \in Nat, p \in Nat :
          n = Len(Packages(c)) /\ h = hits[c] /\ p = pos[c] /\ h <= p - 1 /\ p >= 1 /\ p <= n
    BY <1>2, <2>4, PackagesType DEF ClientType
  <2>6. /\ pos'[c] \in 1..Len(Packages(c)) /\ hits'[c] \in 0..pos'[c] - 1
        /\ at'[c] \notin {"none", "dial"}
        /\ at'[c] \in {"send", "awaitBroken"} => Op(c) = "Index"
    <3>1. Hit(r) \in {0, 1}
      BY DEF Hit
    <3>2. CASE at' = at /\ pos' = pos /\ hits' = hits
      BY <1>2, <2>4, <3>2 DEF ClientType
    <3>3. CASE at[c] = "awaitBroken" /\ at'[c] = "send" /\ pos' = pos /\ hits' = hits
      BY <1>2, <3>3 DEF ClientType
    <3>4. CASE /\ pos[c] < Len(Packages(c)) /\ at'[c] = "roll"
               /\ pos'[c] = pos[c] + 1 /\ hits'[c] = hits[c] + Hit(r)
      <4>1. p + 1 \in 1..n /\ h + Hit(r) \in 0..(p + 1) - 1
        BY <2>5, <3>1, <3>4
      <4> QED
        BY <2>5, <3>4, <4>1
    <3>5. CASE pos'[c] = 1 /\ hits'[c] = 0 /\ at'[c] \in {"roll", "close"}
      BY <2>5, <3>5
    <3> QED
      BY <2>1, <2>2, <3>2, <3>3, <3>4, <3>5, SendReturnsDoes
  <2> QED
    BY <1>2, <2>2, <2>3, <2>4, <2>6, MovedType DEF ClientType
<1>8. CASE Close(c)
  <2>1. /\ at[c] = "close" /\ at'[c] = "done" /\ net'[c] \in {net[c], "down"} /\ replies'[c] = <<>>
        /\ call' = call /\ pos' = pos /\ hits' = hits /\ inbox' = inbox
    BY <1>1, <1>8 DEF Close, Active, Goto, Set
  <2> QED
    BY <1>2, <2>1, MovedType DEF ClientType
<1> QED
  BY <1>3, <1>5, <1>6, <1>7, <1>8 DEF Client

(* A step of the network or the server, which moves no client on.          *)
LEMMA StayedType ==
  ASSUME NEW c \in Goroutine, ClientType(c), at' = at, pos' = pos, hits' = hits,
         call'[c] = call[c] \/ call'[c] = Idle
           \/ \E m \in Requests(c), ok \in {"pending", "true", "false"} : call'[c] = CallOf(m, ok),
         inbox'[c] \in Seq(Requests(c) \cup {Broken}),
         replies'[c] \in Seq(Responses),
         net'[c] \in {net[c], "down"}
  PROVE  ClientType(c)'
<1>1. Packages(c)' = Packages(c) /\ Segmented' = Segmented
  BY DEF Packages, Segmented
<1>2. Requests(c)' = Requests(c) /\ Op(c)' = Op(c) /\ Broken' = Broken /\ Responses' = Responses
  BY DEF Requests, Op, Broken, Responses
<1>3. call'[c] \in {Idle} \cup {CallOf(m, ok) : m \in Requests(c), ok \in {"pending", "true", "false"}}
  BY DEF ClientType
<1> QED
  BY <1>1, <1>2, <1>3 DEF ClientType, CallOf, Idle

(* A call that has been answered.                                          *)
LEMMA AnswerDoes ==
  ASSUME RunType, NEW c \in Goroutine, Busy(c), NEW ok, Answer(c, ok)
  PROVE  \E m \in Requests(c) : /\ call[c] = CallOf(m, call[c].ok) /\ call'[c] = CallOf(m, ok)
                                /\ call[c].op = m.op /\ call[c].pkg = m.pkg /\ call[c].deps = m.deps
                                /\ m \in Request /\ m.op = Op(c)
<1>1. DOMAIN call = Goroutine /\ ClientType(c)
  BY DEF RunType
<1>2. PICK m \in Requests(c), old \in {"pending", "true", "false"} : call[c] = CallOf(m, old)
  BY <1>1 DEF ClientType, Busy
<1>3. call'[c] = [call[c] EXCEPT !.ok = ok]
  BY <1>1 DEF Answer
<1>4. /\ call[c].ok = old /\ call'[c] = CallOf(m, ok)
      /\ call[c].op = m.op /\ call[c].pkg = m.pkg /\ call[c].deps = m.deps
  BY <1>2, <1>3 DEF CallOf
<1>5. m \in Request /\ m.op = Op(c)
  BY CallsAssumption DEF Requests
<1> QED
  BY <1>2, <1>4, <1>5

(* The answer to a call, and what it says of the package.                  *)
LEMMA ExecutesDoes ==
  ASSUME RunType, NEW c \in Goroutine, ServerExecutes(c)
  PROVE  /\ Busy(c) /\ call[c].ok = "pending" /\ call[c].op = Op(c) /\ call[c].pkg \in Package
         /\ \E ok \in {"true", "false"} : \E m \in Requests(c) :
              /\ call[c] = CallOf(m, "pending") /\ call'[c] = CallOf(m, ok)
              /\ Op(c) = "Index" =>
                   /\ Indexed' \in {Indexed, Indexed \cup {call[c].pkg}}
                   /\ ok = "true" => call[c].pkg \in Indexed'
              /\ Op(c) = "Remove" =>
                   /\ Indexed' \in {Indexed, Indexed \ {call[c].pkg}}
                   /\ ok = "true" => call[c].pkg \notin Indexed'
              /\ Op(c) = "Query" =>
                   /\ Indexed' = Indexed
                   /\ ok = "true" <=> call[c].pkg \in Indexed
<1>1. Busy(c) /\ call[c].ok = "pending"
  BY DEF ServerExecutes, Index, Remove, Query, Awaiting
<1>2. ASSUME NEW ok, Answer(c, ok)
      PROVE  \E m \in Requests(c) :
               /\ call[c] = CallOf(m, "pending") /\ call'[c] = CallOf(m, ok)
               /\ call[c].op = Op(c) /\ call[c].pkg \in Package
  <2>1. PICK m \in Requests(c) : /\ call[c] = CallOf(m, call[c].ok) /\ call'[c] = CallOf(m, ok)
                                 /\ call[c].op = m.op /\ call[c].pkg = m.pkg
                                 /\ m \in Request /\ m.op = Op(c)
    BY <1>1, <1>2, AnswerDoes
  <2>2. m.pkg \in Package
    BY <2>1 DEF Request
  <2> QED
    BY <1>1, <2>1, <2>2
<1>3. Op(c) \in {"Remove", "Index", "Query"}
  BY Operations
<1>4. CASE Index(c)
  <2>1. call[c].op = "Index"
    BY <1>4 DEF Index, Awaiting
  <2>2. PICK ok \in {"true", "false"} :
          /\ Answer(c, ok) /\ Indexed' \in {Indexed, Indexed \cup {call[c].pkg}}
          /\ ok = "true" => call[c].pkg \in Indexed'
    BY <1>4 DEF Index, Indexed
  <2>3. \E m \in Requests(c) : /\ call[c] = CallOf(m, "pending") /\ call'[c] = CallOf(m, ok)
                               /\ call[c].op = Op(c) /\ call[c].pkg \in Package
    BY <1>2, <2>2
  <2> QED
    BY <1>1, <2>1, <2>2, <2>3
<1>5. CASE Remove(c)
  <2>1. call[c].op = "Remove"
    BY <1>5 DEF Remove, Awaiting
  <2>2. PICK ok \in {"true", "false"} :
          /\ Answer(c, ok) /\ Indexed' \in {Indexed, Indexed \ {call[c].pkg}}
          /\ ok = "true" => call[c].pkg \notin Indexed'
    BY <1>5 DEF Remove, Indexed
  <2>3. \E m \in Requests(c) : /\ call[c] = CallOf(m, "pending") /\ call'[c] = CallOf(m, ok)
                               /\ call[c].op = Op(c) /\ call[c].pkg \in Package
    BY <1>2, <2>2
  <2> QED
    BY <1>1, <2>1, <2>2, <2>3
<1>6. CASE Query(c)
  <2>1. call[c].op = "Query"
    BY <1>6 DEF Query, Awaiting
  <2>2. PICK ok \in {"true", "false"} :
          /\ Answer(c, ok) /\ Indexed' = Indexed
          /\ ok = "true" <=> call[c].pkg \in Indexed
    BY <1>6 DEF Query, Indexed
  <2>3. \E m \in Requests(c) : /\ call[c] = CallOf(m, "pending") /\ call'[c] = CallOf(m, ok)
                               /\ call[c].op = Op(c) /\ call[c].pkg \in Package
    BY <1>2, <2>2
  <2> QED
    BY <1>1, <2>1, <2>2, <2>3
<1> QED
  BY <1>4, <1>5, <1>6 DEF ServerExecutes

LEMMA OwnServerType ==
  ASSUME RunType, StepInv, NEW c \in Goroutine, Break(c) \/ Server(c)
  PROVE  ClientType(c)'
<1>1. /\ DOMAIN call = Goroutine /\ DOMAIN net = Goroutine
      /\ DOMAIN inbox = Goroutine /\ DOMAIN replies = Goroutine
  BY DEF RunType
<1>2. ClientType(c)
  BY DEF RunType
<1>3. /\ inbox[c] \in Seq(Requests(c) \cup {Broken}) /\ replies[c] \in Seq(Responses)
      /\ <<>> \in Seq(Requests(c) \cup {Broken}) /\ <<>> \in Seq(Responses)
  BY <1>2 DEF ClientType
<1>4. at' = at /\ pos' = pos /\ hits' = hits
  BY DEF Break, Server, ServerReads, ServerExecutes, ServerResponds, ServerReleases, loop
<1>5. ASSUME NEW r \in Responses, Reply(c, r)
      PROVE  replies'[c] \in Seq(Responses) /\ net'[c] \in {net[c], "down"}
  <2>1. CASE net[c] = "up" /\ at[c] # "done"
    <3>1. net' = net /\ replies'[c] = Append(replies[c], r)
      BY <1>1, <1>5, <2>1 DEF Reply, Set
    <3> QED
      BY <1>3, <3>1
  <2>2. CASE ~(net[c] = "up" /\ at[c] # "done")
    <3>1. net'[c] = "down" /\ replies' = replies
      BY <1>1, <1>5, <2>2 DEF Reply, Set
    <3> QED
      BY <1>3, <3>1
  <2> QED
    BY <2>1, <2>2
<1>6. CASE Break(c)
  <2>1. /\ call' = call /\ inbox' = inbox /\ net'[c] = "down"
        /\ replies'[c] \in {replies[c], <<>>}
    BY <1>1, <1>6 DEF Break, Set
  <2> QED
    BY <1>2, <1>3, <1>4, <2>1, StayedType
<1>7. CASE ServerReads(c)
  <2>1. inbox'[c] \in Seq(Requests(c) \cup {Broken})
    <3>1. /\ inbox[c] # <<>> /\ Broken \in Requests(c) \cup {Broken}
          /\ inbox'[c] \in Behind(inbox[c]) \cup CutBehind(inbox[c], Broken)
      BY <1>1, <1>7 DEF ServerReads, Set
    <3> QED
      BY <1>3, <3>1, BehindType
  <2>2. CASE Head(inbox[c]) = Broken
    <3>1. Reply(c, "ERROR") /\ call' = call
      BY <1>7, <2>2 DEF ServerReads
    <3>2. "ERROR" \in Responses
      BY DEF Responses
    <3> QED
      BY <1>2, <1>4, <1>5, <2>1, <3>1, <3>2, StayedType
  <2>3. CASE Head(inbox[c]) # Broken
    <3>1. Head(inbox[c]) \in Requests(c)
      BY <1>3, <1>7, <2>3 DEF ServerReads
    <3>2. call'[c] = CallOf(Head(inbox[c]), "pending") /\ net' = net /\ replies' = replies
      BY <1>1, <1>7, <2>3 DEF ServerReads, Set
    <3> QED
      BY <1>2, <1>3, <1>4, <2>1, <3>1, <3>2, StayedType
  <2> QED
    BY <2>2, <2>3
<1>8. CASE ServerExecutes(c)
  <2>1. net' = net /\ inbox' = inbox /\ replies' = replies
    BY <1>8 DEF ServerExecutes
  <2>2. \E m \in Requests(c), ok \in {"pending", "true", "false"} : call'[c] = CallOf(m, ok)
    BY <1>8, ExecutesDoes
  <2> QED
    BY <1>2, <1>3, <1>4, <2>1, <2>2, StayedType
<1>9. CASE ServerResponds(c)
  <2>1. call'[c] = Idle /\ inbox' = inbox
    BY <1>1, <1>9 DEF ServerResponds, Return
  <2>2. PICK r \in {"OK", "FAIL"} : Reply(c, r)
    BY <1>9 DEF ServerResponds
  <2>3. r \in Responses
    BY DEF Responses
  <2> QED
    BY <1>2, <1>3, <1>4, <1>5, <2>1, <2>2, <2>3, StayedType
<1>10. CASE ServerReleases(c)
  <2>1. call' = call /\ net' = net /\ replies' = replies /\ inbox'[c] = <<>>
    BY <1>1, <1>10 DEF ServerReleases, Set
  <2> QED
    BY <1>2, <1>3, <1>4, <2>1, StayedType
<1> QED
  BY <1>6, <1>7, <1>8, <1>9, <1>10 DEF Server

LEMMA InitRunType == TInit => RunType
<1> SUFFICES ASSUME TInit PROVE RunType
  OBVIOUS
<1>1. PICK S \in SUBSET Package : graph = [p \in S |-> Deps[p]]
  BY DEF TInit
<1>2. Indexed \subseteq Package
  BY <1>1 DEF Indexed
<1>3. ASSUME NEW c \in Goroutine PROVE ClientType(c)
  BY DEF TInit, ClientType
<1>4. 0 \in 0..Faults
  BY TestRunAssumption
<1> QED
  BY <1>2, <1>3, <1>4 DEF TInit, RunType

(* The rest of the types, which a step of one client or of the server for  *)
(* it may change.                                                          *)
LEMMA SharedType ==
  ASSUME RunType, StepInv, NEW c \in Goroutine, Client(c) \/ Break(c) \/ Server(c)
  PROVE  /\ Indexed' \subseteq Package
         /\ exit' \in {"no", "end", "fail"} /\ (exit' = "end" => step' = 6)
         /\ held' \subseteq Goroutine
         /\ faults' \in 0..Faults
         /\ DOMAIN call' = Goroutine /\ DOMAIN pos' = Goroutine /\ DOMAIN hits' = Goroutine
         /\ DOMAIN net' = Goroutine /\ DOMAIN inbox' = Goroutine /\ DOMAIN replies' = Goroutine
         /\ step' = step /\ main' = main
<1>1. /\ DOMAIN call = Goroutine /\ DOMAIN pos = Goroutine /\ DOMAIN hits = Goroutine
      /\ DOMAIN net = Goroutine /\ DOMAIN inbox = Goroutine /\ DOMAIN replies = Goroutine
      /\ Indexed \subseteq Package /\ held \subseteq Goroutine
      /\ exit \in {"no", "end", "fail"} /\ (exit = "end" => step = 6)
      /\ faults \in 0..Faults /\ Faults \in Nat
  BY TestRunAssumption DEF RunType
<1>2. ASSUME NEW s, NEW x, NEW rest, Unread(s, x, rest) PROVE faults' \in 0..Faults
  <2>1. faults' = faults \/ (faults < Faults /\ faults' = faults + 1)
    BY <1>2 DEF Unread
  <2> QED
    BY <1>1, <2>1
<1>3. CASE Dial(c) \/ SendBroken(c) \/ SendRequest(c) \/ Close(c)
  <2>1. Indexed' = Indexed
    BY <1>3 DEF Dial, SendBroken, SendRequest, Close, Indexed
  <2>2. exit' = exit /\ faults' = faults /\ step' = step /\ main' = main /\ call' = call
    BY <1>3 DEF Dial, SendBroken, SendRequest, Close, control
  <2>3. held' \subseteq Goroutine
    BY <1>1, <1>3 DEF Dial, SendBroken, SendRequest, Close
  <2>4. /\ DOMAIN pos' = Goroutine /\ DOMAIN hits' = Goroutine
        /\ DOMAIN net' = Goroutine /\ DOMAIN inbox' = Goroutine /\ DOMAIN replies' = Goroutine
    BY <1>1, <1>3 DEF Dial, SendBroken, SendRequest, Close, Put, Set
  <2> QED
    BY <1>1, <2>1, <2>2, <2>3, <2>4
<1>4. CASE Receive(c) \/ SendFails(c) \/ Timeout(c)
  <2>1. PICK r : SendReturns(c, r)
    BY <1>4 DEF Receive, SendFails, Timeout
  <2>2. InSend(c) /\ call' = call /\ net' = net /\ inbox' = inbox /\ held' = held
        /\ step' = step /\ main' = main /\ graph' = graph
    BY <1>4 DEF Receive, SendFails, Timeout, control
  <2>3. exit' \in {exit, "fail"} /\ exit = "no"
    BY <2>1, <2>2 DEF SendReturns, InSend, Active
  <2>4. DOMAIN pos' = Goroutine /\ DOMAIN hits' = Goroutine
    BY <1>1, <2>1 DEF SendReturns, NextPackage, Goto, Set, loop
  <2>5. DOMAIN replies' = Goroutine
    BY <1>1, <1>4 DEF Receive, SendFails, Timeout, Set
  <2>6. faults' \in 0..Faults
    <3>1. CASE Receive(c)
      BY <1>2, <3>1 DEF Receive
    <3>2. CASE SendFails(c)
      BY <1>1, <3>2 DEF SendFails
    <3>3. CASE Timeout(c)
      BY <1>1, <3>3 DEF Timeout
    <3> QED
      BY <1>4, <3>1, <3>2, <3>3
  <2> QED
    BY <1>1, <2>2, <2>3, <2>4, <2>5, <2>6 DEF Indexed
<1>5. CASE Break(c)
  <2>1. faults' \in 0..Faults
    BY <1>1, <1>5 DEF Break
  <2> QED
    BY <1>1, <1>5, <2>1 DEF Break, Set, loop, control, Indexed
<1>6. CASE ServerReads(c)
  <2>1. faults' \in 0..Faults
    BY <1>2, <1>6 DEF ServerReads
  <2>2. DOMAIN net' = Goroutine /\ DOMAIN replies' = Goroutine /\ DOMAIN call' = Goroutine
    BY <1>1, <1>6 DEF ServerReads, Reply, Set
  <2> QED
    BY <1>1, <1>6, <2>1, <2>2 DEF ServerReads, Set, loop, control, Indexed
<1>7. CASE ServerExecutes(c)
  <2>1. Indexed' \subseteq Package
    <3>1. call[c].pkg \in Package /\ Op(c) \in {"Remove", "Index", "Query"}
      BY <1>7, ExecutesDoes, Operations
    <3>2. Indexed' \subseteq Indexed \cup {call[c].pkg}
      BY <1>7, <3>1, ExecutesDoes
    <3> QED
      BY <1>1, <3>1, <3>2
  <2>2. DOMAIN call' = Goroutine
    BY <1>1, <1>7 DEF ServerExecutes, Index, Remove, Query, Answer
  <2> QED
    BY <1>1, <1>7, <2>1, <2>2 DEF ServerExecutes, loop, control
<1>8. CASE ServerResponds(c)
  <2>1. DOMAIN net' = Goroutine /\ DOMAIN replies' = Goroutine /\ DOMAIN call' = Goroutine
    BY <1>1, <1>8 DEF ServerResponds, Return, Reply, Set
  <2> QED
    BY <1>1, <1>8, <2>1 DEF ServerResponds, loop, control, Indexed
<1>9. CASE ServerReleases(c)
  BY <1>1, <1>9 DEF ServerReleases, Set, loop, control, Indexed
<1> QED
  BY <1>3, <1>4, <1>5, <1>6, <1>7, <1>8, <1>9 DEF Client, Server

LEMMA NextRunType == RunType /\ StepInv /\ [TNext]_tvars => RunType'
<1> SUFFICES ASSUME RunType, StepInv, [TNext]_tvars PROVE RunType'
  OBVIOUS
<1>1. DOMAIN Segmented' = DOMAIN Segmented
  BY DEF Segmented
<1>2. CASE StartStep
  <2>1. /\ at' = [c \in Goroutine |-> IF c[1] = step /\ c[2] \in DOMAIN Segmented THEN "dial" ELSE at[c]]
        /\ exit = "no" /\ exit' = exit /\ step' = step /\ main = "start"
        /\ graph' = graph /\ call' = call /\ pos' = pos /\ hits' = hits /\ net' = net
        /\ held' = held /\ inbox' = inbox /\ replies' = replies /\ faults' = faults
    BY <1>2 DEF StartStep
  <2>2. ASSUME NEW c \in Goroutine PROVE ClientType(c)'
    <3>1. ClientType(c)
      BY DEF RunType
    <3>2. CASE at'[c] = at[c]
      BY <2>1, <3>1, <3>2, SameType DEF Same
    <3>3. CASE c[1] = step /\ c[2] \in DOMAIN Segmented
      <4>1. at[c] = "none" /\ at'[c] = "dial"
        BY <2>1, <3>3 DEF StepInv, PlaceInv
      <4>2. pos[c] = 1 /\ hits[c] = 0
        BY <3>1, <4>1 DEF ClientType
      <4>3. 1 \in 1..Len(Packages(c)) /\ 0 \in 0..1 - 1
        BY <3>3, PackagesType
      <4>4. Packages(c)' = Packages(c) /\ Segmented' = Segmented
        BY DEF Packages, Segmented
      <4>5. Requests(c)' = Requests(c) /\ Op(c)' = Op(c) /\ Broken' = Broken /\ Responses' = Responses
        BY DEF Requests, Op, Broken, Responses
      <4> QED
        BY <2>1, <3>1, <3>3, <4>1, <4>2, <4>3, <4>4, <4>5 DEF ClientType, CallOf, Idle
    <3> QED
      BY <2>1, <3>2, <3>3
  <2>3. \A c \in Goroutine : c[1] = step /\ c[2] \in DOMAIN Segmented => at'[c] # "none"
    BY <2>1
  <2> QED
    BY <1>1, <2>1, <2>2, <2>3 DEF RunType, Indexed
<1>3. CASE WaitReturns \/ RunReturns \/ UNCHANGED tvars
  <2>1. /\ graph' = graph /\ call' = call /\ at' = at /\ pos' = pos /\ hits' = hits /\ net' = net
        /\ held' = held /\ inbox' = inbox /\ replies' = replies /\ faults' = faults
    BY <1>3 DEF WaitReturns, RunReturns, tvars, loop
  <2>2. ASSUME NEW c \in Goroutine PROVE ClientType(c)'
    BY <2>1, SameType DEF RunType, Same
  <2>3. exit' \in {"no", "end", "fail"} /\ (exit' = "end" => step' = 6)
    BY <1>3 DEF RunType, WaitReturns, RunReturns, tvars, control
  <2>4. main' = "wait" => main = "wait" /\ step' = step
    BY <1>3 DEF WaitReturns, RunReturns, tvars, control
  <2> QED
    BY <1>1, <2>1, <2>2, <2>3, <2>4 DEF RunType, Indexed
<1>4. ASSUME NEW c \in Goroutine, Client(c) \/ Break(c) \/ Server(c) PROVE RunType'
  <2>1. ClientType(c)'
    BY <1>4, OwnClientType, OwnServerType
  <2>2. ASSUME NEW d \in Goroutine \ {c} PROVE ClientType(d)' /\ Same(d)
    <3>1. Same(d)
      BY <1>4, OthersSame
    <3> QED
      BY <3>1, SameType DEF RunType
  <2>3. ASSUME main' = "wait", NEW d \in Goroutine, d[1] = step', d[2] \in DOMAIN Segmented
        PROVE  at'[d] # "none"
    <3>1. at[d] # "none"
      BY <1>4, <2>3, SharedType DEF RunType
    <3>2. CASE d = c
      <4>1. CASE Break(c) \/ Server(c)
        BY <3>1, <4>1
        DEF Break, Server, ServerReads, ServerExecutes, ServerResponds, ServerReleases, loop
      <4>2. CASE Client(c)
        <5>1. at[c] \in Live
          BY <4>2 DEF Client, Dial, SendBroken, SendRequest, Receive, SendFails, Timeout, Close,
                      InSend, Active, Live
        <5>2. at'[c] = at[c] \/ \E l : at' = [at EXCEPT ![c] = l] /\ l # "none"
          BY <4>2 DEF Client, Dial, SendBroken, SendRequest, Receive, SendFails, Timeout, Close,
                      SendReturns, NextPackage, Goto, Set, loop
        <5> QED
          BY <3>2, <5>1, <5>2 DEF StepInv, Live
      <4> QED
        BY <1>4, <4>1, <4>2
    <3>3. CASE d # c
      BY <2>2, <3>1, <3>3 DEF Same
    <3> QED
      BY <3>2, <3>3
  <2>4. \A d \in Goroutine : ClientType(d)'
    BY <2>1, <2>2
  <2> QED
    BY <1>1, <1>4, <2>3, <2>4, SharedType DEF RunType
<1> QED
  BY <1>2, <1>3, <1>4 DEF TNext, Main

LEMMA AlwaysRunType == TSpec => [](StepInv /\ RunType)
BY InitStepInv, NextStepInv, InitRunType, NextRunType, PTL DEF TSpec

\* The variables that are functions on the clients are so throughout.
Fcns == /\ call = [c \in Goroutine |-> call[c]] /\ pos = [c \in Goroutine |-> pos[c]]
        /\ hits = [c \in Goroutine |-> hits[c]] /\ net = [c \in Goroutine |-> net[c]]

LEMMA NextFcns == Fcns /\ [TNext]_tvars => Fcns'
<1> SUFFICES ASSUME Fcns, [TNext]_tvars PROVE Fcns'
  OBVIOUS
<1>1. CASE Main \/ UNCHANGED tvars
  BY <1>1 DEF Main, StartStep, WaitReturns, RunReturns, tvars, loop, Fcns
<1>2. ASSUME NEW c \in Goroutine, Client(c) \/ Break(c) \/ Server(c) PROVE Fcns'
  <2>1. call' = call \/ (\E x : call' = [call EXCEPT ![c] = x]) \/ \E x : call' = [call EXCEPT ![c].ok = x]
    BY <1>2 DEF Client, Dial, SendBroken, SendRequest, Receive, SendFails, Timeout, Close, Break,
                Server, ServerReads, ServerExecutes, Index, Remove, Query, Answer,
                ServerResponds, Return, ServerReleases, Set
  <2>2. net' = net \/ \E x : net' = [net EXCEPT ![c] = x]
    BY <1>2 DEF Client, Dial, SendBroken, SendRequest, Receive, SendFails, Timeout, Close, Break,
                Server, ServerReads, ServerExecutes, ServerResponds, Reply, ServerReleases, Set
  <2>3. /\ pos' = pos \/ \E x : pos' = [pos EXCEPT ![c] = x]
        /\ hits' = hits \/ \E x : hits' = [hits EXCEPT ![c] = x]
    <3>1. CASE \E r : SendReturns(c, r)
      BY <3>1 DEF SendReturns, NextPackage, loop, Set
    <3>2. CASE pos' = pos /\ hits' = hits
      BY <3>2
    <3> QED
      BY <1>2, <3>1, <3>2
      DEF Client, Dial, SendBroken, SendRequest, Receive, SendFails, Timeout, Close, Break,
          Server, ServerReads, ServerExecutes, ServerResponds, ServerReleases, loop
  <2>4. ASSUME NEW f, f = [d \in Goroutine |-> f[d]], NEW x
        PROVE  LET g == [f EXCEPT ![c] = x] IN g = [d \in Goroutine |-> g[d]]
    BY <2>4
  <2>5. ASSUME NEW f, f = [d \in Goroutine |-> f[d]], NEW x
        PROVE  LET g == [f EXCEPT ![c].ok = x] IN g = [d \in Goroutine |-> g[d]]
    BY <2>5
  <2>6. call' = [d \in Goroutine |-> call'[d]]
    BY <2>1, <2>4, <2>5 DEF Fcns
  <2>7. net' = [d \in Goroutine |-> net'[d]]
    BY <2>2, <2>4 DEF Fcns
  <2>8. pos' = [d \in Goroutine |-> pos'[d]] /\ hits' = [d \in Goroutine |-> hits'[d]]
    BY <2>3, <2>4 DEF Fcns
  <2> QED
    BY <2>6, <2>7, <2>8 DEF Fcns
<1> QED
  BY <1>1, <1>2 DEF TNext

LEMMA RunningCount == StepInv /\ RunType => Cardinality(Running) <= Len(Segmented)
<1> SUFFICES ASSUME StepInv, RunType PROVE Cardinality(Running) <= Len(Segmented)
  OBVIOUS
<1> DEFINE f == [c \in Running |-> c[2]]
<1>1. ASSUME NEW c \in Running PROVE c = <<step, c[2]>> /\ c[2] \in 1..Len(Segmented)
  <2>1. c \in Goroutine /\ at[c] \in Live
    BY RunningIs
  <2>2. at[c] # "none"
    BY <2>1 DEF Live
  <2>3. c[1] = step /\ c[2] \in DOMAIN Segmented
    <3>1. ClientType(c) /\ PlaceInv(c)
      BY <2>1 DEF StepInv, RunType
    <3> QED
      BY <2>1, <2>2, <3>1 DEF ClientType, PlaceInv
  <2>4. c = <<c[1], c[2]>>
    BY <2>1, TestRunAssumption
  <2> QED
    BY <2>3, <2>4, SegmentCount
<1>2. f \in Injection(Running, 1..Len(Segmented))
  BY <1>1 DEF Injection, IsInjective
<1>3. IsFiniteSet(1..Len(Segmented)) /\ Cardinality(1..Len(Segmented)) = Len(Segmented)
  BY SegmentCount, FS_Interval
<1> HIDE DEF f
<1> QED
  BY <1>2, <1>3, FS_Injection

(* In every state the variables hold what their declarations say, for any  *)
(* list: no client is past the end of its segment, none sends a request of *)
(* another step, and the counter of the wait group is neither negative nor *)
(* above the number of clients.                                            *)
THEOREM TestRunTypeCorrect == TSpec => []TTypeOK
<1>1. StepInv /\ RunType /\ Fcns => TTypeOK
  <2> SUFFICES ASSUME StepInv, RunType, Fcns PROVE TTypeOK
    OBVIOUS
  <2>0. \A c \in Goroutine : ClientType(c)
    BY DEF RunType
  <2>1. ASSUME NEW c \in Goroutine PROVE call[c] \in Call
    <3>0. ClientType(c)
      BY <2>0
    <3>1. Requests(c) \subseteq Request
      BY CallsAssumption DEF Requests
    <3>2. call[c] \in {Idle} \cup {CallOf(m, ok) : m \in Requests(c), ok \in {"pending", "true", "false"}}
      BY <3>0 DEF ClientType
    <3> QED
      BY <3>1, <3>2 DEF Call
  <2>2. call \in [Goroutine -> Call]
    BY <2>1 DEF Fcns
  <2>3. ASSUME NEW c \in Goroutine PROVE pos[c] \in 1..Len(List) /\ hits[c] \in 0..Len(List)
    <3>0. ClientType(c)
      BY <2>0
    <3>1. CASE at[c] = "none"
      <4>1. pos[c] = 1 /\ hits[c] = 0
        BY <3>0, <3>1 DEF ClientType
      <4>2. Len(List) \in Nat \ {0}
        BY TestRunAssumption DEF DividesByZero
      <4> QED
        BY <4>1, <4>2
    <3>2. CASE at[c] # "none"
      <4>1. /\ Len(Packages(c)) \in 1..Len(List)
            /\ pos[c] \in 1..Len(Packages(c)) /\ hits[c] \in 0..pos[c] - 1
        BY <3>0, <3>2, PackagesType DEF ClientType
      <4>2. Len(List) \in Nat
        BY TestRunAssumption
      <4> QED
        BY <4>1, <4>2
    <3> QED
      BY <3>1, <3>2
  <2>4. pos \in [Goroutine -> 1..Len(List)] /\ hits \in [Goroutine -> 0..Len(List)]
    BY <2>3 DEF Fcns
  <2>5. net \in [Goroutine -> {"none", "up", "down"}]
    <3>1. ASSUME NEW c \in Goroutine PROVE net[c] \in {"none", "up", "down"}
      <4>1. ClientType(c)
        BY <2>0
      <4> QED
        BY <4>1 DEF ClientType
    <3>2. net = [c \in Goroutine |-> net[c]]
      BY <2>1 DEF Fcns
    <3> QED
      BY <3>1, <3>2, ZenonT(60)
  <2>6. waiting \in 0..Concurrency
    <3>1. PICK n \in Nat : n = Cardinality(Running)
      BY FS_CardinalityType DEF StepInv
    <3>2. PICK k \in 1..Concurrency : k = Len(Segmented)
      BY SegmentCount
    <3>3. n <= k /\ waiting = n + (IF main = "wait" THEN Concurrency - k ELSE 0)
      BY <3>1, <3>2, RunningCount DEF StepInv
    <3>4. Concurrency \in Nat
      BY TestRunAssumption
    <3> QED
      BY <3>3, <3>4
  <2>7. ASSUME NEW c \in Goroutine
        PROVE  inbox[c] \in Seq(Calls \cup {Broken}) /\ replies[c] \in Seq({"OK", "FAIL", "ERROR", "err"})
    <3>1. inbox[c] \in Seq(Requests(c) \cup {Broken})
      BY <2>0 DEF ClientType
    <3>2. \A i \in 1..Len(inbox[c]) : inbox[c][i] \in Calls \cup {Broken}
      BY <3>1 DEF Requests
    <3> QED
      BY <2>0, <3>1, <3>2 DEF ClientType, Responses
  <2> QED
    BY <2>2, <2>4, <2>5, <2>6, <2>7 DEF TTypeOK, StepInv, RunType, Labels, Live
<1>2. TInit => Fcns
  BY DEF TInit, Fcns
<1> QED
  BY <1>1, <1>2, AlwaysRunType, NextFcns, PTL DEF TSpec

-----------------------------------------------------------------------------
(* What is on its way.                                                     *)

LEMMA SameMessage ==
  ASSUME NEW c, pos'[c] = pos[c]
  PROVE  Message(c)' = Message(c) /\ Broken' = Broken
BY DEF Message, Packages, Segmented, Op, Broken

LEMMA FaultsStay ==
  ASSUME RunType, NEW c \in Goroutine, Client(c) \/ Break(c) \/ Server(c)
  PROVE  faults' = faults \/ (faults' = faults + 1 /\ faults' # 0)
<1>1. faults \in Nat
  BY TestRunAssumption DEF RunType
<1>2. faults' = faults \/ faults' = faults + 1
  BY DEF Client, Dial, SendBroken, SendRequest, Receive, SendFails, Timeout, Close, Break, Unread,
         Server, ServerReads, ServerExecutes, ServerResponds, ServerReleases
<1> QED
  BY <1>1, <1>2

LEMMA SameFlight ==
  ASSUME NEW d \in Goroutine, FlightInv(d), Same(d), faults' = 0 => faults = 0
  PROVE  FlightInv(d)'
<1>1. Message(d)' = Message(d) /\ Broken' = Broken
  BY SameMessage DEF Same
<1> QED
  BY <1>1 DEF FlightInv, Same, Tame, Quiet, Sent, Working, Replied, CallOf, Idle

LEMMA QuietFlight ==
  ASSUME NEW c \in Goroutine, Quiet(c)',
         ~(faults' = 0 /\ at'[c] \in {"await", "awaitBroken"} /\ net'[c] = "up")
  PROVE  FlightInv(c)'
BY DEF FlightInv

LEMMA UntamedFlight ==
  ASSUME NEW c \in Goroutine, at'[c] \notin {"none", "dial"}, ~Tame(c)'
  PROVE  FlightInv(c)'
BY DEF FlightInv, Tame

(* In every step but that of the INDEX requests an error ends the process. *)
LEMMA ErrorFails ==
  ASSUME RunType, NEW c \in Goroutine, InSend(c)
  PROVE  c[1] # 2 \/ at[c] = "awaitBroken" => Fails(c, "err")
<1>1. at[c] \in {"await", "awaitBroken"} /\ ClientType(c)
  BY DEF InSend, Active, RunType
<1>2. CASE at[c] = "awaitBroken"
  BY <1>2 DEF Fails
<1>3. CASE at[c] = "await" /\ c[1] # 2
  <2>1. Op(c) \in {"Remove", "Query"}
    BY <1>3, Operations
  <2>2. Expected(c) # "err"
    BY DEF Expected
  <2> QED
    BY <1>3, <2>1, <2>2 DEF Fails
<1> QED
  BY <1>1, <1>2, <1>3

LEMMA ClientFlight ==
  ASSUME RunType, StepInv, NEW c \in Goroutine, FlightInv(c), Client(c), exit' # "fail"
  PROVE  FlightInv(c)'
<1>1. /\ DOMAIN call = Goroutine /\ DOMAIN net = Goroutine /\ DOMAIN at = Goroutine
      /\ DOMAIN inbox = Goroutine /\ DOMAIN replies = Goroutine
  BY DEF RunType, StepInv
<1>2. ClientType(c) /\ (faults' = 0 => faults = 0)
  BY FaultsStay DEF RunType
<1>3. CASE Dial(c)
  <2>1. /\ at[c] = "dial" /\ at'[c] = "roll"
        /\ call' = call /\ inbox' = inbox /\ replies' = replies
    BY <1>1, <1>3 DEF Dial, Active, Goto, Set
  <2>2. Quiet(c)'
    BY <2>1 DEF FlightInv, Quiet, Idle
  <2> QED
    BY <2>1, <2>2, QuietFlight
<1>4. ASSUME NEW m, Put(c, m), at[c] \in {"roll", "send"}, at'[c] \in {"await", "awaitBroken"},
             call' = call, replies' = replies, net' = net, faults' = faults, pos' = pos,
             Tame(c)'
      PROVE  /\ net[c] = "up" => Sent(c, m)'
             /\ net[c] # "up" => Quiet(c)'
  <2>1. Quiet(c)
    BY <1>4 DEF FlightInv, Tame
  <2>2. CASE net[c] = "up"
    <3>1. inbox'[c] = Append(<<>>, m)
      BY <1>1, <1>4, <2>1, <2>2 DEF Put, Set, Quiet
    <3>2. Append(<<>>, m) = <<m>>
      OBVIOUS
    <3>3. inbox'[c] = <<m>> /\ call'[c] = Idle /\ replies'[c] = <<>>
      BY <1>4, <2>1, <3>1, <3>2 DEF Quiet
    <3> QED
      BY <2>2, <3>3 DEF Sent, Idle
  <2>3. CASE net[c] # "up"
    BY <1>4, <2>1, <2>3 DEF Put, Quiet, Idle
  <2> QED
    BY <2>2, <2>3
<1>5. CASE SendBroken(c) \/ SendRequest(c)
  <2>1. PICK m : /\ m \in {Broken, Message(c)}
                 /\ at[c] \in {"roll", "send"} /\ Put(c, m)
                 /\ at'[c] = (IF m = Broken THEN "awaitBroken" ELSE "await")
    <3>1. CASE SendBroken(c)
      BY <1>1, <3>1 DEF SendBroken, Active, Goto, Set
    <3>2. CASE ~SendBroken(c)
      <4>1. at[c] \in {"roll", "send"} /\ Put(c, Message(c)) /\ at'[c] = "await"
        BY <1>1, <1>5, <3>2 DEF SendRequest, Active, Goto, Set
      <4>2. Message(c) # Broken
        BY <1>2, <4>1, MessageType DEF ClientType
      <4> QED
        BY <3>2, <4>1, <4>2
    <3> QED
      BY <3>1, <3>2
  <2>2. call' = call /\ replies' = replies /\ net' = net /\ faults' = faults /\ pos' = pos
    BY <1>5 DEF SendBroken, SendRequest
  <2>4. CASE ~Tame(c)'
    BY <2>1, <2>4, UntamedFlight
  <2>5. CASE Tame(c)' /\ net[c] # "up"
    <3>1. Quiet(c)'
      BY <1>4, <2>1, <2>2, <2>5
    <3> QED
      BY <2>2, <2>5, <3>1, QuietFlight
  <2>6. CASE Tame(c)' /\ net[c] = "up"
    <3>1. Sent(c, m)'
      BY <1>4, <2>1, <2>2, <2>6
    <3>2. Message(c)' = Message(c) /\ Broken' = Broken
      BY <2>2, SameMessage
    <3>3. inbox'[c] = <<m>> /\ <<m>> # <<>> /\ call'[c] = Idle /\ replies'[c] = <<>>
      BY <3>1 DEF Sent, Idle
    <3>4. ~Quiet(c)' /\ net'[c] = "up"
      BY <2>2, <2>6, <3>3 DEF Quiet
    <3>5. CASE m = Broken
      <4>1. at'[c] = "awaitBroken" /\ Sent(c, Broken)'
        BY <2>1, <3>2, <3>3, <3>5 DEF Sent, Idle
      <4> QED
        BY <3>4, <4>1 DEF FlightInv
    <3>6. CASE m # Broken
      <4>1. at'[c] = "await" /\ Sent(c, Message(c))'
        BY <2>1, <3>2, <3>3, <3>6 DEF Sent, Idle
      <4> QED
        BY <3>4, <4>1 DEF FlightInv
    <3> QED
      BY <3>5, <3>6
  <2> QED
    BY <2>4, <2>5, <2>6
<1>6. CASE Receive(c) \/ SendFails(c) \/ Timeout(c)
  <2>1. PICK r : SendReturns(c, r) /\ (Receive(c) \/ r = "err")
    BY <1>6 DEF Receive, SendFails, Timeout
  <2>2. InSend(c) /\ call' = call /\ net' = net /\ inbox' = inbox
    BY <1>6 DEF Receive, SendFails, Timeout
  <2>3. at[c] \in {"await", "awaitBroken"} /\ ~Fails(c, r) /\ at'[c] \in {"send", "roll", "close"}
    BY <2>1, <2>2, SendReturnsDoes DEF InSend, Active
  <2>4. CASE ~Tame(c)'
    BY <2>3, <2>4, UntamedFlight
  <2>5. CASE Tame(c)'
    <3>1. Tame(c)
      BY <1>2, <2>5 DEF Tame
    <3>2. CASE Receive(c)
      <4>1. replies[c] # <<>>
        BY <3>2 DEF Receive
      <4>2. \E R : Replied(c, R)
        BY <2>3, <3>1, <4>1 DEF FlightInv, Quiet, Sent, Working
      <4>3. PICK x : replies[c] = <<x>> /\ inbox[c] = <<>> /\ call[c] = Idle
        BY <4>2 DEF Replied
      <4>4. replies'[c] \in Behind(<<x>>) \cup CutBehind(<<x>>, "err")
        BY <1>1, <3>2, <4>3 DEF Receive, Set
      <4>5. replies'[c] = <<>>
        BY <4>4, BehindOne
      <4>6. Quiet(c)'
        BY <2>2, <4>3, <4>5 DEF Quiet, Idle
      <4> QED
        BY <2>3, <4>6, QuietFlight
    <3>3. CASE ~Receive(c)
      <4>1. c[1] = 2 /\ faults' = 0 /\ faults = 0
        BY <1>2, <2>1, <2>2, <2>3, <2>5, <3>3, ErrorFails DEF Tame
      <4>2. Quiet(c) /\ replies' = replies
        <5>1. CASE SendFails(c)
          BY <4>1, <5>1 DEF SendFails, FlightInv
        <5>2. CASE Timeout(c)
          <6>1. Lost(c) /\ replies' = replies
            BY <4>1, <5>2 DEF Timeout
          <6> QED
            BY <6>1 DEF Lost, Quiet
        <5> QED
          BY <1>6, <3>3, <5>1, <5>2
      <4>3. Quiet(c)'
        BY <2>2, <4>2 DEF Quiet, Idle
      <4> QED
        BY <2>3, <4>3, QuietFlight
    <3> QED
      BY <3>2, <3>3
  <2> QED
    BY <2>4, <2>5
<1>7. CASE Close(c)
  <2>1. /\ at[c] = "close" /\ at'[c] = "done" /\ replies'[c] = <<>>
        /\ call' = call /\ inbox' = inbox
    BY <1>1, <1>7 DEF Close, Active, Goto, Set
  <2>2. CASE ~Tame(c)'
    BY <2>1, <2>2, UntamedFlight
  <2>3. CASE Tame(c)'
    <3>1. Quiet(c)
      BY <1>2, <2>1, <2>3 DEF Tame, FlightInv
    <3>2. Quiet(c)'
      BY <2>1, <3>1 DEF Quiet, Idle
    <3> QED
      BY <2>1, <3>2, QuietFlight
  <2> QED
    BY <2>2, <2>3
<1> QED
  BY <1>3, <1>5, <1>6, <1>7 DEF Client

(* A response arrives, or has nobody to arrive at.                         *)
LEMMA ReplyDoes ==
  ASSUME RunType, NEW c \in Goroutine, NEW r, Reply(c, r), replies[c] = <<>>
  PROVE  \/ net[c] = "up" /\ at[c] # "done" /\ net'[c] = "up" /\ replies'[c] = <<r>>
         \/ ~(net[c] = "up" /\ at[c] # "done") /\ net'[c] = "down" /\ replies'[c] = <<>>
<1>1. DOMAIN net = Goroutine /\ DOMAIN replies = Goroutine
  BY DEF RunType
<1>2. Append(<<>>, r) = <<r>>
  OBVIOUS
<1>3. CASE net[c] = "up" /\ at[c] # "done"
  BY <1>1, <1>2, <1>3 DEF Reply, Set
<1>4. CASE ~(net[c] = "up" /\ at[c] # "done")
  BY <1>1, <1>4 DEF Reply, Set
<1> QED
  BY <1>3, <1>4

(* What the server reads from a tame client, and what it has then.         *)
LEMMA ReadsDoes ==
  ASSUME RunType, NEW c \in Goroutine, FlightInv(c), Tame(c), ServerReads(c)
  PROVE  /\ inbox'[c] = <<>> /\ replies[c] = <<>> /\ call[c] = Idle
         /\ \/ /\ at[c] = "await" /\ call'[c] = CallOf(Message(c), "pending")
               /\ net' = net /\ replies' = replies
            \/ at[c] = "awaitBroken" /\ call' = call /\ Reply(c, "ERROR")
<1>1. DOMAIN call = Goroutine /\ DOMAIN inbox = Goroutine /\ ClientType(c)
  BY DEF RunType
<1>2. /\ inbox[c] # <<>> /\ call[c] = Idle
      /\ inbox'[c] \in Behind(inbox[c]) \cup CutBehind(inbox[c], Broken)
  BY <1>1 DEF ServerReads, Busy, Set
<1>3. at[c] \notin {"none", "dial"}
  BY <1>2 DEF Quiet, FlightInv
<1>4. PICK m : /\ inbox[c] = <<m>> /\ replies[c] = <<>>
               /\ \/ at[c] = "await" /\ m = Message(c)
                  \/ at[c] = "awaitBroken" /\ m = Broken
  BY <1>2 DEF FlightInv, Quiet, Sent, Working, Replied
<1>5. inbox'[c] = <<>>
  BY <1>2, <1>4, BehindOne
<1>6. Head(inbox[c]) = m
  <2>1. Head(<<m>>) = m
    OBVIOUS
  <2> QED
    BY <1>4, <2>1
<1>7. CASE m = Broken
  <2>1. Message(c) # Broken
    BY <1>1, <1>3, MessageType DEF ClientType
  <2>2. at[c] = "awaitBroken"
    BY <1>4, <1>7, <2>1
  <2>3. Reply(c, "ERROR") /\ call' = call
    BY <1>6, <1>7 DEF ServerReads
  <2> QED
    BY <1>2, <1>4, <1>5, <2>2, <2>3
<1>8. CASE m # Broken
  <2>1. at[c] = "await" /\ m = Message(c)
    BY <1>4, <1>8
  <2>2. call'[c] = CallOf(m, "pending") /\ net' = net /\ replies' = replies
    BY <1>1, <1>6, <1>8 DEF ServerReads, Set
  <2> QED
    BY <1>2, <1>4, <1>5, <2>1, <2>2
<1> QED
  BY <1>7, <1>8

LEMMA ServerFlight ==
  ASSUME RunType, StepInv, NEW c \in Goroutine, FlightInv(c), Break(c) \/ Server(c)
  PROVE  FlightInv(c)'
<1>1. /\ DOMAIN call = Goroutine /\ DOMAIN net = Goroutine
      /\ DOMAIN inbox = Goroutine /\ DOMAIN replies = Goroutine
  BY DEF RunType
<1>2. ClientType(c) /\ (faults' = 0 => faults = 0)
  BY FaultsStay DEF RunType
<1>3. at' = at /\ pos' = pos /\ hits' = hits
  BY DEF Break, Server, ServerReads, ServerExecutes, ServerResponds, ServerReleases, loop
<1>4. Message(c)' = Message(c) /\ Broken' = Broken
  BY <1>3, SameMessage
<1>5. Tame(c)' => Tame(c)
  BY <1>2 DEF Tame
<1>6. CASE Break(c)
  <2>1. /\ at[c] \notin {"none", "dial"} /\ call' = call /\ inbox' = inbox
        /\ replies'[c] \in {replies[c], <<>>}
    BY <1>1, <1>6 DEF Break, Set
  <2>2. faults' # 0
    <3>1. faults \in Nat /\ faults' = faults + 1
      BY <1>6, TestRunAssumption DEF Break, RunType
    <3> QED
      BY <3>1
  <2>3. CASE ~Tame(c)'
    BY <1>3, <2>1, <2>3, UntamedFlight
  <2>4. CASE replies'[c] = replies[c]
    BY <1>3, <1>4, <1>5, <2>1, <2>2, <2>4
    DEF FlightInv, Quiet, Sent, Working, Replied, CallOf, Idle
  <2>5. CASE Tame(c)' /\ replies'[c] # replies[c]
    <3>1. replies[c] # <<>> /\ replies'[c] = <<>>
      BY <2>1, <2>5
    <3>2. inbox[c] = <<>> /\ call[c] = Idle
      BY <1>5, <2>5, <3>1 DEF FlightInv, Quiet, Sent, Working, Replied
    <3>3. Quiet(c)'
      BY <2>1, <3>1, <3>2 DEF Quiet, Idle
    <3> QED
      BY <2>2, <3>3, QuietFlight
  <2> QED
    BY <2>1, <2>3, <2>4, <2>5
<1>7. CASE ServerReads(c)
  <2>1. ~Quiet(c) /\ at[c] \notin {"none", "dial"}
    BY <1>7 DEF ServerReads, Quiet, FlightInv
  <2>2. CASE ~Tame(c)'
    BY <1>3, <2>1, <2>2, UntamedFlight
  <2>3. CASE Tame(c)'
    <3>1. inbox'[c] = <<>> /\ replies[c] = <<>> /\ call[c] = Idle
      BY <1>5, <1>7, <2>3, ReadsDoes
    <3>2. faults' = 0 => net[c] # "down"
      BY <1>2, <2>1 DEF FlightInv
    <3>3. CASE /\ at[c] = "await" /\ call'[c] = CallOf(Message(c), "pending")
               /\ net' = net /\ replies' = replies
      <4>1. Working(c)'
        BY <1>4, <3>1, <3>3 DEF Working, CallOf
      <4>2. call'[c] # Idle
        <5>1. Message(c).op # "none"
          BY <1>2, <2>1, MessageType, Operations DEF ClientType
        <5> QED
          BY <3>3, <5>1 DEF CallOf, Idle
      <4>3. ~Quiet(c)'
        BY <4>2 DEF Quiet, Idle
      <4> QED
        BY <1>3, <3>2, <3>3, <4>1, <4>3 DEF FlightInv
    <3>4. CASE at[c] = "awaitBroken" /\ call' = call /\ Reply(c, "ERROR")
      <4>1. CASE net'[c] = "up" /\ replies'[c] = <<"ERROR">>
        <5>1. Replied(c, {"ERROR"})'
          BY <3>1, <3>4, <4>1 DEF Replied, Idle
        <5>2. ~Quiet(c)'
          BY <4>1 DEF Quiet
        <5> QED
          BY <1>3, <3>4, <4>1, <5>1, <5>2 DEF FlightInv
      <4>2. CASE net'[c] = "down" /\ replies'[c] = <<>>
        <5>1. Quiet(c)'
          BY <3>1, <3>4, <4>2 DEF Quiet, Idle
        <5> QED
          BY <4>2, <5>1, QuietFlight
      <4> QED
        BY <3>1, <3>4, <4>1, <4>2, ReplyDoes
    <3> QED
      BY <1>5, <1>7, <2>3, <3>3, <3>4, ReadsDoes
  <2> QED
    BY <2>2, <2>3
<1>8. CASE ServerExecutes(c)
  <2>1. call[c] # Idle /\ net' = net /\ inbox' = inbox /\ replies' = replies
    BY <1>8, ExecutesDoes DEF ServerExecutes, Busy
  <2>2. ~Quiet(c) /\ at[c] \notin {"none", "dial"}
    BY <2>1 DEF Quiet, FlightInv
  <2>3. CASE ~Tame(c)'
    BY <1>3, <2>2, <2>3, UntamedFlight
  <2>4. CASE Tame(c)'
    <3>1. at[c] = "await" /\ Working(c)
      BY <1>5, <2>1, <2>2, <2>4 DEF FlightInv, Quiet, Sent, Replied
    <3>2. PICK ok \in {"true", "false"}, m \in Requests(c) :
            call[c] = CallOf(m, "pending") /\ call'[c] = CallOf(m, ok)
      BY <1>8, ExecutesDoes
    <3>3. CallOf(m, ok) = CallOf(Message(c), ok)
      <4>1. PICK old : call[c] = CallOf(Message(c), old)
        BY <3>1 DEF Working
      <4>2. m.op = Message(c).op /\ m.pkg = Message(c).pkg /\ m.deps = Message(c).deps
        BY <3>2, <4>1 DEF CallOf
      <4> QED
        BY <4>2 DEF CallOf
    <3>4. Working(c)'
      BY <1>4, <2>1, <3>1, <3>2, <3>3 DEF Working, CallOf
    <3>5. call'[c] # Idle
      <4>1. m.op # "none"
        BY Operations DEF Requests
      <4> QED
        BY <3>2, <4>1 DEF CallOf, Idle
    <3>6. ~Quiet(c)'
      BY <3>5 DEF Quiet, Idle
    <3>7. faults' = 0 => net'[c] # "down"
      BY <1>2, <2>1, <2>2 DEF FlightInv
    <3> QED
      BY <1>3, <3>1, <3>4, <3>6, <3>7 DEF FlightInv
  <2> QED
    BY <2>3, <2>4
<1>9. CASE ServerResponds(c)
  <2>1. call[c] # Idle /\ call'[c] = Idle /\ inbox' = inbox
    BY <1>1, <1>9 DEF ServerResponds, Return, Busy
  <2>2. PICK r \in {"OK", "FAIL"} : Reply(c, r)
    BY <1>9 DEF ServerResponds
  <2>3. ~Quiet(c) /\ at[c] \notin {"none", "dial"}
    BY <2>1 DEF Quiet, FlightInv
  <2>4. CASE ~Tame(c)'
    BY <1>3, <2>3, <2>4, UntamedFlight
  <2>5. CASE Tame(c)'
    <3>1. at[c] = "await" /\ Working(c)
      BY <1>5, <2>1, <2>3, <2>5 DEF FlightInv, Quiet, Sent, Replied
    <3>2. inbox[c] = <<>> /\ replies[c] = <<>>
      BY <3>1 DEF Working
    <3>3. CASE net'[c] = "up" /\ replies'[c] = <<r>>
      <4>1. Replied(c, {"OK", "FAIL"})'
        BY <2>1, <3>2, <3>3 DEF Replied, Idle
      <4>2. ~Quiet(c)'
        BY <3>3 DEF Quiet
      <4> QED
        BY <1>3, <3>1, <3>3, <4>1, <4>2 DEF FlightInv
    <3>4. CASE net'[c] = "down" /\ replies'[c] = <<>>
      <4>1. Quiet(c)'
        BY <2>1, <3>2, <3>4 DEF Quiet, Idle
      <4> QED
        BY <3>4, <4>1, QuietFlight
    <3> QED
      BY <2>2, <3>2, <3>3, <3>4, ReplyDoes
  <2> QED
    BY <2>4, <2>5
<1>10. CASE ServerReleases(c)
  <2>1. /\ call' = call /\ net' = net /\ replies' = replies /\ inbox'[c] = <<>>
        /\ call[c] = Idle /\ (net[c] = "down" \/ at[c] = "done") /\ faults' = faults
    BY <1>1, <1>10 DEF ServerReleases, Set, Busy
  <2>2. Quiet(c) => Quiet(c)'
    BY <2>1 DEF Quiet, Idle
  <2>3. Sent(c, Message(c)) \/ Sent(c, Broken) => Quiet(c)'
    BY <2>1 DEF Sent, Quiet, Idle
  <2>4. \A R \in {{"OK", "FAIL"}, {"ERROR"}} : Replied(c, R) => Replied(c, R)'
    BY <2>1 DEF Replied, Idle
  <2>5. ~Working(c) \/ Quiet(c)'
    BY <2>1 DEF Working, Quiet, Idle
  <2> QED
    BY <1>3, <2>1, <2>2, <2>3, <2>4, <2>5 DEF FlightInv, Tame
<1> QED
  BY <1>6, <1>7, <1>8, <1>9, <1>10 DEF Server

-----------------------------------------------------------------------------
(* What the clients have achieved.                                         *)

\* A step takes no package from the index in the steps that index and verify
\* it, and puts none there in the others, unless there has been a fault.
Steady == /\ step \in {2, 3} \/ (step = 4 /\ main = "start") => Indexed \subseteq Indexed'
          /\ faults = 0 /\ step # 2 => Indexed' \subseteq Indexed

LEMMA AlwaysSteady ==
  ASSUME RunType, StepInv, \A c \in Goroutine : FlightInv(c), [TNext]_tvars
  PROVE  Steady
<1>1. CASE graph' = graph
  BY <1>1 DEF Steady, Indexed
<1>2. CASE \E d \in Goroutine : ServerExecutes(d)
  <2>1. PICK d \in Goroutine : ServerExecutes(d)
    BY <1>2
  <2>2. Op(d) \in {"Remove", "Index", "Query"} /\ ~Quiet(d)
    BY <2>1, ExecutesDoes, Operations DEF Quiet, Busy
  <2>3. Tame(d) => d[1] = step /\ main = "wait"
    <3>1. FlightInv(d) /\ PlaceInv(d)
      BY DEF StepInv
    <3> QED
      BY <2>2, <3>1 DEF FlightInv, PlaceInv, Live
  <2>4. CASE Op(d) = "Query"
    BY <2>1, <2>4, ExecutesDoes DEF Steady
  <2>5. CASE Op(d) = "Remove"
    <3>1. d[1] \in {1, 4} /\ Tame(d)
      BY <2>5, Operations DEF Tame
    <3>2. Indexed' \subseteq Indexed
      BY <2>1, <2>5, ExecutesDoes
    <3> QED
      BY <2>3, <3>1, <3>2 DEF Steady
  <2>6. CASE Op(d) = "Index"
    <3>1. d[1] = 2 /\ (faults = 0 => Tame(d))
      BY <2>6, Operations DEF Tame
    <3>2. Indexed \subseteq Indexed'
      BY <2>1, <2>6, ExecutesDoes
    <3> QED
      BY <2>3, <3>1, <3>2 DEF Steady
  <2> QED
    BY <2>2, <2>4, <2>5, <2>6
<1> QED
  BY <1>1, <1>2
  DEF TNext, Main, StartStep, WaitReturns, RunReturns, tvars,
      Client, Dial, SendBroken, SendRequest, Receive, SendFails, Timeout, Close, Break,
      Server, ServerReads, ServerResponds, ServerReleases

LEMMA GoodStays ==
  ASSUME Steady, NEW c \in Goroutine, Tracked(c)
  PROVE  \A p : Good(c, p) => Good(c, p)'
BY Operations DEF Steady, Tracked, Good

LEMMA SameSettled ==
  ASSUME NEW d \in Goroutine, SettledInv(d), Same(d), Steady,
         step' = step, faults' = 0 => faults = 0
  PROVE  SettledInv(d)'
<1> SUFFICES ASSUME Tracked(d)' PROVE SettledInv(d)'
  BY DEF SettledInv
<1>1. Tracked(d)
  BY DEF Tracked
<1>2. Packages(d)' = Packages(d) /\ Op(d)' = Op(d)
  BY DEF Packages, Segmented, Op
<1>3. WantedOk(d)' = WantedOk(d) /\ Wanted(d)' = Wanted(d) /\ (Busy(d)' <=> Busy(d))
  BY DEF WantedOk, Wanted, Busy, Idle, Same
<1>4. \A p : Good(d, p) => Good(d, p)'
  BY <1>1, GoodStays
<1> QED
  BY <1>1, <1>2, <1>3, <1>4 DEF SettledInv, Same

(* The step of c itself leaves what it has passed as it should be, and     *)
(* what is left to show is what its new answer or response tells it.       *)
LEMMA StayedSettled ==
  ASSUME NEW c \in Goroutine, SettledInv(c), Steady, step' = step, faults' = 0 => faults = 0,
         at'[c] = at[c] \/ (at'[c] \in {"roll", "send", "await", "awaitBroken"}
                              /\ at[c] \in {"dial", "roll", "send", "await", "awaitBroken"}),
         pos'[c] = pos[c], hits'[c] = hits[c],
         Tracked(c) /\ at'[c] = "await" /\ ((Busy(c)' /\ call'[c].ok = WantedOk(c))
                                              \/ replies'[c] = <<Wanted(c)>>) =>
           Good(c, Packages(c)[pos[c]])'
  PROVE  SettledInv(c)'
<1> SUFFICES ASSUME Tracked(c)' PROVE SettledInv(c)'
  BY DEF SettledInv
<1>1. Tracked(c)
  BY DEF Tracked
<1>2. Packages(c)' = Packages(c) /\ Op(c)' = Op(c)
  BY DEF Packages, Segmented, Op
<1>3. WantedOk(c)' = WantedOk(c) /\ Wanted(c)' = Wanted(c)
  BY DEF WantedOk, Wanted
<1>4. \A p : Good(c, p) => Good(c, p)'
  BY <1>1, GoodStays
<1>5. /\ at'[c] \in {"dial", "roll", "send", "await", "awaitBroken"}
           /\ (Op(c) = "Query" \/ hits[c] = pos[c] - 1) =>
              \A i \in 1..pos[c] - 1 : Good(c, Packages(c)[i])'
      /\ at'[c] \in {"close", "done"} =>
              \A i \in DOMAIN Packages(c) : Good(c, Packages(c)[i])'
  BY <1>1, <1>4 DEF SettledInv
<1> QED
  BY <1>1, <1>2, <1>3, <1>5 DEF SettledInv

(* A client that leaves a package behind has been told what it wanted, and *)
(* was told the truth; or it has noted that it has not.                    *)
LEMMA LeftSettled ==
  ASSUME RunType, StepInv, NEW c \in Goroutine, FlightInv(c), SettledInv(c), Tracked(c),
         Client(c), NEW r, SendReturns(c, r), Receive(c) \/ r = "err",
         Receive(c) => r = Head(replies[c]),
         at[c] = "await", ~Fails(c, r),
         Op(c) = "Query" \/ hits[c] + Hit(r) = pos[c]
  PROVE  \A i \in 1..pos[c] : Good(c, Packages(c)[i])
<1>1. ClientType(c)
  BY DEF RunType
<1>2. PICK p \in Nat, h \in Nat : p = pos[c] /\ h = hits[c] /\ h <= p - 1 /\ p >= 1
  <2>1. at[c] # "none"
    OBVIOUS
  <2> QED
    BY <2>1, PosType
<1>3. r = Wanted(c) /\ (Op(c) = "Query" \/ hits[c] = pos[c] - 1)
  <2>1. c[1] \in 2..5
    BY Operations DEF Tracked
  <2>2. CASE Op(c) = "Query"
    <3>1. r = Expected(c)
      BY <2>2 DEF Fails
    <3>2. c[1] \in {3, 5}
      BY <2>2, Operations
    <3> QED
      BY <2>2, <3>1, <3>2 DEF Expected, Wanted
  <2>3. CASE Op(c) # "Query"
    <3>1. h + Hit(r) = p /\ Hit(r) \in {0, 1}
      BY <1>2, <2>3 DEF Hit
    <3>2. Hit(r) = 1 /\ h = p - 1
      BY <1>2, <3>1
    <3>3. r = "OK"
      BY <3>2 DEF Hit
    <3>4. c[1] # 5
      BY <2>3, Operations
    <3> QED
      BY <1>2, <3>2, <3>3, <3>4 DEF Wanted
  <2> QED
    BY <2>2, <2>3
<1>4. Receive(c)
  BY <1>3 DEF Wanted
<1>5. replies[c] = <<r>>
  <2>1. replies[c] # <<>> /\ Tame(c)
    BY <1>4 DEF Receive, Tracked, Tame
  <2>2. PICK x : replies[c] = <<x>>
    BY <2>1 DEF FlightInv, Quiet, Sent, Working, Replied
  <2>3. Head(<<x>>) = x
    OBVIOUS
  <2> QED
    BY <1>4, <2>2, <2>3
<1>6. Good(c, Packages(c)[pos[c]])
  BY <1>3, <1>5 DEF SettledInv
<1>7. \A i \in 1..pos[c] - 1 : Good(c, Packages(c)[i])
  BY <1>3 DEF SettledInv
<1>8. \A i \in 1..p : i \in 1..p - 1 \/ i = p
  BY <1>2
<1> QED
  BY <1>2, <1>6, <1>7, <1>8

LEMMA ClientSettled ==
  ASSUME RunType, StepInv, NEW c \in Goroutine, FlightInv(c), SettledInv(c), Steady,
         Client(c), exit' # "fail"
  PROVE  SettledInv(c)'
<1>1. /\ DOMAIN at = Goroutine /\ DOMAIN inbox = Goroutine /\ DOMAIN replies = Goroutine
      /\ ClientType(c)
  BY DEF RunType, StepInv
<1>2. (faults' = 0 => faults = 0) /\ step' = step
  BY FaultsStay, SharedType
<1>3. Tracked(c)' => Tracked(c) /\ Tame(c)
  BY <1>2 DEF Tracked, Tame
<1>4. CASE Dial(c) \/ SendBroken(c)
  <2>1. /\ at[c] \in {"dial", "roll"} /\ at'[c] \in {"roll", "awaitBroken"}
        /\ pos' = pos /\ hits' = hits
    BY <1>1, <1>4 DEF Dial, SendBroken, Active, Goto, Set
  <2> QED
    BY <1>2, <2>1, StayedSettled
<1>5. CASE SendRequest(c)
  <2>1. /\ at[c] \in {"roll", "send"} /\ at'[c] = "await" /\ pos' = pos /\ hits' = hits
        /\ call' = call /\ replies' = replies
    BY <1>1, <1>5 DEF SendRequest, Active, Goto, Set
  <2>2. Tracked(c) => ~Busy(c)' /\ replies'[c] # <<Wanted(c)>>
    <3>1. Tracked(c) => Quiet(c)
      BY <2>1 DEF Tracked, FlightInv, Tame
    <3>2. <<>> # <<Wanted(c)>>
      OBVIOUS
    <3>3. Tracked(c) => call'[c] = Idle /\ replies'[c] = <<>>
      BY <2>1, <3>1 DEF Quiet
    <3> QED
      BY <3>2, <3>3 DEF Busy, Idle
  <2> QED
    BY <1>2, <2>1, <2>2, StayedSettled
<1>6. CASE Receive(c) \/ SendFails(c) \/ Timeout(c)
  <2>1. PICK r : /\ SendReturns(c, r) /\ (Receive(c) \/ r = "err")
                 /\ Receive(c) => r = Head(replies[c])
    <3>1. CASE Receive(c)
      BY <3>1 DEF Receive
    <3>2. CASE ~Receive(c)
      BY <1>6, <3>2 DEF SendFails, Timeout
    <3> QED
      BY <3>1, <3>2
  <2>2. InSend(c) /\ at[c] \in {"await", "awaitBroken"}
    BY <1>6 DEF Receive, SendFails, Timeout, InSend, Active
  <2>3. /\ ~Fails(c, r)
        /\ \/ /\ at[c] = "awaitBroken" /\ at'[c] = "send" /\ pos' = pos /\ hits' = hits
           \/ /\ at[c] = "await" /\ pos[c] < Len(Packages(c))
              /\ pos'[c] = pos[c] + 1 /\ hits'[c] = hits[c] + Hit(r) /\ at'[c] = "roll"
           \/ /\ at[c] = "await" /\ ~(pos[c] < Len(Packages(c))) /\ pos'[c] = 1
              /\ \/ /\ Op(c) = "Query" \/ hits[c] + Hit(r) = Len(Packages(c))
                    /\ at'[c] = "close"
                 \/ at'[c] = "roll"
    BY <2>1, <2>2, SendReturnsDoes
  <2>4. CASE at[c] = "awaitBroken" /\ at'[c] = "send" /\ pos' = pos /\ hits' = hits
    BY <1>2, <2>4, StayedSettled
  <2>5. CASE at[c] = "await"
    <3> SUFFICES ASSUME Tracked(c)' PROVE SettledInv(c)'
      BY DEF SettledInv
    <3>1. /\ Packages(c)' = Packages(c) /\ Op(c)' = Op(c)
          /\ \A p : Good(c, p) => Good(c, p)'
      BY <1>3, GoodStays DEF Packages, Segmented, Op
    <3>2. PICK n \in Nat, p \in Nat : /\ n = Len(Packages(c)) /\ p = pos[c] /\ p <= n /\ p >= 1
                                      /\ DOMAIN Packages(c) = 1..n
      <4>1. at[c] # "none"
        BY <2>5
      <4> QED
        BY <4>1, PosType
    <3>3. CASE /\ pos'[c] = pos[c] + 1 /\ hits'[c] = hits[c] + Hit(r) /\ at'[c] = "roll"
      <4>1. pos'[c] - 1 = pos[c]
        BY <3>2, <3>3
      <4>2. Op(c) = "Query" \/ hits'[c] = pos'[c] - 1 =>
              \A i \in 1..pos[c] : Good(c, Packages(c)[i])
        BY <1>3, <2>1, <2>3, <2>5, <3>3, <4>1, LeftSettled
      <4>3. Op(c) = "Query" \/ hits'[c] = pos'[c] - 1 =>
              \A i \in 1..pos'[c] - 1 : Good(c, Packages(c)[i])'
        BY <3>1, <4>1, <4>2
      <4> QED
        BY <3>1, <3>3, <4>3 DEF SettledInv
    <3>4. CASE /\ ~(pos[c] < Len(Packages(c))) /\ at'[c] = "close"
               /\ Op(c) = "Query" \/ hits[c] + Hit(r) = Len(Packages(c))
      <4>1. pos[c] = Len(Packages(c)) /\ DOMAIN Packages(c) = 1..pos[c]
        BY <3>2, <3>4
      <4>2. \A i \in 1..pos[c] : Good(c, Packages(c)[i])
        BY <1>3, <2>1, <2>3, <2>5, <3>4, <4>1, LeftSettled
      <4>3. \A i \in DOMAIN Packages(c) : Good(c, Packages(c)[i])'
        BY <3>1, <4>1, <4>2
      <4> QED
        BY <3>1, <3>4, <4>3 DEF SettledInv
    <3>5. CASE pos'[c] = 1 /\ at'[c] = "roll"
      <4>1. 1..pos'[c] - 1 = {}
        BY <3>5
      <4> QED
        BY <3>5, <4>1 DEF SettledInv
    <3> QED
      BY <2>3, <2>5, <3>3, <3>4, <3>5
  <2> QED
    BY <2>2, <2>3, <2>4, <2>5
<1>7. CASE Close(c)
  <2>1. at[c] = "close" /\ at'[c] = "done"
    BY <1>1, <1>7 DEF Close, Active, Goto, Set
  <2> SUFFICES ASSUME Tracked(c)' PROVE SettledInv(c)'
    BY DEF SettledInv
  <2>2. /\ Packages(c)' = Packages(c)
        /\ \A p : Good(c, p) => Good(c, p)'
    BY <1>3, GoodStays DEF Packages, Segmented
  <2> QED
    BY <1>3, <2>1, <2>2 DEF SettledInv
<1> QED
  BY <1>4, <1>5, <1>6, <1>7 DEF Client


LEMMA ServerSettled ==
  ASSUME RunType, StepInv, NEW c \in Goroutine, FlightInv(c), SettledInv(c), Steady,
         Break(c) \/ Server(c)
  PROVE  SettledInv(c)'
<1>1. DOMAIN call = Goroutine /\ DOMAIN replies = Goroutine /\ ClientType(c)
  BY DEF RunType
<1>2. (faults' = 0 => faults = 0) /\ step' = step
  BY FaultsStay, SharedType
<1>3. at' = at /\ pos' = pos /\ hits' = hits
  BY DEF Break, Server, ServerReads, ServerExecutes, ServerResponds, ServerReleases, loop
<1>4. ASSUME Tracked(c), at[c] = "await",
             (Busy(c)' /\ call'[c].ok = WantedOk(c)) \/ replies'[c] = <<Wanted(c)>>
      PROVE  Good(c, Packages(c)[pos[c]])'
  <2>1. (Busy(c) /\ call[c].ok = WantedOk(c)) \/ replies[c] = <<Wanted(c)>> =>
          Good(c, Packages(c)[pos[c]])'
    <3>1. (Busy(c) /\ call[c].ok = WantedOk(c)) \/ replies[c] = <<Wanted(c)>> =>
            Good(c, Packages(c)[pos[c]])
      BY <1>4 DEF SettledInv
    <3>2. Packages(c)' = Packages(c) /\ \A p : Good(c, p) => Good(c, p)'
      BY <1>4, GoodStays DEF Packages, Segmented
    <3> QED
      BY <1>3, <3>1, <3>2
  <2>2. Tame(c) /\ WantedOk(c) \in {"true", "false"} /\ Wanted(c) \in {"OK", "FAIL"}
    BY <1>4 DEF Tracked, Tame, WantedOk, Wanted
  <2>3. <<>> # <<Wanted(c)>>
    OBVIOUS
  <2>4. CASE Break(c) \/ ServerReleases(c)
    <3>1. call' = call /\ replies'[c] \in {replies[c], <<>>}
      BY <1>1, <2>4 DEF Break, ServerReleases, Set
    <3> QED
      BY <1>4, <2>1, <2>3, <3>1 DEF Busy, Idle
  <2>5. CASE ServerReads(c)
    <3>1. call'[c] = CallOf(Message(c), "pending") /\ replies'[c] = <<>>
      BY <1>4, <2>2, <2>5, ReadsDoes
    <3>2. call'[c].ok = "pending"
      BY <3>1 DEF CallOf
    <3> QED
      BY <1>4, <2>2, <2>3, <3>1, <3>2
  <2>6. CASE ServerExecutes(c)
    <3>1. Working(c) /\ replies' = replies /\ call[c] # Idle
      BY <1>4, <2>2, <2>6, ExecutesDoes DEF ServerExecutes, FlightInv, Quiet, Sent, Replied, Busy
    <3>2. call[c].pkg = Packages(c)[pos[c]]
      <4>1. PICK old : call[c] = CallOf(Message(c), old)
        BY <3>1 DEF Working
      <4>2. Message(c).pkg = Packages(c)[pos[c]]
        BY <1>1, <1>4, MessageType DEF ClientType
      <4> QED
        BY <4>1, <4>2 DEF CallOf
    <3>3. replies'[c] # <<Wanted(c)>>
      BY <2>3, <3>1 DEF Working
    <3>4. PICK ok \in {"true", "false"} : \E m \in Requests(c) :
            /\ call[c] = CallOf(m, "pending") /\ call'[c] = CallOf(m, ok)
            /\ Op(c) = "Index" =>
                 /\ Indexed' \in {Indexed, Indexed \cup {call[c].pkg}}
                 /\ ok = "true" => call[c].pkg \in Indexed'
            /\ Op(c) = "Remove" =>
                 /\ Indexed' \in {Indexed, Indexed \ {call[c].pkg}}
                 /\ ok = "true" => call[c].pkg \notin Indexed'
            /\ Op(c) = "Query" =>
                 /\ Indexed' = Indexed
                 /\ ok = "true" <=> call[c].pkg \in Indexed
      BY <2>6, ExecutesDoes
    <3>5. ok = WantedOk(c)
      BY <1>4, <3>3, <3>4 DEF CallOf
    <3>6. c[1] \in {2, 3, 4, 5}
      BY <1>4, Operations DEF Tracked
    <3>7. Packages(c)' = Packages(c) /\ pos'[c] = pos[c]
      BY <1>3 DEF Packages, Segmented
    <3>8. IF c[1] \in {2, 3} THEN call[c].pkg \in Indexed' ELSE call[c].pkg \notin Indexed'
      BY <3>4, <3>5, <3>6, Operations DEF WantedOk
    <3> QED
      BY <3>2, <3>7, <3>8 DEF Good
  <2>7. CASE ServerResponds(c)
    <3>1. /\ Reply(c, IF call[c].ok = "true" THEN "OK" ELSE "FAIL")
          /\ call[c] # Idle /\ call[c].ok # "pending" /\ call'[c] = Idle
      BY <1>1, <2>7 DEF ServerResponds, Return, Busy
    <3>2. PICK m \in Requests(c), ok \in {"pending", "true", "false"} : call[c] = CallOf(m, ok)
      BY <1>1, <3>1 DEF ClientType
    <3>3. call[c].ok = ok
      BY <3>2 DEF CallOf
    <3>4. PICK r : r = (IF ok = "true" THEN "OK" ELSE "FAIL")
      OBVIOUS
    <3>5. replies[c] = <<>>
      BY <1>4, <2>2, <3>1 DEF FlightInv, Quiet, Sent, Working, Replied
    <3>6. replies'[c] \in {<<r>>, <<>>}
      BY <3>1, <3>3, <3>4, <3>5, ReplyDoes
    <3>7. <<r>> = <<Wanted(c)>>
      BY <1>4, <2>3, <3>1, <3>6 DEF Busy, Idle
    <3>8. r = Wanted(c)
      <4>1. <<r>>[1] = r /\ <<Wanted(c)>>[1] = Wanted(c)
        OBVIOUS
      <4> QED
        BY <3>7, <4>1
    <3>9. ok = WantedOk(c)
      BY <3>1, <3>3, <3>4, <3>8 DEF Wanted, WantedOk
    <3> QED
      BY <2>1, <3>1, <3>3, <3>9 DEF Busy
  <2> QED
    BY <2>4, <2>5, <2>6, <2>7 DEF Server
<1> QED
  BY <1>2, <1>3, <1>4, StayedSettled

-----------------------------------------------------------------------------
(* The answers to the queries.                                             *)

LEMMA SameExpected ==
  ASSUME NEW d \in Goroutine, ExpectedInv(d), Same(d), step' = step, faults' = 0 => faults = 0
  PROVE  ExpectedInv(d)'
<1>1. WantedOk(d)' = WantedOk(d) /\ Wanted(d)' = Wanted(d) /\ Op(d)' = Op(d)
  BY DEF WantedOk, Wanted, Op
<1> QED
  BY <1>1 DEF ExpectedInv, Same, Busy, Idle

LEMMA OwnExpected ==
  ASSUME RunType, StepInv, ListInv, NEW c \in Goroutine, FlightInv(c), ExpectedInv(c),
         Client(c) \/ Break(c) \/ Server(c), exit' # "fail"
  PROVE  ExpectedInv(c)'
<1>1. /\ DOMAIN at = Goroutine /\ DOMAIN inbox = Goroutine
      /\ DOMAIN call = Goroutine /\ DOMAIN replies = Goroutine /\ ClientType(c)
  BY DEF RunType, StepInv
<1>2. step' = step
  BY SharedType
<1>3. WantedOk(c)' = WantedOk(c) /\ Wanted(c)' = Wanted(c) /\ Op(c)' = Op(c)
  BY DEF WantedOk, Wanted, Op
<1> SUFFICES ASSUME faults' = 0, c[1] = step, Op(c) = "Query", at'[c] = "await"
             PROVE  /\ Busy(c)' => call'[c].ok \in {"pending", WantedOk(c)}
                    /\ replies'[c] \in {<<>>, <<Wanted(c)>>}
  BY <1>2, <1>3 DEF ExpectedInv
<1>4. faults = 0 /\ Tame(c)
  BY FaultsStay DEF Tame
<1>5. at[c] = "await" => /\ Busy(c) => call[c].ok \in {"pending", WantedOk(c)}
                         /\ replies[c] \in {<<>>, <<Wanted(c)>>}
  BY <1>4 DEF ExpectedInv
<1>6. CASE Dial(c) \/ SendBroken(c) \/ Close(c)
  BY <1>1, <1>6 DEF Dial, SendBroken, Close, Goto, Set
<1>7. CASE SendRequest(c)
  <2>1. at[c] \in {"roll", "send"} /\ call' = call /\ replies' = replies
    BY <1>7 DEF SendRequest, Active
  <2>2. Quiet(c)
    BY <1>4, <2>1 DEF FlightInv
  <2> QED
    BY <2>1, <2>2 DEF Quiet, Busy, Idle
<1>8. CASE Receive(c) \/ SendFails(c) \/ Timeout(c)
  <2>1. InSend(c) /\ \E r : SendReturns(c, r)
    BY <1>8 DEF Receive, SendFails, Timeout
  <2>2. at'[c] # "await"
    BY <2>1, SendReturnsDoes
  <2> QED
    BY <2>2
<1>9. at' = at \/ Client(c)
  BY DEF Break, Server, ServerReads, ServerExecutes, ServerResponds, ServerReleases, loop
<1>10. CASE Break(c) \/ ServerReleases(c)
  <2>1. call' = call /\ replies'[c] \in {replies[c], <<>>} /\ at' = at
    BY <1>1, <1>10 DEF Break, ServerReleases, Set, loop
  <2> QED
    BY <1>5, <2>1 DEF Busy, Idle
<1>11. CASE ServerReads(c)
  <2>1. at[c] = "await"
    BY <1>11 DEF ServerReads, loop
  <2>2. call'[c] = CallOf(Message(c), "pending") /\ replies'[c] = <<>>
    BY <1>4, <1>11, <2>1, ReadsDoes
  <2> QED
    BY <2>2 DEF CallOf
<1>12. CASE ServerExecutes(c)
  <2>1. at[c] = "await" /\ replies' = replies /\ call[c] # Idle
    BY <1>12, ExecutesDoes DEF ServerExecutes, loop, Busy
  <2>2. Working(c)
    BY <1>4, <2>1 DEF FlightInv, Quiet, Sent, Replied
  <2>3. call[c].pkg = Packages(c)[pos[c]]
    <3>1. PICK old : call[c] = CallOf(Message(c), old)
      BY <2>2 DEF Working
    <3>2. Message(c).pkg = Packages(c)[pos[c]]
      BY <1>1, <2>1, MessageType DEF ClientType
    <3> QED
      BY <3>1, <3>2 DEF CallOf
  <2>4. call[c].pkg \in Package /\ InList(call[c].pkg)
    BY <1>1, <2>1, <2>3, PackagesType DEF ClientType
  <2>5. PICK ok \in {"true", "false"}, m \in Requests(c) :
          /\ call'[c] = CallOf(m, ok)
          /\ ok = "true" <=> call[c].pkg \in Indexed
    BY <1>12, ExecutesDoes
  <2>6. call'[c].ok = ok
    BY <2>5 DEF CallOf
  <2>7. CASE c[1] = 3
    <3>1. AllIndexed
      BY <1>4, <2>7 DEF ListInv
    <3> QED
      BY <1>5, <2>1, <2>4, <2>5, <2>6, <2>7, <3>1 DEF AllIndexed, WantedOk
  <2>8. CASE c[1] = 5
    <3>1. NoneIndexed
      BY <1>4, <2>8 DEF ListInv
    <3> QED
      BY <1>5, <2>1, <2>4, <2>5, <2>6, <2>8, <3>1 DEF NoneIndexed, WantedOk
  <2> QED
    BY <2>7, <2>8, Operations
<1>13. CASE ServerResponds(c)
  <2>1. /\ Reply(c, IF call[c].ok = "true" THEN "OK" ELSE "FAIL")
        /\ call[c] # Idle /\ call[c].ok # "pending" /\ call'[c] = Idle /\ at[c] = "await"
    BY <1>1, <1>13 DEF ServerResponds, Return, Busy, loop
  <2>2. call[c].ok = WantedOk(c)
    BY <1>5, <2>1 DEF Busy
  <2>3. Reply(c, Wanted(c))
    BY <2>1, <2>2 DEF Wanted, WantedOk
  <2>4. replies[c] = <<>>
    BY <1>4, <2>1 DEF FlightInv, Quiet, Sent, Working, Replied
  <2>5. replies'[c] \in {<<Wanted(c)>>, <<>>}
    BY <2>3, <2>4, ReplyDoes
  <2> QED
    BY <2>1, <2>5 DEF Busy, Idle
<1> QED
  BY <1>6, <1>7, <1>8, <1>10, <1>11, <1>12, <1>13 DEF Client, Server


-----------------------------------------------------------------------------
(* The whole list.                                                         *)

LEMMA SameList ==
  ASSUME ListInv, Steady, step' = step, main' = main, faults' = 0 => faults = 0
  PROVE  ListInv'
BY DEF ListInv, Steady, AllIndexed, NoneIndexed, InList

(* When the clients of a step are done, so is the list.                    *)
LEMMA DoneList ==
  ASSUME RunType, StepInv, \A c \in Goroutine : SettledInv(c),
         main = "wait", Running = {}, step = 3 \/ (step \in {2, 4} /\ faults = 0)
  PROVE  IF step \in {2, 3} THEN AllIndexed ELSE NoneIndexed
<1>1. ASSUME NEW p \in Package, InList(p)
      PROVE  IF step \in {2, 3} THEN p \in Indexed ELSE p \notin Indexed
  <2>1. PICK c \in Goroutine : /\ c[1] = step /\ c[2] \in DOMAIN Segmented
                               /\ \E j \in DOMAIN Packages(c) : Packages(c)[j] = p
    BY <1>1, ListReached
  <2>2. at[c] = "done"
    BY <2>1 DEF RunType, Running
  <2>3. Tracked(c)
    BY <2>1 DEF Tracked
  <2>4. Good(c, p)
    BY <2>1, <2>2, <2>3 DEF SettledInv
  <2> QED
    BY <2>1, <2>4 DEF Good
<1> QED
  BY <1>1 DEF AllIndexed, NoneIndexed

LEMMA WaitList ==
  ASSUME RunType, StepInv, ListInv, \A c \in Goroutine : SettledInv(c), WaitReturns
  PROVE  ListInv'
<1>1. /\ main = "wait" /\ waiting = 0 /\ step' = step + 1 /\ step \in 1..5
      /\ graph' = graph /\ faults' = faults
  BY DEF WaitReturns, StepInv
<1>2. Running = {}
  <2>1. Cardinality(Running) = 0
    BY <1>1, FS_CardinalityType, SegmentCount, TestRunAssumption DEF StepInv
  <2> QED
    BY <2>1, FS_EmptySet DEF StepInv
<1>3. /\ AllIndexed' <=> AllIndexed
      /\ NoneIndexed' <=> NoneIndexed
  BY <1>1 DEF AllIndexed, NoneIndexed, Indexed, InList
<1>4. /\ step' = 3 => step = 2
      /\ step' = 4 => step = 3
      /\ step' \in {5, 6} => step \in {4, 5}
  BY <1>1
<1>5. step = 2 /\ faults = 0 => AllIndexed
  BY <1>1, <1>2, DoneList
<1>6. step = 3 => AllIndexed
  BY <1>1, <1>2, DoneList
<1>7. step \in {4, 5} /\ faults = 0 => NoneIndexed
  BY <1>1, <1>2, DoneList DEF ListInv
<1> QED
  BY <1>1, <1>3, <1>4, <1>5, <1>6, <1>7 DEF ListInv

-----------------------------------------------------------------------------
(* The steps of main, and all of them.                                     *)

LEMMA MainGoing ==
  ASSUME RunType, StepInv, GoingInv, Steady, Main \/ UNCHANGED tvars
  PROVE  GoingInv'
<1>1. CASE StartStep
  <2>1. /\ at' = [c \in Goroutine |-> IF c[1] = step /\ c[2] \in DOMAIN Segmented THEN "dial" ELSE at[c]]
        /\ main = "start" /\ main' = "wait" /\ step' = step
        /\ graph' = graph /\ call' = call /\ pos' = pos /\ hits' = hits /\ net' = net
        /\ inbox' = inbox /\ replies' = replies /\ faults' = faults
    BY <1>1 DEF StartStep
  <2>2. ASSUME NEW d \in Goroutine PROVE FlightInv(d)' /\ SettledInv(d)' /\ ExpectedInv(d)'
    <3>1. FlightInv(d) /\ SettledInv(d) /\ ExpectedInv(d) /\ PlaceInv(d) /\ ClientType(d)
      BY DEF GoingInv, StepInv, RunType
    <3>2. CASE d[1] = step
      <4>1. at[d] = "none" /\ at'[d] \in {"none", "dial"} /\ pos'[d] = 1
        BY <2>1, <3>1, <3>2 DEF PlaceInv, ClientType
      <4>2. Quiet(d)'
        BY <2>1, <3>1, <4>1 DEF FlightInv, Quiet, Idle
      <4>3. 1..pos'[d] - 1 = {}
        BY <4>1
      <4> QED
        BY <4>1, <4>2, <4>3, QuietFlight DEF SettledInv, ExpectedInv
    <3>3. CASE d[1] # step
      <4>1. Same(d)
        BY <2>1, <3>3 DEF Same
      <4> QED
        BY <2>1, <3>1, <4>1, SameFlight, SameSettled, SameExpected
    <3> QED
      BY <3>2, <3>3
  <2>3. ListInv'
    BY <2>1 DEF GoingInv, ListInv, AllIndexed, NoneIndexed, Indexed, InList
  <2> QED
    BY <2>2, <2>3 DEF GoingInv
<1>2. CASE WaitReturns
  <2>1. /\ at' = at /\ call' = call /\ pos' = pos /\ hits' = hits /\ net' = net
        /\ inbox' = inbox /\ replies' = replies /\ faults' = faults
        /\ step' = step + 1 /\ step \in Int
    BY <1>2 DEF WaitReturns, loop, StepInv
  <2>2. ASSUME NEW d \in Goroutine PROVE FlightInv(d)' /\ SettledInv(d)' /\ ExpectedInv(d)'
    <3>1. FlightInv(d) /\ PlaceInv(d) /\ Same(d)
      BY <2>1 DEF GoingInv, StepInv, Same
    <3>2. d[1] = step' => at'[d] = "none"
      <4>1. step + 1 > step
        BY <2>1
      <4> QED
        BY <2>1, <3>1, <4>1 DEF PlaceInv
    <3> QED
      BY <2>1, <3>1, <3>2, SameFlight DEF SettledInv, ExpectedInv, Tracked
  <2>3. ListInv'
    BY <1>2, WaitList DEF GoingInv
  <2> QED
    BY <2>2, <2>3 DEF GoingInv
<1>3. CASE RunReturns \/ UNCHANGED tvars
  <2>1. /\ at' = at /\ call' = call /\ pos' = pos /\ hits' = hits /\ net' = net
        /\ inbox' = inbox /\ replies' = replies /\ faults' = faults
        /\ step' = step /\ main' = main
    BY <1>3 DEF RunReturns, tvars, loop, control
  <2>2. ASSUME NEW d \in Goroutine PROVE FlightInv(d)' /\ SettledInv(d)' /\ ExpectedInv(d)'
    <3>1. FlightInv(d) /\ SettledInv(d) /\ ExpectedInv(d) /\ Same(d)
      BY <2>1 DEF GoingInv, Same
    <3> QED
      BY <2>1, <3>1, SameFlight, SameSettled, SameExpected
  <2>3. ListInv'
    BY <2>1, SameList DEF GoingInv
  <2> QED
    BY <2>2, <2>3 DEF GoingInv
<1> QED
  BY <1>1, <1>2, <1>3 DEF Main

LEMMA NextGoing ==
  ASSUME RunType, StepInv, GoingInv, [TNext]_tvars, exit' # "fail"
  PROVE  GoingInv'
<1>1. Steady
  BY AlwaysSteady DEF GoingInv
<1>2. CASE Main \/ UNCHANGED tvars
  BY <1>1, <1>2, MainGoing
<1>3. ASSUME NEW c \in Goroutine, Client(c) \/ Break(c) \/ Server(c) PROVE GoingInv'
  <2>1. /\ step' = step /\ main' = main /\ (faults' = 0 => faults = 0)
    BY <1>3, SharedType, FaultsStay
  <2>2. ASSUME NEW d \in Goroutine PROVE FlightInv(d)' /\ SettledInv(d)' /\ ExpectedInv(d)'
    <3>1. FlightInv(d) /\ SettledInv(d) /\ ExpectedInv(d)
      BY DEF GoingInv
    <3>2. CASE d # c
      <4>1. Same(d)
        BY <1>3, <3>2, OthersSame
      <4> QED
        BY <1>1, <2>1, <3>1, <4>1, SameFlight, SameSettled, SameExpected
    <3>3. CASE d = c
      <4>1. FlightInv(c)'
        BY <1>3, <3>1, <3>3, ClientFlight, ServerFlight
      <4>2. SettledInv(c)'
        BY <1>1, <1>3, <3>1, <3>3, ClientSettled, ServerSettled
      <4>3. ExpectedInv(c)'
        BY <1>3, <3>1, <3>3, OwnExpected DEF GoingInv
      <4> QED
        BY <3>3, <4>1, <4>2, <4>3
    <3> QED
      BY <3>2, <3>3
  <2>3. ListInv'
    BY <1>1, <2>1, SameList DEF GoingInv
  <2> QED
    BY <2>2, <2>3 DEF GoingInv
<1> QED
  BY <1>2, <1>3 DEF TNext


LEMMA InitGoing == TInit => GoingInv
<1> SUFFICES ASSUME TInit PROVE GoingInv
  OBVIOUS
<1>1. ASSUME NEW c \in Goroutine PROVE FlightInv(c) /\ SettledInv(c) /\ ExpectedInv(c)
  BY DEF TInit, FlightInv, Quiet, SettledInv, ExpectedInv
<1>2. ListInv
  BY DEF TInit, ListInv
<1> QED
  BY <1>1, <1>2 DEF GoingInv

(* A process that has failed takes no more steps.                          *)
LEMMA Failed ==
  ASSUME exit = "fail", [TNext]_tvars
  PROVE  /\ exit' = exit
         /\ UNCHANGED tvars \/ \E c \in Goroutine : Server(c)
BY DEF TNext, Main, StartStep, WaitReturns, RunReturns, tvars, Client, Dial, SendBroken, SendRequest,
       Receive, SendFails, Timeout, Close, InSend, Active, Break,
       Server, ServerReads, ServerExecutes, ServerResponds, ServerReleases

LEMMA NextRunInv == StepInv /\ RunType /\ RunInv /\ [TNext]_tvars => RunInv'
<1> SUFFICES ASSUME StepInv, RunType, RunInv, [TNext]_tvars, exit' # "fail" PROVE GoingInv'
  BY DEF RunInv
<1>1. exit # "fail"
  BY Failed
<1> QED
  BY <1>1, NextGoing DEF RunInv

\* What has come before a complaint, which ends the run within its step.
FailInv == exit = "fail" => /\ main = "wait"
                            /\ faults > 0 \/ \E c \in Goroutine : net[c] = "down"

(* A client that complains of a response has been cut off, or a deadline   *)
(* has passed early.                                                       *)
LEMMA Complains ==
  ASSUME RunType, StepInv, GoingInv, NEW c \in Goroutine, Client(c),
         exit # "fail", exit' = "fail"
  PROVE  main = "wait" /\ (faults' # 0 \/ net[c] = "down") /\ net' = net
<1>1. CASE Receive(c) \/ SendFails(c) \/ Timeout(c)
  <2>1. PICK r : /\ SendReturns(c, r)
                 /\ \/ Receive(c) /\ r = Head(replies[c])
                    \/ SendFails(c)
                    \/ Timeout(c)
    BY <1>1 DEF Receive, SendFails, Timeout
  <2>2. InSend(c) /\ net' = net
    BY <1>1 DEF Receive, SendFails, Timeout
  <2>3. at[c] \in {"await", "awaitBroken"} /\ Fails(c, r)
    BY <2>1, <2>2, SendReturnsDoes DEF InSend, Active
  <2>4. c[1] = step /\ main = "wait"
    BY <2>3 DEF StepInv, PlaceInv, Live
  <2>5. ASSUME faults' = 0, net[c] # "down" PROVE FALSE
    <3>1. faults = 0 /\ Tame(c)
      BY <2>5, FaultsStay DEF Tame
    <3>2. net[c] = "up"
      <4>1. ClientType(c)
        BY DEF RunType
      <4> QED
        BY <2>3, <2>5, <4>1 DEF ClientType
    <3>3. FlightInv(c) /\ ~Quiet(c)
      BY <2>3, <3>1, <3>2 DEF GoingInv, FlightInv
    <3>4. ~SendFails(c)
      BY <2>5 DEF SendFails
    <3>5. ~Timeout(c)
      <4>1. faults \in Nat /\ faults + 1 # 0
        BY <3>1
      <4> QED
        BY <2>5, <3>1, <3>3, <4>1 DEF Timeout, Lost, Quiet
    <3>6. replies[c] # <<>> /\ r = Head(replies[c])
      BY <2>1, <3>4, <3>5 DEF Receive
    <3>7. ASSUME NEW x, replies[c] = <<x>> PROVE r = x
      <4>1. Head(<<x>>) = x
        OBVIOUS
      <4> QED
        BY <3>6, <3>7, <4>1
    <3>8. CASE at[c] = "awaitBroken"
      <4>1. replies[c] = <<"ERROR">>
        BY <3>1, <3>3, <3>6, <3>8 DEF FlightInv, Quiet, Sent, Replied
      <4> QED
        BY <2>3, <3>7, <3>8, <4>1 DEF Fails
    <3>9. CASE at[c] = "await"
      <4>1. r \in {"OK", "FAIL"}
        <5>1. PICK x \in {"OK", "FAIL"} : replies[c] = <<x>>
          BY <3>1, <3>3, <3>6, <3>9 DEF FlightInv, Quiet, Sent, Working, Replied
        <5> QED
          BY <3>7, <5>1
      <4>2. Op(c) = "Query" /\ r # Expected(c)
        BY <2>3, <3>9, <4>1 DEF Fails
      <4>3. ExpectedInv(c)
        BY DEF GoingInv
      <4>4. replies[c] = <<Wanted(c)>>
        BY <2>4, <3>1, <3>6, <3>9, <4>2, <4>3 DEF ExpectedInv
      <4>5. c[1] \in {3, 5}
        BY <4>2, Operations
      <4> QED
        BY <3>7, <4>2, <4>4, <4>5 DEF Expected, Wanted
    <3> QED
      BY <2>3, <3>8, <3>9
  <2> QED
    BY <2>2, <2>4, <2>5
<1>2. CASE ~(Receive(c) \/ SendFails(c) \/ Timeout(c))
  BY <1>2 DEF Client, Dial, SendBroken, SendRequest, Close
<1> QED
  BY <1>1, <1>2

LEMMA NextFailInv ==
  StepInv /\ RunType /\ RunInv /\ Fcns /\ FailInv /\ [TNext]_tvars => FailInv'
<1> SUFFICES ASSUME StepInv, RunType, RunInv, Fcns, FailInv, [TNext]_tvars, exit' = "fail"
             PROVE  FailInv'
  BY DEF FailInv
<1>0. faults \in Nat
  BY TestRunAssumption DEF RunType
<1>1. CASE exit = "fail"
  <2>1. CASE UNCHANGED tvars
    BY <1>1, <2>1 DEF FailInv, tvars, control
  <2>2. ASSUME NEW c \in Goroutine, Server(c) PROVE FailInv'
    <3>1. main' = main
      BY <2>2, SharedType
    <3>2. faults > 0 => faults' > 0
      BY <1>0, <2>2, FaultsStay
    <3>3. ASSUME NEW d \in Goroutine, net[d] = "down" PROVE net'[d] = "down"
      <4>1. DOMAIN net = Goroutine
        BY DEF RunType
      <4> QED
        BY <2>2, <3>3, <4>1
        DEF Server, ServerReads, ServerExecutes, ServerResponds, ServerReleases, Reply, Set
    <3> QED
      BY <1>1, <3>1, <3>2, <3>3 DEF FailInv
  <2> QED
    BY <1>1, <2>1, <2>2, Failed
<1>2. CASE exit # "fail"
  <2>1. PICK c \in Goroutine : Client(c)
    BY <1>2 DEF TNext, Main, StartStep, WaitReturns, RunReturns, tvars, Break,
                Server, ServerReads, ServerExecutes, ServerResponds, ServerReleases
  <2>2. main = "wait" /\ (faults' # 0 \/ net[c] = "down") /\ net' = net
    BY <1>2, <2>1, Complains DEF RunInv
  <2>3. main' = main /\ faults' \in Nat
    BY <2>1, TestRunAssumption, SharedType
  <2>4. faults' # 0 => faults' > 0
    BY <2>3
  <2> QED
    BY <2>2, <2>3, <2>4 DEF FailInv
<1> QED
  BY <1>1, <1>2

LEMMA AlwaysRunInv == TSpec => [](StepInv /\ RunType /\ RunInv /\ FailInv)
<1>1. TInit => RunInv /\ FailInv /\ Fcns
  BY InitGoing DEF RunInv, FailInv, TInit, Fcns
<1> QED
  BY <1>1, AlwaysRunType, NextFcns, NextRunInv, NextFailInv, PTL DEF TSpec

(* What bruteforceIndexesPackages and the queries after it have to show:   *)
(* when step 3 is over every package of the list is indexed, whatever the  *)
(* deadlines and the connections did.                                      *)
THEOREM ListIndexed == TSpec => []IndexVerified
<1>1. StepInv /\ RunType /\ RunInv /\ FailInv => IndexVerified
  BY DEF RunInv, FailInv, GoingInv, ListInv, AllIndexed, IndexVerified
<1> QED
  BY <1>1, AlwaysRunInv, PTL

(* What bruteforceRemovesAllPackages and the queries after it have to      *)
(* show: at the end of a run without faults no package of the list is      *)
(* indexed.                                                                *)
THEOREM ListRemoved == TSpec => []RemovalVerified
<1>1. StepInv /\ RunType /\ RunInv /\ FailInv => RemovalVerified
  BY DEF RunInv, GoingInv, ListInv, NoneIndexed, RemovalVerified, RunType
<1> QED
  BY <1>1, AlwaysRunInv, PTL

(* Fail is called, of a server that does what it promises, only after a    *)
(* deadline that passed early or a connection that broke or was refused.   *)
THEOREM OnlyTrueAlarms == TSpec => []NoFalseAlarm
<1>1. StepInv /\ RunType /\ RunInv /\ FailInv => NoFalseAlarm
  BY DEF FailInv, NoFalseAlarm
<1> QED
  BY <1>1, AlwaysRunInv, PTL

-----------------------------------------------------------------------------
(* The slots that the clients of a step need. *)

\* Only clients that have called Dial hold slots.
HeldInv == held \subseteq {c \in Goroutine : at[c] \notin {"none", "dial"}}

LEMMA NextHeldInv == StepInv /\ RunType /\ HeldInv /\ [TNext]_tvars => HeldInv'
<1> SUFFICES ASSUME StepInv, RunType, HeldInv, [TNext]_tvars PROVE HeldInv'
  OBVIOUS
<1>1. CASE StartStep
  BY <1>1 DEF StartStep, HeldInv, StepInv, PlaceInv
<1>2. CASE WaitReturns \/ RunReturns \/ UNCHANGED tvars
  BY <1>2 DEF WaitReturns, RunReturns, tvars, loop, HeldInv
<1>3. ASSUME NEW c \in Goroutine, Client(c) PROVE HeldInv'
  <2>1. held' \subseteq held \cup {c}
    BY <1>3 DEF Client, Dial, SendBroken, SendRequest, Receive, SendFails, Timeout, Close
  <2>2. \A d \in Goroutine \ {c} : at'[d] = at[d]
    BY <1>3, OthersSame DEF Same
  <2>3. at'[c] \notin {"none", "dial"}
    <3>1. at[c] \in Live /\ DOMAIN at = Goroutine
      BY <1>3 DEF Client, Dial, SendBroken, SendRequest, Receive, SendFails, Timeout, Close,
                  InSend, Active, Live, StepInv
    <3>2. CASE Dial(c) \/ SendBroken(c) \/ SendRequest(c) \/ Close(c)
      BY <3>1, <3>2 DEF Dial, SendBroken, SendRequest, Close, Goto, Set
    <3>3. CASE Receive(c) \/ SendFails(c) \/ Timeout(c)
      <4>1. InSend(c) /\ \E r : SendReturns(c, r)
        BY <3>3 DEF Receive, SendFails, Timeout
      <4> QED
        BY <4>1, SendReturnsDoes DEF InSend, Active
    <3> QED
      BY <1>3, <3>2, <3>3 DEF Client
  <2> QED
    BY <2>1, <2>2, <2>3 DEF HeldInv
<1>4. ASSUME NEW c \in Goroutine, Break(c) \/ Server(c) PROVE HeldInv'
  <2>1. at' = at /\ held' \subseteq held
    BY <1>4 DEF Break, Server, ServerReads, ServerExecutes, ServerResponds, ServerReleases, loop
  <2> QED
    BY <2>1 DEF HeldInv
<1> QED
  BY <1>1, <1>2, <1>3, <1>4 DEF TNext, Main

(* A server with as many slots as there are clients in a step refuses a    *)
(* client only while it holds the slot of one that has left: for any list, *)
(* any number of clients and slots, and any faults.                        *)
THEOREM OnlyRefusedForGone == TSpec => []RefusedForGone
<1>1. StepInv /\ RunType /\ HeldInv => RefusedForGone
  <2> SUFFICES ASSUME StepInv, RunType, HeldInv, MaxConns >= Concurrency,
                      NEW c \in Goroutine, Active(c, "dial"), Cardinality(held) >= MaxConns,
                      \A d \in held : at[d] # "done"
               PROVE  FALSE
    BY DEF RefusedForGone
  <2>1. held \subseteq Running \ {c} /\ c \in Running
    BY DEF HeldInv, Running, Active
  <2>2. IsFiniteSet(Running) /\ IsFiniteSet(Running \ {c})
        /\ Cardinality(Running \ {c}) = Cardinality(Running) - 1
    BY <2>1, FS_RemoveElement DEF StepInv
  <2>3. Cardinality(held) <= Cardinality(Running \ {c}) /\ IsFiniteSet(held)
    BY <2>1, <2>2, FS_Subset
  <2>4. Cardinality(Running) <= Concurrency
    BY <2>2, RunningCount, SegmentCount, FS_CardinalityType, TestRunAssumption
  <2> QED
    BY <2>2, <2>3, <2>4, FS_CardinalityType, TestRunAssumption
<1>2. TInit => HeldInv
  BY DEF TInit, HeldInv
<1> QED
  BY <1>1, <1>2, NextHeldInv, AlwaysRunType, PTL DEF TSpec

-----------------------------------------------------------------------------
(* How far behind a client may be with its responses. *)

InAwait(c) == at[c] \in {"await", "awaitBroken"}

\* A client without a connection will see only what has come already.
LateInv(c) ==
  at[c] # "done" => /\ Outstanding(c) <= faults + (IF InAwait(c) THEN 1 ELSE 0)
                    /\ net[c] = "down" => Outstanding(c) <= faults

Sized == /\ faults \in Nat
         /\ \A c \in Goroutine : Len(inbox[c]) \in Nat /\ Len(replies[c]) \in Nat

LEMMA TypedSized == RunType => Sized
<1> SUFFICES ASSUME RunType PROVE Sized
  OBVIOUS
<1>1. faults \in Nat
  BY TestRunAssumption DEF RunType
<1>2. ASSUME NEW c \in Goroutine PROVE Len(inbox[c]) \in Nat /\ Len(replies[c]) \in Nat
  <2>1. inbox[c] \in Seq(Requests(c) \cup {Broken}) /\ replies[c] \in Seq(Responses)
    BY DEF RunType, ClientType
  <2> QED
    BY <2>1
<1> QED
  BY <1>1, <1>2 DEF Sized

\* Client c has i messages in its inbox, b in progress and r responses to read.
Amounts(c, i, b, r, f) == /\ Len(inbox[c]) = i /\ Len(replies[c]) = r /\ faults = f
                          /\ Busy(c) <=> b = 1
                          /\ Outstanding(c) = i + b + r

LEMMA AmountsAre ==
  ASSUME Sized, NEW c \in Goroutine
  PROVE  \E i, r, f \in Nat, b \in {0, 1} : Amounts(c, i, b, r, f)
<1>1. PICK i \in Nat, r \in Nat, f \in Nat :
        Len(inbox[c]) = i /\ Len(replies[c]) = r /\ faults = f
  BY DEF Sized
<1>2. CASE Busy(c)
  <2>1. Amounts(c, i, 1, r, f)
    BY <1>1, <1>2 DEF Amounts, Outstanding
  <2> QED
    BY <2>1
<1>3. CASE ~Busy(c)
  <2>1. Amounts(c, i, 0, r, f)
    BY <1>1, <1>3 DEF Amounts, Outstanding
  <2> QED
    BY <2>1
<1> QED
  BY <1>2, <1>3

LEMMA NextAmounts ==
  ASSUME Sized', NEW c \in Goroutine
  PROVE  \E i, r, f \in Nat, b \in {0, 1} : Amounts(c, i, b, r, f)'
<1>1. PICK i \in Nat, r \in Nat, f \in Nat :
        Len(inbox'[c]) = i /\ Len(replies'[c]) = r /\ faults' = f
  BY DEF Sized
<1>2. CASE Busy(c)'
  <2>1. Amounts(c, i, 1, r, f)'
    BY <1>1, <1>2 DEF Amounts, Outstanding
  <2> QED
    BY <2>1
<1>3. CASE ~Busy(c)'
  <2>1. Amounts(c, i, 0, r, f)'
    BY <1>1, <1>3 DEF Amounts, Outstanding
  <2> QED
    BY <2>1
<1> QED
  BY <1>2, <1>3

LEMMA BehindShorter ==
  ASSUME NEW T, NEW s \in Seq(T), s # <<>>, NEW x \in T,
         NEW t \in Behind(s) \cup CutBehind(s, x)
  PROVE  Len(t) \in Nat /\ Len(t) + 1 <= Len(s)
<1>1. ASSUME NEW u \in Behind(s) PROVE u \in Seq(T) /\ Len(u) \in Nat /\ Len(u) + 1 <= Len(s)
  <2>1. PICK i \in 2..Len(s) + 1 : u = SubSeq(s, i, Len(s))
    BY <1>1 DEF Behind
  <2>2. Len(s) \in Nat /\ i \in 1..Len(s) + 1 /\ Len(s) \in 0..Len(s)
    BY <2>1
  <2>3. u \in Seq(T) /\ Len(u) = IF i <= Len(s) THEN Len(s) - i + 1 ELSE 0
    BY <2>1, <2>2, BytesSubSeq
  <2>4. Len(s) # 0
    BY EmptySeq
  <2> QED
    BY <2>1, <2>2, <2>3, <2>4
<1>2. ASSUME t \in CutBehind(s, x) PROVE Len(t) \in Nat /\ Len(t) + 1 <= Len(s)
  <2>1. PICK u \in Behind(s) : u # <<>> /\ t = <<x>> \o Tail(u)
    BY <1>2 DEF CutBehind
  <2>2. u \in Seq(T) /\ Len(u) \in Nat /\ Len(u) + 1 <= Len(s)
    BY <1>1
  <2>3. Tail(u) \in Seq(T) /\ Len(Tail(u)) = Len(u) - 1 /\ <<x>> \in Seq(T) /\ Len(<<x>>) = 1
    BY <2>1, <2>2
  <2>4. Len(t) = 1 + (Len(u) - 1)
    BY <2>1, <2>3, ConcatProperties
  <2> QED
    BY <2>2, <2>4
<1> QED
  BY <1>1, <1>2

LEMMA FaultsGrow ==
  ASSUME RunType, NEW c \in Goroutine, Client(c) \/ Break(c) \/ Server(c)
  PROVE  faults \in Nat /\ faults' \in Nat /\ faults <= faults'
<1>1. faults \in Nat
  BY TestRunAssumption DEF RunType
<1> QED
  BY <1>1, FaultsStay

LEMMA SameLate ==
  ASSUME Sized, NEW d \in Goroutine, LateInv(d), Same(d), faults' \in Nat, faults <= faults'
  PROVE  LateInv(d)'
<1>1. Outstanding(d)' = Outstanding(d) /\ InAwait(d)' = InAwait(d)
  BY DEF Outstanding, InAwait, Same, Busy
<1>2. PICK i \in Nat, r \in Nat, f \in Nat, b \in {0, 1} : Amounts(d, i, b, r, f)
  BY AmountsAre
<1>3. PICK g \in Nat : faults' = g /\ faults = f /\ f <= g /\ Outstanding(d) = i + b + r
  BY <1>2 DEF Amounts
<1> QED
  BY <1>1, <1>3 DEF LateInv, Same

(* With what it had not read, and what it has not read now. *)
LEMMA NotLate ==
  ASSUME NEW c \in Goroutine, NEW i \in Nat, NEW b \in Nat, NEW r \in Nat, NEW f \in Nat,
         Amounts(c, i, b, r, f)', i + b + r <= f
  PROVE  LateInv(c)'
BY DEF LateInv, Amounts

LEMMA WasLate ==
  ASSUME NEW c \in Goroutine, NEW i \in Nat, NEW b \in Nat, NEW r \in Nat, NEW f \in Nat,
         Amounts(c, i, b, r, f), LateInv(c), at[c] # "done"
  PROVE  /\ i + b + r <= f + 1
         /\ ~InAwait(c) \/ net[c] = "down" => i + b + r <= f
BY DEF LateInv, Amounts

LEMMA ClientLate ==
  ASSUME RunType, StepInv, Sized, Sized', NEW c \in Goroutine, LateInv(c), Client(c)
  PROVE  LateInv(c)'
<1>1. PICK i \in Nat, r \in Nat, f \in Nat, b \in {0, 1} : Amounts(c, i, b, r, f)
  BY AmountsAre
<1>2. PICK j \in Nat, s \in Nat, g \in Nat, d \in {0, 1} : Amounts(c, j, d, s, g)'
  BY NextAmounts
<1>3. /\ DOMAIN call = Goroutine /\ DOMAIN net = Goroutine /\ DOMAIN at = Goroutine
      /\ DOMAIN inbox = Goroutine /\ DOMAIN replies = Goroutine
  BY DEF RunType, StepInv
<1>4. /\ Len(inbox[c]) = i /\ Len(replies[c]) = r /\ faults = f
      /\ Len(inbox'[c]) = j /\ Len(replies'[c]) = s /\ faults' = g
      /\ Outstanding(c)' = j + d + s
  BY <1>1, <1>2 DEF Amounts
<1>5. d = b
  <2>1. Busy(c)' = Busy(c)
    BY DEF Client, Dial, SendBroken, SendRequest, Receive, SendFails, Timeout, Close, Busy
  <2> QED
    BY <1>1, <1>2, <2>1 DEF Amounts
<1>6. f <= g
  BY <1>4, FaultsGrow
<1>7. ASSUME j + d + s <= g PROVE LateInv(c)'
  BY <1>2, <1>7, NotLate
<1>8. at[c] # "done" => /\ i + b + r <= f + 1
                        /\ ~InAwait(c) \/ net[c] = "down" => i + b + r <= f
  BY <1>1, WasLate
<1>9. CASE Dial(c)
  <2>1. /\ at[c] = "dial" /\ inbox' = inbox /\ replies' = replies /\ faults' = faults
    BY <1>9 DEF Dial, Active
  <2>2. i + b + r <= f /\ j = i /\ s = r /\ g = f
    BY <1>4, <1>8, <2>1 DEF InAwait
  <2> QED
    BY <1>5, <1>7, <2>2
<1>10. CASE SendBroken(c) \/ SendRequest(c)
  <2>1. /\ at[c] \in {"roll", "send"} /\ at'[c] \in {"await", "awaitBroken"}
        /\ net' = net /\ replies' = replies /\ faults' = faults /\ \E m : Put(c, m)
    BY <1>3, <1>10 DEF SendBroken, SendRequest, Active, Goto, Set
  <2>2. i + b + r <= f /\ s = r /\ g = f
    BY <1>4, <1>8, <2>1 DEF InAwait
  <2>3. CASE net[c] = "up"
    <3>1. PICK m : inbox'[c] = Append(inbox[c], m)
      BY <1>3, <2>1, <2>3 DEF Put, Set
    <3> DEFINE T == Requests(c) \cup {Broken}
    <3>3. inbox[c] \in Seq(T)
      BY DEF RunType, ClientType
    <3> HIDE DEF T
    <3>4. inbox[c] \in Seq(T \cup {m}) /\ m \in T \cup {m}
      BY <3>3
    <3>5. j = i + 1
      BY <1>4, <3>1, <3>4, AppendProperties
    <3>6. j + d + s <= g + 1
      BY <1>5, <2>2, <3>5
    <3>7. net'[c] # "down" /\ InAwait(c)'
      BY <2>1, <2>3 DEF InAwait
    <3> QED
      BY <1>4, <3>6, <3>7 DEF LateInv
  <2>4. CASE net[c] # "up"
    <3>1. inbox' = inbox
      BY <2>1, <2>4 DEF Put
    <3>2. j = i
      BY <1>4, <3>1
    <3> QED
      BY <1>5, <1>7, <2>2, <3>2
  <2> QED
    BY <2>3, <2>4
<1>11. CASE Receive(c) \/ SendFails(c) \/ Timeout(c)
  <2>1. at[c] # "done" /\ inbox' = inbox
    BY <1>11 DEF Receive, SendFails, Timeout, InSend, Active
  <2>2. i + b + r <= f + 1 /\ (net[c] = "down" => i + b + r <= f) /\ j = i
    BY <1>4, <1>8, <2>1
  <2>3. CASE Receive(c)
    <3>1. /\ replies[c] # <<>>
          /\ replies'[c] \in Behind(replies[c]) \cup CutBehind(replies[c], "err")
      BY <1>3, <2>3 DEF Receive, Set
    <3>2. replies[c] \in Seq(Responses) /\ "err" \in Responses
      <4>1. ClientType(c)
        BY DEF RunType
      <4>2. replies[c] \in Seq(Responses)
        BY <4>1 DEF ClientType
      <4> QED
        BY <4>2 DEF Responses
    <3>3. s + 1 <= r
      BY <1>4, <3>1, <3>2, BehindShorter
    <3>4. j + d + s <= g
      BY <1>5, <1>6, <2>2, <3>3
    <3> QED
      BY <1>7, <3>4
  <2>4. CASE SendFails(c)
    <3>1. net[c] = "down" /\ replies' = replies
      BY <2>4 DEF SendFails
    <3>2. j + d + s <= g
      BY <1>4, <1>5, <1>6, <2>2, <3>1
    <3> QED
      BY <1>7, <3>2
  <2>5. CASE Timeout(c) /\ Lost(c)
    <3>1. replies' = replies /\ inbox[c] = <<>> /\ ~Busy(c) /\ replies[c] = <<>>
      BY <2>5 DEF Timeout, Lost, Busy
    <3>2. i = 0 /\ r = 0 /\ s = 0 /\ b # 1
      BY <1>1, <1>4, <3>1 DEF Amounts
    <3>3. j + d + s <= g
      BY <1>5, <2>2, <3>2
    <3> QED
      BY <1>7, <3>3
  <2>6. CASE Timeout(c) /\ ~Lost(c)
    <3>1. replies' = replies /\ faults' = faults + 1
      BY <2>6 DEF Timeout
    <3>2. j + d + s <= g
      BY <1>4, <1>5, <2>2, <3>1
    <3> QED
      BY <1>7, <3>2
  <2> QED
    BY <1>11, <2>3, <2>4, <2>5, <2>6
<1>12. CASE Close(c)
  BY <1>3, <1>12 DEF Close, Goto, Set, LateInv
<1> QED
  BY <1>9, <1>10, <1>11, <1>12 DEF Client

(* What a response adds to what client c has not read.                     *)
LEMMA ReplyAdds ==
  ASSUME RunType, NEW c \in Goroutine, NEW r, Reply(c, r)
  PROVE  \/ net'[c] = net[c] /\ Len(replies'[c]) = Len(replies[c]) + 1
         \/ net'[c] = "down" /\ Len(replies'[c]) = Len(replies[c])
<1>1. DOMAIN net = Goroutine /\ DOMAIN replies = Goroutine
  BY DEF RunType
<1> DEFINE T == Responses
<1>2. replies[c] \in Seq(T)
  <2>1. ClientType(c)
    BY DEF RunType
  <2> QED
    BY <2>1 DEF ClientType
<1> HIDE DEF T
<1>3. replies[c] \in Seq(T \cup {r}) /\ r \in T \cup {r}
  BY <1>2
<1>4. Len(Append(replies[c], r)) = Len(replies[c]) + 1
  BY <1>3, AppendProperties
<1> QED
  BY <1>1, <1>4 DEF Reply, Set

(* The server answers what it reads with one response at most.             *)
LEMMA ServerLate ==
  ASSUME RunType, Sized, Sized', NEW c \in Goroutine, LateInv(c), Break(c) \/ Server(c)
  PROVE  LateInv(c)'
<1>1. PICK i \in Nat, r \in Nat, f \in Nat, b \in {0, 1} : Amounts(c, i, b, r, f)
  BY AmountsAre
<1>2. PICK j \in Nat, s \in Nat, g \in Nat, d \in {0, 1} : Amounts(c, j, d, s, g)'
  BY NextAmounts
<1>3. /\ DOMAIN call = Goroutine /\ DOMAIN net = Goroutine
      /\ DOMAIN inbox = Goroutine /\ DOMAIN replies = Goroutine
  BY DEF RunType
<1>4. /\ Len(inbox[c]) = i /\ Len(replies[c]) = r /\ faults = f
      /\ Len(inbox'[c]) = j /\ Len(replies'[c]) = s /\ faults' = g
      /\ Outstanding(c)' = j + d + s
  BY <1>1, <1>2 DEF Amounts
<1>5. (call[c] = Idle <=> b = 0) /\ (call'[c] = Idle <=> d = 0)
  <2>1. (Busy(c) <=> b = 1) /\ (Busy(c)' <=> d = 1)
    BY <1>1, <1>2 DEF Amounts
  <2>2. Busy(c)' <=> call'[c] # Idle
    BY DEF Busy, Idle
  <2> QED
    BY <2>1, <2>2 DEF Busy
<1>6. f <= g
  BY <1>4, FaultsGrow
<1>7. ASSUME j + d + s <= g PROVE LateInv(c)'
  BY <1>2, <1>7, NotLate
<1>8. at[c] # "done" => /\ i + b + r <= f + 1
                        /\ ~InAwait(c) \/ net[c] = "down" => i + b + r <= f
  BY <1>1, WasLate
<1>9. at' = at
  BY DEF Break, Server, ServerReads, ServerExecutes, ServerResponds, ServerReleases, loop
<1>10. CASE Break(c)
  <2>1. /\ at[c] # "done" /\ faults' = faults + 1 /\ inbox' = inbox /\ call' = call
        /\ replies'[c] \in {replies[c], <<>>}
    BY <1>3, <1>10 DEF Break, Set
  <2>2. g = f + 1 /\ j = i /\ d = b /\ s <= r /\ i + b + r <= f + 1
    BY <1>4, <1>5, <1>8, <2>1
  <2>3. j + d + s <= g
    BY <2>2
  <2> QED
    BY <1>7, <2>3
<1>11. CASE Server(c)
  <2>1. j + d + s <= i + b + r /\ (net'[c] = "down" => net[c] = "down" \/ j + d + s < i + b + r)
    <3>1. CASE ServerReads(c)
      <4>1. /\ inbox[c] # <<>> /\ call[c] = Idle
            /\ inbox'[c] \in Behind(inbox[c]) \cup CutBehind(inbox[c], Broken)
        BY <1>3, <3>1 DEF ServerReads, Busy, Set
      <4> DEFINE T == Requests(c) \cup {Broken}
      <4>2. inbox[c] \in Seq(T) /\ Broken \in T
        BY DEF RunType, ClientType
      <4> HIDE DEF T
      <4>3. j + 1 <= i /\ b = 0
        BY <1>4, <1>5, <4>1, <4>2, BehindShorter
      <4>4. CASE call' = call /\ Reply(c, "ERROR")
        <5>1. d = 0
          BY <1>5, <4>1, <4>4
        <5>2. (net'[c] = net[c] /\ s = r + 1) \/ (net'[c] = "down" /\ s = r)
          BY <1>4, <4>4, ReplyAdds
        <5> QED
          BY <4>3, <5>1, <5>2
      <4>5. CASE net' = net /\ replies' = replies
        <5>1. s = r
          BY <1>4, <4>5
        <5> QED
          BY <4>3, <4>5, <5>1
      <4> QED
        BY <3>1, <4>4, <4>5 DEF ServerReads
    <3>2. CASE ServerExecutes(c)
      <4>1. inbox' = inbox /\ replies' = replies /\ net' = net
        BY <3>2 DEF ServerExecutes
      <4>2. j = i /\ s = r /\ b = 1
        BY <1>4, <1>5, <3>2, <4>1, ExecutesDoes DEF Busy
      <4> QED
        BY <4>1, <4>2
    <3>3. CASE ServerResponds(c)
      <4>1. inbox' = inbox /\ call[c] # Idle /\ call'[c] = Idle /\ \E x : Reply(c, x)
        BY <1>3, <3>3 DEF ServerResponds, Return, Busy
      <4>2. (net'[c] = net[c] /\ s = r + 1) \/ (net'[c] = "down" /\ s = r)
        BY <1>4, <4>1, ReplyAdds
      <4>3. j = i /\ b = 1 /\ d = 0
        BY <1>4, <1>5, <4>1
      <4> QED
        BY <4>2, <4>3
    <3>4. CASE ServerReleases(c)
      <4>1. call' = call /\ net' = net /\ replies' = replies /\ inbox'[c] = <<>>
        BY <1>3, <3>4 DEF ServerReleases, Set
      <4>2. j = 0 /\ s = r /\ d = b
        BY <1>4, <1>5, <4>1
      <4> QED
        BY <4>1, <4>2
    <3> QED
      BY <1>11, <3>1, <3>2, <3>3, <3>4 DEF Server
  <2>2. CASE at[c] = "done"
    BY <1>9, <2>2 DEF LateInv
  <2>3. CASE at[c] # "done" /\ j + d + s <= f
    <3>1. j + d + s <= g
      BY <1>6, <2>3
    <3> QED
      BY <1>7, <3>1
  <2>4. CASE at[c] # "done" /\ ~(j + d + s <= f)
    <3>1. i + b + r <= f + 1 /\ ~(i + b + r <= f)
      BY <1>8, <2>1, <2>4
    <3>2. InAwait(c)
      BY <1>8, <2>4, <3>1
    <3>3. net[c] # "down"
      BY <1>8, <2>4, <3>1
    <3>4. ~(j + d + s < i + b + r)
      BY <2>4, <3>1
    <3>5. net'[c] # "down" /\ InAwait(c)'
      BY <1>9, <2>1, <3>2, <3>3, <3>4 DEF InAwait
    <3>6. j + d + s <= g + 1
      BY <1>6, <2>1, <3>1
    <3> QED
      BY <1>4, <3>5, <3>6 DEF LateInv
  <2> QED
    BY <2>2, <2>3, <2>4
<1> QED
  BY <1>10, <1>11

LEMMA NextLate ==
  StepInv /\ RunType /\ Sized /\ Sized' /\ (\A c \in Goroutine : LateInv(c)) /\ [TNext]_tvars
    => \A c \in Goroutine : LateInv(c)'
<1> SUFFICES ASSUME StepInv, RunType, Sized, Sized', \A c \in Goroutine : LateInv(c), [TNext]_tvars,
                    NEW e \in Goroutine
             PROVE  LateInv(e)'
  OBVIOUS
<1>1. CASE StartStep
  <2>1. /\ call' = call /\ inbox' = inbox /\ replies' = replies /\ net' = net /\ faults' = faults
        /\ at'[e] = at[e] \/ (at[e] = "none" /\ at'[e] = "dial")
    BY <1>1 DEF StartStep, StepInv, PlaceInv
  <2>2. Outstanding(e)' = Outstanding(e)
    BY <2>1 DEF Outstanding, Busy
  <2>3. at'[e] # "done" => at[e] # "done" /\ InAwait(e)' = InAwait(e)
    BY <2>1 DEF InAwait
  <2>4. LateInv(e)
    OBVIOUS
  <2> QED
    BY <2>1, <2>2, <2>3, <2>4 DEF LateInv
<1>2. CASE WaitReturns \/ RunReturns \/ UNCHANGED tvars
  <2>1. /\ call' = call /\ inbox' = inbox /\ replies' = replies /\ net' = net /\ at' = at
        /\ faults' = faults
    BY <1>2 DEF WaitReturns, RunReturns, tvars, loop
  <2>2. Outstanding(e)' = Outstanding(e) /\ InAwait(e)' = InAwait(e)
    BY <2>1 DEF Outstanding, Busy, InAwait
  <2> QED
    BY <2>1, <2>2 DEF LateInv
<1>3. ASSUME NEW c \in Goroutine, Client(c) \/ Break(c) \/ Server(c) PROVE LateInv(e)'
  <2>1. CASE e = c
    BY <1>3, <2>1, ClientLate, ServerLate
  <2>2. CASE e # c
    BY <1>3, <2>2, OthersSame, SameLate, FaultsGrow
  <2> QED
    BY <2>1, <2>2
<1> QED
  BY <1>1, <1>2, <1>3 DEF TNext, Main

(* A client is behind with its responses by no more of them than there     *)
(* were early deadlines and broken connections: without any of those each  *)
(* response that Send returns is the response to its message.              *)
THEOREM LateOnlyByFaults == TSpec => []LateByFaults
<1> DEFINE Late == \A c \in Goroutine : LateInv(c)
<1>1. TInit => Late
  <2> SUFFICES ASSUME TInit, NEW c \in Goroutine PROVE LateInv(c)
    OBVIOUS
  <2>1. Outstanding(c) = 0 /\ faults = 0 /\ ~InAwait(c)
    BY DEF TInit, Outstanding, Busy, InAwait
  <2> QED
    BY <2>1 DEF LateInv
<1>2. StepInv /\ RunType /\ Sized /\ Sized' /\ Late /\ [TNext]_tvars => Late'
  BY NextLate
<1>3. Late => LateByFaults
  BY DEF LateInv, InAwait, LateByFaults
<1> HIDE DEF Late
<1> QED
  BY <1>1, <1>2, <1>3, TypedSized, AlwaysRunType, PTL DEF TSpec
=============================================================================
