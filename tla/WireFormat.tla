----------------------------- MODULE WireFormat -----------------------------
(***************************************************************************)
(* parseMessage of server/wire_format.go, which takes a line apart in      *)
(* place, and the functions of test-suite/wire_format.go that put requests *)
(* together.  A line is a sequence of bytes, of which only the reserved    *)
(* ones and a few others are told apart.                                   *)
(***************************************************************************)
EXTENDS Strings

CONSTANTS Plain,          \* the bytes that are not reserved
          Commands,       \* the commands serve knows: sequences of plain bytes
          PackageNames,   \* names of packages in the suite: sequences of plain bytes
          MaxNames,       \* bound: how many dependencies a package of the suite has
          MaxLine         \* bound: the longest line of others

VARIABLES line,      \* the line, as far as it has arrived
          request    \* what the suite means by it, if the line is the suite's

PIPE  == "|"
COMMA == ","
NL    == "newline"

Byte == Plain \cup {PIPE, COMMA, NL}

\* No command is empty or the end of another.
ASSUME WireAssumption ==
  /\ {PIPE, COMMA, NL} \cap Plain = {}
  /\ Commands \subseteq Seq(Plain)
  /\ \A c, d \in Commands : c # <<>> /\ \A i \in 2..Len(d) : SubSeq(d, i, Len(d)) # c
  /\ PackageNames \subseteq Seq(Plain) \ {<<>>}
  /\ MaxNames \in Nat

-----------------------------------------------------------------------------
(* parseMessage.  Go panics if an index runs past the end of the line.     *)

Message(cmd, pkg, deps) == [err |-> "nil", command |-> cmd, package |-> pkg, deps |-> deps]

Rejected(e) == [err |-> e]
Panic == Rejected("panic")

\* Where a loop that starts at i and ends at one of the bytes of stop ends.
Scan(b, i, stop) ==
  LET hits == {j \in i..Len(b) : b[j] \in stop}
  IN IF hits = {} THEN Len(b) + 1
     ELSE CHOOSE j \in hits : \A k \in hits : j <= k

At(b, i) == IF i \in DOMAIN b THEN b[i] ELSE "panic"

\* Mutant: empty names are let through.
ParseDepsLax(b, cmd, pkg, i, last) ==
  LET ends     == {j \in i..last : b[j] \in {COMMA, NL}}
      start(j) == LET before == {k \in ends : k < j}
                  IN IF before = {} THEN i ELSE 1 + CHOOSE k \in before : \A l \in before : l <= k
  IN Message(cmd, pkg, {SubSeq(b, start(j), j - 1) : j \in ends})

\* The last loop: the names between commas from i to the newline at last.
ParseDeps(b, cmd, pkg, i, last) ==
  LET ends     == {j \in i..last : b[j] \in {COMMA, NL}}
      start(j) == LET before == {k \in ends : k < j}
                  IN IF before = {} THEN i ELSE 1 + CHOOSE k \in before : \A l \in before : l <= k
  IN IF \E j \in ends : start(j) = j THEN Rejected("empty package")
     ELSE Message(cmd, pkg, {SubSeq(b, start(j), j - 1) : j \in ends})

\* From the second pipe on.
ParseTail(b, cmd, pkg, i) ==
  LET last == Scan(b, i, {PIPE, NL})
  IN CASE At(b, i) = NL -> Message(cmd, pkg, {})
       [] At(b, i) # NL /\ At(b, last) = "panic" -> Panic
       [] At(b, i) # NL /\ At(b, last) = PIPE -> Rejected("pipe in package")
       [] At(b, i) # NL /\ At(b, last) = NL -> ParseDeps(b, cmd, pkg, i, last)

ParseFields(b) ==
  LET firstPipe  == Scan(b, 1, {PIPE, NL})
      secondPipe == Scan(b, firstPipe + 1, {PIPE, COMMA, NL})
      first      == At(b, firstPipe)
      second     == At(b, secondPipe)
  IN CASE first = "panic" -> Panic
       [] first = NL -> Rejected("too few pipes")
       [] first = PIPE /\ second = "panic" -> Panic
       [] first = PIPE /\ second = NL -> Rejected("too few pipes")
       [] first = PIPE /\ second = COMMA -> Rejected("comma in package")
       [] first = PIPE /\ second = PIPE ->
            IF firstPipe + 1 = secondPipe THEN Rejected("empty package")
            ELSE ParseTail(b, SubSeq(b, 1, firstPipe - 1),
                           SubSeq(b, firstPipe + 1, secondPipe - 1), secondPipe + 1)

parseMessage(b) ==
  IF b = <<>> \/ At(b, Len(b)) # NL THEN Rejected("must end in newline")
  ELSE ParseFields(b)

\* Mutant: any command will do.
AnyCommand(r) == r.err = "nil"

\* serve's switch: what is passed to the index, if anything.
IsRequest(r) == r.err = "nil" /\ r.command \in Commands

-----------------------------------------------------------------------------
(* MakeIndexMessage, MakeRemoveMessage and MakeQueryMessage, with the      *)
(* newline that Send adds.  The names go in as they are.                   *)

Join(names) ==
  LET f[k \in 0..Len(names)] ==
        IF k = 0 THEN <<>>
        ELSE IF k = 1 THEN names[1]
        ELSE f[k - 1] \o <<COMMA>> \o names[k]
  IN f[Len(names)]

\* Mutant: no second pipe without dependencies.
MakeShortMessage(cmd, pkg, names) ==
  cmd \o <<PIPE>> \o pkg \o (IF names = <<>> THEN <<>> ELSE <<PIPE>> \o Join(names)) \o <<NL>>

MakeMessage(cmd, pkg, names) ==
  cmd \o <<PIPE>> \o pkg \o <<PIPE>> \o Join(names) \o <<NL>>

\* Short words, for what the suite draws from lists of its own.
Words == UNION {[1..n -> Plain] : n \in 1..3}

\* What MakeBrokenMessage may return: a request whose last pipe has become some
\* other byte, or a command a little different from those there are.
MakeBrokenMessage ==
  {c \o <<PIPE>> \o w \o <<NL>> : c \in Commands, w \in Words}
    \cup {c \o <<PIPE, p, PIPE, q, NL>> : c \in Words \ Commands, p \in Plain, q \in Plain}

-----------------------------------------------------------------------------
(* The line that arrives: byte by byte, up to its newline, or whole from a *)
(* client of the suite.                                                    *)

Unsent == Rejected("not sent")
Broken == Rejected("broken")

Init == line = <<>> /\ request = Unsent

Arrive == /\ request = Unsent
          /\ Len(line) < MaxLine
          /\ NL \notin Bytes(line)
          /\ \E x \in Byte : line' = Append(line, x)
          /\ UNCHANGED request

\* A request, with the dependencies of its package in their order; that the
\* suite has them only with INDEX makes no difference here.
Make == /\ line = <<>>
        /\ \E cmd \in Commands, pkg \in PackageNames, n \in 0..MaxNames :
             \E names \in [1..n -> PackageNames] :
               /\ line' = MakeMessage(cmd, pkg, names)
               /\ request' = Message(cmd, pkg, Bytes(names))

MakeBroken == line = <<>> /\ line' \in MakeBrokenMessage /\ request' = Broken

Next == Arrive \/ Make \/ MakeBroken

Spec == Init /\ [][Next]_<<line, request>>

-----------------------------------------------------------------------------

Parts(b) == Split(SubSeq(b, 1, Len(b) - 1), PIPE)

Names(b) == IF Parts(b)[3] = <<>> THEN <<>> ELSE Split(Parts(b)[3], COMMA)

\* problem-statement.md:12-21: a command, a package and names between commas.
WellFormed(b) == /\ b # <<>> /\ b[Len(b)] = NL
                 /\ Len(Parts(b)) = 3
                 /\ Parts(b)[2] # <<>>
                 /\ COMMA \notin Bytes(Parts(b)[2])
                 /\ <<>> \notin Bytes(Names(b))

\* The scan that works in place accepts the lines the protocol describes and
\* no others, takes them apart as splitting them would, and never runs past
\* the end of one.
ParsesAsSpecified ==
  LET r == parseMessage(line)
  IN /\ r.err # "panic"
     /\ r.err = "nil" <=> WellFormed(line)
     /\ r.err = "nil" => r = Message(Parts(line)[1], Parts(line)[2], Bytes(Names(line)))

\* The server takes what the test suite sends for what the suite means: a
\* request is accepted, and parsed back into the command, the package and the
\* dependencies it was put together from, and a broken one is not carried out.
RoundTrip ==
  LET r == parseMessage(line)
  IN /\ request.err = "nil" => r = request
     /\ request = Broken => ~IsRequest(r)

\* When the beginning of a request is lost with a read buffer (readMessage
\* drops what follows the line it returns), the server never takes the rest
\* for another request: it executes nothing that nobody sent.
RestOfRequestRejected ==
  IsRequest(parseMessage(line)) =>
    \A i \in 2..Len(line) : ~IsRequest(parseMessage(SubSeq(line, i, Len(line))))

=============================================================================
