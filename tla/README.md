# A TLA+ model of package-index

`package-index` is a TCP server that keeps an index of packages and their
dependencies in memory (`src/go/src/package-index`), and `test-suite` is the
program that tests it from outside (`src/go/src/test-suite`). This directory
models both, checks the models with TLC and proves theorems about them
with TLAPS. `PROJECT.json` maps every definition to the lines it models and
lists the hazards that the properties are for.

## The system

| Component | State | Operations | Properties that make it correct |
|---|---|---|---|
| index (`index/index.go`) | map from package to entry (dependencies, count of dependents), read-write lock | `Index`, `Remove`, `Query` | exact counts, dependencies stay indexed, no cycles, linearizable, no race on the map, no starvation |
| server (`server/server.go`) | channel `outstanding` of slots; a goroutine per connection | accept, refuse, read, call the index, respond, close, give back the slot | bounded connections, no slot leaked, one response per message to the right client, nobody waits for ever |
| message reading (`readMessage`, `bufio_reader_pool.go`) | pool of read buffers | `Get`, `ReadSlice` and discard, parse, `Put` | own bytes only, whole lines, size limit, back in step after a long line |
| wire format (`server/wire_format.go`) | none | `parseMessage` | agrees with the protocol, never past the end of the line |
| server process (`main.go`) | none | flags; exits when `Serve` fails | covered with the server |
| test-suite client and wire format (`client.go`, `wire_format.go`) | a connection | dial, `Send`, close; make messages | what is sent is what is parsed |
| test run (`test_run.go`, `main.go`) | wait group, step | five steps of concurrent clients | steps do not overlap, a run ends, what it reports is true, exit status tells failure |
| package list (`packages.go`) and data (`data.go`) | list of packages | read the embedded text, cut the list into segments | read as written, closed under dependencies, segments cover the list |

Clients reach the server over TCP. `Serve` accepts a connection and either
starts `serve` for it in a goroutine or closes it. `serve` reads a message with a buffer
from the shared pool, parses it in the buffer, calls the shared index and
responds. All goroutines share the index (under its lock), the pool and the
channel `outstanding`. A test run removes, indexes, queries, removes and queries
the packages of its list, each time with one client per segment of the list and
waiting for all of them before it goes on.

What is hard: the interleaving of methods under the lock and of goroutines
that share buffers; connections that end at any point of the loop; deadlines,
temporary errors and lost writes; clients that do not wait for responses, whose
messages are partly lost in the buffers; slots that must come back on every
way out; clients that give up on a response which then comes late; loops that
repeat until other clients have done their part.

## Modules

| Module | Models |
|---|---|
| `IndexCalls` | the calls that goroutines make on the index: invoked, taking effect, returned |
| `DependencyGraph` | the promise of the `Index` interface: a graph and atomic answers |
| `Index` | `index.go` with each method as one step; `ImplementsGraph` |
| `IndexLocked` | `index.go` line by line under `sync.RWMutex`; `ImplementsIndex` |
| `PackageService` | the promise to clients: `DependencyGraph` plus requests lost with a connection |
| `Server` | `Serve`, `serve`, `respond`, clients and TCP; extends `Index`; `ImplementsService` |
| `WireFormat` | `parseMessage` and the test suite's message makers |
| `MessageReader` | `readMessage` and the buffer pool, byte by byte |
| `Strings`, `Segments` | what the programs use of Go's `strings` and `bytes`; `SegmentListPackages` |
| `PackageList` | `packages.go`: from the text to the list |
| `TestRun` | `test_run.go`, `client.go` and the exit of `main.go`; extends `DependencyGraph` and `Segments` |
| `MC*` | requests, lists, symmetry and bounds for TLC |
| `IndexProofs` | theorems about `Index` |
| `LinearizableProofs` | theorems about `IndexLocked`: the lock, then linearizability, which uses those about `Index` |
| `ServerProofs`, `ReaderProofs` | theorems about `Server` and `MessageReader` |
| `OperatorProofs` | lemmas about induction and about `Strings` and `Segments`, for the three below |
| `RunProofs` | theorems about `TestRun`: the wait group, then what a run has verified |
| `WireProofs`, `ListProofs` | theorems about `WireFormat` and `PackageList` |

They form a chain. `IndexLocked` implements `Index`, which implements
`DependencyGraph`; `Server` uses `Index` for its calls and implements
`PackageService`. `Server` takes two things from below on trust of their own
modules: a line is read as a whole or the end of one (`MessageReader`,
`NeverJoined` and `WholeMessages`), and what is left of a request is no request
(`WireFormat`, `RestOfRequestRejected`). `TestRun` composes the test suite with
the server, which it takes as its own modules show it: `DependencyGraph` for what a
request does, one response per request, lines lost behind the one that is read,
refusal without a slot. `Segments` is what `PackageList` and `TestRun` share.

### Index

`m` is `i.m`. `Bump` is the loop that counts dependencies up or down; it goes
through `Lookup`, which yields Go's zero entry for an absent key, so a
decrement of a missing dependency would create one, as in the code. `len(deps) == 0`
needs no case: the loops do nothing then. An `int64` is an integer: it counts
packages in memory and cannot overflow. `TypeOK` says that it is never
negative.

`IndexLocked` adds a program counter, the dependencies the current loop has left
(Go ranges over a map in any order, so any of them is next) and the lock. The lock is
`sync.RWMutex` as documented and implemented: `Lock` excludes writers, then
waits for the readers that are in; new readers wait meanwhile; `Unlock` lets
in all readers that wait. Under the refinement mapping, `Index` takes effect when it
inserts its entry and `Remove` when it deletes it; counts that a method has changed ahead of
or has still to change after that step (`Unsettled`) are taken off.

### Server

One goroutine name stands for a connection, its client and its `serve`. The
line arrives and is read as a unit, and there is one kind of line that gets
`ERROR` (`Garbage`), whatever is wrong with it. `inbox` holds the lines that
the server's side has not read. `ReadRequest` and `ReadBad` may lose any number of lines behind
the one they return and cut the next (`Rests`), as the buffer that is put back
does. `net` is `"reset"` when the connection has an error to report, which the
next read or write uses up, and `"dead"` after that. Reads report a reset as
temporary or as another error; both are allowed (in Go 1.6, which `run.sh`
pins, it is temporary). A deadline may pass even if a line is there, because Go
looks at the deadline first. `SetReadDeadline` and `SetWriteDeadline` fail only on a
connection this process has closed, which `serve` never uses again: those two
branches are not modelled. `Unread` stands for the room TCP has for
responses that a client does not read; `WriteTimeout` needs it used up. When
`Accept` fails for good, goroutines run on until `main` has called `os.Exit`, after which the server
does nothing.

### WireFormat and MessageReader

Loops of `parseMessage` that look for a byte are `Scan`; running off the line
is `Panic`. The reference (`WellFormed`, `Parts`, `Names`) splits the line as the
comment in `wire_format.go` says a simpler implementation would. A line arrives byte by byte
(`Arrive`), or whole from a client of the test suite, and then `request` says what the
suite means by it: the command, package and dependencies that `MakeMessage` put together (`Make`), or nothing that the
server should carry out (`MakeBroken`). `RoundTrip` says that the parser takes it for the same, so it
accepts every request of the suite. The bytes of
names and of the known commands (`Plain`) are not reserved: `WireAssumption` says so,
that every known command and every package name of the suite is made of them, that no such name is empty, and that no command
is empty or the end of another. In
`MessageReader` every byte carries its connection, line and position, so that
a byte in the wrong place shows. `Fill` takes any number of the bytes that
have been sent, so every segmentation is covered.

### PackageList and TestRun

The state of `PackageList` is the text alone, one byte longer with each step, so
that every text up to the bound is read. A package is known by its name where
the code has one pointer per name. `lineMatcher` is not anchored at the end of a
line, and looks only for a colon before the first space; `Matches` says so.
`Halve` is `strings.Replace` of two spaces by one. It replaces once from left to right,
so three spaces between names leave two, and between them an empty name;
`WellFormed` leaves out such lines, of which the data file has none.

In `TestRun` a goroutine, its connection and the server's goroutine for it are
named by step and segment, and so all five steps' clients are there side by side: a
request that was sent in step 2 may be carried out in step 4. `Goto` follows the
loops: `"roll"` is where `bruteforceIndexesPackages` throws its dice (`Unlucky`),
`"send"` what follows a broken message, `"await"` and `"awaitBroken"` are inside `Send`.
`Receive`, `SendFails` and `Timeout` are the three ways out of `Send`, each followed in
the same step by what the caller does with the result (`SendReturns`). `Send` makes a `bufio.Reader` for
each response: whatever had arrived behind it is lost (`Behind`), and so are lines
at the server. `Fail` ends the process; the
server goes on. `Faults` bounds what may go wrong besides: a deadline that passes while a
response is still to come, a connection that breaks, a line that arrives cut in two.
A deadline that passes with nothing on its way (`Lost`) is not counted. A dial to a
server without a slot left succeeds, and the connection is closed at once, as `Refuse` in `Server` does.
The index may hold packages at the start, from an earlier run that failed.

## Runs

| Run | Bounds | Shows |
|---|---|---|
| `index` | 4 packages, 1 caller | every dependency graph on 4 names is reached by every order of calls; invariants, `DepsFixed`, `ImplementsGraph` |
| `index_locked` | 3 goroutines, 3 packages in a triangle of dependencies | `NoMapRace`, `ImplementsIndex`, `QueryAnswered`, `WriterAnswered` |
| `server` | 2 clients, 1 slot, 2 messages each sent without waiting, room for 1 response | `SlotsExact`, `ConnsBounded`, `NoExtraResponse`, `SlotReturned`, `ClientAnswered` |
| `server_service` | 2 clients and 2 slots, 2 messages each, waiting for each response, 2 packages | `ImplementsService` |
| `wire_format` | lines of up to 9 bytes over 5 bytes; requests of up to 3 dependencies over 2 commands and 3 names | `ParsesAsSpecified`, `RoundTrip`, `RestOfRequestRejected` |
| `message_reader` | 2 connections (one waits, one does not), buffers of 3 bytes, lines of 1, 3 and 4 | `OwnBytes`, `NeverJoined`, `WholeMessages` |
| `package_list` | texts of up to 8 bytes over 2 letters, colon, space and newline; up to 4 segments | `ReadsAsWritten`, `ListClosed`, `SegmentsCover` |
| `test_run` | 2 clients, 3 packages in a chain that is listed from its end, 3 slots, 1 fault | `StepsApart`, `RefusedForGone`, `LateByFaults`, `NoFalseAlarm`, `IndexVerified`, `RemovalVerified`, `RunEnds` |
| `server_write_timeout` | 1 client | violation, below |
| `message_reader_limit` | 1 connection, limit 2, smallest buffer 4 | violation, below |
| `test_run_status` | as `test_run` | violation, below |
| `test_run_waits` | 4 clients, 3 packages, no fault | violation, below |

Why the bounds are enough. A cycle, a diamond and a chain of dependencies need at most four
packages. A race on the lock needs a holder, a writer that waits and a reader that
comes: three goroutines. With one slot and two clients, a connection is
refused, and one is accepted while the last is being closed. A shortest request
with two dependencies takes nine bytes, and among the test suite's are those with none, one and several dependencies, some of them
alike or one the beginning of another. Lines of one byte, of exactly the buffer and of one
more are the cases `ReadSlice` tells apart. Eight bytes hold two lines of which the second names a package of the first, and
a line with two dependencies. A test run needs two clients for one to wait for the other, and
a chain of three, listed from its end and cut into two segments, for both to wait and for one
client to need several passes; three slots for two clients are the ratio of
`run.sh`, whose 200 clients of a step find 300 slots, some of them still held by
the step before. One fault is enough for a late response, a cut line and a
lost connection each; with two (1.6 million states) every property of `test_run` holds as
well. `Messages`, `MaxLine`, `MaxNames`, `Lines`, `MaxText` and `Faults`
bound the number of steps; `Window` and `Patient` choose whether clients
wait. Symmetry is used only in runs without liveness. The runs of
`Server`, `WireFormat`, `MessageReader`, `PackageList` and `TestRun` do not check deadlock: a process may end, every
client may have left, and a line or a text may be complete.

Fairness. `LFairSpec` is weak fairness of each goroutine inside a method: the Go
scheduler runs every goroutine that can run. Callers need not call. Which
of several writers gets the mutex is left open, so it is only claimed that a
writer that has it is served (`WriterAnswered`). `SFairSpec` is weak fairness of
each `serve` (which includes the read deadline: timers fire), of the acceptor's own
steps, and strong fairness of `Accept`: temporary errors do not come for ever
while a client waits. Nothing is assumed of clients. `TFairSpec` is weak fairness of `main` of the test
suite and of each client and each goroutine of the server: both are Go programs, and
deadlines pass.

What a test run may report wrongly is bounded rather than excluded, since the code does report it. `NoFalseAlarm`
says that a run fails only after a fault or on a connection that broke or was refused. Two more properties are about how far that goes:
`RefusedForGone`, that a client is refused only for the sake of one that has left and whose
slot the server has not got back yet, if there is a slot for each client of a step; and `LateByFaults`, that a
client is behind with reading its responses by no more of them than deadlines have passed early and connections have broken.

`RunEnds` is about a test run as it is, which may wait for ever. It says that it
does so in three cases only: the wait group counts clients that are never started
(`test_run_waits`); a client whose connection is gone goes on indexing, since
`bruteforceIndexesPackages` drops the error of `Send` and never dials again; or a client has taken
late responses for those to later messages, left its loop and left behind a package of its own that others
wait for (`LeftBehind`).

### What the violations show

* `WriteTimeoutCloses`: `server.go:42-43` and the flag in `main.go:18` say that
  the server closes the connection of a client that does not accept a response
  in time. `respond` logs the error and returns, and `serve` reads on.
* `SizeLimit`: `server.go:23-24` and `main.go:16` say that a message larger than
  `MaxMessageSize` gets an error response. `bufio.NewReaderSize` makes no buffer
  smaller than 16 bytes, so a smaller limit is not enforced.
* `SuccessMeansVerified`: `Fail` calls `os.Exit(0)`, and the `os.Exit(1)` behind it
  is dead code. `run.sh` runs the test suite under `bash -e` and says that if it
  succeeds the image can be shipped; a run that has failed succeeds.
* `AnyConcurrency`: every step adds `ConcurrencyLevel` to the wait group and starts
  one goroutine per segment, of which there are no more than packages. With
  more clients than packages `Wait` never returns. (Go's deadlock detection does not help: goroutines
  that wait for the network keep it from firing.)

## Proofs

`IndexProofs` proves, for all sets of packages, goroutines and requests,
assuming only that requests are requests (`CallsAssumption`):

* `Consistent`: `IndexInv` is an invariant, and with it `TypeOK`,
  `RefCountsExact`, `DepsIndexed` and `NoCycles`. None is inductive alone. An
  exact count needs that what `Remove` decrements is still there (`DepsIndexed`),
  which needs that an entry whose count is 0 has no dependents
  (`RefCountsExact`). That no count goes negative follows from the counts being
  the sizes of sets, and finiteness of the index makes the sizes numbers.
  `NoCycles` holds because nothing depends on a package that is just being
  indexed. `BumpEffect`, `InsertEffect` and `DeleteEffect` say what the loops do to
  a map that has all the dependencies.
* `DepsNeverChange`: the action property `DepsFixed`.
* `IndexImplementsGraph`: every step of `Index` is a step of `DependencyGraph`
  under the mapping that forgets the counts.

The first part of `LinearizableProofs` proves `MapNeverRaced` for any number of goroutines, from
`CallsAssumption` and the inductive invariant `LockInv`. `NoMapRace` is not
inductive: it does not say who holds the lock. `LockInv` ties each goroutine's
place in its method to its call and to the two sides of the lock (`PlaceInv`),
at most one goroutine having the writer's side and no reader being in once that
one is past `drain`. The delicate step is `Unlock`, which lets all
the waiting readers in at once: none of them is a writer, and no writer is left.

Its second part proves `LockedImplementsIndex`: line by line, with any number of goroutines
and any order of the ranges over dependencies, the index refines `Index`. To `LockInv` it adds `MapInv`: what a
goroutine between two lines of `Index` or `Remove` knows of the map, which is
that the counts it has not settled (`Unsettled`) are of packages that are there. Under the
mapping, each line but `InsertEntry`, `RemoveStart` and `QueryBody` leaves the abstract map
alone: `IncrDep` counts one more and has one more to take off (`BumpOneMore`), and the
other two are where `Index` and `Remove` happen. `RemoveStart` needs that every
dependency of the package is in the map, which is `DepsIndexed` of the abstract map; it is
had by instantiating `IndexProofs` with the mapping (`AbsConsistent`) rather than proved again.
`LockedTypeCorrect` follows.

`ServerProofs` proves `SlotsAlwaysExact` and `ConnsAlwaysBounded` for any number
of connections, messages and slots, from `ServerAssumption`. The inductive invariant
`SlotInv` adds to `SlotsExact` how a connection, its client and its goroutine go
together (`ConnInv`): a connection that was just accepted has no goroutine yet, so
`Spawn` adds exactly one to those that serve, and an open connection has one
that has not reached `release`, so that the open connections are a subset of
those that hold a slot. `NoResponseTooMany` adds `WireInv`: as long as a client has its connection, the responses
under way, the messages not read and the one being worked on are together
no more than the messages it waits for. Each step of `serve` keeps the sum or lowers it (`FlowStep`),
because what `readMessage` leaves of the messages is shorter than what it found (`RestsShorter`), however it
cuts; and a connection is only lost after its client has gone, so the error of
a reset cannot be answered to a client that is there. `ServerTypeCorrect` also uses `IndexInv`, kept by
every step of the server.

`ServerImplementsService` is the refinement `ImplementsService`, for clients that wait for each
response (`Window = 1`, as the test suite does and as `PackageService`, which knows one
request of a client at a time, supposes). The invariant `ServiceInv` adds to the above which request
a response belongs to (`PatientInv`): what a client waits for is on its way to
the server, being worked on, or answered on its way back, and an answer that the index has
given is the answer to that very request. A step of one connection moves only what `PackageService`
has of that connection (`Moves`, `Others`); each is one of the service's steps or a stutter:
`Execute` is `CallIndex` of the server, where the graph is looked at or changed (`CallIndexAnswers`;
`ServiceExecute`, with the lemmas of `IndexImplementsGraph`), and a connection that ends with a request on its way is the service's loss.

`ReaderProofs` proves `BytesAlwaysOwn`, `LinesNeverJoined` and `MessagesReadWhole` for any number of connections and
buffers, any sizes and any segmentation. The invariant of the first two has `HoldInv`, that
each goroutine inside `readMessage` has one buffer that is in nobody else's hands
nor in the pool, and `ConnInv`: the bytes in that buffer and those still in the socket, one after the
other, are `Ordered`: each byte but the first of a line follows the byte before it. That is
weaker than being what the client sent, and so survives lost buffers
and discarded lines; yet up to its first newline such a sequence is the end of one line
(`FirstLineIsEnd`).

`MessagesReadWhole` (`WholeMessages`) adds `WaitInv`, for clients that wait for each response and
have not been cut off: what is not read of the stream, in the buffer and in the socket, is
nothing, or one line and its newline at the very end (`LastOnly`). A newline in the buffer is
therefore the last byte of all, and nothing is in the socket behind it
(`WhereNewline`), so the buffer that is put back takes nothing of the next line with it, and
discarding a long line ends exactly where it does.

`OperatorProofs` has what the last three modules share. The library's induction theorems
take an operator as a parameter; `Induction`, `InductionUpTo` and `SequenceInduction` take a set instead, and follow from the
well-foundedness of `<` on the naturals. `Recursion` says that a function defined
by steps exists, and `SameRecursion` that there is one only, which together unfold the recursive functions
of the model. Of `Strings` it proves that `Split` cuts at every separator and nowhere
else (`SplitCuts`), and from that its value for no, one and two separators (`SplitBytes`, `SplitThree`) and of
a concatenation (`SplitConcat`). Of `Segments` it proves `SegmentsFollow` for every list and number of clients:
the segments begin where the one before ends and none is empty; `SegmentsReach` draws from it
that each package is in one.

`WireProofs` proves the three properties of `parseMessage` for lines of any length over any alphabet, from `WireAssumption`:

* `WireParsesAsSpecified`. The invariant `LineInv` says that a line ends at its first newline. Every loop of `parseMessage` stops
  within such a line (`ScanStops`), so it never panics. If the line has its two bars and no third (`Fields`), the bytes taken
  are those between them (`FieldsTaken`), and the loop over names takes what `Split` at
  the commas does (`NamesTaken`, `NamesSplit`); any other line is refused (`OthersRefused`) and is not
  `WellFormed` (`ThreeParts`, `TakenApart`).
* `WireRoundTrip`. The invariant `RequestInv` ties what the test suite means to the line it made of it. A line that `MakeMessage`
  put together has its bars where the parser looks for them, around the parts it was made of (`Composed`); `SplitJoin` is
  that splitting at the commas undoes joining names without one, and so such a line is parsed
  back into its command, package and dependencies (`MadeParsed`). `BrokenRefused` goes through the ways in which the test suite breaks a message.
* `WireRestOfRequestRejected`. What is left of a request, cut anywhere but at its beginning, has
  too few bars or starts with the end of a command (`RestOfLine`), and then is refused because of the
  assumption that such an end is no command.

`ListProofs` proves, for every text, that no package is listed twice and that every
dependency is listed (`ListIsClosed`), since each `Named` and each `AddDependency` behind it keeps that
(`NamedClosed`, `AddClosed`), and so does each token, line and text; and `ListSegmentsCover`: segments that follow each other
and end with the list are, one after the other, the list (`FlattenCuts`).

`ListReadsAsWritten` compares what the loops over bytes, tokens and lines compute with a
reference that is put together from words. The argument goes outwards:

* A well-formed line is cut into its words (`LineTokens`). `Trim` takes only spaces that
  make no words (`TrimRightCut`, `EndNoWords`), and behind it no three spaces are in a
  row (`NoThreeBefore`), so `Halve` leaves one space between two words and none of
  the pieces is empty (`HalvedOn`, whose invariant relates the words of the bytes so far
  and of the output so far, and `HalveWords`). The first word reaches up to the first
  space (`FirstWord`), so the colon at its end is the one that `lineMatcher` finds, and the only one that `TrimRight` takes (`ColonTrimmed`).
* `AsMentioned` is the invariant of `TokensToPackage`: package number k of the list is
  the k-th name to be mentioned for the first time, with the dependencies given to
  it so far. Each `Named` (`NamedMentioned`) and each `AddDependency`
  (`AddMentioned`) keeps it, hence so does a line (`TokensMentioned`).
* What the lines mention, and what they make each name depend on, grows by the tokens
  of each line (`LinesAppend`), so that the loop over the lines (`LinesMentioned`)
  ends with the reference, and without an error, because each of its lines matches.

The first part of `RunProofs` uses the count of segments
to prove `StepsNeverOverlap`, for any list, any number of
clients and any faults. `StepsApart` is not inductive: it needs that a step's clients
have not been started before (`PlaceInv`), so that `StartStep` adds as many to those that
run as there are segments.

Its second part proves the safety properties of `TestRun` for every list, any number of clients, any limit on connections and
any number of faults, from `TestRunAssumption` (a list that is not empty, so that it can be cut; a set of
dependencies for each package; requests for all of them; numbers for the limits). The argument, in the order of the module:

* `RunType` is the type of each client (`ClientType`): its segment, its place in it, and
  requests of its own step only. `TestRunTypeCorrect` follows with the count of `StepInv`.
* `FlightInv`: a client of any step but the second is `Tame`, because the first `Send` that fails ends its process, and
  so are those of the second before the first fault. A tame client has at most one message on its way, and only while it waits in `Send`; so
  nothing it sent is carried out in a later step. INDEX requests after a fault are not tame: they may be carried out at any later time.
* `Steady` (`AlwaysSteady`): hence no step takes a package from the index in steps 2 and 3, and only step 2
  puts one there unless there was a fault.
* `SettledInv`: a client that nobody can disturb (`Tracked`) and that counts all the packages passed as answered
  OK is right about them, and stays so, since steps are steady. `ClientSettled` is where the response to this message, and no other, is what `Send` returned.
* `ListInv`: when `Wait` returns all the clients of the step are done, and every package
  is in some segment (`SegmentsReach`): the whole list is indexed after step 3, whatever the faults,
  and not indexed after step 4 without them.
* `ListIndexed` and `ListRemoved` are `IndexVerified` and `RemovalVerified`.
* `OnlyTrueAlarms` (`NoFalseAlarm`): without a fault, a query gets the answer its client expects (`ExpectedInv`), by
  `ListInv`; a client whose connection is up is owed a response (the last part of `FlightInv`), so no deadline passes
  for want of one; what is left to complain of is a connection that is down.
* `OnlyRefusedForGone` (`RefusedForGone`): only clients that have called `Dial` hold slots (`HeldInv`), and by
  `StepsApart` those of other steps that do are done. If none of them were, the slots would all be held by clients of
  this step other than the one that dials, and these are fewer than there are slots.
* `LateOnlyByFaults` (`LateByFaults`): `LateInv` counts what a client has sent and not read the response to. A message adds one,
  while the connection is up, and enters `Send`. `Send` returns with one less, or after a deadline, which is a fault if anything is
  still to come. Once the connection is down, which is a fault unless it was refused, nothing can be added.

`IndexVerified` needs `FailInv` besides, that a run fails only within a step.

Every invariant and every action property of a passing run is proved. Only model-checked is
liveness (fairness and `ENABLED` are out of the prover's reach). `ImplementsService` is checked
and proved for clients that wait, and not claimed of others. No module that is proved about declares a `RECURSIVE` operator.

## Not modelled

* `data.go` is generated: the text that `PackageList` reads, compressed, and accessors.
  `Names` in `packages.go` is used by tests only.
* Flags and their defaults, logging, pprof, and the build scripts. What `run.sh`
  concludes from a status is part of `SuccessMeansVerified`.
* A `Dial` of the test suite that fails because nothing listens: it ends the process at once, by `Fail`.
* Partial writes of a response (see the hazard at `server.go:186`): it takes a client
  that leaves hundreds of kilobytes of responses unread, where every response is at
  most six bytes.
* `SetReadDeadline` and `SetWriteDeadline` that fail, which they do only on a connection closed by this process.

## Plan

Done: the index with its promise, lock and proofs, up to linearizability; the server with its
clients; reading and parsing; the test suite with its list; the proofs listed above.

What is left needs another prover or a wider abstract specification: liveness, and a
`PackageService` with a queue of requests per client, for clients that do not wait.
