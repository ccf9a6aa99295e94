----------------------------- MODULE IndexCalls -----------------------------
(***************************************************************************)
(* The calls that goroutines make on the Index interface of                *)
(* index/index.go: each goroutine has at most one call in progress, and a  *)
(* call is three steps apart in time, its invocation, the moment it takes  *)
(* effect, and its return.  The specifications of the index, abstract,     *)
(* atomic and locked, share this vocabulary.                               *)
(***************************************************************************)

CONSTANTS Package,     \* package names
          Goroutine,   \* the goroutines that call the index
          Calls        \* the requests they may make

VARIABLE call          \* call[g]: the call goroutine g has in progress

\* Index takes a set of dependencies; Remove and Query take only a name.
Request == [op: {"Index"}, pkg: Package, deps: SUBSET Package]
             \cup [op: {"Remove", "Query"}, pkg: Package, deps: {{}}]

ASSUME CallsAssumption == Calls \subseteq Request

Idle == [op |-> "none"]

\* The call made by request r, with ok the bool it has returned, if any.
CallOf(r, ok) == [op |-> r.op, pkg |-> r.pkg, deps |-> r.deps, ok |-> ok]

Call == {Idle} \cup {CallOf(r, ok) : r \in Request, ok \in {"pending", "true", "false"}}

Busy(g) == call[g] # Idle

\* Goroutine g has called op and the call has not taken effect yet.
Awaiting(g, op) == Busy(g) /\ call[g].op = op /\ call[g].ok = "pending"

Answer(g, ok) == call' = [call EXCEPT ![g].ok = ok]

Invoke(g) == /\ ~Busy(g)
             /\ \E r \in Calls : call' = [call EXCEPT ![g] = CallOf(r, "pending")]

Return(g) == /\ Busy(g)
             /\ call[g].ok # "pending"
             /\ call' = [call EXCEPT ![g] = Idle]

=============================================================================
