-------------------------- MODULE DependencyGraph --------------------------
(***************************************************************************)
(* What the Index interface of index/index.go promises: a set of indexed   *)
(* packages, each with the dependencies it was indexed with, and calls     *)
(* that are answered as if they took effect one at a time.  Nothing here   *)
(* counts references or takes a lock.                                      *)
(***************************************************************************)
EXTENDS IndexCalls

VARIABLE graph   \* graph[p], for each indexed package p: its dependencies

gvars == <<graph, call>>

Indexed == DOMAIN graph

\* The indexed packages that depend on p.
Dependents(p) == {q \in Indexed : p \in graph[q]}

Init == /\ graph = [p \in {} |-> {}]
        /\ call = [g \in Goroutine |-> Idle]

\* True if the package could be indexed or was already present, false if some
\* of its dependencies are not indexed.
Index(g) ==
  /\ Awaiting(g, "Index")
  /\ LET p == call[g].pkg
         D == call[g].deps
     IN \/ /\ p \in Indexed
           /\ Answer(g, "true")
           /\ UNCHANGED graph
        \/ /\ p \notin Indexed
           /\ D \subseteq Indexed
           /\ graph' = [q \in Indexed \cup {p} |-> IF q = p THEN D ELSE graph[q]]
           /\ Answer(g, "true")
        \/ /\ p \notin Indexed
           /\ ~(D \subseteq Indexed)
           /\ Answer(g, "false")
           /\ UNCHANGED graph

\* False if another indexed package depends on the package; otherwise the
\* package is not indexed any more and the answer is true.
Remove(g) ==
  /\ Awaiting(g, "Remove")
  /\ LET p == call[g].pkg
     IN \/ /\ Dependents(p) = {} \/ p \notin Indexed
           /\ graph' = [q \in Indexed \ {p} |-> graph[q]]
           /\ Answer(g, "true")
        \/ /\ Dependents(p) # {} /\ p \in Indexed
           /\ Answer(g, "false")
           /\ UNCHANGED graph

\* True iff the package is indexed.
Query(g) == /\ Awaiting(g, "Query")
            /\ Answer(g, IF call[g].pkg \in Indexed THEN "true" ELSE "false")
            /\ UNCHANGED graph

Next == \E g \in Goroutine :
          \/ (Invoke(g) \/ Return(g)) /\ UNCHANGED graph
          \/ Index(g)
          \/ Remove(g)
          \/ Query(g)

Spec == Init /\ [][Next]_gvars

=============================================================================
