------------------------------- MODULE Index -------------------------------
(***************************************************************************)
(* The type index of index/index.go: a map from each indexed package to an *)
(* entry that holds its dependencies and a count of the packages that      *)
(* depend on it.  Each method holds the index's lock from its first line   *)
(* to its return, so here it is one step; IndexLocked takes the lock and   *)
(* the loops apart and implements this module.                             *)
(***************************************************************************)
EXTENDS IndexCalls, Integers, FiniteSets

VARIABLE m   \* i.m, the Go map from package name to entry

vars == <<m, call>>

\* refCount is an int64; that no count is ever negative is part of TypeOK.
Entry == [refCount: Nat, deps: SUBSET Package]

Zero == [refCount |-> 0, deps |-> {}]

\* Reading a Go map: the zero entry for a key that is absent.
Lookup(f, p) == IF p \in DOMAIN f THEN f[p] ELSE Zero

\* Assigning to a Go map, which creates the key if it is absent.
Put(f, p, e) == [q \in DOMAIN f \cup {p} |-> IF q = p THEN e ELSE f[q]]

\* Deleting a key of a Go map.
Drop(f, p) == [q \in DOMAIN f \ {p} |-> f[q]]

\* The loops over a package's dependencies that add n to each refCount.
Bump(f, D, n) ==
  [q \in DOMAIN f \cup D |->
     IF q \in D THEN [Lookup(f, q) EXCEPT !.refCount = @ + n] ELSE f[q]]

\* What Index does to the map for a new package whose dependencies are there.
Insert(f, p, D) == Put(Bump(f, D, 1), p, [refCount |-> 0, deps |-> D])

\* Mutant: Remove forgets to decrement.
DeleteOnly(f, p) == Drop(f, p)

\* What Remove does to the map for a package nobody depends on.
Delete(f, p) == Bump(Drop(f, p), f[p].deps, -1)

\* Mutant: Index does not look for its dependencies.
NoneMissing(D) == {}

Missing(D) == D \ DOMAIN m

\* Mutant: Remove is off by one.
ReferencedTwice(p) == m[p].refCount > 1

Referenced(p) == m[p].refCount > 0

Init == /\ m = [p \in {} |-> Zero]
        /\ call = [g \in Goroutine |-> Idle]

\* Mutant: Index overwrites the dependencies of a package that is there.
IndexAgain(g) ==
  /\ Awaiting(g, "Index")
  /\ call[g].pkg \in DOMAIN m
  /\ Answer(g, "true")
  /\ m' = [m EXCEPT ![call[g].pkg].deps = call[g].deps]

IndexPresent(g) ==
  /\ Awaiting(g, "Index")
  /\ call[g].pkg \in DOMAIN m
  /\ Answer(g, "true")
  /\ UNCHANGED m

IndexMissing(g) ==
  /\ Awaiting(g, "Index")
  /\ call[g].pkg \notin DOMAIN m
  /\ Missing(call[g].deps) # {}
  /\ Answer(g, "false")
  /\ UNCHANGED m

IndexNew(g) ==
  /\ Awaiting(g, "Index")
  /\ call[g].pkg \notin DOMAIN m
  /\ Missing(call[g].deps) = {}
  /\ m' = Insert(m, call[g].pkg, call[g].deps)
  /\ Answer(g, "true")

\* Mutant: Remove fails for a package that is not indexed.
RemoveAbsentFails(g) ==
  /\ Awaiting(g, "Remove")
  /\ call[g].pkg \notin DOMAIN m
  /\ Answer(g, "false")
  /\ UNCHANGED m

RemoveAbsent(g) ==
  /\ Awaiting(g, "Remove")
  /\ call[g].pkg \notin DOMAIN m
  /\ Answer(g, "true")
  /\ UNCHANGED m

RemoveReferenced(g) ==
  /\ Awaiting(g, "Remove")
  /\ call[g].pkg \in DOMAIN m
  /\ Referenced(call[g].pkg)
  /\ Answer(g, "false")
  /\ UNCHANGED m

RemoveUnreferenced(g) ==
  /\ Awaiting(g, "Remove")
  /\ call[g].pkg \in DOMAIN m
  /\ ~Referenced(call[g].pkg)
  /\ m' = Delete(m, call[g].pkg)
  /\ Answer(g, "true")

Query(g) == /\ Awaiting(g, "Query")
            /\ Answer(g, IF call[g].pkg \in DOMAIN m THEN "true" ELSE "false")
            /\ UNCHANGED m

Execute(g) == \/ IndexPresent(g) \/ IndexMissing(g) \/ IndexNew(g)
              \/ RemoveAbsent(g) \/ RemoveReferenced(g) \/ RemoveUnreferenced(g)
              \/ Query(g)

Next == \E g \in Goroutine : \/ (Invoke(g) \/ Return(g)) /\ UNCHANGED m
                             \/ Execute(g)

Spec == Init /\ [][Next]_vars

-----------------------------------------------------------------------------

TypeOK == /\ DOMAIN m \subseteq Package
          /\ m \in [DOMAIN m -> Entry]
          /\ call \in [Goroutine -> Call]

\* The indexed packages whose entry lists p as a dependency.
Dependents(p) == {q \in DOMAIN m : p \in m[q].deps}

\* After any sequence of calls a refCount is the number of packages that
\* depend on the entry: Index and Remove count each dependency exactly once.
RefCountsExact == \A p \in DOMAIN m : m[p].refCount = Cardinality(Dependents(p))

\* Everything a package depends on stays indexed as long as the package is:
\* Remove never takes a dependency away, and its decrements never write to a
\* key that is gone (which would bring it back with a refCount of -1).
DepsIndexed == \A p \in DOMAIN m : m[p].deps \subseteq DOMAIN m

\* Dependencies never form a cycle: any group of indexed packages has one
\* that no other in the group depends on, so Remove can always take the index
\* apart package by package, whatever order clients indexed them in.
NoCycles == \A S \in (SUBSET DOMAIN m) \ {{}} :
              \E p \in S : Dependents(p) \cap S = {}

\* What every call preserves.  The index holds finitely many packages, which is
\* what lets a refCount be the size of a set.
IndexInv == TypeOK /\ IsFiniteSet(DOMAIN m) /\ RefCountsExact /\ DepsIndexed /\ NoCycles

KeepsDeps == \A p \in DOMAIN m \cap DOMAIN m' : m'[p].deps = m[p].deps

\* Indexing a package again does not change its dependencies: they are fixed
\* from the call that indexed it to the call that removes it.
DepsFixed == [][KeepsDeps]_vars

\* The map with its counts answers every call as DependencyGraph does, which
\* looks for dependents in the graph itself.
G == INSTANCE DependencyGraph WITH graph <- [p \in DOMAIN m |-> m[p].deps]

ImplementsGraph == G!Spec

=============================================================================
