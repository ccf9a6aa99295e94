---------------------------- MODULE IndexProofs ----------------------------
(***************************************************************************)
(* Theorems about Index, for every set of packages and goroutines.         *)
(***************************************************************************)
EXTENDS Index, FiniteSetTheorems, TLAPS

\* f with n added to the refCount of the packages of D.
Counted(f, D, n) ==
  [q \in DOMAIN f |-> [refCount |-> f[q].refCount + (IF q \in D THEN n ELSE 0),
                       deps     |-> f[q].deps]]

\* f with a new package p counted at each of its dependencies D.
Inserted(f, p, D) ==
  [q \in DOMAIN f \cup {p} |-> IF q = p THEN [refCount |-> 0, deps |-> D]
                               ELSE Counted(f, D, 1)[q]]

\* f without p, which is counted no more at its dependencies.
Deleted(f, p) == [q \in DOMAIN f \ {p} |-> Counted(f, f[p].deps, -1)[q]]

(* A loop over the dependencies that finds every one of them in the map    *)
(* changes the refCounts of those and nothing else.                        *)
LEMMA BumpEffect ==
  ASSUME NEW f, f \in [DOMAIN f -> Entry], NEW D, D \subseteq DOMAIN f, NEW n \in Int
  PROVE  Bump(f, D, n) = Counted(f, D, n)
<1>1. Bump(f, D, n) = [q \in DOMAIN f |->
                         IF q \in D THEN [f[q] EXCEPT !.refCount = @ + n] ELSE f[q]]
  BY DEF Bump, Lookup
<1>2. ASSUME NEW q \in DOMAIN f
      PROVE  (IF q \in D THEN [f[q] EXCEPT !.refCount = @ + n] ELSE f[q])
               = [refCount |-> f[q].refCount + (IF q \in D THEN n ELSE 0),
                  deps     |-> f[q].deps]
  <2>1. f[q] \in Entry
    OBVIOUS
  <2>2. CASE q \in D
    BY <2>1, <2>2 DEF Entry
  <2>3. CASE q \notin D
    BY <2>1, <2>3 DEF Entry
  <2> QED
    BY <2>2, <2>3
<1> QED
  BY <1>1, <1>2 DEF Counted

(* Insert adds one entry and counts it once at each of its dependencies.   *)
LEMMA InsertEffect ==
  ASSUME NEW f, f \in [DOMAIN f -> Entry], NEW p, NEW D, D \subseteq DOMAIN f
  PROVE  Insert(f, p, D) = Inserted(f, p, D)
<1>1. Bump(f, D, 1) = Counted(f, D, 1) /\ DOMAIN Counted(f, D, 1) = DOMAIN f
  BY BumpEffect DEF Counted
<1> QED
  BY <1>1 DEF Insert, Put, Inserted

(* Delete drops one entry and takes it off the count of each of its        *)
(* dependencies.                                                           *)
LEMMA DeleteEffect ==
  ASSUME NEW f, f \in [DOMAIN f -> Entry],
         NEW p \in DOMAIN f, f[p].deps \subseteq DOMAIN f \ {p}
  PROVE  Delete(f, p) = Deleted(f, p)
<1> DEFINE h == Drop(f, p)
           D == f[p].deps
<1>1. /\ DOMAIN h = DOMAIN f \ {p}
      /\ h \in [DOMAIN h -> Entry]
      /\ \A q \in DOMAIN h : h[q] = f[q]
  BY DEF Drop
<1>2. D \subseteq DOMAIN h
  BY <1>1
<1>3. Delete(f, p) = Bump(h, D, -1)
  BY DEF Delete
<1> HIDE DEF h, D
<1>4. Bump(h, D, -1) = Counted(h, D, -1)
  <2>1. -1 \in Int
    OBVIOUS
  <2> QED
    BY <1>1, <1>2, <2>1, BumpEffect
<1>5. Counted(h, D, -1) = [q \in DOMAIN f \ {p} |-> Counted(f, D, -1)[q]]
  BY <1>1 DEF Counted
<1> QED
  BY <1>3, <1>4, <1>5 DEF Deleted, D

-----------------------------------------------------------------------------

LEMMA AwaitingType ==
  ASSUME TypeOK, NEW g \in Goroutine, NEW op, Awaiting(g, op)
  PROVE  /\ \E r \in Request : call[g] = CallOf(r, "pending")
         /\ call[g].pkg \in Package
         /\ call[g].deps \in SUBSET Package
<1>1. call[g] \in Call /\ call[g] # Idle
  BY DEF TypeOK, Awaiting, Busy
<1>2. PICK r \in Request, ok \in {"pending", "true", "false"} : call[g] = CallOf(r, ok)
  BY <1>1 DEF Call
<1>3. ok = "pending"
  BY <1>2 DEF Awaiting, CallOf
<1>4. r.pkg \in Package /\ r.deps \in SUBSET Package
  BY DEF Request
<1> QED
  BY <1>2, <1>3, <1>4 DEF CallOf

LEMMA AnswerType ==
  ASSUME TypeOK, NEW g \in Goroutine, NEW op, Awaiting(g, op),
         NEW ok \in {"true", "false"}, Answer(g, ok)
  PROVE  call' \in [Goroutine -> Call]
<1>1. PICK r \in Request : call[g] = CallOf(r, "pending")
  BY AwaitingType
<1>2. [call[g] EXCEPT !.ok = ok] = CallOf(r, ok)
  BY <1>1 DEF CallOf
<1>3. [call[g] EXCEPT !.ok = ok] \in Call
  BY <1>2 DEF Call
<1> QED
  BY <1>3 DEF Answer, TypeOK

(* Invoking a call and returning from it keep calls well typed.            *)
LEMMA InvokeReturnType ==
  ASSUME TypeOK, NEW g \in Goroutine, Invoke(g) \/ Return(g)
  PROVE  call' \in [Goroutine -> Call]
<1>1. CASE Invoke(g)
  <2>1. PICK r \in Calls : call' = [call EXCEPT ![g] = CallOf(r, "pending")]
    BY <1>1 DEF Invoke
  <2>2. CallOf(r, "pending") \in Call
    BY CallsAssumption DEF Call
  <2> QED
    BY <2>1, <2>2 DEF TypeOK
<1>2. CASE Return(g)
  <2>1. Idle \in Call
    BY DEF Call
  <2> QED
    BY <1>2, <2>1 DEF Return, TypeOK
<1> QED
  BY <1>1, <1>2

-----------------------------------------------------------------------------

LEMMA InitInv == Init => IndexInv
<1> SUFFICES ASSUME Init PROVE IndexInv
  OBVIOUS
<1>1. DOMAIN m = {}
  BY DEF Init
<1>2. Idle \in Call
  BY DEF Call
<1>3. TypeOK
  BY <1>1, <1>2 DEF Init, TypeOK
<1>4. IsFiniteSet(DOMAIN m)
  BY <1>1, FS_EmptySet
<1>5. RefCountsExact /\ DepsIndexed /\ NoCycles
  BY <1>1 DEF RefCountsExact, DepsIndexed, NoCycles
<1> QED
  BY <1>3, <1>4, <1>5 DEF IndexInv

(* A step that leaves the map alone keeps the invariant if it keeps the    *)
(* calls well typed.                                                       *)
LEMMA UnchangedMapInv ==
  ASSUME IndexInv, UNCHANGED m, call' \in [Goroutine -> Call]
  PROVE  IndexInv'
<1>1. TypeOK'
  BY DEF IndexInv, TypeOK
<1>2. IsFiniteSet(DOMAIN m)'
  BY DEF IndexInv
<1>3. RefCountsExact' /\ DepsIndexed' /\ NoCycles'
  BY DEF IndexInv, RefCountsExact, DepsIndexed, NoCycles, Dependents
<1> QED
  BY <1>1, <1>2, <1>3 DEF IndexInv

(* Indexing a new package keeps the invariant: nothing can depend on it    *)
(* yet, and each of its dependencies gains exactly one dependent.          *)
LEMMA IndexNewInv ==
  ASSUME IndexInv, NEW g \in Goroutine, IndexNew(g)
  PROVE  IndexInv'
<1>0. TypeOK /\ IsFiniteSet(DOMAIN m) /\ RefCountsExact /\ DepsIndexed /\ NoCycles
  BY DEF IndexInv
<1>1. PICK p \in Package, D \in SUBSET Package : p = call[g].pkg /\ D = call[g].deps
  BY <1>0, AwaitingType DEF IndexNew
<1>2. p \notin DOMAIN m /\ D \subseteq DOMAIN m /\ m' = Insert(m, p, D)
  BY <1>1 DEF IndexNew, Missing
<1>3. m \in [DOMAIN m -> Entry] /\ DOMAIN m \subseteq Package
  BY <1>0 DEF TypeOK
<1>4. /\ DOMAIN m' = DOMAIN m \cup {p}
      /\ m' \in [DOMAIN m \cup {p} -> Entry]
      /\ m'[p].deps = D
      /\ m'[p].refCount = 0
      /\ \A q \in DOMAIN m :
           /\ m'[q].deps = m[q].deps
           /\ m'[q].refCount = m[q].refCount + (IF q \in D THEN 1 ELSE 0)
  <2>1. m' = Inserted(m, p, D)
    BY <1>2, <1>3, InsertEffect
  <2>2. \A q \in DOMAIN m : m[q].refCount \in Nat /\ m[q].deps \in SUBSET Package
    BY <1>3 DEF Entry
  <2>3. \A q \in DOMAIN m : Counted(m, D, 1)[q] \in Entry
    BY <2>2 DEF Counted, Entry
  <2>4. m' \in [DOMAIN m \cup {p} -> Entry]
    BY <2>1, <2>3 DEF Inserted, Entry
  <2>5. \A q \in DOMAIN m : m'[q] = Counted(m, D, 1)[q]
    BY <1>2, <2>1 DEF Inserted
  <2>6. ASSUME NEW q \in DOMAIN m
        PROVE  /\ m'[q].deps = m[q].deps
               /\ m'[q].refCount = m[q].refCount + (IF q \in D THEN 1 ELSE 0)
    <3>1. m'[q] = [refCount |-> m[q].refCount + (IF q \in D THEN 1 ELSE 0),
                   deps     |-> m[q].deps]
      BY <2>5 DEF Counted
    <3> QED
      BY <3>1
  <2>7. m'[p] = [refCount |-> 0, deps |-> D] /\ DOMAIN m' = DOMAIN m \cup {p}
    BY <2>1 DEF Inserted
  <2> QED
    BY <2>4, <2>6, <2>7
<1>5. TypeOK'
  <2>1. call' \in [Goroutine -> Call]
    BY <1>0, AnswerType DEF IndexNew
  <2> QED
    BY <1>1, <1>3, <1>4, <2>1 DEF TypeOK
<1>6. IsFiniteSet(DOMAIN m)'
  BY <1>0, <1>4, FS_AddElement
<1>7. DepsIndexed'
  BY <1>0, <1>2, <1>4 DEF DepsIndexed
<1>8. Dependents(p)' = {}
  BY <1>0, <1>2, <1>4 DEF DepsIndexed, Dependents
<1>9. ASSUME NEW q \in DOMAIN m
      PROVE  Dependents(q)' = IF q \in D THEN Dependents(q) \cup {p} ELSE Dependents(q)
  BY <1>2, <1>4 DEF Dependents
<1>10. RefCountsExact'
  <2>1. m'[p].refCount = Cardinality(Dependents(p)')
    BY <1>4, <1>8, FS_EmptySet
  <2>2. ASSUME NEW q \in DOMAIN m
        PROVE  m'[q].refCount = Cardinality(Dependents(q)')
    <3>1. IsFiniteSet(Dependents(q))
      BY <1>0, FS_Subset DEF Dependents
    <3>2. p \notin Dependents(q)
      BY <1>2 DEF Dependents
    <3>3. Cardinality(Dependents(q)) \in Nat
      BY <3>1, FS_CardinalityType
    <3>4. Cardinality(Dependents(q) \cup {p}) = Cardinality(Dependents(q)) + 1
      BY <3>1, <3>2, FS_AddElement
    <3>5. m[q].refCount = Cardinality(Dependents(q))
      BY <1>0 DEF RefCountsExact
    <3> QED
      <4>1. CASE q \in D
        BY <1>4, <1>9, <3>3, <3>4, <3>5, <4>1
      <4>2. CASE q \notin D
        BY <1>4, <1>9, <3>3, <3>5, <4>2
      <4> QED
        BY <4>1, <4>2
  <2> QED
    BY <1>4, <2>1, <2>2 DEF RefCountsExact
<1>11. NoCycles'
  <2> SUFFICES ASSUME NEW S \in SUBSET DOMAIN m', S # {}
               PROVE  \E q \in S : Dependents(q)' \cap S = {}
    BY DEF NoCycles
  <2>1. CASE p \in S
    BY <1>8, <2>1
  <2>2. CASE p \notin S
    <3>1. S \in (SUBSET DOMAIN m) \ {{}}
      BY <1>4, <2>2
    <3>2. PICK q \in S : Dependents(q) \cap S = {}
      BY <1>0, <3>1 DEF NoCycles
    <3>3. Dependents(q)' \subseteq Dependents(q) \cup {p}
      BY <1>9, <3>1
    <3> QED
      BY <2>2, <3>2, <3>3
  <2> QED
    BY <2>1, <2>2
<1> QED
  BY <1>5, <1>6, <1>7, <1>10, <1>11 DEF IndexInv

(* A refCount of 0 means that no package has the entry as a dependency.    *)
LEMMA UnreferencedFree ==
  ASSUME IndexInv, NEW p \in DOMAIN m
  PROVE  Referenced(p) <=> Dependents(p) # {}
<1>1. IsFiniteSet(Dependents(p))
  BY FS_Subset DEF IndexInv, Dependents
<1>2. Cardinality(Dependents(p)) \in Nat /\ (Cardinality(Dependents(p)) = 0 <=> Dependents(p) = {})
  BY <1>1, FS_CardinalityType, FS_EmptySet
<1>3. m[p].refCount = Cardinality(Dependents(p))
  BY DEF IndexInv, RefCountsExact
<1> QED
  BY <1>2, <1>3 DEF Referenced

(* What a Remove that succeeds does to the map.                            *)
LEMMA RemoveStep ==
  ASSUME IndexInv, NEW g \in Goroutine, RemoveUnreferenced(g),
         NEW p, p = call[g].pkg
  PROVE  /\ p \in DOMAIN m
         /\ Dependents(p) = {}
         /\ DOMAIN m' = DOMAIN m \ {p}
         /\ m' = [q \in DOMAIN m' |-> [refCount |-> m'[q].refCount, deps |-> m'[q].deps]]
         /\ \A q \in DOMAIN m \ {p} :
              /\ m'[q].deps = m[q].deps
              /\ m'[q].refCount = m[q].refCount + (IF q \in m[p].deps THEN -1 ELSE 0)
<1>1. p \in DOMAIN m /\ ~Referenced(p) /\ m' = Delete(m, p)
  BY DEF RemoveUnreferenced
<1>2. Dependents(p) = {}
  BY <1>1, UnreferencedFree
<1>3. m[p].deps \subseteq DOMAIN m \ {p}
  BY <1>1, <1>2 DEF IndexInv, DepsIndexed, Dependents
<1>4. m \in [DOMAIN m -> Entry]
  BY DEF IndexInv, TypeOK
<1>5. m' = Deleted(m, p)
  BY <1>1, <1>3, <1>4, DeleteEffect
<1>6. \A q \in DOMAIN m \ {p} :
        /\ m'[q] = [refCount |-> m'[q].refCount, deps |-> m'[q].deps]
        /\ m'[q].deps = m[q].deps
        /\ m'[q].refCount = m[q].refCount + (IF q \in m[p].deps THEN -1 ELSE 0)
  BY <1>5 DEF Deleted, Counted
<1>7. DOMAIN m' = DOMAIN m \ {p} /\ m' = [q \in DOMAIN m' |-> m'[q]]
  BY <1>5 DEF Deleted
<1> QED
  BY <1>1, <1>2, <1>6, <1>7

(* Removing a package keeps the invariant: each of its dependencies loses  *)
(* exactly one dependent, and the rest of the graph only gets smaller.     *)
LEMMA RemoveUnreferencedInv ==
  ASSUME IndexInv, NEW g \in Goroutine, RemoveUnreferenced(g)
  PROVE  IndexInv'
<1>0. TypeOK /\ IsFiniteSet(DOMAIN m) /\ RefCountsExact /\ DepsIndexed /\ NoCycles
  BY DEF IndexInv
<1>1. PICK p : p = call[g].pkg
  OBVIOUS
<1>2. /\ p \in DOMAIN m
      /\ Dependents(p) = {}
      /\ DOMAIN m' = DOMAIN m \ {p}
      /\ m' = [q \in DOMAIN m' |-> [refCount |-> m'[q].refCount, deps |-> m'[q].deps]]
      /\ \A q \in DOMAIN m \ {p} :
           /\ m'[q].deps = m[q].deps
           /\ m'[q].refCount = m[q].refCount + (IF q \in m[p].deps THEN -1 ELSE 0)
  BY <1>1, RemoveStep
<1>3. IsFiniteSet(DOMAIN m)'
  BY <1>0, <1>2, FS_RemoveElement
<1>4. DepsIndexed'
  BY <1>0, <1>2 DEF DepsIndexed, Dependents
<1>5. ASSUME NEW q \in DOMAIN m \ {p}
      PROVE  Dependents(q)' = Dependents(q) \ {p}
  BY <1>2 DEF Dependents
<1>6. RefCountsExact'
  <2> SUFFICES ASSUME NEW q \in DOMAIN m \ {p}
               PROVE  m'[q].refCount = Cardinality(Dependents(q)')
    BY <1>2 DEF RefCountsExact
  <2>1. IsFiniteSet(Dependents(q))
    BY <1>0, FS_Subset DEF Dependents
  <2>2. Cardinality(Dependents(q)) \in Nat
    BY <2>1, FS_CardinalityType
  <2>3. Cardinality(Dependents(q) \ {p})
          = IF p \in Dependents(q) THEN Cardinality(Dependents(q)) - 1
                                   ELSE Cardinality(Dependents(q))
    BY <2>1, FS_RemoveElement
  <2>4. p \in Dependents(q) <=> q \in m[p].deps
    BY <1>2 DEF Dependents
  <2>5. m[q].refCount = Cardinality(Dependents(q))
    BY <1>0 DEF RefCountsExact
  <2>6. CASE q \in m[p].deps
    BY <1>2, <1>5, <2>2, <2>3, <2>4, <2>5, <2>6
  <2>7. CASE q \notin m[p].deps
    <3>1. Dependents(q)' = Dependents(q)
      BY <1>5, <2>4, <2>7
    <3>2. m'[q].refCount = m[q].refCount + 0
      BY <1>2, <2>7
    <3> QED
      BY <2>2, <2>5, <3>1, <3>2
  <2> QED
    BY <2>6, <2>7
<1>7. TypeOK'
  <2>1. call' \in [Goroutine -> Call]
    BY <1>0, AnswerType DEF RemoveUnreferenced
  <2>2. DOMAIN m' \subseteq Package
    BY <1>0, <1>2 DEF TypeOK
  <2>3. ASSUME NEW q \in DOMAIN m'
        PROVE  m'[q].refCount \in Nat /\ m'[q].deps \in SUBSET Package
    <3>1. IsFiniteSet(Dependents(q)')
      BY <1>3, FS_Subset DEF Dependents
    <3>2. m'[q].refCount \in Nat
      BY <1>6, <3>1, FS_CardinalityType DEF RefCountsExact
    <3>3. m[q] \in Entry /\ m'[q].deps = m[q].deps
      BY <1>0, <1>2 DEF TypeOK
    <3> QED
      BY <3>2, <3>3 DEF Entry
  <2>4. m' \in [DOMAIN m' -> Entry]
    BY <1>2, <2>3 DEF Entry
  <2> QED
    BY <2>1, <2>2, <2>4 DEF TypeOK
<1>8. NoCycles'
  <2> SUFFICES ASSUME NEW S \in SUBSET DOMAIN m', S # {}
               PROVE  \E q \in S : Dependents(q)' \cap S = {}
    BY DEF NoCycles
  <2>1. S \in (SUBSET DOMAIN m) \ {{}}
    BY <1>2
  <2>2. PICK q \in S : Dependents(q) \cap S = {}
    BY <1>0, <2>1 DEF NoCycles
  <2> QED
    BY <1>2, <1>5, <2>2
<1> QED
  BY <1>3, <1>4, <1>6, <1>7, <1>8 DEF IndexInv

-----------------------------------------------------------------------------

LEMMA NextInv == IndexInv /\ [Next]_vars => IndexInv'
<1> SUFFICES ASSUME IndexInv, [Next]_vars PROVE IndexInv'
  OBVIOUS
<1>1. TypeOK
  BY DEF IndexInv
<1>2. ASSUME NEW g \in Goroutine, Invoke(g) \/ Return(g), UNCHANGED m
      PROVE  IndexInv'
  BY <1>1, <1>2, InvokeReturnType, UnchangedMapInv
<1>3. ASSUME NEW g \in Goroutine, Execute(g)
      PROVE  IndexInv'
  <2>1. CASE IndexPresent(g)
    BY <1>1, <2>1, AnswerType, UnchangedMapInv DEF IndexPresent
  <2>2. CASE IndexMissing(g)
    BY <1>1, <2>2, AnswerType, UnchangedMapInv DEF IndexMissing
  <2>3. CASE IndexNew(g)
    BY <2>3, IndexNewInv
  <2>4. CASE RemoveAbsent(g)
    BY <1>1, <2>4, AnswerType, UnchangedMapInv DEF RemoveAbsent
  <2>5. CASE RemoveReferenced(g)
    BY <1>1, <2>5, AnswerType, UnchangedMapInv DEF RemoveReferenced
  <2>6. CASE RemoveUnreferenced(g)
    BY <2>6, RemoveUnreferencedInv
  <2>7. CASE Query(g)
    <3>1. CASE call[g].pkg \in DOMAIN m
      BY <1>1, <2>7, <3>1, AnswerType, UnchangedMapInv DEF Query
    <3>2. CASE call[g].pkg \notin DOMAIN m
      BY <1>1, <2>7, <3>2, AnswerType, UnchangedMapInv DEF Query
    <3> QED
      BY <3>1, <3>2
  <2> QED
    BY <1>3, <2>1, <2>2, <2>3, <2>4, <2>5, <2>6, <2>7 DEF Execute
<1>4. CASE UNCHANGED vars
  BY <1>1, <1>4, UnchangedMapInv DEF vars, TypeOK
<1> QED
  BY <1>2, <1>3, <1>4 DEF Next

(* Every call keeps the index consistent, however the calls of any number  *)
(* of goroutines follow one another.                                       *)
THEOREM Consistent == Spec => []IndexInv
<1>1. Init => IndexInv
  BY InitInv
<1>2. IndexInv /\ [Next]_vars => IndexInv'
  BY NextInv
<1> QED
  BY <1>1, <1>2, PTL DEF Spec

(* index.go keeps i.m a map from names to entries.                         *)
THEOREM TypeCorrect == Spec => []TypeOK
BY Consistent, PTL DEF IndexInv

(* index.go:57-61 and 78-82 count every dependency exactly once.           *)
THEOREM RefCountsAlwaysExact == Spec => []RefCountsExact
BY Consistent, PTL DEF IndexInv

(* index.go:52-56 and 74-76 never let a dependency be missing.             *)
THEOREM DepsAlwaysIndexed == Spec => []DepsIndexed
BY Consistent, PTL DEF IndexInv

(* A package is indexed after everything it depends on, so a cycle never   *)
(* forms and some package can always be removed.                           *)
THEOREM NeverCyclic == Spec => []NoCycles
BY Consistent, PTL DEF IndexInv

-----------------------------------------------------------------------------

LEMMA NextKeepsDeps == IndexInv /\ [Next]_vars => KeepsDeps \/ UNCHANGED vars
<1> SUFFICES ASSUME IndexInv, Next PROVE KeepsDeps
  BY DEF vars
<1>1. CASE UNCHANGED m
  BY <1>1 DEF KeepsDeps
<1>2. ASSUME NEW g \in Goroutine, IndexNew(g) PROVE KeepsDeps
  <2>1. m \in [DOMAIN m -> Entry] /\ Missing(call[g].deps) = {}
    BY <1>2 DEF IndexInv, TypeOK, IndexNew
  <2>2. m' = Inserted(m, call[g].pkg, call[g].deps)
    BY <1>2, <2>1, InsertEffect DEF IndexNew, Missing
  <2> QED
    BY <1>2, <2>2 DEF IndexNew, Inserted, Counted, KeepsDeps
<1>3. ASSUME NEW g \in Goroutine, RemoveUnreferenced(g) PROVE KeepsDeps
  BY <1>3, RemoveStep DEF KeepsDeps
<1> QED
  BY <1>1, <1>2, <1>3
     DEF Next, Execute, IndexPresent, IndexMissing, RemoveAbsent, RemoveReferenced, Query

(* index.go:45-47 returns before it looks at the dependencies given again. *)
THEOREM DepsNeverChange == Spec => DepsFixed
<1>1. IndexInv /\ [Next]_vars => [KeepsDeps]_vars
  BY NextKeepsDeps
<1> QED
  BY <1>1, Consistent, PTL DEF Spec, DepsFixed

-----------------------------------------------------------------------------
(* The refinement: graph is m without its counts.                          *)

Graph == [p \in DOMAIN m |-> m[p].deps]

LEMMA GraphInit == Init => G!Init
BY DEF Init, G!Init, Idle, G!Idle

(* The dependents that DependencyGraph looks for are those of the map.     *)
LEMMA SameDependents == ASSUME NEW p PROVE G!Dependents(p) = Dependents(p)
BY DEF G!Dependents, G!Indexed, Dependents

LEMMA GraphIndex ==
  ASSUME IndexInv, NEW g \in Goroutine, IndexPresent(g) \/ IndexMissing(g) \/ IndexNew(g)
  PROVE  G!Index(g)
<1> USE DEF Awaiting, G!Awaiting, Busy, G!Busy, Idle, G!Idle, Answer, G!Answer, G!Indexed
<1>1. CASE IndexPresent(g)
  BY <1>1 DEF IndexPresent, G!Index
<1>2. CASE IndexMissing(g)
  BY <1>2 DEF IndexMissing, Missing, G!Index
<1>3. CASE IndexNew(g)
  <2> DEFINE p == call[g].pkg
             D == call[g].deps
  <2>1. /\ p \notin DOMAIN m /\ D \subseteq DOMAIN m
        /\ m \in [DOMAIN m -> Entry]
        /\ m' = Insert(m, p, D)
    BY <1>3 DEF IndexNew, Missing, IndexInv, TypeOK
  <2>2. m' = Inserted(m, p, D)
    BY <2>1, InsertEffect
  <2>3. Graph' = [q \in DOMAIN Graph \cup {p} |-> IF q = p THEN D ELSE Graph[q]]
    BY <2>1, <2>2 DEF Graph, Inserted, Counted
  <2> QED
    BY <1>3, <2>1, <2>3 DEF IndexNew, G!Index, Graph
<1> QED
  BY <1>1, <1>2, <1>3

LEMMA GraphRemove ==
  ASSUME IndexInv, NEW g \in Goroutine,
         RemoveAbsent(g) \/ RemoveReferenced(g) \/ RemoveUnreferenced(g)
  PROVE  G!Remove(g)
<1> USE DEF Awaiting, G!Awaiting, Busy, G!Busy, Idle, G!Idle, Answer, G!Answer, G!Indexed
<1>1. CASE RemoveAbsent(g)
  <2>1. DOMAIN m \ {call[g].pkg} = DOMAIN m
    BY <1>1 DEF RemoveAbsent
  <2> QED
    BY <1>1, <2>1 DEF RemoveAbsent, G!Remove
<1>2. CASE RemoveReferenced(g)
  <2>1. Dependents(call[g].pkg) # {}
    BY <1>2, UnreferencedFree DEF RemoveReferenced
  <2> QED
    BY <1>2, <2>1, SameDependents DEF RemoveReferenced, G!Remove
<1>3. CASE RemoveUnreferenced(g)
  <2> DEFINE p == call[g].pkg
  <2>1. /\ p \in DOMAIN m
        /\ Dependents(p) = {}
        /\ DOMAIN m' = DOMAIN m \ {p}
        /\ \A q \in DOMAIN m \ {p} : m'[q].deps = m[q].deps
    BY <1>3, RemoveStep
  <2>2. Graph' = [q \in DOMAIN Graph \ {p} |-> Graph[q]]
    BY <2>1 DEF Graph
  <2> QED
    BY <1>3, <2>1, <2>2, SameDependents DEF RemoveUnreferenced, G!Remove, Graph
<1> QED
  BY <1>1, <1>2, <1>3

LEMMA GraphQuery == ASSUME NEW g \in Goroutine, Query(g) PROVE G!Query(g)
BY DEF Query, G!Query, Awaiting, G!Awaiting, Busy, G!Busy, Idle, G!Idle, Answer, G!Answer,
       G!Indexed

LEMMA GraphNext == IndexInv /\ [Next]_vars => [G!Next]_G!gvars
<1> SUFFICES ASSUME IndexInv, [Next]_vars PROVE [G!Next]_G!gvars
  OBVIOUS
<1>1. ASSUME NEW g \in Goroutine, Invoke(g) \/ Return(g), UNCHANGED m
      PROVE  G!Next
  BY <1>1 DEF Invoke, G!Invoke, Return, G!Return, Busy, G!Busy, Idle, G!Idle,
              CallOf, G!CallOf, G!Next
<1>2. ASSUME NEW g \in Goroutine, Execute(g) PROVE G!Next
  <2>1. CASE Query(g)
    BY <2>1, GraphQuery DEF G!Next
  <2>2. CASE ~Query(g)
    BY <1>2, <2>2, GraphIndex, GraphRemove DEF Execute, G!Next
  <2> QED
    BY <2>1, <2>2
<1>3. CASE UNCHANGED vars
  BY <1>3 DEF vars, G!gvars
<1> QED
  BY <1>1, <1>2, <1>3 DEF Next

(* index.go answers every call as the promise says, counting references    *)
(* where the promise looks for dependents.                                 *)
THEOREM IndexImplementsGraph == Spec => ImplementsGraph
BY GraphInit, GraphNext, Consistent, PTL DEF Spec, ImplementsGraph, G!Spec

=============================================================================
