-------------------------- MODULE LinearizableProofs --------------------------
(***************************************************************************)
(* Theorems about IndexLocked, for every set of packages and goroutines:   *)
(* what the lock keeps apart, and that the methods, with their lock and    *)
(* their loops, are linearizable, that is, that IndexLocked implements     *)
(* Index.                                                                  *)
(***************************************************************************)
EXTENDS IndexLocked, TLAPS

\* Where a goroutine holds the lock: inside reaches the map, drain does not yet.
Inside  == {"body", "check", "incr", "insert", "decr", "unlock"}
Holding == Inside \cup {"drain"}

\* What goroutine g's place in a method says of its call and of the lock.
PlaceInv(g) ==
  /\ pc[g] # "idle" => Busy(g)
  /\ pc[g] \in {"drain", "check", "incr", "insert", "decr"} => Exclusive(g)
  /\ pc[g] = "wait" => ~Exclusive(g)
  /\ g \in writer <=> Exclusive(g) /\ pc[g] \in Holding
  /\ g \in readers <=> ~Exclusive(g) /\ pc[g] \in Holding
  /\ g \in writer /\ pc[g] # "drain" => readers = {}

LockInv == /\ pc \in [Goroutine -> PC]
           /\ call \in [Goroutine -> Call]
           /\ writer \subseteq Goroutine
           /\ readers \subseteq Goroutine
           /\ \A g, h \in writer : g = h
           /\ \A g \in Goroutine : PlaceInv(g)

\* Every goroutine has the call it had, answered or not.
SameCalls == /\ call' \in [Goroutine -> Call]
             /\ \A g \in Goroutine : Busy(g)' = Busy(g) /\ Exclusive(g)' = Exclusive(g)

-----------------------------------------------------------------------------

LEMMA AnswerSameCalls ==
  ASSUME LockInv, NEW g \in Goroutine, Busy(g),
         NEW ok \in {"true", "false"}, Answer(g, ok)
  PROVE  SameCalls
<1>1. call \in [Goroutine -> Call] /\ call[g] \in Call /\ call[g] # Idle
  BY DEF LockInv, Busy
<1>2. PICK r \in Request, k \in {"pending", "true", "false"} : call[g] = CallOf(r, k)
  BY <1>1 DEF Call
<1>3. [call[g] EXCEPT !.ok = ok] = CallOf(r, ok)
  BY <1>2 DEF CallOf
<1>4. call' = [call EXCEPT ![g] = CallOf(r, ok)]
  BY <1>1, <1>3 DEF Answer
<1>5. CallOf(r, ok) \in Call
  BY DEF Call
<1>6. CallOf(r, ok).op = call[g].op /\ CallOf(r, ok) # Idle
  <2>1. CallOf(r, ok).op = r.op /\ call[g].op = r.op
    BY <1>2 DEF CallOf
  <2>2. r.op # "none" /\ Idle.op = "none"
    BY DEF Request, Idle
  <2> QED
    BY <2>1, <2>2
<1>7. call' \in [Goroutine -> Call]
  BY <1>1, <1>4, <1>5
<1>8. ASSUME NEW h \in Goroutine
      PROVE  Busy(h)' = Busy(h) /\ Exclusive(h)' = Exclusive(h)
  <2>1. CASE h = g
    BY <1>1, <1>4, <1>6, <2>1 DEF Busy, Exclusive
  <2>2. CASE h # g
    BY <1>1, <1>4, <2>2 DEF Busy, Exclusive
  <2> QED
    BY <2>1, <2>2
<1> QED
  BY <1>7, <1>8 DEF SameCalls

LEMMA UnchangedSameCalls ==
  ASSUME LockInv, UNCHANGED call
  PROVE  SameCalls
BY DEF LockInv, SameCalls, Busy, Exclusive

LEMMA InitLockInv == LInit => LockInv
<1> SUFFICES ASSUME LInit PROVE LockInv
  OBVIOUS
<1>1. /\ pc = [g \in Goroutine |-> "idle"]
      /\ call = [g \in Goroutine |-> Idle]
      /\ writer = {} /\ readers = {}
  BY DEF LInit, Init
<1>2. Idle \in Call
  BY DEF Call
<1> QED
  BY <1>1, <1>2 DEF LockInv, PlaceInv, PC, Holding, Inside

(* A step inside a method that keeps the lock.                             *)
LEMMA InsideLockInv ==
  ASSUME LockInv, SameCalls, NEW g \in Goroutine, pc[g] \in Inside,
         NEW l \in Inside, Goto(g, l) \/ UNCHANGED pc,
         l \in {"check", "incr", "insert", "decr"} => Exclusive(g),
         UNCHANGED <<writer, readers>>
  PROVE  LockInv'
<1>1. pc' \in [Goroutine -> PC]
  BY DEF LockInv, Goto, Inside, PC
<1>2. \A h \in Goroutine : h # g => pc'[h] = pc[h]
  BY DEF LockInv, Goto
<1>3. pc'[g] = l \/ pc'[g] = pc[g]
  BY DEF LockInv, Goto
<1>4. ASSUME NEW h \in Goroutine PROVE PlaceInv(h)'
  <2>1. CASE h = g
    BY <1>3, <2>1 DEF LockInv, PlaceInv, SameCalls, Inside, Holding
  <2>2. CASE h # g
    BY <1>2, <2>2 DEF LockInv, PlaceInv, SameCalls
  <2> QED
    BY <2>1, <2>2
<1> QED
  BY <1>1, <1>4 DEF LockInv, SameCalls

(* The statements of Index, Remove and Query.                              *)
LEMMA MethodLockInv ==
  ASSUME LockInv, NEW g \in Goroutine,
         \/ IndexStart(g) \/ CheckDep(g) \/ IncrDep(g) \/ InsertEntry(g)
         \/ RemoveStart(g) \/ DecrDep(g) \/ QueryBody(g)
  PROVE  LockInv'
<1>1. pc[g] \in Inside /\ UNCHANGED <<writer, readers>>
  BY DEF IndexStart, CheckDep, IncrDep, InsertEntry, RemoveStart, DecrDep, QueryBody,
         InMethod, At, Inside
<1>2. Busy(g)
  BY <1>1 DEF LockInv, PlaceInv, Inside
<1>3. SameCalls
  <2>1. UNCHANGED call \/ \E ok \in {"true", "false"} : Answer(g, ok)
    BY DEF IndexStart, CheckDep, IncrDep, InsertEntry, RemoveStart, DecrDep, QueryBody, Query
  <2> QED
    BY <1>2, <2>1, AnswerSameCalls, UnchangedSameCalls
<1>4. Exclusive(g) \/ QueryBody(g)
  BY <1>1 DEF IndexStart, CheckDep, IncrDep, InsertEntry, RemoveStart, DecrDep,
              InMethod, Awaiting, At, Exclusive, LockInv, PlaceInv
<1>5. CASE QueryBody(g)
  BY <1>1, <1>3, <1>5, InsideLockInv DEF QueryBody, Inside
<1>6. CASE Exclusive(g)
  <2>1. UNCHANGED pc \/ \E l \in Inside : Goto(g, l)
    BY DEF IndexStart, CheckDep, IncrDep, InsertEntry, RemoveStart, DecrDep, QueryBody, Inside
  <2>2. "body" \in Inside
    BY DEF Inside
  <2> QED
    BY <1>1, <1>3, <1>6, <2>1, <2>2, InsideLockInv
<1> QED
  BY <1>4, <1>5, <1>6

-----------------------------------------------------------------------------
(* The calls, and the lock.                                                *)

LEMMA InvokeLockInv ==
  ASSUME LockInv, NEW g \in Goroutine, LInvoke(g)
  PROVE  LockInv'
<1>1. PICK r \in Calls : call' = [call EXCEPT ![g] = CallOf(r, "pending")]
  BY DEF LInvoke, Invoke
<1>2. CallOf(r, "pending") \in Call /\ CallOf(r, "pending") # Idle
  <2>1. r \in Request
    BY CallsAssumption
  <2>2. CallOf(r, "pending").op # "none" /\ Idle.op = "none"
    BY <2>1 DEF CallOf, Request, Idle
  <2> QED
    BY <2>1, <2>2 DEF Call
<1>3. ~Busy(g) /\ pc' = [pc EXCEPT ![g] = "lock"] /\ UNCHANGED <<writer, readers>>
  BY DEF LInvoke, Invoke, Goto
<1>4. g \notin writer /\ g \notin readers
  BY <1>3 DEF LockInv, PlaceInv, Holding, Inside
<1>5. ASSUME NEW h \in Goroutine PROVE PlaceInv(h)'
  <2>1. CASE h = g
    BY <1>1, <1>2, <1>3, <1>4, <2>1 DEF LockInv, PlaceInv, Busy, Exclusive, Holding, Inside
  <2>2. CASE h # g
    BY <1>1, <1>3, <2>2 DEF LockInv, PlaceInv, Busy, Exclusive
  <2> QED
    BY <2>1, <2>2
<1> QED
  BY <1>1, <1>2, <1>3, <1>5 DEF LockInv, PC

LEMMA ReturnLockInv ==
  ASSUME LockInv, NEW g \in Goroutine, LReturn(g)
  PROVE  LockInv'
<1>1. /\ pc[g] = "idle" /\ UNCHANGED <<pc, writer, readers>>
      /\ call' = [call EXCEPT ![g] = Idle]
  BY DEF LReturn, Return, At
<1>2. Idle \in Call
  BY DEF Call
<1>3. ASSUME NEW h \in Goroutine PROVE PlaceInv(h)'
  <2>1. CASE h = g
    BY <1>1, <2>1 DEF LockInv, PlaceInv, Holding, Inside
  <2>2. CASE h # g
    BY <1>1, <2>2 DEF LockInv, PlaceInv, Busy, Exclusive
  <2> QED
    BY <2>1, <2>2
<1> QED
  BY <1>1, <1>2, <1>3 DEF LockInv

LEMMA AcquireLockInv ==
  ASSUME LockInv, NEW g \in Goroutine, Lock(g) \/ Drained(g) \/ RLock(g)
  PROVE  LockInv'
<1>1. SameCalls
  BY UnchangedSameCalls DEF Lock, Drained, RLock
<1>2. CASE Lock(g)
  <2>1. /\ pc[g] = "lock" /\ Exclusive(g) /\ writer = {}
        /\ writer' = {g} /\ UNCHANGED readers
        /\ pc' = [pc EXCEPT ![g] = "drain"]
    BY <1>2 DEF Lock, At, Goto
  <2>2. ASSUME NEW h \in Goroutine PROVE PlaceInv(h)'
    BY <1>1, <2>1 DEF LockInv, PlaceInv, SameCalls, Holding, Inside
  <2> QED
    BY <1>1, <2>1, <2>2 DEF LockInv, SameCalls, PC
<1>3. CASE Drained(g)
  <2>1. /\ pc[g] = "drain" /\ readers = {}
        /\ UNCHANGED <<writer, readers>>
        /\ pc' = [pc EXCEPT ![g] = "body"]
    BY <1>3 DEF Drained, At, Goto
  <2>2. ASSUME NEW h \in Goroutine PROVE PlaceInv(h)'
    BY <1>1, <2>1 DEF LockInv, PlaceInv, SameCalls, Holding, Inside
  <2> QED
    BY <1>1, <2>1, <2>2 DEF LockInv, SameCalls, PC
<1>4. CASE RLock(g) /\ writer = {}
  <2>1. /\ pc[g] = "lock" /\ ~Exclusive(g)
        /\ UNCHANGED writer /\ readers' = readers \cup {g}
        /\ pc' = [pc EXCEPT ![g] = "body"]
    BY <1>4 DEF RLock, At, Goto
  <2>2. ASSUME NEW h \in Goroutine PROVE PlaceInv(h)'
    BY <1>1, <1>4, <2>1 DEF LockInv, PlaceInv, SameCalls, Holding, Inside
  <2> QED
    BY <1>1, <2>1, <2>2 DEF LockInv, SameCalls, PC
<1>5. CASE RLock(g) /\ writer # {}
  <2>1. /\ pc[g] = "lock" /\ ~Exclusive(g)
        /\ UNCHANGED <<writer, readers>>
        /\ pc' = [pc EXCEPT ![g] = "wait"]
    BY <1>5 DEF RLock, At, Goto
  <2>2. ASSUME NEW h \in Goroutine PROVE PlaceInv(h)'
    BY <1>1, <2>1 DEF LockInv, PlaceInv, SameCalls, Holding, Inside
  <2> QED
    BY <1>1, <2>1, <2>2 DEF LockInv, SameCalls, PC
<1> QED
  BY <1>2, <1>3, <1>4, <1>5

LEMMA ReleaseLockInv ==
  ASSUME LockInv, NEW g \in Goroutine, Unlock(g) \/ RUnlock(g)
  PROVE  LockInv'
<1>1. SameCalls
  BY UnchangedSameCalls DEF Unlock, RUnlock
<1>2. CASE Unlock(g)
  <2> DEFINE waiting == {h \in Goroutine : At(h, "wait")}
  <2>1. /\ pc[g] = "unlock" /\ g \in writer
        /\ writer' = {} /\ readers' = readers \cup waiting
        /\ pc' = [h \in Goroutine |-> IF h \in waiting THEN "body"
                                      ELSE IF h = g THEN "idle" ELSE pc[h]]
    BY <1>2 DEF Unlock, At
  <2>2. writer = {g} /\ readers = {}
    BY <2>1 DEF LockInv, PlaceInv
  <2>3. ASSUME NEW h \in Goroutine PROVE PlaceInv(h)'
    <3>1. CASE h \in waiting
      BY <1>1, <2>1, <2>2, <3>1 DEF LockInv, PlaceInv, SameCalls, Holding, Inside, At
    <3>2. CASE h = g
      BY <1>1, <2>1, <2>2, <3>2 DEF LockInv, PlaceInv, SameCalls, Holding, Inside, At
    <3>3. CASE h # g /\ h \notin waiting
      BY <1>1, <2>1, <2>2, <3>3 DEF LockInv, PlaceInv, SameCalls, Holding, Inside, At
    <3> QED
      BY <3>1, <3>2, <3>3
  <2>4. pc' \in [Goroutine -> PC]
    BY <2>1 DEF LockInv, PC
  <2> QED
    BY <1>1, <2>1, <2>2, <2>3, <2>4 DEF LockInv, SameCalls
<1>3. CASE RUnlock(g)
  <2>1. /\ pc[g] = "unlock" /\ g \in readers
        /\ UNCHANGED writer /\ readers' = readers \ {g}
        /\ pc' = [pc EXCEPT ![g] = "idle"]
    BY <1>3 DEF RUnlock, At, Goto
  <2>2. ASSUME NEW h \in Goroutine PROVE PlaceInv(h)'
    BY <1>1, <2>1 DEF LockInv, PlaceInv, SameCalls, Holding, Inside
  <2> QED
    BY <1>1, <2>1, <2>2 DEF LockInv, SameCalls, PC
<1> QED
  BY <1>2, <1>3

LEMMA NextLockInv == LockInv /\ [LNext]_lvars => LockInv'
<1> SUFFICES ASSUME LockInv, [LNext]_lvars PROVE LockInv'
  OBVIOUS
<1>1. ASSUME NEW g \in Goroutine, LInvoke(g) PROVE LockInv'
  BY <1>1, InvokeLockInv
<1>2. ASSUME NEW g \in Goroutine, Step(g) PROVE LockInv'
  BY <1>2, AcquireLockInv, ReleaseLockInv, ReturnLockInv, MethodLockInv DEF Step
<1>3. CASE UNCHANGED lvars
  BY <1>3 DEF lvars, LockInv, PlaceInv, Busy, Exclusive
<1> QED
  BY <1>1, <1>2, <1>3 DEF LNext

(* While a goroutine is inside Index or Remove, no other is inside any     *)
(* method of the index: Go never finds two of them in the map.             *)
THEOREM MapNeverRaced == LSpec => []NoMapRace
<1>1. LockInv => NoMapRace
  BY DEF LockInv, PlaceInv, NoMapRace, Accessing, Holding, Inside
<1>2. LSpec => []LockInv
  BY InitLockInv, NextLockInv, PTL DEF LSpec
<1> QED
  BY <1>1, <1>2, PTL

-----------------------------------------------------------------------------
(* IndexLocked implements Index. *)

\* The map of a method that is half done: counts may be anything.
Counted == [refCount: Int, deps: SUBSET Package]

\* A map from names to entries.
IsMap(f) == DOMAIN f \subseteq Package /\ f \in [DOMAIN f -> Counted]

-----------------------------------------------------------------------------
(* Incrementing and decrementing one dependency at a time.                 *)

LEMMA LookupCounted ==
  ASSUME NEW f, IsMap(f), NEW q
  PROVE  Lookup(f, q) \in Counted
<1>1. Zero \in Counted
  BY DEF Zero, Counted
<1> QED
  BY <1>1 DEF Lookup, IsMap

LEMMA BumpAt ==
  ASSUME NEW f, IsMap(f), NEW D \in SUBSET Package, NEW n \in Int
  PROVE  /\ DOMAIN Bump(f, D, n) = DOMAIN f \cup D
         /\ IsMap(Bump(f, D, n))
         /\ \A q \in D : Bump(f, D, n)[q] = [refCount |-> Lookup(f, q).refCount + n,
                                             deps     |-> Lookup(f, q).deps]
         /\ \A q \in DOMAIN f \ D : Bump(f, D, n)[q] = f[q]
<1>1. ASSUME NEW q
      PROVE  /\ [Lookup(f, q) EXCEPT !.refCount = @ + n]
                  = [refCount |-> Lookup(f, q).refCount + n, deps |-> Lookup(f, q).deps]
             /\ [Lookup(f, q) EXCEPT !.refCount = @ + n] \in Counted
  BY LookupCounted DEF Counted
<1>2. ASSUME NEW q \in DOMAIN f PROVE f[q] \in Counted
  BY DEF IsMap
<1>3. \A q \in DOMAIN f \cup D : Bump(f, D, n)[q] \in Counted
  BY <1>1, <1>2 DEF Bump
<1>4. DOMAIN Bump(f, D, n) = DOMAIN f \cup D
  BY DEF Bump
<1>5. Bump(f, D, n) \in [DOMAIN f \cup D -> Counted]
  BY <1>1, <1>2 DEF Bump
<1>6. IsMap(Bump(f, D, n))
  BY <1>4, <1>5 DEF IsMap
<1> QED
  BY <1>1, <1>4, <1>6 DEF Bump

LEMMA BumpNone ==
  ASSUME NEW f, IsMap(f), NEW n \in Int
  PROVE  Bump(f, {}, n) = f
<1>1. Bump(f, {}, n) = [q \in DOMAIN f |-> f[q]]
  BY DEF Bump
<1> QED
  BY <1>1 DEF IsMap

LEMMA SameMap ==
  ASSUME NEW f, IsMap(f), NEW h, IsMap(h), DOMAIN f = DOMAIN h,
         \A q \in DOMAIN f : f[q] = h[q]
  PROVE  f = h
BY DEF IsMap

(* The count that Index adds for d is one of those not settled yet.        *)
LEMMA BumpOneMore ==
  ASSUME NEW f, IsMap(f), NEW D \in SUBSET Package, NEW d \in DOMAIN f \ D
  PROVE  Bump(Bump(f, {d}, 1), D \cup {d}, -1) = Bump(f, D, -1)
<1> DEFINE h == Bump(f, {d}, 1)
           E == D \cup {d}
           a == Bump(h, E, -1)
           b == Bump(f, D, -1)
<1>1. d \in Package /\ {d} \in SUBSET Package /\ E \in SUBSET Package /\ -1 \in Int /\ 1 \in Int
  BY DEF IsMap
<1>2. /\ DOMAIN h = DOMAIN f \cup {d} /\ IsMap(h)
      /\ h[d] = [refCount |-> Lookup(f, d).refCount + 1, deps |-> Lookup(f, d).deps]
      /\ \A q \in DOMAIN f \ {d} : h[q] = f[q]
  BY <1>1, BumpAt
<1> HIDE DEF h, E
<1>3. /\ DOMAIN a = DOMAIN h \cup E /\ IsMap(a)
      /\ \A q \in E : a[q] = [refCount |-> Lookup(h, q).refCount + -1, deps |-> Lookup(h, q).deps]
      /\ \A q \in DOMAIN h \ E : a[q] = h[q]
  <2>1. IsMap(h) /\ E \in SUBSET Package /\ -1 \in Int
    BY <1>1, <1>2
  <2> QED
    BY <2>1, BumpAt
<1>4. /\ DOMAIN b = DOMAIN f \cup D /\ IsMap(b)
      /\ \A q \in D : b[q] = [refCount |-> Lookup(f, q).refCount + -1, deps |-> Lookup(f, q).deps]
      /\ \A q \in DOMAIN f \ D : b[q] = f[q]
  BY <1>1, BumpAt
<1> HIDE DEF a, b
<1>5. DOMAIN a = DOMAIN b
  BY <1>2, <1>3, <1>4 DEF E
<1>6. ASSUME NEW q \in DOMAIN a PROVE a[q] = b[q]
  <2>1. CASE q = d
    <3>1. f[d] \in Counted /\ Lookup(f, d) = f[d] /\ Lookup(h, d) = h[d]
      BY <1>2 DEF IsMap, Lookup
    <3>2. h[d].refCount = f[d].refCount + 1 /\ h[d].deps = f[d].deps
      BY <1>2, <3>1
    <3>3. (f[d].refCount + 1) + -1 = f[d].refCount
      BY <3>1 DEF Counted
    <3>4. a[d] = [refCount |-> f[d].refCount, deps |-> f[d].deps]
      <4>1. d \in E
        BY DEF E
      <4>2. a[d] = [refCount |-> h[d].refCount + -1, deps |-> h[d].deps]
        BY <1>3, <3>1, <4>1
      <4> QED
        BY <3>2, <3>3, <4>2
    <3>5. f[d] = [refCount |-> f[d].refCount, deps |-> f[d].deps]
      BY <3>1 DEF Counted
    <3> QED
      BY <1>4, <2>1, <3>4, <3>5
  <2>2. CASE q \in D
    <3>1. Lookup(h, q) = Lookup(f, q)
      BY <1>2, <2>2 DEF Lookup
    <3> QED
      BY <1>3, <1>4, <2>2, <3>1 DEF E
  <2>3. CASE q # d /\ q \notin D
    BY <1>2, <1>3, <1>4, <1>5, <2>3 DEF E
  <2> QED
    BY <2>1, <2>2, <2>3
<1>7. a = b
  BY <1>3, <1>4, <1>5, <1>6, SameMap
<1> QED
  BY <1>7 DEF a, b, h, E

(* The count that Remove takes off d was one of those not settled yet.     *)
LEMMA BumpOneLess ==
  ASSUME NEW f, IsMap(f), NEW D \in SUBSET Package, NEW d \in D
  PROVE  Bump(Bump(f, {d}, -1), D \ {d}, -1) = Bump(f, D, -1)
<1> DEFINE h == Bump(f, {d}, -1)
           E == D \ {d}
           a == Bump(h, E, -1)
           b == Bump(f, D, -1)
<1>1. {d} \in SUBSET Package /\ E \in SUBSET Package /\ -1 \in Int
  OBVIOUS
<1>2. /\ DOMAIN h = DOMAIN f \cup {d} /\ IsMap(h)
      /\ h[d] = [refCount |-> Lookup(f, d).refCount + -1, deps |-> Lookup(f, d).deps]
      /\ \A q \in DOMAIN f \ {d} : h[q] = f[q]
  BY <1>1, BumpAt
<1> HIDE DEF h, E
<1>3. /\ DOMAIN a = DOMAIN h \cup E /\ IsMap(a)
      /\ \A q \in E : a[q] = [refCount |-> Lookup(h, q).refCount + -1, deps |-> Lookup(h, q).deps]
      /\ \A q \in DOMAIN h \ E : a[q] = h[q]
  BY <1>1, <1>2, BumpAt
<1>4. /\ DOMAIN b = DOMAIN f \cup D /\ IsMap(b)
      /\ \A q \in D : b[q] = [refCount |-> Lookup(f, q).refCount + -1, deps |-> Lookup(f, q).deps]
      /\ \A q \in DOMAIN f \ D : b[q] = f[q]
  BY <1>1, BumpAt
<1> HIDE DEF a, b
<1>5. DOMAIN a = DOMAIN b
  BY <1>2, <1>3, <1>4 DEF E
<1>6. ASSUME NEW q \in DOMAIN a PROVE a[q] = b[q]
  <2>1. CASE q = d
    BY <1>2, <1>3, <1>4, <2>1 DEF E
  <2>2. CASE q \in E
    <3>1. Lookup(h, q) = Lookup(f, q)
      BY <1>2, <2>2 DEF Lookup, E
    <3> QED
      BY <1>3, <1>4, <2>2, <3>1 DEF E
  <2>3. CASE q # d /\ q \notin D
    BY <1>2, <1>3, <1>4, <1>5, <2>3 DEF E
  <2> QED
    BY <2>1, <2>2, <2>3 DEF E
<1>7. a = b
  BY <1>3, <1>4, <1>5, <1>6, SameMap
<1> QED
  BY <1>7 DEF a, b, h, E

(* Taking off what was added.                                              *)
LEMMA BumpBack ==
  ASSUME NEW f, IsMap(f), NEW D \in SUBSET DOMAIN f
  PROVE  Bump(Bump(f, D, -1), D, 1) = f
<1> DEFINE h == Bump(f, D, -1)
           a == Bump(h, D, 1)
<1>1. D \in SUBSET Package /\ -1 \in Int /\ 1 \in Int
  BY DEF IsMap
<1>2. /\ DOMAIN h = DOMAIN f \cup D /\ IsMap(h)
      /\ \A q \in D : h[q] = [refCount |-> Lookup(f, q).refCount + -1, deps |-> Lookup(f, q).deps]
      /\ \A q \in DOMAIN f \ D : h[q] = f[q]
  BY <1>1, BumpAt
<1> HIDE DEF h
<1>3. /\ DOMAIN a = DOMAIN h \cup D /\ IsMap(a)
      /\ \A q \in D : a[q] = [refCount |-> Lookup(h, q).refCount + 1, deps |-> Lookup(h, q).deps]
      /\ \A q \in DOMAIN h \ D : a[q] = h[q]
  BY <1>1, <1>2, BumpAt
<1> HIDE DEF a
<1>4. ASSUME NEW q \in DOMAIN a PROVE a[q] = f[q]
  <2>1. CASE q \in D
    <3>1. f[q] \in Counted /\ Lookup(f, q) = f[q] /\ Lookup(h, q) = h[q]
      BY <1>2, <2>1 DEF IsMap, Lookup
    <3>2. h[q].refCount = f[q].refCount + -1 /\ h[q].deps = f[q].deps
      BY <1>2, <2>1, <3>1
    <3>3. (f[q].refCount + -1) + 1 = f[q].refCount
      BY <3>1 DEF Counted
    <3>4. f[q] = [refCount |-> f[q].refCount, deps |-> f[q].deps]
      BY <3>1 DEF Counted
    <3> QED
      BY <1>3, <2>1, <3>1, <3>2, <3>3, <3>4
  <2>2. CASE q \notin D
    BY <1>2, <1>3, <2>2
  <2> QED
    BY <2>1, <2>2
<1>5. DOMAIN a = DOMAIN f
  BY <1>2, <1>3
<1>6. a = f
  BY <1>3, <1>4, <1>5, SameMap
<1> QED
  BY <1>6 DEF a, h

-----------------------------------------------------------------------------
(* What holds inside the methods.                                          *)

\* What a goroutine inside Index or Remove knows of the map: no other changes
\* it until it has let go of the lock.
KnowsInv(g) ==
  /\ pc[g] \in {"check", "incr", "insert"} =>
       /\ Awaiting(g, "Index")
       /\ call[g].pkg \notin DOMAIN m
       /\ todo[g] \subseteq call[g].deps
  /\ pc[g] = "check" => call[g].deps \ todo[g] \subseteq DOMAIN m
  /\ pc[g] = "incr" => call[g].deps \subseteq DOMAIN m
  /\ pc[g] = "insert" => call[g].deps \subseteq DOMAIN m /\ todo[g] = {}
  /\ pc[g] = "decr" => Awaiting(g, "Remove")

MapInv == /\ IsMap(m)
          /\ todo \in [Goroutine -> SUBSET Package]
          /\ \A g \in Goroutine : KnowsInv(g)

\* A step of goroutine g alone.
OnlyOf(g) == \A h \in Goroutine \ {g} : pc'[h] = pc[h] /\ call'[h] = call[h] /\ todo'[h] = todo[h]

LEMMA CallShape ==
  ASSUME LockInv, NEW g \in Goroutine, Busy(g)
  PROVE  /\ call[g] = [op |-> call[g].op, pkg |-> call[g].pkg, deps |-> call[g].deps, ok |-> call[g].ok]
         /\ call[g].op # "none"
         /\ call[g].pkg \in Package
         /\ call[g].deps \in SUBSET Package
<1>1. call[g] \in Call /\ call[g] # Idle
  BY DEF LockInv, Busy
<1>2. PICK r \in Request, ok \in {"pending", "true", "false"} : call[g] = CallOf(r, ok)
  BY <1>1 DEF Call
<1>3. r.pkg \in Package /\ r.deps \in SUBSET Package /\ r.op # "none"
  BY DEF Request
<1> QED
  BY <1>2, <1>3 DEF CallOf

LEMMA AnswerShape ==
  ASSUME LockInv, NEW g \in Goroutine, Busy(g), NEW ok, Answer(g, ok)
  PROVE  /\ call' = [call EXCEPT ![g] = [op |-> call[g].op, pkg |-> call[g].pkg,
                                        deps |-> call[g].deps, ok |-> ok]]
         /\ call'[g] = [op |-> call[g].op, pkg |-> call[g].pkg, deps |-> call[g].deps, ok |-> ok]
         /\ \A h \in Goroutine \ {g} : call'[h] = call[h]
<1>1. [call[g] EXCEPT !.ok = ok]
        = [op |-> call[g].op, pkg |-> call[g].pkg, deps |-> call[g].deps, ok |-> ok]
  <2>1. PICK r \in Request, k \in {"pending", "true", "false"} : call[g] = CallOf(r, k)
    BY DEF LockInv, Busy, Call
  <2>2. [call[g] EXCEPT !.ok = ok] = CallOf(r, ok)
    BY <2>1 DEF CallOf
  <2> QED
    BY <2>1, <2>2 DEF CallOf
<1>2. call \in [Goroutine -> Call]
  BY DEF LockInv
<1>3. call' = [call EXCEPT ![g] = [op |-> call[g].op, pkg |-> call[g].pkg,
                                 deps |-> call[g].deps, ok |-> ok]]
  BY <1>1 DEF Answer
<1> QED
  BY <1>2, <1>3

(* The others' knowledge survives a step of g: if it changes the map, they *)
(* are not inside Index or Remove.                                         *)
LEMMA OthersMapInv ==
  ASSUME LockInv, MapInv, NEW g \in Goroutine, OnlyOf(g),
         m' = m \/ (Accessing(g) /\ Exclusive(g) /\ IsMap(m')),
         todo' \in [Goroutine -> SUBSET Package], KnowsInv(g)'
  PROVE  MapInv'
<1>1. ASSUME NEW h \in Goroutine \ {g} PROVE KnowsInv(h)'
  <2>1. pc'[h] = pc[h] /\ call'[h] = call[h] /\ todo'[h] = todo[h] /\ KnowsInv(h)
    BY DEF OnlyOf, MapInv
  <2>2. CASE UNCHANGED m
    BY <2>1, <2>2 DEF KnowsInv, Awaiting, Busy
  <2>3. CASE Accessing(g) /\ Exclusive(g)
    <3>1. ~Accessing(h)
      BY <2>3 DEF LockInv, PlaceInv, Accessing, Holding, Inside
    <3> QED
      BY <2>1, <3>1 DEF KnowsInv, Accessing
  <2> QED
    BY <2>2, <2>3
<1>2. IsMap(m)'
  BY DEF MapInv, IsMap
<1> QED
  BY <1>1, <1>2 DEF MapInv

LEMMA InitMapInv == LInit => MapInv
<1> SUFFICES ASSUME LInit PROVE MapInv
  OBVIOUS
<1>1. m = [p \in {} |-> Zero]
  BY DEF LInit, Init
<1>2. IsMap(m)
  BY <1>1 DEF IsMap
<1>3. \A g \in Goroutine : KnowsInv(g)
  BY DEF LInit, KnowsInv
<1> QED
  BY <1>2, <1>3 DEF LInit, MapInv

(* The steps that leave the map and the loops alone.                       *)
LEMMA OutsideMapInv ==
  ASSUME LockInv, MapInv, NEW g \in Goroutine,
         \/ LInvoke(g) \/ Lock(g) \/ Drained(g) \/ RLock(g)
         \/ Unlock(g) \/ RUnlock(g) \/ LReturn(g)
  PROVE  MapInv'
<1>1. UNCHANGED <<m, todo>>
  BY DEF LInvoke, Lock, Drained, RLock, Unlock, RUnlock, LReturn
<1>2. ASSUME NEW h \in Goroutine
      PROVE  \/ pc'[h] = pc[h] /\ call'[h] = call[h]
             \/ pc'[h] \in {"idle", "lock", "drain", "wait", "body"}
  BY DEF LInvoke, Invoke, Lock, Drained, RLock, Unlock, RUnlock, LReturn, Return, Goto, At, LockInv
<1>3. ASSUME NEW h \in Goroutine PROVE KnowsInv(h)'
  BY <1>1, <1>2 DEF MapInv, KnowsInv, Awaiting, Busy
<1> QED
  BY <1>1, <1>3 DEF MapInv

(* The steps inside the methods.                                           *)
LEMMA InsideMapInv ==
  ASSUME LockInv, MapInv, NEW g \in Goroutine,
         \/ IndexStart(g) \/ CheckDep(g) \/ IncrDep(g) \/ InsertEntry(g)
         \/ RemoveStart(g) \/ DecrDep(g) \/ QueryBody(g)
  PROVE  MapInv'
<1>1. Busy(g) /\ Accessing(g)
  BY DEF IndexStart, CheckDep, IncrDep, InsertEntry, RemoveStart, DecrDep, QueryBody,
         InMethod, At, Accessing, LockInv, PlaceInv
<1>2. /\ IsMap(m) /\ KnowsInv(g)
      /\ todo \in [Goroutine -> SUBSET Package]
      /\ pc \in [Goroutine -> PC] /\ call \in [Goroutine -> Call]
  BY DEF LockInv, MapInv
<1>3. call[g].pkg \in Package /\ call[g].deps \in SUBSET Package
  BY <1>1, CallShape
<1>4. ASSUME NEW ok, Answer(g, ok) PROVE \A h \in Goroutine \ {g} : call'[h] = call[h]
  BY <1>1, <1>4, AnswerShape
<1>5. CASE IndexStart(g)
  <2>1. UNCHANGED m /\ todo' \in [Goroutine -> SUBSET Package] /\ OnlyOf(g)
    BY <1>2, <1>3, <1>4, <1>5 DEF IndexStart, OnlyOf, Goto
  <2>2. KnowsInv(g)'
    BY <1>2, <1>5, <2>1 DEF IndexStart, InMethod, Goto, KnowsInv, Awaiting, Busy
  <2> QED
    BY <1>2, <2>1, <2>2, OthersMapInv
<1>6. CASE CheckDep(g)
  <2>1. UNCHANGED m /\ todo' \in [Goroutine -> SUBSET Package] /\ OnlyOf(g)
    BY <1>2, <1>3, <1>4, <1>6 DEF CheckDep, OnlyOf, Goto
  <2>2. KnowsInv(g)'
    BY <1>2, <1>6, <2>1 DEF CheckDep, At, Goto, KnowsInv, Awaiting, Busy
  <2> QED
    BY <1>2, <2>1, <2>2, OthersMapInv
<1>7. CASE IncrDep(g)
  <2>1. pc[g] = "incr" /\ UNCHANGED call
    BY <1>7 DEF IncrDep, At
  <2>2. /\ todo' \in [Goroutine -> SUBSET Package] /\ OnlyOf(g)
        /\ todo'[g] \subseteq todo[g]
    BY <1>2, <1>7 DEF IncrDep, OnlyOf, Goto
  <2>3. IsMap(m') /\ DOMAIN m' = DOMAIN m
    <3>1. ASSUME NEW d \in todo[g], m' = Bump(m, {d}, 1) PROVE IsMap(m') /\ DOMAIN m' = DOMAIN m
      <4>1. d \in DOMAIN m /\ {d} \in SUBSET Package /\ 1 \in Int
        BY <1>2, <2>1 DEF KnowsInv
      <4>2. DOMAIN Bump(m, {d}, 1) = DOMAIN m \cup {d} /\ IsMap(Bump(m, {d}, 1))
        BY <1>2, <4>1, BumpAt
      <4> QED
        BY <3>1, <4>1, <4>2
    <3>2. CASE UNCHANGED m
      BY <1>2, <3>2
    <3> QED
      BY <1>7, <3>1, <3>2 DEF IncrDep
  <2>4. KnowsInv(g)'
    <3>1. CASE UNCHANGED pc
      BY <1>2, <2>1, <2>2, <2>3, <3>1 DEF KnowsInv, Awaiting, Busy
    <3>2. CASE todo[g] = {} /\ UNCHANGED todo /\ Goto(g, "insert")
      BY <1>2, <2>1, <2>2, <2>3, <3>2 DEF KnowsInv, Awaiting, Busy, Goto
    <3> QED
      BY <1>7, <3>1, <3>2 DEF IncrDep
  <2>5. Exclusive(g)
    BY <2>1 DEF LockInv, PlaceInv
  <2> QED
    BY <1>1, <2>2, <2>3, <2>4, <2>5, OthersMapInv
<1>8. CASE InsertEntry(g)
  <2>1. pc[g] = "insert" /\ Answer(g, "true") /\ Goto(g, "unlock") /\ UNCHANGED todo
    BY <1>8 DEF InsertEntry, At
  <2>2. OnlyOf(g)
    BY <1>2, <1>4, <2>1 DEF OnlyOf, Goto
  <2>3. IsMap(m')
    <3>1. [refCount |-> 0, deps |-> call[g].deps] \in Counted
      BY <1>3 DEF Counted
    <3> QED
      BY <1>2, <1>3, <1>8, <3>1 DEF InsertEntry, Put, IsMap
  <2>4. KnowsInv(g)'
    BY <1>2, <2>1 DEF KnowsInv, Goto
  <2>5. Exclusive(g)
    BY <2>1 DEF LockInv, PlaceInv
  <2> QED
    BY <1>1, <1>2, <2>1, <2>2, <2>3, <2>4, <2>5, OthersMapInv
<1>9. CASE RemoveStart(g)
  <2>1. Awaiting(g, "Remove") /\ Exclusive(g)
    BY <1>9 DEF RemoveStart, InMethod, Awaiting, Exclusive
  <2>2. CASE Answer(g, "true") /\ Goto(g, "unlock") /\ UNCHANGED <<m, todo>>
    <3>1. OnlyOf(g) /\ KnowsInv(g)'
      BY <1>2, <1>4, <2>2 DEF OnlyOf, Goto, KnowsInv
    <3> QED
      BY <1>2, <2>2, <3>1, OthersMapInv
  <2>3. CASE Answer(g, "false") /\ Goto(g, "unlock") /\ UNCHANGED <<m, todo>>
    <3>1. OnlyOf(g) /\ KnowsInv(g)'
      BY <1>2, <1>4, <2>3 DEF OnlyOf, Goto, KnowsInv
    <3> QED
      BY <1>2, <2>3, <3>1, OthersMapInv
  <2>4. ASSUME /\ call[g].pkg \in DOMAIN m
               /\ m' = Drop(m, call[g].pkg)
               /\ todo' = [todo EXCEPT ![g] = m[call[g].pkg].deps]
               /\ Goto(g, "decr")
               /\ UNCHANGED call
        PROVE  MapInv'
    <3>1. m[call[g].pkg].deps \in SUBSET Package
      BY <1>2, <2>4 DEF IsMap, Counted
    <3>2. OnlyOf(g) /\ todo' \in [Goroutine -> SUBSET Package]
      BY <1>2, <2>4, <3>1 DEF OnlyOf, Goto
    <3>3. IsMap(m')
      BY <1>2, <2>4 DEF Drop, IsMap
    <3>4. KnowsInv(g)'
      BY <1>2, <2>1, <2>4 DEF KnowsInv, Goto, Awaiting, Busy
    <3> QED
      BY <1>1, <2>1, <3>2, <3>3, <3>4, OthersMapInv
  <2> QED
    BY <1>9, <2>2, <2>3, <2>4 DEF RemoveStart
<1>10. CASE DecrDep(g)
  <2>1. pc[g] = "decr" /\ Exclusive(g)
    BY <1>10 DEF DecrDep, At, LockInv, PlaceInv
  <2>2. CASE Answer(g, "true") /\ Goto(g, "unlock") /\ UNCHANGED <<m, todo>>
    <3>1. OnlyOf(g) /\ KnowsInv(g)'
      BY <1>2, <1>4, <2>2 DEF OnlyOf, Goto, KnowsInv
    <3> QED
      BY <1>2, <2>2, <3>1, OthersMapInv
  <2>3. ASSUME NEW d \in todo[g], m' = Bump(m, {d}, -1),
               todo' = [todo EXCEPT ![g] = @ \ {d}], UNCHANGED <<call, pc>>
        PROVE  MapInv'
    <3>1. OnlyOf(g) /\ todo' \in [Goroutine -> SUBSET Package]
      BY <1>2, <2>3 DEF OnlyOf
    <3>2. IsMap(m')
      <4>1. {d} \in SUBSET Package /\ -1 \in Int
        BY <1>2
      <4> QED
        BY <1>2, <2>3, <4>1, BumpAt
    <3>3. KnowsInv(g)'
      BY <1>2, <2>1, <2>3 DEF KnowsInv, Awaiting, Busy
    <3> QED
      BY <1>1, <2>1, <3>1, <3>2, <3>3, OthersMapInv
  <2> QED
    BY <1>10, <2>2, <2>3 DEF DecrDep
<1>11. CASE QueryBody(g)
  <2>1. Goto(g, "unlock") /\ UNCHANGED <<m, todo>>
    BY <1>11 DEF QueryBody, Query
  <2>2. \A h \in Goroutine \ {g} : call'[h] = call[h]
    BY <1>4, <1>11 DEF QueryBody, Query
  <2>3. OnlyOf(g) /\ KnowsInv(g)'
    BY <1>2, <2>1, <2>2 DEF OnlyOf, Goto, KnowsInv
  <2> QED
    BY <1>2, <2>1, <2>3, OthersMapInv
<1> QED
  BY <1>5, <1>6, <1>7, <1>8, <1>9, <1>10, <1>11

LEMMA NextMapInv == LockInv /\ MapInv /\ [LNext]_lvars => MapInv'
<1> SUFFICES ASSUME LockInv, MapInv, [LNext]_lvars PROVE MapInv'
  OBVIOUS
<1>1. ASSUME NEW g \in Goroutine, LInvoke(g) \/ Step(g) PROVE MapInv'
  BY <1>1, OutsideMapInv, InsideMapInv DEF Step
<1>2. CASE UNCHANGED lvars
  BY <1>2 DEF lvars, MapInv, KnowsInv, Awaiting, Busy
<1> QED
  BY <1>1, <1>2 DEF LNext

-----------------------------------------------------------------------------
(* The refinement mapping: the map without what is not settled, and the    *)
(* calls with Remove answered as soon as it has deleted its entry.         *)

AllUnsettled == UNION {Unsettled(g) : g \in Goroutine}

AbsMap == Bump(m, AllUnsettled, -1)

AbsCall == [g \in Goroutine |->
              IF pc[g] = "decr" THEN [call[g] EXCEPT !.ok = "true"] ELSE call[g]]

(* While g is inside a method, no other has left anything unsettled.       *)
LEMMA UnsettledAlone ==
  ASSUME LockInv, NEW g \in Goroutine, Accessing(g), OnlyOf(g)
  PROVE  AllUnsettled = Unsettled(g) /\ AllUnsettled' = Unsettled(g)'
<1>1. ASSUME NEW h \in Goroutine \ {g} PROVE Unsettled(h) = {} /\ Unsettled(h)' = {}
  <2>1. pc[h] \notin {"incr", "insert", "decr"}
    BY DEF LockInv, PlaceInv, Accessing, Holding, Inside
  <2>2. pc'[h] = pc[h]
    BY DEF OnlyOf
  <2> QED
    BY <2>1, <2>2 DEF Unsettled
<1>2. AllUnsettled = Unsettled(g)
  BY <1>1 DEF AllUnsettled
<1>3. AllUnsettled' = Unsettled(g)'
  BY <1>1 DEF AllUnsettled
<1> QED
  BY <1>2, <1>3

(* The others' calls are as they were.                                     *)
LEMMA AbsCallAlone ==
  ASSUME NEW g \in Goroutine, OnlyOf(g)
  PROVE  AbsCall' = [AbsCall EXCEPT ![g] = AbsCall'[g]]
<1>1. ASSUME NEW h \in Goroutine \ {g} PROVE AbsCall'[h] = AbsCall[h]
  BY DEF AbsCall, OnlyOf
<1>2. DOMAIN AbsCall = Goroutine /\ AbsCall' = [h \in Goroutine |-> AbsCall'[h]]
  BY DEF AbsCall
<1> QED
  BY <1>1, <1>2

LEMMA AbsAnswer ==
  ASSUME NEW g \in Goroutine, OnlyOf(g), pc[g] # "decr", NEW ok,
         AbsCall'[g] = [call[g] EXCEPT !.ok = ok]
  PROVE  I!Answer(g, ok)
<1>1. AbsCall[g] = call[g]
  BY DEF AbsCall
<1>2. AbsCall' = [AbsCall EXCEPT ![g].ok = ok]
  BY <1>1, AbsCallAlone
<1> QED
  BY <1>2 DEF I!Answer, AbsCall

(* An answer inside a method is an answer of Index.                        *)
LEMMA MethodAnswer ==
  ASSUME LockInv, NEW g \in Goroutine, OnlyOf(g), Busy(g), pc[g] # "decr",
         NEW ok, Answer(g, ok), Goto(g, "unlock")
  PROVE  I!Answer(g, ok)
<1>1. pc'[g] = "unlock" /\ call'[g] = [call[g] EXCEPT !.ok = ok]
  BY DEF LockInv, Goto, Answer
<1>2. AbsCall'[g] = [call[g] EXCEPT !.ok = ok]
  BY <1>1 DEF AbsCall
<1> QED
  BY <1>2, AbsAnswer

LEMMA AbsAwaiting ==
  ASSUME NEW g \in Goroutine, pc[g] # "decr", NEW op, Awaiting(g, op)
  PROVE  /\ I!Awaiting(g, op)
         /\ AbsCall[g] = call[g]
BY DEF Awaiting, I!Awaiting, Busy, I!Busy, Idle, I!Idle, AbsCall

LEMMA SameInsert ==
  ASSUME NEW f, NEW p, NEW D
  PROVE  I!Insert(f, p, D) = Insert(f, p, D)
BY DEF I!Insert, Insert, I!Put, Put, I!Bump, Bump, I!Lookup, Lookup, I!Zero, Zero

LEMMA SameDelete ==
  ASSUME NEW f, NEW p
  PROVE  I!Delete(f, p) = Delete(f, p)
BY DEF I!Delete, Delete, I!Drop, Drop, I!Bump, Bump, I!Lookup, Lookup, I!Zero, Zero

(* Outside the loops the map is what it seems.                             *)
LEMMA AbsMapSettled ==
  ASSUME LockInv, MapInv, NEW g \in Goroutine, OnlyOf(g), pc[g] \in {"body", "check"}
  PROVE  AbsMap = m
<1>1. AllUnsettled = {}
  BY UnsettledAlone DEF Unsettled, Accessing
<1>2. IsMap(m) /\ -1 \in Int
  BY DEF MapInv
<1> QED
  BY <1>1, <1>2, BumpNone DEF AbsMap

LEMMA AbsMapSettledAfter ==
  ASSUME LockInv, MapInv', NEW g \in Goroutine, OnlyOf(g), Accessing(g),
         pc'[g] \notin {"incr", "insert", "decr"}
  PROVE  AbsMap' = m'
<1>1. AllUnsettled' = {}
  BY UnsettledAlone DEF Unsettled
<1>2. IsMap(m') /\ -1 \in Int
  BY DEF MapInv
<1>3. Bump(m', {}, -1) = m'
  BY <1>2, BumpNone
<1> QED
  BY <1>1, <1>3 DEF AbsMap

-----------------------------------------------------------------------------
(* Each statement is a step of Index, or changes nothing of it.            *)

\* The step of Index that is made, if any.
AbsStep == I!Next \/ (AbsMap' = AbsMap /\ AbsCall' = AbsCall)

LEMMA ExecuteStep ==
  ASSUME NEW g \in Goroutine, I!Execute(g)
  PROVE  AbsStep
BY DEF AbsStep, I!Next

(* A goroutine inside a method has a call, and the others do nothing.      *)
LEMMA InsideAlone ==
  ASSUME LockInv, MapInv, NEW g \in Goroutine,
         \/ IndexStart(g) \/ CheckDep(g) \/ IncrDep(g) \/ InsertEntry(g)
         \/ RemoveStart(g) \/ DecrDep(g) \/ QueryBody(g)
  PROVE  Busy(g) /\ Accessing(g) /\ OnlyOf(g)
<1>1. Busy(g) /\ Accessing(g)
  BY DEF IndexStart, CheckDep, IncrDep, InsertEntry, RemoveStart, DecrDep, QueryBody,
         InMethod, At, Accessing, LockInv, PlaceInv
<1>2. pc \in [Goroutine -> PC] /\ call \in [Goroutine -> Call]
  BY DEF LockInv
<1>3. \A h \in Goroutine \ {g} : pc'[h] = pc[h]
  BY <1>2 DEF IndexStart, CheckDep, IncrDep, InsertEntry, RemoveStart, DecrDep, QueryBody, Goto
<1>4. \A h \in Goroutine \ {g} : call'[h] = call[h]
  BY <1>2 DEF IndexStart, CheckDep, IncrDep, InsertEntry, RemoveStart, DecrDep, QueryBody,
              Query, Answer
<1>5. \A h \in Goroutine \ {g} : todo'[h] = todo[h]
  BY DEF MapInv, IndexStart, CheckDep, IncrDep, InsertEntry, RemoveStart, DecrDep, QueryBody
<1> QED
  BY <1>1, <1>3, <1>4, <1>5 DEF OnlyOf

LEMMA AbsIndexStart ==
  ASSUME LockInv, MapInv, MapInv', NEW g \in Goroutine, IndexStart(g)
  PROVE  AbsStep
<1>1. OnlyOf(g) /\ Busy(g) /\ Accessing(g) /\ pc[g] = "body" /\ Awaiting(g, "Index")
  BY InsideAlone DEF IndexStart, InMethod, At
<1>2. AbsMap = m /\ m' = m /\ I!Awaiting(g, "Index") /\ AbsCall[g] = call[g]
  BY <1>1, AbsMapSettled, AbsAwaiting DEF IndexStart
<1>3. pc \in [Goroutine -> PC]
  BY DEF LockInv
<1>4. CASE call[g].pkg \in DOMAIN m
  <2>1. Answer(g, "true") /\ Goto(g, "unlock")
    BY <1>4 DEF IndexStart
  <2>2. AbsMap' = m'
    BY <1>1, <1>3, <2>1, AbsMapSettledAfter DEF Goto
  <2>3. I!Answer(g, "true")
    BY <1>1, <2>1, MethodAnswer
  <2>4. I!IndexPresent(g)
    BY <1>2, <1>4, <2>2, <2>3 DEF I!IndexPresent, AbsMap, AllUnsettled, AbsCall
  <2> QED
    BY <2>4, ExecuteStep DEF I!Execute
<1>5. CASE call[g].pkg \notin DOMAIN m
  <2>1. Goto(g, "check") /\ UNCHANGED call
    BY <1>5 DEF IndexStart
  <2>2. AbsMap' = m'
    BY <1>1, <1>3, <2>1, AbsMapSettledAfter DEF Goto
  <2>3. AbsCall' = AbsCall
    BY <1>1, <1>3, <2>1 DEF AbsCall, Goto
  <2> QED
    BY <1>2, <2>2, <2>3 DEF AbsStep
<1> QED
  BY <1>4, <1>5

LEMMA AbsCheckDep ==
  ASSUME LockInv, MapInv, MapInv', NEW g \in Goroutine, CheckDep(g)
  PROVE  AbsStep
<1>1. OnlyOf(g) /\ Busy(g) /\ Accessing(g) /\ pc[g] = "check" /\ m' = m
  BY InsideAlone DEF CheckDep, At
<1>2. Awaiting(g, "Index") /\ call[g].pkg \notin DOMAIN m /\ todo[g] \subseteq call[g].deps
  BY <1>1 DEF MapInv, KnowsInv
<1>3. AbsMap = m /\ I!Awaiting(g, "Index") /\ AbsCall[g] = call[g]
  BY <1>1, <1>2, AbsMapSettled, AbsAwaiting
<1>4. pc \in [Goroutine -> PC] /\ todo \in [Goroutine -> SUBSET Package]
  BY DEF LockInv, MapInv
<1>5. CASE UNCHANGED <<call, pc>>
  <2>1. AbsMap' = m'
    BY <1>1, <1>5, AbsMapSettledAfter
  <2>2. AbsCall' = AbsCall
    BY <1>5 DEF AbsCall
  <2> QED
    BY <1>1, <1>3, <2>1, <2>2 DEF AbsStep
<1>6. CASE todo' = [todo EXCEPT ![g] = call[g].deps] /\ Goto(g, "incr") /\ UNCHANGED call
  <2>1. pc'[g] = "incr" /\ todo'[g] = call[g].deps
    BY <1>4, <1>6 DEF Goto
  <2>2. Unsettled(g)' = {}
    BY <1>6, <2>1 DEF Unsettled
  <2>3. AllUnsettled' = {} /\ AllUnsettled = {}
    BY <1>1, <2>2, UnsettledAlone DEF Unsettled
  <2>4. AbsMap' = AbsMap
    BY <1>1, <2>3 DEF AbsMap
  <2>5. AbsCall' = AbsCall
    BY <1>1, <1>4, <1>6 DEF AbsCall, Goto
  <2> QED
    BY <2>4, <2>5 DEF AbsStep
<1>7. ASSUME NEW d \in todo[g], d \notin DOMAIN m, Answer(g, "false"), Goto(g, "unlock")
      PROVE  AbsStep
  <2>1. AbsMap' = m'
    BY <1>1, <1>4, <1>7, AbsMapSettledAfter DEF Goto
  <2>2. I!Answer(g, "false")
    BY <1>1, <1>7, MethodAnswer
  <2>3. call[g].deps \ DOMAIN m # {}
    BY <1>2, <1>7
  <2>4. I!IndexMissing(g)
    BY <1>1, <1>2, <1>3, <2>1, <2>2, <2>3
    DEF I!IndexMissing, I!Missing, AbsMap, AllUnsettled, AbsCall
  <2> QED
    BY <2>4, ExecuteStep DEF I!Execute
<1> QED
  BY <1>5, <1>6, <1>7 DEF CheckDep

LEMMA AbsIncrDep ==
  ASSUME LockInv, MapInv, MapInv', NEW g \in Goroutine, IncrDep(g)
  PROVE  AbsStep
<1>1. /\ OnlyOf(g) /\ Accessing(g) /\ pc[g] = "incr" /\ call' = call
      /\ call[g].deps \in SUBSET Package
  BY InsideAlone, CallShape DEF IncrDep, At
<1>2. todo[g] \subseteq call[g].deps /\ call[g].deps \subseteq DOMAIN m
  BY <1>1 DEF MapInv, KnowsInv
<1>3. /\ pc \in [Goroutine -> PC] /\ todo \in [Goroutine -> SUBSET Package]
      /\ IsMap(m)
  BY DEF LockInv, MapInv
<1>4. AllUnsettled = call[g].deps \ todo[g]
  BY <1>1, UnsettledAlone DEF Unsettled
<1>5. ASSUME NEW d \in todo[g], m' = Bump(m, {d}, 1),
             todo' = [todo EXCEPT ![g] = @ \ {d}], UNCHANGED pc
      PROVE  AbsStep
  <2>1. todo'[g] = todo[g] \ {d}
    BY <1>3, <1>5
  <2>2. AllUnsettled' = AllUnsettled \cup {d}
    <3>1. Unsettled(g)' = call[g].deps \ (todo[g] \ {d})
      BY <1>1, <1>5, <2>1 DEF Unsettled
    <3> QED
      BY <1>1, <1>2, <1>4, <3>1, UnsettledAlone
  <2>3. d \in DOMAIN m \ AllUnsettled /\ AllUnsettled \in SUBSET Package
    BY <1>1, <1>2, <1>4
  <2>4. Bump(Bump(m, {d}, 1), AllUnsettled \cup {d}, -1) = Bump(m, AllUnsettled, -1)
    <3> DEFINE D == AllUnsettled
    <3>1. IsMap(m) /\ D \in SUBSET Package /\ d \in DOMAIN m \ D
      BY <1>3, <2>3
    <3> HIDE DEF D
    <3>2. Bump(Bump(m, {d}, 1), D \cup {d}, -1) = Bump(m, D, -1)
      BY <3>1, BumpOneMore
    <3> QED
      BY <3>2 DEF D
  <2>5. AbsMap' = AbsMap
    BY <1>5, <2>2, <2>4 DEF AbsMap
  <2>6. AbsCall' = AbsCall
    BY <1>1, <1>5 DEF AbsCall
  <2> QED
    BY <2>5, <2>6 DEF AbsStep
<1>6. CASE todo[g] = {} /\ Goto(g, "insert") /\ UNCHANGED <<m, todo>>
  <2>1. pc'[g] = "insert"
    BY <1>3, <1>6 DEF Goto
  <2>2. Unsettled(g)' = call[g].deps \ todo[g]
    BY <1>1, <1>6, <2>1 DEF Unsettled
  <2>3. AllUnsettled' = AllUnsettled
    BY <1>1, <1>4, <2>2, UnsettledAlone
  <2>4. AbsMap' = AbsMap
    BY <1>6, <2>3 DEF AbsMap
  <2>5. AbsCall' = AbsCall
    BY <1>1, <1>3, <1>6 DEF AbsCall, Goto
  <2> QED
    BY <2>4, <2>5 DEF AbsStep
<1> QED
  BY <1>5, <1>6 DEF IncrDep

(* Index takes effect when it inserts its entry.                           *)
LEMMA AbsInsertEntry ==
  ASSUME LockInv, MapInv, MapInv', NEW g \in Goroutine, InsertEntry(g)
  PROVE  AbsStep
<1> DEFINE p == call[g].pkg
           D == call[g].deps
<1>1. OnlyOf(g) /\ Busy(g) /\ Accessing(g) /\ pc[g] = "insert"
  BY InsideAlone DEF InsertEntry, At
<1>2. Answer(g, "true") /\ Goto(g, "unlock") /\ m' = Put(m, p, [refCount |-> 0, deps |-> D])
  BY DEF InsertEntry
<1>3. Awaiting(g, "Index") /\ p \notin DOMAIN m /\ D \subseteq DOMAIN m /\ todo[g] = {}
  BY <1>1 DEF MapInv, KnowsInv
<1>4. IsMap(m) /\ D \in SUBSET Package /\ pc \in [Goroutine -> PC] /\ -1 \in Int
  BY <1>1, CallShape DEF MapInv, LockInv
<1>5. I!Awaiting(g, "Index") /\ AbsCall[g] = call[g]
  BY <1>1, <1>3, AbsAwaiting
<1>6. I!Answer(g, "true")
  BY <1>1, <1>2, MethodAnswer
<1>7. AbsMap' = m'
  BY <1>1, <1>2, <1>4, AbsMapSettledAfter DEF Goto
<1>8. AbsMap = Bump(m, D, -1)
  <2>1. AllUnsettled = D
    BY <1>1, <1>3, UnsettledAlone DEF Unsettled
  <2> QED
    BY <2>1 DEF AbsMap
<1> HIDE DEF p, D
<1>9. DOMAIN AbsMap = DOMAIN m
  <2>1. DOMAIN Bump(m, D, -1) = DOMAIN m \cup D
    BY <1>4, BumpAt
  <2> QED
    BY <1>3, <1>8, <2>1
<1>10. Bump(AbsMap, D, 1) = m
  <2>1. Bump(Bump(m, D, -1), D, 1) = m
    BY <1>3, <1>4, BumpBack
  <2> QED
    BY <1>8, <2>1
<1>11. AbsMap' = Insert(AbsMap, p, D)
  BY <1>2, <1>7, <1>10 DEF Insert
<1>12. AbsMap' = I!Insert(AbsMap, p, D)
  BY <1>11, SameInsert
<1>13. p \notin DOMAIN AbsMap /\ D \ DOMAIN AbsMap = {}
  BY <1>3, <1>9
<1>14. I!IndexNew(g)
  BY <1>5, <1>6, <1>12, <1>13 DEF I!IndexNew, I!Missing, AbsMap, AllUnsettled, AbsCall, p, D
<1> QED
  BY <1>14, ExecuteStep DEF I!Execute

(* Remove takes effect when it deletes its entry.                          *)
LEMMA AbsRemoveStart ==
  ASSUME LockInv, MapInv, MapInv', NEW g \in Goroutine, RemoveStart(g)
  PROVE  AbsStep
<1> DEFINE p == call[g].pkg
<1>1. OnlyOf(g) /\ Busy(g) /\ Accessing(g) /\ pc[g] = "body" /\ Awaiting(g, "Remove")
  BY InsideAlone DEF RemoveStart, InMethod, At
<1>2. AbsMap = m /\ I!Awaiting(g, "Remove") /\ AbsCall[g] = call[g]
  BY <1>1, AbsMapSettled, AbsAwaiting
<1>3. pc \in [Goroutine -> PC] /\ todo \in [Goroutine -> SUBSET Package] /\ IsMap(m)
  BY DEF LockInv, MapInv
<1>4. ASSUME NEW ok, Answer(g, ok), Goto(g, "unlock"), UNCHANGED m
      PROVE  I!Answer(g, ok) /\ AbsMap' = AbsMap
  <2>1. I!Answer(g, ok)
    BY <1>1, <1>4, MethodAnswer
  <2>2. AbsMap' = m'
    BY <1>1, <1>3, <1>4, AbsMapSettledAfter DEF Goto
  <2> QED
    BY <1>2, <1>4, <2>1, <2>2
<1>5. CASE p \notin DOMAIN m /\ Answer(g, "true") /\ Goto(g, "unlock") /\ UNCHANGED m
  <2>1. I!RemoveAbsent(g)
    BY <1>2, <1>4, <1>5 DEF I!RemoveAbsent, AbsMap, AllUnsettled, AbsCall
  <2> QED
    BY <2>1, ExecuteStep DEF I!Execute
<1>6. CASE /\ p \in DOMAIN m /\ Referenced(p)
           /\ Answer(g, "false") /\ Goto(g, "unlock") /\ UNCHANGED m
  <2>1. I!Referenced(p)
    BY <1>2, <1>6 DEF Referenced, I!Referenced, AbsMap, AllUnsettled
  <2>2. I!RemoveReferenced(g)
    BY <1>2, <1>4, <1>6, <2>1 DEF I!RemoveReferenced, AbsMap, AllUnsettled, AbsCall
  <2> QED
    BY <2>2, ExecuteStep DEF I!Execute
<1>7. CASE /\ p \in DOMAIN m /\ ~Referenced(p)
           /\ m' = Drop(m, p) /\ todo' = [todo EXCEPT ![g] = m[p].deps]
           /\ Goto(g, "decr") /\ UNCHANGED call
  <2>1. ~I!Referenced(p)
    BY <1>2, <1>7 DEF Referenced, I!Referenced, AbsMap, AllUnsettled
  <2>2. pc'[g] = "decr" /\ todo'[g] = m[p].deps
    BY <1>3, <1>7 DEF Goto
  <2>3. AllUnsettled' = m[p].deps
    BY <1>1, <2>2, UnsettledAlone DEF Unsettled
  <2>4. AbsMap' = Delete(m, p)
    BY <1>7, <2>3 DEF AbsMap, Delete
  <2>5. AbsMap' = I!Delete(AbsMap, p)
    BY <1>2, <2>4, SameDelete
  <2>6. I!Answer(g, "true")
    <3>1. AbsCall'[g] = [call[g] EXCEPT !.ok = "true"]
      BY <1>7, <2>2 DEF AbsCall
    <3> QED
      BY <1>1, <3>1, AbsAnswer
  <2>7. I!RemoveUnreferenced(g)
    BY <1>2, <1>7, <2>1, <2>5, <2>6 DEF I!RemoveUnreferenced, AbsMap, AllUnsettled, AbsCall
  <2> QED
    BY <2>7, ExecuteStep DEF I!Execute
<1> QED
  BY <1>5, <1>6, <1>7 DEF RemoveStart

LEMMA AbsDecrDep ==
  ASSUME LockInv, MapInv, MapInv', NEW g \in Goroutine, DecrDep(g)
  PROVE  AbsStep
<1>1. OnlyOf(g) /\ Busy(g) /\ Accessing(g) /\ pc[g] = "decr"
  BY InsideAlone DEF DecrDep, At
<1>2. /\ pc \in [Goroutine -> PC] /\ todo \in [Goroutine -> SUBSET Package]
      /\ call \in [Goroutine -> Call] /\ IsMap(m)
  BY DEF LockInv, MapInv
<1>3. AllUnsettled = todo[g]
  BY <1>1, UnsettledAlone DEF Unsettled
<1>4. ASSUME NEW d \in todo[g], m' = Bump(m, {d}, -1),
             todo' = [todo EXCEPT ![g] = @ \ {d}], UNCHANGED <<call, pc>>
      PROVE  AbsStep
  <2>1. todo'[g] = todo[g] \ {d}
    BY <1>2, <1>4
  <2>2. AllUnsettled' = todo[g] \ {d}
    BY <1>1, <1>4, <2>1, UnsettledAlone DEF Unsettled
  <2>3. Bump(Bump(m, {d}, -1), todo[g] \ {d}, -1) = Bump(m, todo[g], -1)
    <3> DEFINE D == todo[g]
    <3>1. IsMap(m) /\ D \in SUBSET Package /\ d \in D
      BY <1>2
    <3> HIDE DEF D
    <3>2. Bump(Bump(m, {d}, -1), D \ {d}, -1) = Bump(m, D, -1)
      BY <3>1, BumpOneLess
    <3> QED
      BY <3>2 DEF D
  <2>4. AbsMap' = AbsMap
    BY <1>3, <1>4, <2>2, <2>3 DEF AbsMap
  <2>5. AbsCall' = AbsCall
    BY <1>4 DEF AbsCall
  <2> QED
    BY <2>4, <2>5 DEF AbsStep
<1>5. CASE todo[g] = {} /\ Answer(g, "true") /\ Goto(g, "unlock") /\ UNCHANGED <<m, todo>>
  <2>1. pc'[g] = "unlock" /\ call'[g] = [call[g] EXCEPT !.ok = "true"]
    BY <1>2, <1>5 DEF Goto, Answer
  <2>2. AllUnsettled' = {}
    BY <1>1, <2>1, UnsettledAlone DEF Unsettled
  <2>3. AbsMap' = AbsMap
    BY <1>3, <1>5, <2>2 DEF AbsMap
  <2>4. AbsCall'[g] = AbsCall[g]
    BY <1>1, <2>1 DEF AbsCall
  <2>5. AbsCall' = AbsCall
    <3>1. AbsCall' = [AbsCall EXCEPT ![g] = AbsCall[g]]
      BY <1>1, <2>4, AbsCallAlone
    <3> QED
      BY <3>1 DEF AbsCall
  <2> QED
    BY <2>3, <2>5 DEF AbsStep
<1> QED
  BY <1>4, <1>5 DEF DecrDep

LEMMA AbsQueryBody ==
  ASSUME LockInv, MapInv, MapInv', NEW g \in Goroutine, QueryBody(g)
  PROVE  AbsStep
<1>1. /\ OnlyOf(g) /\ Busy(g) /\ Accessing(g) /\ pc[g] = "body"
      /\ Awaiting(g, "Query") /\ m' = m /\ Goto(g, "unlock")
  BY InsideAlone DEF QueryBody, Query, At
<1>2. AbsMap = m /\ I!Awaiting(g, "Query") /\ AbsCall[g] = call[g]
  BY <1>1, AbsMapSettled, AbsAwaiting
<1>3. AbsMap' = m'
  <2>1. pc \in [Goroutine -> PC]
    BY DEF LockInv
  <2> QED
    BY <1>1, <2>1, AbsMapSettledAfter DEF Goto
<1>4. CASE call[g].pkg \in DOMAIN m
  <2>1. Answer(g, "true")
    BY <1>4 DEF QueryBody, Query, Answer
  <2>2. I!Answer(g, "true")
    BY <1>1, <2>1, MethodAnswer
  <2>3. I!Query(g)
    BY <1>1, <1>2, <1>3, <1>4, <2>2 DEF I!Query, I!Answer, AbsMap, AllUnsettled, AbsCall
  <2> QED
    BY <2>3, ExecuteStep DEF I!Execute
<1>5. CASE call[g].pkg \notin DOMAIN m
  <2>1. Answer(g, "false")
    BY <1>5 DEF QueryBody, Query, Answer
  <2>2. I!Answer(g, "false")
    BY <1>1, <2>1, MethodAnswer
  <2>3. I!Query(g)
    BY <1>1, <1>2, <1>3, <1>5, <2>2 DEF I!Query, I!Answer, AbsMap, AllUnsettled, AbsCall
  <2> QED
    BY <2>3, ExecuteStep DEF I!Execute
<1> QED
  BY <1>4, <1>5

(* What only concerns the lock is no step of Index; calls and returns are. *)
LEMMA AbsOutside ==
  ASSUME LockInv, LockInv', MapInv, NEW g \in Goroutine,
         \/ LInvoke(g) \/ Lock(g) \/ Drained(g) \/ RLock(g)
         \/ Unlock(g) \/ RUnlock(g) \/ LReturn(g)
  PROVE  AbsStep
<1>1. UNCHANGED <<m, todo>> /\ pc \in [Goroutine -> PC] /\ call \in [Goroutine -> Call]
  BY DEF LInvoke, Lock, Drained, RLock, Unlock, RUnlock, LReturn, LockInv
<1>2. ASSUME NEW h \in Goroutine
      PROVE  \/ pc'[h] = pc[h] /\ call'[h] = call[h]
             \/ /\ pc[h] \notin {"incr", "insert", "decr"}
                /\ pc'[h] \notin {"incr", "insert", "decr"}
  <2>1. CASE LInvoke(g) \/ LReturn(g)
    BY <1>1, <2>1 DEF LInvoke, Invoke, LReturn, Return, Goto, At, LockInv, PlaceInv
  <2>2. CASE Lock(g) \/ Drained(g) \/ RLock(g) \/ RUnlock(g)
    BY <1>1, <2>2 DEF Lock, Drained, RLock, RUnlock, Goto, At
  <2>3. CASE Unlock(g)
    BY <1>1, <2>3 DEF Unlock, At
  <2> QED
    BY <2>1, <2>2, <2>3
<1>3. \A h \in Goroutine : Unsettled(h)' = Unsettled(h)
  BY <1>1, <1>2 DEF Unsettled
<1>4. AbsMap' = AbsMap
  BY <1>1, <1>3 DEF AbsMap, AllUnsettled
<1>5. CASE UNCHANGED call
  <2>1. \A h \in Goroutine : pc'[h] = "decr" <=> pc[h] = "decr"
    BY <1>2
  <2>2. AbsCall' = AbsCall
    BY <1>5, <2>1 DEF AbsCall
  <2> QED
    BY <1>4, <2>2 DEF AbsStep
<1>6. CASE LInvoke(g)
  <2>1. PICK r \in Calls : call' = [call EXCEPT ![g] = CallOf(r, "pending")]
    BY <1>6 DEF LInvoke, Invoke
  <2>2. call[g] = Idle /\ pc[g] = "idle" /\ pc' = [pc EXCEPT ![g] = "lock"]
    BY <1>1, <1>6 DEF LInvoke, Invoke, Goto, Busy, LockInv, PlaceInv
  <2>3. AbsCall[g] = Idle
    BY <2>2 DEF AbsCall
  <2>4. AbsCall' = [AbsCall EXCEPT ![g] = CallOf(r, "pending")]
    BY <1>1, <2>1, <2>2 DEF AbsCall
  <2>5. I!Invoke(g)
    BY <2>1, <2>3, <2>4 DEF I!Invoke, I!Busy, I!Idle, Idle, I!CallOf, CallOf, AbsCall
  <2> QED
    BY <1>4, <2>5 DEF AbsStep, I!Next, AbsMap, AllUnsettled
<1>7. CASE LReturn(g)
  <2>1. /\ call[g] # Idle /\ call[g].ok # "pending" /\ pc[g] = "idle" /\ pc' = pc
        /\ call' = [call EXCEPT ![g] = Idle]
    BY <1>7 DEF LReturn, Return, Busy, At
  <2>2. AbsCall[g] = call[g]
    BY <2>1 DEF AbsCall
  <2>3. AbsCall' = [AbsCall EXCEPT ![g] = Idle]
    BY <1>1, <2>1 DEF AbsCall
  <2>4. I!Return(g)
    BY <2>1, <2>2, <2>3 DEF I!Return, I!Busy, I!Idle, Idle, AbsCall
  <2> QED
    BY <1>4, <2>4 DEF AbsStep, I!Next, AbsMap, AllUnsettled
<1> QED
  BY <1>5, <1>6, <1>7 DEF Lock, Drained, RLock, Unlock, RUnlock

LEMMA AbsNext ==
  LockInv /\ LockInv' /\ MapInv /\ MapInv' /\ [LNext]_lvars => [I!Next]_I!vars
<1> SUFFICES ASSUME LockInv, LockInv', MapInv, MapInv', [LNext]_lvars
             PROVE  [I!Next]_I!vars
  OBVIOUS
<1>1. ASSUME NEW g \in Goroutine, LInvoke(g) \/ Step(g) PROVE AbsStep
  BY <1>1, AbsOutside, AbsIndexStart, AbsCheckDep, AbsIncrDep, AbsInsertEntry,
     AbsRemoveStart, AbsDecrDep, AbsQueryBody DEF Step
<1>2. ASSUME UNCHANGED lvars PROVE AbsStep
  <2>1. AbsMap' = AbsMap
    BY <1>2 DEF lvars, AbsMap, AllUnsettled, Unsettled
  <2>2. AbsCall' = AbsCall
    BY <1>2 DEF lvars, AbsCall
  <2> QED
    BY <2>1, <2>2 DEF AbsStep
<1>3. AbsStep
  BY <1>1, <1>2 DEF LNext
<1> QED
  BY <1>3 DEF AbsStep, I!vars, AbsMap, AllUnsettled, AbsCall

LEMMA AbsInit == LInit => I!Init
<1> SUFFICES ASSUME LInit PROVE I!Init
  OBVIOUS
<1>1. m = [p \in {} |-> Zero] /\ pc = [g \in Goroutine |-> "idle"]
      /\ call = [g \in Goroutine |-> Idle]
  BY DEF LInit, Init
<1>2. AbsMap = m
  <2>1. AllUnsettled = {}
    BY <1>1 DEF AllUnsettled, Unsettled
  <2>2. IsMap(m) /\ -1 \in Int
    BY <1>1 DEF IsMap
  <2> QED
    BY <2>1, <2>2, BumpNone DEF AbsMap
<1>3. AbsCall = [g \in Goroutine |-> I!Idle]
  BY <1>1 DEF AbsCall, Idle, I!Idle
<1>4. AbsMap = [p \in {} |-> I!Zero]
  BY <1>1, <1>2 DEF Zero, I!Zero
<1> QED
  BY <1>3, <1>4 DEF I!Init, AbsMap, AllUnsettled, AbsCall

(* The methods of index.go, line by line and in any interleaving, answer   *)
(* as if each call happened at once: the lock and the order of the         *)
(* statements under it make the index linearizable, for every number of    *)
(* goroutines and packages.                                                *)
THEOREM LockedImplementsIndex == LSpec => ImplementsIndex
<1>1. LSpec => []LockInv
  BY InitLockInv, NextLockInv, PTL DEF LSpec
<1>2. LSpec => []MapInv
  BY <1>1, InitMapInv, NextMapInv, PTL DEF LSpec
<1> QED
  BY <1>1, <1>2, AbsInit, AbsNext, PTL DEF LSpec, ImplementsIndex, I!Spec

-----------------------------------------------------------------------------
(* What is proved of Index holds of the map that the methods implement.    *)

P == INSTANCE IndexProofs WITH m <- AbsMap, call <- AbsCall

LEMMA SameIndexInit == I!Init => P!Init
BY DEF I!Init, P!Init, I!Idle, P!Idle, I!Zero, P!Zero, AbsMap, AllUnsettled, AbsCall

LEMMA SameIndexNext == [I!Next]_I!vars => [P!Next]_P!vars
<1>1. ASSUME NEW g \in Goroutine
      PROVE  /\ I!Invoke(g) => P!Invoke(g)
             /\ I!Return(g) => P!Return(g)
             /\ I!IndexPresent(g) => P!IndexPresent(g)
             /\ I!RemoveAbsent(g) => P!RemoveAbsent(g)
             /\ I!Query(g) => P!Query(g)
  BY DEF I!Invoke, P!Invoke, I!Return, P!Return, I!CallOf, P!CallOf, I!Idle, P!Idle,
         I!IndexPresent, P!IndexPresent, I!RemoveAbsent, P!RemoveAbsent, I!Query, P!Query,
         I!Awaiting, P!Awaiting, I!Busy, P!Busy, I!Answer, P!Answer,
         AbsMap, AllUnsettled, AbsCall
<1>2. ASSUME NEW g \in Goroutine
      PROVE  /\ I!IndexMissing(g) => P!IndexMissing(g)
             /\ I!RemoveReferenced(g) => P!RemoveReferenced(g)
  BY DEF I!IndexMissing, P!IndexMissing, I!RemoveReferenced, P!RemoveReferenced,
         I!Missing, P!Missing, I!Referenced, P!Referenced, I!Lookup, P!Lookup, I!Zero, P!Zero,
         I!Awaiting, P!Awaiting, I!Busy, P!Busy, I!Idle, P!Idle, I!Answer, P!Answer,
         AbsMap, AllUnsettled, AbsCall
<1>3. ASSUME NEW g \in Goroutine PROVE I!IndexNew(g) => P!IndexNew(g)
  BY DEF I!IndexNew, P!IndexNew, I!Insert, P!Insert, I!Put, P!Put, I!Bump, P!Bump,
         I!Missing, P!Missing, I!Lookup, P!Lookup, I!Zero, P!Zero,
         I!Awaiting, P!Awaiting, I!Busy, P!Busy, I!Idle, P!Idle, I!Answer, P!Answer,
         AbsMap, AllUnsettled, AbsCall
<1>4. ASSUME NEW g \in Goroutine PROVE I!RemoveUnreferenced(g) => P!RemoveUnreferenced(g)
  BY DEF I!RemoveUnreferenced, P!RemoveUnreferenced, I!Delete, P!Delete, I!Drop, P!Drop,
         I!Put, P!Put, I!Bump, P!Bump, I!Referenced, P!Referenced, I!Lookup, P!Lookup,
         I!Zero, P!Zero,
         I!Awaiting, P!Awaiting, I!Busy, P!Busy, I!Idle, P!Idle, I!Answer, P!Answer,
         AbsMap, AllUnsettled, AbsCall
<1>5. I!vars = P!vars /\ I!vars' = P!vars'
  BY DEF I!vars, P!vars, AbsMap, AllUnsettled, AbsCall
<1> QED
  BY <1>1, <1>2, <1>3, <1>4, <1>5 DEF I!Next, P!Next, I!Execute, P!Execute, AbsMap, AllUnsettled

LEMMA AbsConsistent == LSpec => []P!IndexInv
<1>1. LSpec => []LockInv
  BY InitLockInv, NextLockInv, PTL DEF LSpec
<1>2. LSpec => []MapInv
  BY <1>1, InitMapInv, NextMapInv, PTL DEF LSpec
<1>3. LInit => P!IndexInv
  BY AbsInit, SameIndexInit, P!InitInv, CallsAssumption DEF P!Request, Request
<1>4. LockInv /\ LockInv' /\ MapInv /\ MapInv' /\ P!IndexInv /\ [LNext]_lvars => P!IndexInv'
  BY AbsNext, SameIndexNext, P!NextInv, CallsAssumption DEF P!Request, Request
<1> QED
  BY <1>1, <1>2, <1>3, <1>4, PTL DEF LSpec

(* No count is negative, not even in the middle of a method.               *)
LEMMA CountsNatural ==
  ASSUME LockInv, MapInv, P!IndexInv
  PROVE  TypeOK
<1>1. IsMap(m) /\ call \in [Goroutine -> Call] /\ -1 \in Int
  BY DEF LockInv, MapInv
<1>2. AllUnsettled \in SUBSET Package
  <2>1. ASSUME NEW g \in Goroutine PROVE Unsettled(g) \subseteq Package
    <3>1. CASE pc[g] \in {"incr", "insert"}
      <4>1. Busy(g)
        BY <3>1 DEF LockInv, PlaceInv
      <4> QED
        BY <3>1, <4>1, CallShape DEF Unsettled
    <3>2. CASE pc[g] = "decr"
      BY <3>2 DEF Unsettled, MapInv
    <3>3. CASE pc[g] \notin {"incr", "insert", "decr"}
      BY <3>3 DEF Unsettled
    <3> QED
      BY <3>1, <3>2, <3>3
  <2> QED
    BY <2>1 DEF AllUnsettled
<1>3. \A q \in DOMAIN AbsMap : AbsMap[q].refCount \in Nat
  <2>1. AbsMap \in [DOMAIN AbsMap -> P!Entry]
    BY DEF P!IndexInv, P!TypeOK
  <2> QED
    BY <2>1 DEF P!Entry
<1> DEFINE D == AllUnsettled
<1>4. /\ DOMAIN AbsMap = DOMAIN m \cup D
      /\ \A q \in D : AbsMap[q] = [refCount |-> Lookup(m, q).refCount + -1, deps |-> Lookup(m, q).deps]
      /\ \A q \in DOMAIN m \ D : AbsMap[q] = m[q]
  <2>1. D \in SUBSET Package
    BY <1>2
  <2> HIDE DEF D
  <2>2. /\ DOMAIN Bump(m, D, -1) = DOMAIN m \cup D
        /\ \A q \in D : Bump(m, D, -1)[q] = [refCount |-> Lookup(m, q).refCount + -1,
                                             deps     |-> Lookup(m, q).deps]
        /\ \A q \in DOMAIN m \ D : Bump(m, D, -1)[q] = m[q]
    BY <1>1, <2>1, BumpAt
  <2>3. AbsMap = Bump(m, D, -1)
    BY DEF AbsMap, D
  <2> QED
    BY <2>2, <2>3
<1> HIDE DEF D
<1>5. ASSUME NEW q \in DOMAIN m PROVE m[q] \in Entry
  <2>1. m[q] \in Counted /\ AbsMap[q].refCount \in Nat
    BY <1>1, <1>3, <1>4 DEF IsMap
  <2>2. m[q].refCount \in Nat
    <3>1. CASE q \in D
      <4>1. AbsMap[q].refCount = m[q].refCount + -1
        BY <1>4, <3>1 DEF Lookup
      <4> QED
        BY <2>1, <4>1 DEF Counted
    <3>2. CASE q \notin D
      BY <1>4, <2>1, <3>2
    <3> QED
      BY <3>1, <3>2
  <2> QED
    BY <2>1, <2>2 DEF Counted, Entry
<1> QED
  BY <1>1, <1>5 DEF TypeOK, IsMap

(* Every value stays of its type while the methods interleave: no count    *)
(* goes below zero between the increments of one call and the decrements   *)
(* of another.                                                             *)
THEOREM LockedTypeCorrect == LSpec => []LTypeOK
<1>1. LSpec => []LockInv
  BY InitLockInv, NextLockInv, PTL DEF LSpec
<1>2. LSpec => []MapInv
  BY <1>1, InitMapInv, NextMapInv, PTL DEF LSpec
<1>3. LockInv /\ MapInv /\ P!IndexInv => LTypeOK
  BY CountsNatural DEF LockInv, MapInv, LTypeOK
<1> QED
  BY <1>1, <1>2, <1>3, AbsConsistent, PTL
=============================================================================
