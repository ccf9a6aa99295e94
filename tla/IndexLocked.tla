---------------------------- MODULE IndexLocked ----------------------------
(***************************************************************************)
(* The methods of index/index.go line by line, interleaved with each       *)
(* other: the read-write lock i.l, the loops over a package's dependencies *)
(* (in any order, as Go ranges over a map) and the assignments to the map. *)
(* It implements Index, where each method is one step.                     *)
(***************************************************************************)
EXTENDS Index

VARIABLES pc,       \* pc[g]: where goroutine g is in its method
          todo,     \* todo[g]: the dependencies its current loop has left
          writer,   \* the goroutines that took the lock's writer side: at most one
          readers   \* the goroutines that hold the lock for reading

lvars == <<m, call, pc, todo, writer, readers>>

PC == {"idle", "lock", "drain", "wait", "body", "check", "incr", "insert", "decr", "unlock"}

LInit == /\ Init
         /\ pc = [g \in Goroutine |-> "idle"]
         /\ todo = [g \in Goroutine |-> {}]
         /\ writer = {}
         /\ readers = {}

Goto(g, l) == pc' = [pc EXCEPT ![g] = l]

At(g, l) == pc[g] = l

InMethod(g, op) == At(g, "body") /\ Awaiting(g, op)

LInvoke(g) == /\ Invoke(g)
              /\ Goto(g, "lock")
              /\ UNCHANGED <<m, todo, writer, readers>>

-----------------------------------------------------------------------------
(* sync.RWMutex: Lock first excludes other writers and turns new readers   *)
(* away, then waits for the readers that are in; Unlock lets in all the    *)
(* readers that wait.                                                      *)

Exclusive(g) == call[g].op \in {"Index", "Remove"}

Lock(g) == /\ At(g, "lock")
           /\ Exclusive(g)
           /\ writer = {}
           /\ writer' = {g}
           /\ Goto(g, "drain")
           /\ UNCHANGED <<m, call, todo, readers>>

\* Mutant: Lock does not wait for the readers that are in.
DrainedAtOnce(g) == /\ At(g, "drain")
                    /\ Goto(g, "body")
                    /\ UNCHANGED <<m, call, todo, writer, readers>>

Drained(g) == /\ At(g, "drain")
              /\ readers = {}
              /\ Goto(g, "body")
              /\ UNCHANGED <<m, call, todo, writer, readers>>

\* Mutant: readers overtake a writer that waits for readers to leave.
RLockOvertakes(g) == /\ At(g, "lock")
                     /\ ~Exclusive(g)
                     /\ \A w \in writer : At(w, "drain")
                     /\ readers' = readers \cup {g}
                     /\ Goto(g, "body")
                     /\ UNCHANGED <<m, call, todo, writer>>

RLock(g) == /\ At(g, "lock")
            /\ ~Exclusive(g)
            /\ \/ /\ writer = {}
                  /\ readers' = readers \cup {g}
                  /\ Goto(g, "body")
               \/ /\ writer # {}
                  /\ Goto(g, "wait")
                  /\ UNCHANGED readers
            /\ UNCHANGED <<m, call, todo, writer>>

\* Mutant: Unlock does not wake the readers that wait.
UnlockSilently(g) == /\ At(g, "unlock")
                     /\ g \in writer
                     /\ writer' = {}
                     /\ Goto(g, "idle")
                     /\ UNCHANGED <<m, call, todo, readers>>

Unlock(g) == LET waiting == {h \in Goroutine : At(h, "wait")} IN
             /\ At(g, "unlock")
             /\ g \in writer
             /\ writer' = {}
             /\ readers' = readers \cup waiting
             /\ pc' = [h \in Goroutine |-> IF h \in waiting THEN "body"
                                           ELSE IF h = g THEN "idle" ELSE pc[h]]
             /\ UNCHANGED <<m, call, todo>>

RUnlock(g) == /\ At(g, "unlock")
              /\ g \in readers
              /\ readers' = readers \ {g}
              /\ Goto(g, "idle")
              /\ UNCHANGED <<m, call, todo, writer>>

\* The caller takes the result; the deferred unlock has run by then.
LReturn(g) == /\ At(g, "idle")
              /\ Return(g)
              /\ UNCHANGED <<m, pc, todo, writer, readers>>

-----------------------------------------------------------------------------
(* Index *)

IndexStart(g) ==
  /\ InMethod(g, "Index")
  /\ IF call[g].pkg \in DOMAIN m
       THEN Answer(g, "true") /\ Goto(g, "unlock") /\ UNCHANGED todo
       ELSE /\ todo' = [todo EXCEPT ![g] = call[g].deps]
            /\ Goto(g, "check")
            /\ UNCHANGED call
  /\ UNCHANGED <<m, writer, readers>>

\* Mutant: one loop that counts each dependency as it finds it, and leaves the
\* counts as they are when one is missing.
CountAsChecked(g) ==
  /\ At(g, "check")
  /\ \/ \E d \in todo[g] :
          IF d \in DOMAIN m
            THEN /\ m' = Bump(m, {d}, 1)
                 /\ todo' = [todo EXCEPT ![g] = @ \ {d}]
                 /\ UNCHANGED <<call, pc>>
            ELSE /\ todo' = [todo EXCEPT ![g] = {}]
                 /\ Answer(g, "false")
                 /\ Goto(g, "unlock")
                 /\ UNCHANGED m
     \/ /\ todo[g] = {}
        /\ Goto(g, "insert")
        /\ UNCHANGED <<m, call, todo>>
  /\ UNCHANGED <<writer, readers>>

CheckDep(g) ==
  /\ At(g, "check")
  /\ \/ \E d \in todo[g] :
          IF d \in DOMAIN m
            THEN /\ todo' = [todo EXCEPT ![g] = @ \ {d}]
                 /\ UNCHANGED <<call, pc>>
            ELSE /\ todo' = [todo EXCEPT ![g] = {}]
                 /\ Answer(g, "false")
                 /\ Goto(g, "unlock")
     \/ /\ todo[g] = {}
        /\ todo' = [todo EXCEPT ![g] = call[g].deps]
        /\ Goto(g, "incr")
        /\ UNCHANGED call
  /\ UNCHANGED <<m, writer, readers>>

IncrDep(g) ==
  /\ At(g, "incr")
  /\ \/ \E d \in todo[g] : /\ m' = Bump(m, {d}, 1)
                           /\ todo' = [todo EXCEPT ![g] = @ \ {d}]
                           /\ UNCHANGED pc
     \/ /\ todo[g] = {}
        /\ Goto(g, "insert")
        /\ UNCHANGED <<m, todo>>
  /\ UNCHANGED <<call, writer, readers>>

InsertEntry(g) ==
  /\ At(g, "insert")
  /\ m' = Put(m, call[g].pkg, [refCount |-> 0, deps |-> call[g].deps])
  /\ Answer(g, "true")
  /\ Goto(g, "unlock")
  /\ UNCHANGED <<todo, writer, readers>>

-----------------------------------------------------------------------------
(* Remove and Query *)

RemoveStart(g) ==
  /\ InMethod(g, "Remove")
  /\ LET p == call[g].pkg IN
     \/ /\ p \notin DOMAIN m
        /\ Answer(g, "true")
        /\ Goto(g, "unlock")
        /\ UNCHANGED <<m, todo>>
     \/ /\ p \in DOMAIN m
        /\ Referenced(p)
        /\ Answer(g, "false")
        /\ Goto(g, "unlock")
        /\ UNCHANGED <<m, todo>>
     \/ /\ p \in DOMAIN m
        /\ ~Referenced(p)
        /\ m' = Drop(m, p)
        /\ todo' = [todo EXCEPT ![g] = m[p].deps]
        /\ Goto(g, "decr")
        /\ UNCHANGED call
  /\ UNCHANGED <<writer, readers>>

\* Mutant: Remove decrements twice.
DecrTwice(g) ==
  /\ At(g, "decr")
  /\ \/ \E d \in todo[g] : /\ m' = Bump(m, {d}, -2)
                           /\ todo' = [todo EXCEPT ![g] = @ \ {d}]
                           /\ UNCHANGED <<call, pc>>
     \/ /\ todo[g] = {}
        /\ Answer(g, "true")
        /\ Goto(g, "unlock")
        /\ UNCHANGED <<m, todo>>
  /\ UNCHANGED <<writer, readers>>

DecrDep(g) ==
  /\ At(g, "decr")
  /\ \/ \E d \in todo[g] : /\ m' = Bump(m, {d}, -1)
                           /\ todo' = [todo EXCEPT ![g] = @ \ {d}]
                           /\ UNCHANGED <<call, pc>>
     \/ /\ todo[g] = {}
        /\ Answer(g, "true")
        /\ Goto(g, "unlock")
        /\ UNCHANGED <<m, todo>>
  /\ UNCHANGED <<writer, readers>>

QueryBody(g) == /\ At(g, "body")
                /\ Query(g)
                /\ Goto(g, "unlock")
                /\ UNCHANGED <<todo, writer, readers>>

-----------------------------------------------------------------------------

Step(g) == \/ Lock(g) \/ Drained(g) \/ RLock(g) \/ Unlock(g) \/ RUnlock(g) \/ LReturn(g)
           \/ IndexStart(g) \/ CheckDep(g) \/ IncrDep(g) \/ InsertEntry(g)
           \/ RemoveStart(g) \/ DecrDep(g) \/ QueryBody(g)

LNext == \E g \in Goroutine : LInvoke(g) \/ Step(g)

LSpec == LInit /\ [][LNext]_lvars

\* The Go scheduler keeps running every goroutine that can run; callers need
\* not call.  Which of several writers gets the lock is left open.
LFairSpec == LSpec /\ \A g \in Goroutine : WF_lvars(Step(g))

-----------------------------------------------------------------------------

LTypeOK == /\ TypeOK
           /\ pc \in [Goroutine -> PC]
           /\ todo \in [Goroutine -> SUBSET Package]
           /\ writer \subseteq Goroutine
           /\ readers \subseteq Goroutine

Accessing(g) == pc[g] \in {"body", "check", "incr", "insert", "decr"}

\* Go aborts the process on a map write that races with another access: while
\* a goroutine is inside Index or Remove, no other is inside any method.
NoMapRace == \A g, h \in Goroutine :
               Accessing(g) /\ Accessing(h) /\ Exclusive(g) => g = h

\* The refCounts that are one too high for the map to be the result of whole
\* calls: those Index has incremented for a package it has not inserted yet,
\* and those Remove has still to decrement for a package it has deleted.
Unsettled(g) ==
  CASE pc[g] \in {"incr", "insert"} -> call[g].deps \ todo[g]
    [] pc[g] = "decr"               -> todo[g]
    [] OTHER                        -> {}

\* Index takes effect when it inserts its entry, Remove when it deletes it.
I == INSTANCE Index WITH
       m    <- Bump(m, UNION {Unsettled(g) : g \in Goroutine}, -1),
       call <- [g \in Goroutine |->
                  IF pc[g] = "decr" THEN [call[g] EXCEPT !.ok = "true"] ELSE call[g]]

\* However the methods interleave, each appears to happen in one step between
\* its invocation and its return (they are linearizable), and none leaves
\* half of its increments or decrements behind.
ImplementsIndex == I!Spec

\* A Query gets the lock and is answered, however many Index and Remove calls
\* keep coming.
QueryAnswered == \A g \in Goroutine :
                   (At(g, "lock") /\ ~Exclusive(g)) ~> call[g] = Idle

\* An Index or Remove that is next for the lock is answered and lets go of
\* it, however many Queries keep coming.
WriterAnswered == \A g \in Goroutine : g \in writer ~> g \notin writer

=============================================================================
