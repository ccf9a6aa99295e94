--------------------------- MODULE MCIndexLocked ---------------------------
(* Requests for the run of IndexLocked. *)
EXTENDS IndexLocked

CONSTANTS a, b, c

\* A package with two dependencies, one of which depends on the other, and
\* everything that contends with it.
MCTriangle == {[op |-> "Index", pkg |-> a, deps |-> {}],
               [op |-> "Index", pkg |-> b, deps |-> {a}],
               [op |-> "Index", pkg |-> c, deps |-> {a, b}]}
                \cup {[op |-> "Remove", pkg |-> p, deps |-> {}] : p \in {a, b, c}}
                \cup {[op |-> "Query",  pkg |-> p, deps |-> {}] : p \in {a, c}}

=============================================================================
