------------------------------ MODULE MCServer ------------------------------
(* Requests and symmetry for the runs of Server. *)
EXTENDS Server, TLC

CONSTANTS a, b

\* A package and one that depends on it, and what each can do to the other.
MCPair == {[op |-> "Index",  pkg |-> b, deps |-> {a}],
           [op |-> "Index",  pkg |-> a, deps |-> {}],
           [op |-> "Remove", pkg |-> a, deps |-> {}]}

MCQuery == {[op |-> "Query",  pkg |-> a, deps |-> {}]}

Symmetry == Permutations(Goroutine)

=============================================================================
