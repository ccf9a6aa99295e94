----------------------------- MODULE MCTestRun ------------------------------
(* The list and the clients for the runs of TestRun. *)
EXTENDS TestRun

CONSTANTS a, b, c

\* A chain of dependencies, listed from its end.
MCList == <<c, b, a>>

MCDeps == [p \in {a, b, c} |-> CASE p = a -> {} [] p = b -> {a} [] p = c -> {b}]

MCCalls == {[op |-> "Index", pkg |-> p, deps |-> MCDeps[p]] : p \in {a, b, c}}
             \cup {[op |-> o, pkg |-> p, deps |-> {}] : o \in {"Remove", "Query"}, p \in {a, b, c}}

MCClients == (1..5) \X (1..Concurrency)

=============================================================================
