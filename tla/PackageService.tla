--------------------------- MODULE PackageService ---------------------------
(***************************************************************************)
(* What the clients of the server are promised: DependencyGraph, whose     *)
(* calls are now requests over a connection, which may be lost before they *)
(* take effect.                                                            *)
(***************************************************************************)
EXTENDS DependencyGraph

\* The connection ends before the server has read the request, or while the
\* index waits to carry it out.
Lose(g) == /\ Busy(g)
           /\ call[g].ok = "pending"
           /\ call' = [call EXCEPT ![g] = Idle]
           /\ UNCHANGED graph

ServiceNext == Next \/ \E g \in Goroutine : Lose(g)

ServiceSpec == Init /\ [][ServiceNext]_gvars

=============================================================================
