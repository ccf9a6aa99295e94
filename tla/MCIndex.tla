------------------------------ MODULE MCIndex ------------------------------
(* Model values and symmetry for the runs of Index. *)
EXTENDS Index, TLC

MCCalls == Request

Symmetry == Permutations(Package) \cup Permutations(Goroutine)

=============================================================================
