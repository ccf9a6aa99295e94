--------------------------- MODULE MCMessageReader ---------------------------
(* Symmetry for the runs of MessageReader. *)
EXTENDS MessageReader, TLC

Symmetry == Permutations(Buffer)

=============================================================================
