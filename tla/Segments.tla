------------------------------ MODULE Segments ------------------------------
(***************************************************************************)
(* SegmentListPackages of test-suite/packages.go, which cuts the list of   *)
(* packages into one segment per client.                                   *)
(***************************************************************************)
EXTENDS Integers, Sequences

\* Go divides by the number of segments, which for an empty list is 0.
DividesByZero(list, max) == max >= 1 /\ list = <<>>

\* Never more segments than packages.
Clamp(list, max) == IF max > Len(list) THEN Len(list) ELSE max

\* Mutant: the last segment is as short as the others.
SegmentsShort(list, max) ==
  IF max < 1 THEN <<list>>
  ELSE LET n    == Clamp(list, max)
           size == Len(list) \div n
       IN [i \in 1..n |-> SubSeq(list, (i - 1) * size + 1, i * size)]

SegmentListPackages(list, max) ==
  IF max < 1 THEN <<list>>
  ELSE LET n    == Clamp(list, max)
           size == Len(list) \div n
       IN [i \in 1..n |-> SubSeq(list, (i - 1) * size + 1,
                                 IF i < n THEN i * size ELSE Len(list))]

=============================================================================
