------------------------------ MODULE Strings -------------------------------
(***************************************************************************)
(* What the programs use of Go's strings and bytes packages, on sequences  *)
(* of bytes.                                                               *)
(***************************************************************************)
EXTENDS Integers, Sequences

Bytes(s) == {s[i] : i \in DOMAIN s}

\* The pieces p of the bytes so far, when e comes next.
Cut(p, e, x) == IF e = x THEN Append(p, <<>>) ELSE [p EXCEPT ![Len(p)] = Append(@, e)]

\* s cut at every byte x.
Split(s, x) ==
  LET f[i \in 0..Len(s)] == IF i = 0 THEN << <<>> >> ELSE Cut(f[i - 1], s[i], x)
  IN f[Len(s)]

\* s without the bytes x at its end.
TrimRight(s, x) ==
  LET kept == {i \in DOMAIN s : \E j \in i..Len(s) : s[j] # x}
  IN [i \in kept |-> s[i]]

\* One of two bytes x in a row goes; half tells whether one is over.
Thin(r, e, x) ==
  IF e = x /\ r.half THEN [r EXCEPT !.half = FALSE]
  ELSE [out |-> Append(r.out, e), half |-> e = x]

\* strings.Replace(s, x x, x, -1): of each run of x, every other one.
Halve(s, x) ==
  LET f[i \in 0..Len(s)] ==
        IF i = 0 THEN [out |-> <<>>, half |-> FALSE] ELSE Thin(f[i - 1], s[i], x)
  IN f[Len(s)].out

=============================================================================
