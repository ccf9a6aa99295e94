---------------------------- MODULE PackageList -----------------------------
(***************************************************************************)
(* test-suite/packages.go: the list of packages, and their dependencies,   *)
(* that a test run reads from the text compiled into it.                   *)
(***************************************************************************)
EXTENDS Strings, Segments, SequencesExt

CONSTANTS Letter,       \* the bytes of names that are not reserved
          MaxText,      \* bound: the longest text
          MaxSegments   \* bound: the most segments a run asks for

VARIABLE text   \* the text, as far as it goes

COLON == ":"
SPACE == " "
NL    == "newline"

ASSUME ListAssumption == {COLON, SPACE, NL} \cap Letter = {}

-----------------------------------------------------------------------------

\* lineMatcher, which looks at the beginning of a line only.
Matches(l) == \E i \in 2..Len(l) : l[i] = COLON /\ \A j \in 1..i - 1 : l[j] # SPACE

\* Mutant: the colon stays with the name.
TokeniseLineColon(l) == Split(Halve(TrimRight(l, SPACE), SPACE), SPACE)

\* What TokeniseLine returns for a line that matches.
TokeniseLine(l) ==
  LET tokens == Split(Halve(TrimRight(l, SPACE), SPACE), SPACE)
  IN [tokens EXCEPT ![1] = TrimRight(@, COLON)]

Has(all, name) == \E i \in DOMAIN all : all[i].name = name

\* Named: the package with that name, added to the end if it is not there.  A
\* package stands for the one pointer to it.
Named(all, name) ==
  IF Has(all, name) THEN all ELSE Append(all, [name |-> name, deps |-> <<>>])

AddDependency(all, pkg, dep) ==
  [i \in DOMAIN all |-> IF all[i].name = pkg
                        THEN [all[i] EXCEPT !.deps = Append(@, dep)] ELSE all[i]]

\* Mutant: a package that is only depended on is not added.
TokensToPackageLax(all, tokens) ==
  LET f[i \in 1..Len(tokens)] ==
        IF i = 1 THEN Named(all, tokens[1]) ELSE AddDependency(f[i - 1], tokens[1], tokens[i])
  IN f[Len(tokens)]

TokensToPackage(all, tokens) ==
  LET f[i \in 1..Len(tokens)] ==
        IF i = 1 THEN Named(all, tokens[1])
        ELSE AddDependency(Named(f[i - 1], tokens[i]), tokens[1], tokens[i])
  IN f[Len(tokens)]

\* An empty line is passed over; the first line that does not match ends it.
ReadLine(r, l) ==
  IF r.err \/ l = <<>> THEN r
  ELSE IF Matches(l) THEN [r EXCEPT !.packages = TokensToPackage(@, TokeniseLine(l))]
  ELSE [r EXCEPT !.err = TRUE]

TextToPackages(t) ==
  LET lines == Split(t, NL)
      f[i \in 0..Len(lines)] ==
        IF i = 0 THEN [err |-> FALSE, packages |-> <<>>] ELSE ReadLine(f[i - 1], lines[i])
  IN f[Len(lines)]

-----------------------------------------------------------------------------

Init == text = <<>>

Write == /\ Len(text) < MaxText
         /\ \E x \in Letter \cup {COLON, SPACE, NL} : text' = Append(text, x)

Spec == Init /\ [][Write]_text

-----------------------------------------------------------------------------

\* The pieces that are not empty: the words of a line, the lines of a text.
NonEmpty(pieces) ==
  FlattenSeq([i \in DOMAIN pieces |-> IF pieces[i] = <<>> THEN <<>> ELSE <<pieces[i]>>])

Lines == NonEmpty(Split(text, NL))

Words(l) == NonEmpty(Split(l, SPACE))

IsName(w) == w # <<>> /\ Bytes(w) \subseteq Letter

\* The lines of the data file: a name and a colon, then names, each behind one
\* space or two, and any spaces at the end.
WellFormed(l) ==
  /\ l[1] # SPACE
  /\ \A i \in 1..Len(l) - 3 : (\A j \in i..i + 2 : l[j] = SPACE) => l[i + 3] = SPACE
  /\ Words(l) # <<>>
  /\ \E w \in {Words(l)[1]} : IsName(SubSeq(w, 1, Len(w) - 1)) /\ w[Len(w)] = COLON
  /\ \A i \in 2..Len(Words(l)) : IsName(Words(l)[i])

\* A line's package and, behind it, the dependencies the line gives it.
Tokens(l) == [i \in DOMAIN Words(l) |->
                IF i = 1 THEN SubSeq(Words(l)[1], 1, Len(Words(l)[1]) - 1) ELSE Words(l)[i]]

\* The names that lines mention, as a package or as a dependency.
Mentions(lines) == FlattenSeq([i \in DOMAIN lines |-> Tokens(lines[i])])

\* Where a name is mentioned for the first time.
Firsts(names) == {i \in DOMAIN names : \A j \in 1..i - 1 : names[j] # names[i]}

\* The dependencies that all lines together give a package.
DepsOf(lines, name) ==
  FlattenSeq([i \in DOMAIN lines |->
                IF Tokens(lines[i])[1] = name THEN Tail(Tokens(lines[i])) ELSE <<>>])

\* A text of such lines is read as it is written: the packages in the order
\* in which they are first mentioned, and each with the dependencies of all
\* its lines.
ReadsAsWritten ==
  (\A i \in DOMAIN Lines : WellFormed(Lines[i])) =>
    LET read  == TextToPackages(text)
        names == Mentions(Lines)
    IN /\ ~read.err
       /\ Len(read.packages) = Cardinality(Firsts(names))
       /\ \A i \in Firsts(names) :
            read.packages[Cardinality(Firsts(names) \cap 1..i)]
              = [name |-> names[i], deps |-> DepsOf(Lines, names[i])]

\* Whatever the text, no package is in the list twice, and every dependency is
\* itself in the list: a run that indexes the list never waits for a package
\* that no client indexes, nor counts one twice.
ListClosed ==
  LET all == TextToPackages(text).packages
  IN /\ \A i, j \in DOMAIN all : all[i].name = all[j].name => i = j
     /\ \A i \in DOMAIN all : \A k \in DOMAIN all[i].deps : Has(all, all[i].deps[k])

\* The segments are the list cut into pieces, none of them empty, and there
\* are as many as there are clients unless there are fewer packages.
SegmentsCover ==
  LET all == TextToPackages(text).packages
  IN \A n \in 0..MaxSegments : ~DividesByZero(all, n) =>
       LET segments == SegmentListPackages(all, n)
       IN /\ FlattenSeq(segments) = all
          /\ n >= 1 => \A i \in DOMAIN segments : segments[i] # <<>>
          /\ n >= 1 => Len(segments) = Clamp(all, n)

=============================================================================
