----------------------------- MODULE ListProofs -----------------------------
(***************************************************************************)
(* Theorems about PackageList, for every alphabet and texts of every       *)
(* length.                                                                 *)
(***************************************************************************)
EXTENDS PackageList, OperatorProofs, FiniteSetTheorems

Text == Letter \cup {COLON, SPACE, NL}

\* The packages that names of bytes of T make.
Package(T) == [name : Seq(T), deps : Seq(Seq(T))]

LEMMA NamedTyped ==
  ASSUME NEW T, NEW all \in Seq(Package(T)), NEW name \in Seq(T)
  PROVE  Named(all, name) \in Seq(Package(T))
<1>1. [name |-> name, deps |-> <<>>] \in Package(T)
  BY DEF Package
<1> QED
  BY <1>1, AppendProperties DEF Named

(* A list no package is in twice, whose packages' dependencies are in it. *)
Closed(T) ==
  {all \in Seq(Package(T)) :
     /\ \A i, j \in DOMAIN all : all[i].name = all[j].name => i = j
     /\ \A i \in DOMAIN all : \A k \in DOMAIN all[i].deps : Has(all, all[i].deps[k])}

LEMMA NamedClosed ==
  ASSUME NEW T, NEW all \in Closed(T), NEW name \in Seq(T)
  PROVE  /\ Named(all, name) \in Closed(T)
         /\ Has(Named(all, name), name)
<1> DEFINE p == [name |-> name, deps |-> <<>>]
           n == Len(all)
<1>1. all \in Seq(Package(T)) /\ n \in Nat /\ DOMAIN all = 1..n
  BY DEF Closed
<1>2. /\ \A i, j \in 1..n : all[i].name = all[j].name => i = j
      /\ \A i \in 1..n : \A k \in DOMAIN all[i].deps : Has(all, all[i].deps[k])
  BY <1>1 DEF Closed
<1>3. CASE Has(all, name)
  BY <1>3 DEF Named
<1>4. CASE ~Has(all, name)
  <2> DEFINE r == Append(all, p)
  <2>1. Named(all, name) = r
    BY <1>4 DEF Named
  <2>2. p.name = name /\ p.deps = <<>> /\ p \in Package(T)
    BY DEF Package
  <2> HIDE DEF p
  <2>3. r \in Seq(Package(T)) /\ Len(r) = n + 1 /\ r[n + 1] = p /\ \A i \in 1..n : r[i] = all[i]
    BY <1>1, <2>2, AppendProperties
  <2> HIDE DEF r, n
  <2>4. DOMAIN r = 1..n + 1
    BY <2>3
  <2>5. \A i \in 1..n + 1 : i \in 1..n \/ i = n + 1
    BY <1>1
  <2>6. n + 1 \in 1..n + 1 /\ 1..n \subseteq 1..n + 1
    BY <1>1
  <2>7. \A i \in 1..n : all[i].name # name
    BY <1>1, <1>4 DEF Has
  <2>8. ASSUME NEW i \in 1..n + 1, NEW j \in 1..n + 1, r[i].name = r[j].name
        PROVE  i = j
    <3>1. CASE i \in 1..n /\ j \in 1..n
      BY <1>2, <2>3, <2>8, <3>1
    <3>2. CASE i = n + 1 /\ j \in 1..n
      BY <2>2, <2>3, <2>7, <2>8, <3>2
    <3>3. CASE j = n + 1 /\ i \in 1..n
      BY <2>2, <2>3, <2>7, <2>8, <3>3
    <3> QED
      BY <2>5, <3>1, <3>2, <3>3
  <2>9. \A x : Has(all, x) => Has(r, x)
    BY <1>1, <2>3, <2>4, <2>6 DEF Has
  <2>10. ASSUME NEW i \in 1..n + 1, NEW k \in DOMAIN r[i].deps
         PROVE  Has(r, r[i].deps[k])
    <3>1. CASE i \in 1..n
      <4>1. r[i] = all[i]
        BY <2>3, <3>1
      <4>2. Has(all, all[i].deps[k])
        BY <1>2, <3>1, <4>1
      <4> QED
        BY <2>9, <4>1, <4>2
    <3>2. CASE i = n + 1
      <4>1. r[i].deps = <<>>
        BY <2>2, <2>3, <3>2
      <4>2. DOMAIN <<>> = {}
        OBVIOUS
      <4> QED
        BY <4>1, <4>2
    <3> QED
      BY <2>5, <3>1, <3>2
  <2>11. r \in Closed(T)
    BY <2>3, <2>4, <2>8, <2>10 DEF Closed
  <2>12. Has(r, name)
    BY <2>2, <2>3, <2>4, <2>6 DEF Has
  <2> QED
    BY <2>1, <2>11, <2>12
<1> QED
  BY <1>3, <1>4

LEMMA AddClosed ==
  ASSUME NEW T, NEW all \in Closed(T), NEW pkg, NEW dep \in Seq(T), Has(all, dep)
  PROVE  AddDependency(all, pkg, dep) \in Closed(T)
<1> DEFINE n == Len(all)
           r == AddDependency(all, pkg, dep)
<1>1. all \in Seq(Package(T)) /\ n \in Nat /\ DOMAIN all = 1..n
  BY DEF Closed
<1>2. /\ \A i, j \in 1..n : all[i].name = all[j].name => i = j
      /\ \A i \in 1..n : \A k \in DOMAIN all[i].deps : Has(all, all[i].deps[k])
  BY <1>1 DEF Closed
<1>3. r = [i \in 1..n |-> IF all[i].name = pkg
                         THEN [all[i] EXCEPT !.deps = Append(@, dep)] ELSE all[i]]
  BY <1>1 DEF AddDependency
<1> HIDE DEF r, n
<1>4. ASSUME NEW i \in 1..n
      PROVE  /\ r[i] \in Package(T) /\ r[i].name = all[i].name
             /\ r[i].deps = IF all[i].name = pkg THEN Append(all[i].deps, dep) ELSE all[i].deps
  <2>1. all[i] \in [name : Seq(T), deps : Seq(Seq(T))]
    BY <1>1, ElementOfSeq DEF n, Package
  <2>2. Append(all[i].deps, dep) \in Seq(Seq(T))
    BY <2>1, AppendProperties
  <2>3. r[i] = IF all[i].name = pkg
               THEN [all[i] EXCEPT !.deps = Append(@, dep)] ELSE all[i]
    BY <1>3
  <2> QED
    BY <2>1, <2>2, <2>3 DEF Package
<1>5. r \in Seq(Package(T)) /\ DOMAIN r = 1..n
  BY <1>1, <1>3, <1>4
<1>6. \A i, j \in 1..n : r[i].name = r[j].name => i = j
  BY <1>2, <1>4
<1>7. \A x : Has(all, x) => Has(r, x)
  BY <1>1, <1>4, <1>5 DEF Has
<1>8. ASSUME NEW i \in 1..n, NEW k \in DOMAIN r[i].deps
      PROVE  Has(r, r[i].deps[k])
  <2>1. CASE all[i].name # pkg
    <3>1. r[i].deps = all[i].deps
      BY <1>4, <2>1
    <3> QED
      BY <1>2, <1>7, <3>1
  <2>2. CASE all[i].name = pkg
    <3>1. r[i].deps = Append(all[i].deps, dep)
      BY <1>4, <2>2
    <3>2. PICK d \in Seq(Seq(T)) : d = all[i].deps
      <4>1. all[i] \in [name : Seq(T), deps : Seq(Seq(T))]
        BY <1>1, ElementOfSeq DEF n, Package
      <4> QED
        BY <4>1
    <3>3. /\ Len(Append(d, dep)) = Len(d) + 1 /\ Append(d, dep)[Len(d) + 1] = dep
          /\ \A j \in 1..Len(d) : Append(d, dep)[j] = d[j]
          /\ Append(d, dep) \in Seq(Seq(T))
      BY AppendProperties
    <3>4. k \in 1..Len(d) \/ k = Len(d) + 1
      BY <3>1, <3>2, <3>3
    <3>5. CASE k \in 1..Len(d)
      <4>1. r[i].deps[k] = d[k] /\ k \in DOMAIN d
        BY <3>1, <3>2, <3>3, <3>5
      <4> QED
        BY <1>2, <1>7, <3>2, <4>1
    <3>6. CASE k = Len(d) + 1
      <4>1. r[i].deps[k] = dep
        BY <3>1, <3>2, <3>3, <3>6
      <4> QED
        BY <1>7, <4>1
    <3> QED
      BY <3>4, <3>5, <3>6
  <2> QED
    BY <2>1, <2>2
<1> QED
  BY <1>5, <1>6, <1>8 DEF Closed, r

TokensStep(T, all, tokens) ==
  [i \in 1..Len(tokens) |-> [v \in Closed(T) |->
     IF i = 1 THEN Named(all, tokens[1])
     ELSE AddDependency(Named(v, tokens[i]), tokens[1], tokens[i])]]

LEMMA TokensFunction ==
  ASSUME NEW T, NEW all \in Closed(T), NEW tokens \in Pieces(T)
  PROVE  \E f \in [0..Len(tokens) -> Closed(T)] :
           /\ TokensToPackage(all, tokens) = f[Len(tokens)]
           /\ Follows(f, Len(tokens), all, TokensStep(T, all, tokens))
<1> DEFINE n == Len(tokens)
           V == Closed(T)
           step == TokensStep(T, all, tokens)
           Rec(h) == [i \in 1..Len(tokens) |->
             IF i = 1 THEN Named(all, tokens[1])
             ELSE AddDependency(Named(h[i - 1], tokens[i]), tokens[1], tokens[i])]
<1>1. n \in Nat /\ n >= 1 /\ \A i \in 1..n : tokens[i] \in Seq(T)
  <2>1. tokens \in Seq(Seq(T)) /\ tokens # <<>>
    BY DEF Pieces
  <2>2. n \in Nat /\ n # 0 /\ \A i \in 1..n : tokens[i] \in Seq(T)
    BY <2>1, EmptySeq, ElementOfSeq
  <2> HIDE DEF n
  <2> QED
    BY <2>2
<1>2. ASSUME NEW i \in 1..n, NEW v \in V
      PROVE  (IF i = 1 THEN Named(all, tokens[1])
              ELSE AddDependency(Named(v, tokens[i]), tokens[1], tokens[i])) \in V
  <2>1. tokens[1] \in Seq(T) /\ tokens[i] \in Seq(T)
    BY <1>1
  <2>2. Named(all, tokens[1]) \in V
    BY <2>1, NamedClosed
  <2>3. Named(v, tokens[i]) \in V /\ Has(Named(v, tokens[i]), tokens[i])
    BY <2>1, NamedClosed
  <2>4. AddDependency(Named(v, tokens[i]), tokens[1], tokens[i]) \in V
    BY <2>1, <2>3, AddClosed
  <2> QED
    BY <2>2, <2>4
<1>3. step \in [1..n -> [V -> V]]
  BY <1>2 DEF TokensStep
<1>4. PICK f \in [0..n -> V] : Follows(f, n, all, step)
  <2> HIDE DEF step, n, V
  <2>1. all \in V
    BY DEF V
  <2> QED
    BY <1>1, <1>3, <2>1, Recursion
<1>5. \A h : Rec(h)[1] = Named(all, tokens[1])
  BY <1>1
<1>6. ASSUME NEW h, NEW i \in 1..n, i = 1 \/ h[i - 1] \in V
      PROVE  /\ Rec(h)[i] = step[i][IF i = 1 THEN all ELSE h[i - 1]]
             /\ Rec(h)[i] \in V
  <2>1. CASE i = 1
    <3>1. all \in V
      OBVIOUS
    <3>2. step[i][all] = Named(all, tokens[1])
      BY <2>1, <3>1 DEF TokensStep
    <3>3. Named(all, tokens[1]) \in V
      BY <1>2, <2>1, <3>1
    <3> QED
      BY <1>5, <2>1, <3>2, <3>3
  <2>2. CASE i # 1
    <3>1. h[i - 1] \in V
      BY <1>6, <2>2
    <3>2. step[i][h[i - 1]] = AddDependency(Named(h[i - 1], tokens[i]), tokens[1], tokens[i])
      BY <2>2, <3>1 DEF TokensStep
    <3>3. AddDependency(Named(h[i - 1], tokens[i]), tokens[1], tokens[i]) \in V
      BY <1>2, <2>2, <3>1
    <3>4. Rec(h)[i] = AddDependency(Named(h[i - 1], tokens[i]), tokens[1], tokens[i])
      BY <2>2
    <3> HIDE DEF Rec, V, step
    <3> QED
      BY <2>2, <3>2, <3>3, <3>4
  <2> QED
    BY <2>1, <2>2
<1>7. \A h : Rec(h) = [i \in 1..n |-> Rec(h)[i]]
  OBVIOUS
<1>8. TokensToPackage(all, tokens) = (CHOOSE h : h = Rec(h))[n]
  BY DEF TokensToPackage
<1> DEFINE e == [i \in 1..n |-> f[i]]
<1> HIDE DEF Rec, step, n, V
<1>9. e = Rec(e)
  <2>1. ASSUME NEW i \in 1..n PROVE f[i] = Rec(e)[i]
    <3>1. f[i] = step[i][f[i - 1]] /\ f[0] = all
      BY <1>4 DEF Follows
    <3>2. CASE i = 1
      <4>1. f[i - 1] = all
        BY <3>1, <3>2
      <4> HIDE DEF e
      <4>2. Rec(e)[i] = step[i][IF i = 1 THEN all ELSE e[i - 1]]
        BY <1>6, <3>2
      <4> QED
        BY <3>1, <3>2, <4>1, <4>2
    <3>3. CASE i # 1
      <4>1. i - 1 \in 1..n /\ i - 1 \in 0..n
        BY <1>1, <3>3
      <4>2. e[i - 1] = f[i - 1] /\ f[i - 1] \in V
        BY <4>1
      <4> HIDE DEF e
      <4>3. Rec(e)[i] = step[i][IF i = 1 THEN all ELSE e[i - 1]]
        BY <1>6, <4>2
      <4> QED
        BY <3>1, <3>3, <4>2, <4>3
    <3> QED
      BY <3>2, <3>3
  <2>2. e = [i \in 1..n |-> Rec(e)[i]]
    BY <2>1
  <2> QED
    BY <1>7, <2>2
<1> DEFINE g == CHOOSE h : h = Rec(h)
<1>10. g = Rec(g)
  BY <1>9, Zenon
<1> HIDE DEF g, e
<1> DEFINE S == {i \in Nat : i \in 1..n => g[i] = f[i]}
<1>11. 0 \in S
  OBVIOUS
<1>12. ASSUME NEW i \in 0..n - 1, i \in S PROVE i + 1 \in S
  <2>1. PICK j \in 1..n : j = i + 1
    BY <1>1
  <2>2. j - 1 = i /\ (j = 1 \/ i \in 1..n) /\ j - 1 \in 0..n
    BY <1>1, <2>1
  <2>3. f[j] = step[j][f[j - 1]] /\ f[0] = all /\ f[j - 1] \in V
    BY <1>4, <2>2 DEF Follows
  <2>4. CASE j = 1
    <3>1. g[j] = step[j][IF j = 1 THEN all ELSE g[j - 1]]
      BY <1>6, <1>10, <2>4
    <3> QED
      BY <2>1, <2>2, <2>3, <2>4, <3>1
  <2>5. CASE j # 1
    <3>1. g[j - 1] = f[j - 1]
      BY <1>12, <2>2, <2>5
    <3>2. g[j] = step[j][IF j = 1 THEN all ELSE g[j - 1]]
      BY <1>6, <1>10, <2>3, <3>1
    <3> QED
      BY <2>1, <2>3, <2>5, <3>1, <3>2
  <2> QED
    BY <2>4, <2>5
<1> HIDE DEF S
<1>13. 0..n \subseteq S
  BY <1>1, <1>11, <1>12, InductionUpTo
<1>14. n \in 0..n /\ n \in 1..n
  BY <1>1
<1>15. g[n] = f[n]
  BY <1>13, <1>14 DEF S
<1> QED
  BY <1>4, <1>8, <1>15 DEF g, n, V, step

LEMMA TokensClosed ==
  ASSUME NEW T, NEW all \in Closed(T), NEW tokens \in Pieces(T)
  PROVE  TokensToPackage(all, tokens) \in Closed(T)
<1>1. PICK f \in [0..Len(tokens) -> Closed(T)] : TokensToPackage(all, tokens) = f[Len(tokens)]
  BY TokensFunction
<1>2. Len(tokens) \in 0..Len(tokens)
  BY DEF Pieces
<1> QED
  BY <1>1, <1>2

LEMMA TokeniseTyped ==
  ASSUME NEW T, NEW l \in Seq(T)
  PROVE  TokeniseLine(l) \in Pieces(T)
<1> DEFINE tokens == Split(Halve(TrimRight(l, SPACE), SPACE), SPACE)
<1>1. Halve(TrimRight(l, SPACE), SPACE) \in Seq(T)
  BY TrimRightTyped, HalveTyped
<1>2. tokens \in Pieces(T)
  BY <1>1, SplitTyped
<1>3. TokeniseLine(l) = [tokens EXCEPT ![1] = TrimRight(tokens[1], COLON)]
  BY DEF TokeniseLine
<1> HIDE DEF tokens
<1>4. tokens \in Seq(Seq(T)) /\ tokens # <<>> /\ 1 \in 1..Len(tokens)
  BY <1>2 DEF Pieces
<1>5. tokens[1] \in Seq(T)
  BY <1>4, ElementOfSeq
<1>6. TrimRight(tokens[1], COLON) \in Seq(T)
  BY <1>5, TrimRightTyped
<1>7. /\ [tokens EXCEPT ![1] = TrimRight(tokens[1], COLON)] \in Seq(Seq(T))
      /\ Len([tokens EXCEPT ![1] = TrimRight(tokens[1], COLON)]) = Len(tokens)
  BY <1>4, <1>6, ExceptSeq
<1>8. [tokens EXCEPT ![1] = TrimRight(tokens[1], COLON)] # <<>>
  BY <1>4, <1>7
<1> QED
  BY <1>3, <1>7, <1>8 DEF Pieces

(* What has been read of a text. *)
Read(T) == [err : BOOLEAN, packages : Closed(T)]

LEMMA ReadLineClosed ==
  ASSUME NEW T, NEW r \in Read(T), NEW l \in Seq(T)
  PROVE  ReadLine(r, l) \in Read(T)
<1>1. r \in [err : BOOLEAN, packages : Closed(T)]
  BY DEF Read
<1>2. TokensToPackage(r.packages, TokeniseLine(l)) \in Closed(T)
  BY <1>1, TokeniseTyped, TokensClosed
<1>3. [r EXCEPT !.packages = TokensToPackage(r.packages, TokeniseLine(l))] \in Read(T)
  BY <1>1, <1>2 DEF Read
<1>4. [r EXCEPT !.err = TRUE] \in Read(T)
  BY <1>1 DEF Read
<1> QED
  BY <1>3, <1>4 DEF ReadLine

ReadStep(T, lines) == [i \in 1..Len(lines) |-> [r \in Read(T) |-> ReadLine(r, lines[i])]]

LEMMA TextFunction ==
  ASSUME NEW T, NEW t \in Seq(T)
  PROVE  \E f \in [0..Len(Split(t, NL)) -> Read(T)] :
           /\ TextToPackages(t) = f[Len(Split(t, NL))]
           /\ Follows(f, Len(Split(t, NL)), [err |-> FALSE, packages |-> <<>>],
                      ReadStep(T, Split(t, NL)))
<1> DEFINE lines == Split(t, NL)
           n == Len(lines)
           V == Read(T)
           first == [err |-> FALSE, packages |-> <<>>]
           step == ReadStep(T, lines)
           Rec(h) == [i \in 0..Len(lines) |->
             IF i = 0 THEN [err |-> FALSE, packages |-> <<>>] ELSE ReadLine(h[i - 1], lines[i])]
<1>1. n \in Nat /\ \A i \in 1..n : lines[i] \in Seq(T)
  <2>1. lines \in Seq(Seq(T))
    BY SplitTyped DEF Pieces
  <2> HIDE DEF lines
  <2> QED
    BY <2>1, ElementOfSeq
<1>2. first \in V
  <2>1. <<>> \in Seq(Package(T)) /\ DOMAIN <<>> = {}
    OBVIOUS
  <2>2. <<>> \in Closed(T)
    BY <2>1 DEF Closed
  <2> QED
    BY <2>2 DEF Read
<1>3. step \in [1..n -> [V -> V]]
  <2>1. \A i \in 1..n : \A r \in V : ReadLine(r, lines[i]) \in V
    BY <1>1, ReadLineClosed
  <2> QED
    BY <2>1 DEF ReadStep
<1>4. \A h : Rec(h)[0] = first
  BY <1>1
<1>5. ASSUME NEW h, NEW i \in 1..n, h[i - 1] \in V
      PROVE  Rec(h)[i] = step[i][h[i - 1]]
  <2>1. step[i][h[i - 1]] = ReadLine(h[i - 1], lines[i])
    BY <1>5 DEF ReadStep
  <2>2. i \in 0..Len(lines) /\ i # 0
    OBVIOUS
  <2> HIDE DEF lines
  <2> QED
    BY <2>1, <2>2
<1>6. \A h : Rec(h) = [i \in 0..n |-> Rec(h)[i]]
  OBVIOUS
<1>7. TextToPackages(t) = (CHOOSE h : h = Rec(h))[n]
  BY DEF TextToPackages
<1> HIDE DEF Rec, step, first, n, V, lines
<1>8. PICK f \in [0..n -> V] : Follows(f, n, first, step)
  BY <1>1, <1>2, <1>3, Recursion
<1>9. f = Rec(f)
  <2>1. ASSUME NEW i \in 0..n PROVE f[i] = Rec(f)[i]
    <3>1. CASE i = 0
      BY <1>4, <1>8, <3>1 DEF Follows
    <3>2. CASE i \in 1..n
      <4>1. f[i] = step[i][f[i - 1]]
        BY <1>8, <3>2 DEF Follows
      <4>2. i - 1 \in 0..n
        BY <1>1, <3>2
      <4>3. f[i - 1] \in V
        BY <4>2
      <4> QED
        BY <1>5, <3>2, <4>1, <4>3
    <3> QED
      BY <1>1, <3>1, <3>2
  <2>2. f = [i \in 0..n |-> f[i]]
    OBVIOUS
  <2>3. [i \in 0..n |-> f[i]] = [i \in 0..n |-> Rec(f)[i]]
    BY <2>1
  <2> QED
    BY <1>6, <2>2, <2>3
<1> DEFINE g == CHOOSE h : h = Rec(h)
<1>10. g = Rec(g)
  BY <1>9, Zenon
<1> HIDE DEF g
<1>11. \A i \in 0..n : g[i] = f[i]
  <2>1. g[0] = first
    BY <1>4, <1>10
  <2>2. \A i \in 1..n : g[i - 1] \in V => g[i] = step[i][g[i - 1]]
    BY <1>5, <1>10
  <2>3. FollowsIn(g, n, first, step, V)
    BY <2>1, <2>2 DEF FollowsIn
  <2>4. RunsIn(f, n, first, step, V)
    BY <1>8 DEF RunsIn
  <2> QED
    BY <1>1, <2>3, <2>4, SameRecursion
<1>12. g[n] = f[n]
  BY <1>1, <1>11
<1> QED
  BY <1>7, <1>8, <1>12 DEF g, V, first, step, n, lines

LEMMA TextClosed ==
  ASSUME NEW T, NEW t \in Seq(T)
  PROVE  TextToPackages(t) \in Read(T)
<1>1. PICK f \in [0..Len(Split(t, NL)) -> Read(T)] : TextToPackages(t) = f[Len(Split(t, NL))]
  BY TextFunction
<1>2. Len(Split(t, NL)) \in 0..Len(Split(t, NL))
  BY SplitTyped DEF Pieces
<1> QED
  BY <1>1, <1>2

-----------------------------------------------------------------------------

LEMMA TextTyped == Spec => [](text \in Seq(Text))
<1>1. Init => text \in Seq(Text)
  BY DEF Init
<1>2. text \in Seq(Text) /\ [Write]_text => (text \in Seq(Text))'
  BY DEF Write, Text
<1> QED
  BY <1>1, <1>2, PTL DEF Spec

(* Whatever the text, no package is in the list that TextToPackages        *)
(* returns twice, and every dependency is in the list: for every alphabet  *)
(* and texts of every length.                                              *)
THEOREM ListIsClosed == Spec => []ListClosed
<1>1. text \in Seq(Text) => ListClosed
  <2> SUFFICES ASSUME text \in Seq(Text) PROVE ListClosed
    OBVIOUS
  <2>1. TextToPackages(text) \in Read(Text)
    BY TextClosed
  <2>2. TextToPackages(text).packages \in Closed(Text)
    BY <2>1 DEF Read
  <2> QED
    BY <2>2 DEF Closed, ListClosed
<1> QED
  BY <1>1, TextTyped, PTL

-----------------------------------------------------------------------------
(* FlattenSeq puts the pieces of a sequence together again. *)

LEMMA FlattenCuts ==
  ASSUME NEW S, NEW list \in Seq(S), NEW n \in Nat \ {0}, NEW cut \in [0..n -> 0..Len(list)],
         cut[0] = 0, NEW segments, Len(segments) = n,
         \A i \in 1..n : /\ cut[i - 1] <= cut[i]
                         /\ segments[i] = SubSeq(list, cut[i - 1] + 1, cut[i])
  PROVE  FlattenSeq(segments) = SubSeq(list, 1, cut[n])
<1> DEFINE Rec(h) == [i \in 1..Len(segments) |->
             IF i = 1 THEN segments[i] ELSE h[i - 1] \o segments[i]]
           e == [i \in 1..n |-> SubSeq(list, 1, cut[i])]
<1>1. FlattenSeq(segments) = (CHOOSE h : h = Rec(h))[n]
  BY DEF FlattenSeq
<1>2. ASSUME NEW h, NEW i \in 1..n, i = 1 \/ h[i - 1] = SubSeq(list, 1, cut[i - 1])
      PROVE  Rec(h)[i] = SubSeq(list, 1, cut[i])
  <2>1. CASE i = 1
    <3>1. Rec(h)[i] = segments[i]
      BY <2>1
    <3>2. cut[i - 1] + 1 = 1
      BY <2>1
    <3> QED
      BY <3>1, <3>2
  <2>2. CASE i # 1
    <3>1. Rec(h)[i] = h[i - 1] \o segments[i]
      BY <2>2
    <3> HIDE DEF Rec
    <3>2. PICK a \in 0..Len(list), c \in 0..Len(list) : a = cut[i - 1] /\ c = cut[i]
      <4>1. i - 1 \in 0..n /\ i \in 0..n
        OBVIOUS
      <4> QED
        BY <4>1
    <3>3. a <= c
      BY <3>2
    <3>4. Len(list) \in Nat
      OBVIOUS
    <3>5. 1 \in 1..Len(list) + 1 /\ a \in 1 - 1..Len(list) /\ c \in a..Len(list)
      BY <3>3, <3>4
    <3>6. SubSeq(list, 1, a) \o SubSeq(list, a + 1, c) = SubSeq(list, 1, c)
      BY <3>5, ConcatAdjacentSubSeq
    <3>7. h[i - 1] = SubSeq(list, 1, a) /\ segments[i] = SubSeq(list, a + 1, c)
      BY <1>2, <2>2, <3>2
    <3> QED
      BY <3>1, <3>2, <3>6, <3>7
  <2> QED
    BY <2>1, <2>2
<1>3. \A h : Rec(h) = [i \in 1..n |-> Rec(h)[i]]
  OBVIOUS
<1> HIDE DEF Rec
<1>4. e = Rec(e)
  <2>1. ASSUME NEW i \in 1..n PROVE SubSeq(list, 1, cut[i]) = Rec(e)[i]
    <3>1. i # 1 => i - 1 \in 1..n
      OBVIOUS
    <3>2. i = 1 \/ e[i - 1] = SubSeq(list, 1, cut[i - 1])
      BY <3>1
    <3> HIDE DEF e
    <3> QED
      BY <1>2, <3>2
  <2>2. e = [i \in 1..n |-> Rec(e)[i]]
    BY <2>1
  <2> QED
    BY <1>3, <2>2
<1> DEFINE g == CHOOSE h : h = Rec(h)
<1>5. g = Rec(g)
  BY <1>4, Zenon
<1> HIDE DEF g, e
<1>6. \A i \in 1..n : (i = 1 \/ g[i - 1] = SubSeq(list, 1, cut[i - 1]))
                         => g[i] = SubSeq(list, 1, cut[i])
  BY <1>2, <1>5
<1> DEFINE P == {i \in Nat : i \in 1..n => g[i] = SubSeq(list, 1, cut[i])}
<1>7. 0 \in P
  OBVIOUS
<1>8. ASSUME NEW i \in 0..n - 1, i \in P PROVE i + 1 \in P
  <2>1. PICK j \in 1..n : j = i + 1
    OBVIOUS
  <2>2. j - 1 = i /\ (j = 1 \/ i \in 1..n)
    BY <2>1
  <2>3. g[j] = SubSeq(list, 1, cut[j])
    BY <1>6, <1>8, <2>2
  <2> QED
    BY <2>1, <2>3
<1> HIDE DEF P
<1>9. 0..n \subseteq P
  BY <1>7, <1>8, InductionUpTo
<1>10. n \in 0..n /\ n \in 1..n
  OBVIOUS
<1>11. g[n] = SubSeq(list, 1, cut[n])
  BY <1>9, <1>10 DEF P
<1> QED
  BY <1>1, <1>11 DEF g

LEMMA SegmentsPut ==
  ASSUME NEW S, NEW all \in Seq(S), NEW n \in Nat, ~DividesByZero(all, n)
  PROVE  LET segments == SegmentListPackages(all, n)
         IN /\ FlattenSeq(segments) = all
            /\ n >= 1 => \A i \in DOMAIN segments : segments[i] # <<>>
            /\ n >= 1 => Len(segments) = Clamp(all, n)
<1> DEFINE segments == SegmentListPackages(all, n)
           k == Clamp(all, n)
<1>0. Len(all) \in Nat /\ SubSeq(all, 1, Len(all)) = all
  BY SubSeqFull
<1>1. CASE n < 1
  <2> DEFINE cut == [i \in 0..1 |-> IF i = 0 THEN 0 ELSE Len(all)]
  <2>1. segments = <<all>> /\ Len(<<all>>) = 1 /\ <<all>>[1] = all
    BY <1>1 DEF SegmentListPackages
  <2>2. cut \in [0..1 -> 0..Len(all)] /\ cut[0] = 0 /\ cut[1] = Len(all)
    BY <1>0
  <2> HIDE DEF cut
  <2>3. \A i \in 1..1 : i = 1 /\ i - 1 = 0 /\ 0 + 1 = 1
    OBVIOUS
  <2>4. \A i \in 1..1 : cut[i - 1] <= cut[i] /\ <<all>>[i] = SubSeq(all, cut[i - 1] + 1, cut[i])
    BY <1>0, <2>1, <2>2, <2>3
  <2>5. FlattenSeq(<<all>>) = SubSeq(all, 1, cut[1])
    <3>1. 1 \in Nat \ {0}
      OBVIOUS
    <3>2. PICK r : r = <<all>>
      OBVIOUS
    <3>3. Len(r) = 1 /\ \A i \in 1..1 : /\ cut[i - 1] <= cut[i]
                                        /\ r[i] = SubSeq(all, cut[i - 1] + 1, cut[i])
      BY <2>1, <2>4, <3>2
    <3>4. FlattenSeq(r) = SubSeq(all, 1, cut[1])
      BY <2>2, <3>1, <3>3, FlattenCuts
    <3> QED
      BY <3>2, <3>4
  <2> QED
    BY <1>0, <1>1, <2>1, <2>2, <2>5
<1>2. CASE n >= 1
  <2>1. all # <<>> /\ n \in Nat \ {0}
    BY <1>2 DEF DividesByZero
  <2>2. /\ Len(segments) = k /\ k \in 1..n
        /\ \E cut \in [0..k -> 0..Len(all)] :
             /\ cut[0] = 0 /\ cut[k] = Len(all)
             /\ \A i \in 1..k : /\ cut[i - 1] < cut[i]
                                /\ segments[i] = SubSeq(all, cut[i - 1] + 1, cut[i])
    BY <2>1, SegmentsFollow
  <2>3. DOMAIN segments = 1..k
    <3>1. Clamp(all, n) \in Int
      BY <1>0 DEF Clamp
    <3>2. DOMAIN segments = 1..Clamp(all, n)
      BY <1>2 DEF SegmentListPackages
    <3> QED
      BY <3>2
  <2> HIDE DEF segments, k
  <2>4. PICK cut \in [0..k -> 0..Len(all)] :
             /\ cut[0] = 0 /\ cut[k] = Len(all)
             /\ \A i \in 1..k : /\ cut[i - 1] < cut[i]
                                /\ segments[i] = SubSeq(all, cut[i - 1] + 1, cut[i])
    BY <2>2
  <2>5. k \in Nat \ {0}
    BY <2>2
  <2>6. ASSUME NEW i \in 1..k
        PROVE  /\ cut[i - 1] <= cut[i] /\ segments[i] = SubSeq(all, cut[i - 1] + 1, cut[i])
               /\ segments[i] # <<>>
    <3>1. i - 1 \in 0..k /\ i \in 0..k
      BY <2>5
    <3>2. PICK a \in 0..Len(all), c \in 0..Len(all) : a = cut[i - 1] /\ c = cut[i]
      BY <3>1
    <3>3. a < c /\ segments[i] = SubSeq(all, a + 1, c)
      BY <2>4, <3>2
    <3>4. a + 1 \in 1..Len(all) + 1 /\ a <= c /\ a + 1 <= c /\ c - (a + 1) + 1 # 0
      BY <1>0, <3>3
    <3>5. Len(SubSeq(all, a + 1, c)) = IF a + 1 <= c THEN c - (a + 1) + 1 ELSE 0
      BY <3>4, BytesSubSeq
    <3>6. Len(segments[i]) # 0
      BY <3>3, <3>4, <3>5
    <3>7. segments[i] # <<>>
      BY <3>6, EmptySeq
    <3> QED
      BY <3>2, <3>3, <3>4, <3>7
  <2>7. FlattenSeq(segments) = SubSeq(all, 1, cut[k])
    <3>1. \A i \in 1..k : cut[i - 1] <= cut[i] /\ segments[i] = SubSeq(all, cut[i - 1] + 1, cut[i])
      BY <2>6
    <3>2. cut[0] = 0 /\ Len(segments) = k
      BY <2>2, <2>4
    <3> QED
      BY <2>5, <3>1, <3>2, FlattenCuts
  <2> QED
    BY <1>0, <2>2, <2>3, <2>4, <2>6, <2>7 DEF segments, k
<1> QED
  BY <1>1, <1>2

(* The segments of the list that TextToPackages returns are the list cut   *)
(* into pieces, none of them empty, as many as there are clients unless    *)
(* there are fewer packages: for every text and number of clients.         *)
THEOREM ListSegmentsCover == Spec => []SegmentsCover
<1>1. text \in Seq(Text) => SegmentsCover
  <2> SUFFICES ASSUME text \in Seq(Text) PROVE SegmentsCover
    OBVIOUS
  <2> DEFINE all == TextToPackages(text).packages
  <2>1. TextToPackages(text) \in Read(Text)
    BY TextClosed
  <2>2. all \in Seq(Package(Text))
    BY <2>1 DEF Read, Closed
  <2> HIDE DEF all
  <2>3. ASSUME NEW n \in 0..MaxSegments, ~DividesByZero(all, n)
        PROVE  LET segments == SegmentListPackages(all, n)
               IN /\ FlattenSeq(segments) = all
                  /\ n >= 1 => \A i \in DOMAIN segments : segments[i] # <<>>
                  /\ n >= 1 => Len(segments) = Clamp(all, n)
    <3>1. n \in Nat
      OBVIOUS
    <3> QED
      BY <2>2, <2>3, <3>1, SegmentsPut
  <2> QED
    BY <2>3 DEF SegmentsCover, all
<1> QED
  BY <1>1, TextTyped, PTL

-----------------------------------------------------------------------------
(* FlattenSeq and NonEmpty, one piece more at a time.                      *)

FlattenStep(S, ss) == [i \in 1..Len(ss) |-> [v \in Seq(S) |-> v \o ss[i]]]

LEMMA FlattenFunction ==
  ASSUME NEW S, NEW ss \in Seq(Seq(S))
  PROVE  \E f \in [0..Len(ss) -> Seq(S)] :
           FlattenSeq(ss) = f[Len(ss)] /\ Follows(f, Len(ss), <<>>, FlattenStep(S, ss))
<1> DEFINE n == Len(ss)
           V == Seq(S)
           step == FlattenStep(S, ss)
           Rec(h) == [i \in 1..Len(ss) |-> IF i = 1 THEN ss[i] ELSE h[i - 1] \o ss[i]]
<1>1. n \in Nat /\ <<>> \in V /\ \A i \in 1..n : ss[i] \in V
  BY ElementOfSeq
<1>2. ASSUME NEW i \in 1..n, NEW v \in V PROVE v \o ss[i] \in V
  BY <1>1, <1>2, ConcatProperties
<1>3. step \in [1..n -> [V -> V]]
  BY <1>2 DEF FlattenStep
<1>4. PICK f \in [0..n -> V] : Follows(f, n, <<>>, step)
  <2> HIDE DEF step, n, V
  <2> QED
    BY <1>1, <1>3, Recursion
<1>5. CASE n = 0
  <2>1. ss = <<>> /\ FlattenSeq(ss) = ss
    BY <1>5 DEF FlattenSeq
  <2> QED
    BY <1>4, <1>5, <2>1 DEF Follows
<1>6. CASE n # 0
  <2>1. ASSUME NEW i \in 1..n, NEW h, i = 1 \/ h[i - 1] = f[i - 1] PROVE Rec(h)[i] = f[i]
    <3>1. i - 1 \in 0..n /\ f[i - 1] \in V
      <4> HIDE DEF n, V
      <4>1. i - 1 \in 0..n
        BY <1>1
      <4> QED
        BY <4>1
    <3>2. f[i] = step[i][f[i - 1]]
      BY <1>4 DEF Follows
    <3>3. step[i][f[i - 1]] = f[i - 1] \o ss[i]
      BY <3>1 DEF FlattenStep
    <3>4. CASE i = 1
      <4>1. f[i - 1] = <<>>
        BY <1>4, <3>4 DEF Follows
      <4>2. f[i] = ss[i]
        BY <1>1, <3>2, <3>3, <4>1, ConcatEmptySeq
      <4> QED
        BY <3>4, <4>2
    <3>5. CASE i # 1
      <4>1. Rec(h)[i] = h[i - 1] \o ss[i]
        BY <3>5
      <4> QED
        BY <2>1, <3>2, <3>3, <3>5, <4>1
    <3> QED
      BY <3>4, <3>5
  <2>2. \A h : Rec(h) = [i \in 1..n |-> Rec(h)[i]]
    OBVIOUS
  <2>3. FlattenSeq(ss) = (CHOOSE h : h = Rec(h))[n]
    BY <1>6 DEF FlattenSeq
  <2> DEFINE e == [i \in 1..n |-> f[i]]
  <2> HIDE DEF Rec, step, n, V
  <2>4. e = Rec(e)
    <3>1. ASSUME NEW i \in 1..n PROVE f[i] = Rec(e)[i]
      <4>1. i = 1 \/ i - 1 \in 1..n
        BY <1>1
      <4>2. i = 1 \/ e[i - 1] = f[i - 1]
        BY <4>1
      <4> HIDE DEF e
      <4> QED
        BY <2>1, <4>2
    <3>2. e = [i \in 1..n |-> Rec(e)[i]]
      BY <3>1
    <3> QED
      BY <2>2, <3>2
  <2> DEFINE g == CHOOSE h : h = Rec(h)
  <2>5. g = Rec(g)
    BY <2>4, Zenon
  <2> HIDE DEF g, e
  <2> DEFINE P == {i \in Nat : i \in 1..n => g[i] = f[i]}
  <2>6. 0 \in P
    OBVIOUS
  <2>7. ASSUME NEW i \in 0..n - 1, i \in P PROVE i + 1 \in P
    <3>1. PICK j \in 1..n : j = i + 1
      BY <1>1
    <3>2. j - 1 = i /\ (j = 1 \/ i \in 1..n)
      BY <1>1, <3>1
    <3>3. j = 1 \/ g[j - 1] = f[j - 1]
      BY <2>7, <3>2
    <3>4. Rec(g)[j] = f[j]
      BY <2>1, <3>3
    <3> QED
      BY <2>5, <3>1, <3>4
  <2> HIDE DEF P
  <2>8. 0..n \subseteq P
    BY <1>1, <2>6, <2>7, InductionUpTo
  <2>9. n \in 0..n /\ n \in 1..n
    BY <1>1, <1>6
  <2>10. g[n] = f[n]
    BY <2>8, <2>9 DEF P
  <2> QED
    BY <1>4, <2>3, <2>10 DEF g, n, V, step
<1> QED
  BY <1>5, <1>6

LEMMA FlattenTyped ==
  ASSUME NEW S, NEW ss \in Seq(Seq(S))
  PROVE  FlattenSeq(ss) \in Seq(S)
<1>1. PICK f \in [0..Len(ss) -> Seq(S)] : FlattenSeq(ss) = f[Len(ss)]
  BY FlattenFunction
<1>2. Len(ss) \in 0..Len(ss)
  OBVIOUS
<1> QED
  BY <1>1, <1>2

LEMMA FlattenEmpty == FlattenSeq(<<>>) = <<>>
BY DEF FlattenSeq

LEMMA FlattenAppend ==
  ASSUME NEW S, NEW ss \in Seq(Seq(S)), NEW e \in Seq(S)
  PROVE  FlattenSeq(Append(ss, e)) = FlattenSeq(ss) \o e
<1> DEFINE t == Append(ss, e)
           n == Len(ss)
           V == Seq(S)
<1>1. t \in Seq(V) /\ Len(t) = n + 1 /\ t[n + 1] = e /\ \A i \in 1..n : t[i] = ss[i]
  BY AppendProperties
<1>2. n \in Nat
  OBVIOUS
<1>3. PICK f \in [0..n -> V] : FlattenSeq(ss) = f[n] /\ Follows(f, n, <<>>, FlattenStep(S, ss))
  BY FlattenFunction
<1> HIDE DEF t
<1>4. PICK g \in [0..Len(t) -> V] :
        FlattenSeq(t) = g[Len(t)] /\ Follows(g, Len(t), <<>>, FlattenStep(S, t))
  BY <1>1, FlattenFunction
<1> DEFINE step == FlattenStep(S, ss)
           more == FlattenStep(S, t)
<1>5. SameSteps(step, more, n, V)
  <2> SUFFICES ASSUME NEW i \in 1..n, NEW v \in V PROVE more[i][v] = step[i][v]
    BY DEF SameSteps
  <2>1. i \in 1..Len(t) /\ t[i] = ss[i]
    <3> HIDE DEF n, V
    <3> QED
      BY <1>1, <1>2
  <2> QED
    BY <2>1 DEF FlattenStep
<1>6. RunsIn(f, n, <<>>, step, V) /\ RunsIn(g, n + 1, <<>>, more, V)
  BY <1>1, <1>3, <1>4 DEF RunsIn
<1> HIDE DEF n, step, more, V
<1>7. f[n] \in V /\ g[n + 1] = more[n + 1][f[n]]
  BY <1>2, <1>5, <1>6, RecursionGoesOn
<1>8. more[n + 1][f[n]] = f[n] \o e
  <2>1. n + 1 \in 1..Len(t)
    BY <1>1, <1>2
  <2> QED
    BY <1>1, <1>7, <2>1 DEF FlattenStep, more, V
<1> QED
  BY <1>1, <1>3, <1>4, <1>7, <1>8 DEF t

LEMMA NonEmptyTyped ==
  ASSUME NEW T, NEW ss \in Seq(Seq(T))
  PROVE  NonEmpty(ss) \in Seq(Seq(T))
<1> DEFINE k == [i \in DOMAIN ss |-> IF ss[i] = <<>> THEN <<>> ELSE <<ss[i]>>]
<1>1. Len(ss) \in Nat /\ DOMAIN ss = 1..Len(ss) /\ \A i \in 1..Len(ss) : ss[i] \in Seq(T)
  BY ElementOfSeq
<1>2. \A i \in 1..Len(ss) : k[i] \in Seq(Seq(T))
  BY <1>1
<1>3. k \in Seq(Seq(Seq(T)))
  BY <1>1, <1>2
<1> QED
  BY <1>3, FlattenTyped DEF NonEmpty

LEMMA NonEmptyNone == NonEmpty(<<>>) = <<>>
<1>1. [i \in DOMAIN <<>> |-> IF <<>>[i] = <<>> THEN <<>> ELSE << <<>>[i] >>] = <<>>
  OBVIOUS
<1> QED
  BY <1>1, FlattenEmpty DEF NonEmpty

LEMMA NonEmptyAppend ==
  ASSUME NEW T, NEW ss \in Seq(Seq(T)), NEW w \in Seq(T)
  PROVE  NonEmpty(Append(ss, w)) = IF w = <<>> THEN NonEmpty(ss) ELSE Append(NonEmpty(ss), w)
<1> DEFINE kept(s) == [i \in DOMAIN s |-> IF s[i] = <<>> THEN <<>> ELSE <<s[i]>>]
           n == Len(ss)
           t == Append(ss, w)
           e == IF w = <<>> THEN <<>> ELSE <<w>>
<1>1. n \in Nat /\ DOMAIN ss = 1..n /\ \A i \in 1..n : ss[i] \in Seq(T)
  BY ElementOfSeq
<1>2. /\ t \in Seq(Seq(T)) /\ Len(t) = n + 1 /\ DOMAIN t = 1..n + 1
      /\ t[n + 1] = w /\ \A i \in 1..n : t[i] = ss[i]
  BY AppendProperties
<1>3. /\ kept(ss) \in Seq(Seq(Seq(T))) /\ Len(kept(ss)) = n
      /\ \A i \in 1..n : kept(ss)[i] = IF ss[i] = <<>> THEN <<>> ELSE <<ss[i]>>
  BY <1>1
<1>4. e \in Seq(Seq(T))
  OBVIOUS
<1> HIDE DEF t
<1>5. \A i \in 1..n + 1 : t[i] \in Seq(T)
  BY <1>2, ElementOfSeq
<1>6. /\ kept(t) \in Seq(Seq(Seq(T))) /\ Len(kept(t)) = n + 1
      /\ \A i \in 1..n + 1 : kept(t)[i] = IF t[i] = <<>> THEN <<>> ELSE <<t[i]>>
  BY <1>1, <1>2, <1>5
<1> HIDE DEF n
<1>7. \A i \in 1..n + 1 : i \in 1..n \/ i = n + 1
  BY <1>1
<1> DEFINE a == kept(ss)
           b == kept(t)
           c == Append(a, e)
<1>8. NonEmpty(ss) = FlattenSeq(a) /\ NonEmpty(t) = FlattenSeq(b)
  BY DEF NonEmpty
<1> HIDE DEF a, b, e, kept
<1>9. c \in Seq(Seq(Seq(T))) /\ Len(c) = n + 1 /\ c[n + 1] = e /\ \A i \in 1..n : c[i] = a[i]
  BY <1>3, <1>4, AppendProperties DEF a
<1> HIDE DEF c
<1>10. \A i \in 1..n + 1 : b[i] = c[i]
  <2>1. b[n + 1] = e
    <3>1. n + 1 \in 1..n + 1
      BY <1>1
    <3> QED
      BY <1>2, <1>6, <3>1 DEF b, e
  <2>2. \A i \in 1..n : b[i] = a[i]
    <3>1. 1..n \subseteq 1..n + 1
      BY <1>1
    <3> QED
      BY <1>2, <1>3, <1>6, <3>1 DEF a, b
  <2> QED
    BY <1>7, <1>9, <2>1, <2>2
<1>11. b = c
  BY <1>6, <1>9, <1>10, SeqEqual DEF b
<1>12. NonEmpty(t) = NonEmpty(ss) \o e
  BY <1>3, <1>4, <1>8, <1>11, FlattenAppend DEF a, c
<1>13. NonEmpty(ss) \in Seq(Seq(T))
  BY NonEmptyTyped
<1>14. CASE w = <<>>
  <2>1. NonEmpty(ss) \o <<>> = NonEmpty(ss)
    BY <1>13, ConcatEmptySeq
  <2> QED
    BY <1>12, <1>14, <2>1 DEF e, t
<1>15. CASE w # <<>>
  <2>1. NonEmpty(ss) \o <<w>> = Append(NonEmpty(ss), w)
    BY <1>13, AppendIsConcat
  <2> QED
    BY <1>12, <1>15, <2>1 DEF e, t
<1> QED
  BY <1>14, <1>15

-----------------------------------------------------------------------------
(* TokeniseLine cuts a well-formed line into its words.                    *)

LEMMA Prefix ==
  ASSUME NEW T, NEW s \in Seq(T), NEW i \in 0..Len(s) - 1
  PROVE  /\ SubSeq(s, 1, i) \in Seq(T) /\ s[i + 1] \in T
         /\ SubSeq(s, 1, i + 1) = Append(SubSeq(s, 1, i), s[i + 1])
<1>1. Len(s) \in Nat /\ i \in 0..Len(s) /\ i + 1 \in 1..Len(s) /\ (i + 1) - 1 = i
  OBVIOUS
<1>2. SubSeq(s, 1, i) \in Seq(T)
  <2>1. 1 \in 1..Len(s) + 1
    BY <1>1
  <2> QED
    BY <1>1, <2>1, BytesSubSeq
<1>3. s[i + 1] \in T
  BY <1>1, ElementOfSeq
<1>4. SubSeq(s, 1, i + 1) = SubSeq(s, 1, i) \o <<s[i + 1]>>
  <2>1. 1 \in 1..Len(s) /\ i + 1 \in 1..Len(s)
    BY <1>1
  <2>2. SubSeq(s, 1, i + 1) = SubSeq(s, 1, (i + 1) - 1) \o <<s[i + 1]>>
    BY <2>1, SubSeqRecursiveSecond
  <2> QED
    BY <1>1, <2>2
<1> QED
  BY <1>2, <1>3, <1>4, AppendIsConcat

(* Bytes x at the end make no words. *)
LEMMA EndNoWords ==
  ASSUME NEW T, NEW x, NEW s \in Seq(T), NEW m \in 0..Len(s), \A i \in m + 1..Len(s) : s[i] = x
  PROVE  NonEmpty(Split(s, x)) = NonEmpty(Split(SubSeq(s, 1, m), x))
<1> DEFINE n == Len(s)
           words(i) == NonEmpty(Split(SubSeq(s, 1, i), x))
           P == {i \in Nat : words(m + i) = words(m)}
<1>1. n \in Nat /\ m \in 0..n /\ n - m \in Nat
  OBVIOUS
<1>2. 0 \in P
  BY <1>1
<1>3. ASSUME NEW i \in 0..(n - m) - 1, i \in P PROVE i + 1 \in P
  <2>1. m + i \in 0..n - 1 /\ m + (i + 1) = (m + i) + 1
    BY <1>1
  <2>2. (m + i) + 1 \in m + 1..n
    BY <1>1, <2>1
  <2> DEFINE u == SubSeq(s, 1, m + i)
  <2>3. /\ u \in Seq(T) /\ s[(m + i) + 1] = x /\ x \in T
        /\ SubSeq(s, 1, m + (i + 1)) = Append(u, x)
    BY <2>1, <2>2, Prefix
  <2>4. /\ words(m + i) = NonEmpty(Split(u, x))
        /\ words(m + (i + 1)) = NonEmpty(Split(Append(u, x), x))
    BY <2>3
  <2> HIDE DEF u, words
  <2>5. Split(Append(u, x), x) = Append(Split(u, x), <<>>)
    BY <2>3, SplitAppend DEF Cut
  <2>6. Split(u, x) \in Seq(Seq(T)) /\ <<>> \in Seq(T)
    BY <2>3, SplitTyped DEF Pieces
  <2>7. NonEmpty(Append(Split(u, x), <<>>)) = NonEmpty(Split(u, x))
    BY <2>6, NonEmptyAppend
  <2>8. words(m + (i + 1)) = words(m + i)
    BY <2>4, <2>5, <2>7
  <2> QED
    BY <1>3, <2>8
<1> HIDE DEF P, words
<1>4. 0..n - m \subseteq P
  <2> HIDE DEF n
  <2> QED
    BY <1>1, <1>2, <1>3, InductionUpTo
<1>5. n - m \in 0..n - m /\ m + (n - m) = n
  BY <1>1
<1>6. words(n) = words(m)
  <2>1. words(m + (n - m)) = words(m)
    BY <1>4, <1>5 DEF P
  <2> HIDE DEF n
  <2>2. m + (n - m) = n
    BY <1>1
  <2> QED
    BY <2>1, <2>2
<1> QED
  BY <1>6, SubSeqFull DEF words, n

(* The state r of Halve behind byte i of s: its output makes the words so  *)
(* far and the piece w that is not over, as s itself does.                 *)
HalvedTo(T, s, x, i, r, q, w) ==
  /\ Split(SubSeq(s, 1, i), x) = Append(q, w)
  /\ Split(r.out, x) = Append(NonEmpty(q), w)
  /\ r.half => w = <<>> /\ i > 0
  /\ w = <<>> /\ i > 0 => s[i] = x /\ (~r.half => i > 1 /\ s[i - 1] = x)

Halved(T, s, x, i, r) == \E q \in Seq(Seq(T)), w \in Seq(T) : HalvedTo(T, s, x, i, r, q, w)

\* No three bytes x in a row.
NoThree(s, x) == \A i \in 1..Len(s) - 2 : \E j \in i..i + 2 : s[j] # x

LEMMA HalvedOn ==
  ASSUME NEW T, NEW x, NEW s \in Seq(T), NoThree(s, x), s[1] # x,
         NEW i \in 0..Len(s) - 1, NEW r \in Halves(T), Halved(T, s, x, i, r)
  PROVE  Halved(T, s, x, i + 1, Thin(r, s[i + 1], x))
<1>1. PICK q \in Seq(Seq(T)), w \in Seq(T) : HalvedTo(T, s, x, i, r, q, w)
  BY DEF Halved
<1> DEFINE e == s[i + 1]
           u == SubSeq(s, 1, i)
           k == Thin(r, e, x)
<1>2. u \in Seq(T) /\ e \in T /\ SubSeq(s, 1, i + 1) = Append(u, e)
  BY Prefix
<1>3. /\ Split(u, x) = Append(q, w) /\ Split(r.out, x) = Append(NonEmpty(q), w)
      /\ r.half => w = <<>> /\ i > 0
      /\ w = <<>> /\ i > 0 => s[i] = x /\ (~r.half => i > 1 /\ s[i - 1] = x)
  BY <1>1 DEF HalvedTo
<1>4. r \in [out : Seq(T), half : BOOLEAN]
  BY DEF Halves
<1>5. NonEmpty(q) \in Seq(Seq(T)) /\ <<>> \in Seq(T)
  BY NonEmptyTyped
<1>6. Split(SubSeq(s, 1, i + 1), x) = Cut(Append(q, w), e, x)
  BY <1>2, <1>3, SplitAppend
<1>7. Split(Append(r.out, e), x) = Cut(Append(NonEmpty(q), w), e, x)
  <2>1. r.out \in Seq(T)
    BY <1>4
  <2>2. Split(Append(r.out, e), x) = Cut(Split(r.out, x), e, x)
    BY <1>2, <2>1, SplitAppend
  <2> QED
    BY <1>3, <2>2
<1>8. i \in Nat /\ i + 1 > 0 /\ (i + 1) - 1 = i
  OBVIOUS
<1>9. CASE e # x
  <2> DEFINE v == Append(w, e)
  <2>1. v \in Seq(T) /\ v # <<>>
    BY <1>2, AppendProperties
  <2>2. /\ Cut(Append(q, w), e, x) = Append(q, v)
        /\ Cut(Append(NonEmpty(q), w), e, x) = Append(NonEmpty(q), v)
    <3> HIDE DEF e, k, u
    <3>1. \A p \in Seq(Seq(T)) : Cut(Append(p, w), e, x) = Append(p, Append(w, e))
      BY <1>2, <1>9, CutLast
    <3> QED
      BY <1>5, <3>1
  <2>3. k.out = Append(r.out, e) /\ k.half = FALSE
    BY <1>9 DEF Thin
  <2> HIDE DEF v, k, e, u
  <2>4. HalvedTo(T, s, x, i + 1, k, q, v)
    BY <1>6, <1>7, <2>1, <2>2, <2>3 DEF HalvedTo
  <2> QED
    BY <2>1, <2>4 DEF Halved, k, e
<1>10. CASE e = x /\ r.half
  <2> DEFINE p == Append(q, w)
  <2>1. k = [r EXCEPT !.half = FALSE]
    BY <1>10 DEF Thin
  <2>2. k.out = r.out /\ k.half = FALSE
    BY <1>4, <2>1
  <2>3. w = <<>> /\ i > 0 /\ s[i] = x
    BY <1>3, <1>10
  <2>4. p \in Seq(Seq(T)) /\ NonEmpty(p) = NonEmpty(q)
    BY <1>5, <2>3, AppendProperties, NonEmptyAppend
  <2>5. Cut(p, e, x) = Append(p, <<>>)
    BY <1>10 DEF Cut
  <2>6. s[i + 1] = x
    BY <1>10
  <2>7. i + 1 > 1
    BY <1>8, <2>3
  <2>8. Split(k.out, x) = Append(NonEmpty(p), <<>>)
    BY <1>3, <2>2, <2>3, <2>4
  <2> HIDE DEF p, k, e, u
  <2>9. Split(SubSeq(s, 1, i + 1), x) = Append(p, <<>>)
    BY <1>6, <2>5 DEF p
  <2>10. HalvedTo(T, s, x, i + 1, k, p, <<>>)
    BY <1>8, <2>2, <2>3, <2>6, <2>7, <2>8, <2>9 DEF HalvedTo
  <2> QED
    BY <1>5, <2>4, <2>10 DEF Halved, k, e
<1>11. CASE e = x /\ ~r.half
  <2> DEFINE p == Append(q, w)
  <2>1. k.out = Append(r.out, e) /\ k.half = TRUE
    BY <1>11 DEF Thin
  <2>2. w # <<>>
    <3> SUFFICES ASSUME w = <<>> PROVE FALSE
      OBVIOUS
    <3>1. CASE i = 0
      BY <1>11, <3>1
    <3>2. CASE i > 0
      <4>1. s[i] = x /\ i > 1 /\ s[i - 1] = x
        BY <1>3, <1>11, <3>2
      <4>2. PICK j \in i - 1..(i - 1) + 2 : s[j] # x
        <5>1. i - 1 \in 1..Len(s) - 2
          BY <4>1
        <5> QED
          BY <5>1 DEF NoThree
      <4>3. j \in {i - 1, i, i + 1}
        BY <1>8
      <4> QED
        BY <1>11, <4>1, <4>2, <4>3
    <3> QED
      BY <1>8, <3>1, <3>2
  <2>3. p \in Seq(Seq(T)) /\ NonEmpty(p) = Append(NonEmpty(q), w)
    BY <2>2, AppendProperties, NonEmptyAppend
  <2>4. Cut(p, e, x) = Append(p, <<>>) /\ Cut(NonEmpty(p), e, x) = Append(NonEmpty(p), <<>>)
    BY <1>11 DEF Cut
  <2>5. s[i + 1] = x
    BY <1>11
  <2> HIDE DEF k, e, u
  <2>6. /\ Split(SubSeq(s, 1, i + 1), x) = Append(p, <<>>)
        /\ Split(k.out, x) = Append(NonEmpty(p), <<>>)
    BY <1>6, <1>7, <2>1, <2>3, <2>4
  <2> HIDE DEF p
  <2>7. HalvedTo(T, s, x, i + 1, k, p, <<>>)
    BY <1>8, <2>1, <2>5, <2>6 DEF HalvedTo
  <2> QED
    BY <1>5, <2>3, <2>7 DEF Halved, k, e
<1> QED
  BY <1>4, <1>9, <1>10, <1>11

(* Where words are one x or two apart, Halve leaves them one apart. *)
LEMMA HalveWords ==
  ASSUME NEW T, NEW x, NEW s \in Seq(T), s # <<>>, NoThree(s, x), s[1] # x, s[Len(s)] # x
  PROVE  Split(Halve(s, x), x) = NonEmpty(Split(s, x))
<1> DEFINE n == Len(s)
           first == [out |-> <<>>, half |-> FALSE]
<1>1. n \in Nat \ {0}
  BY EmptySeq
<1>2. PICK f \in [0..n -> Halves(T)] :
        Halve(s, x) = f[n].out /\ Follows(f, n, first, HalveStep(T, s, x))
  BY HalveFunction
<1> DEFINE P == {i \in Nat : Halved(T, s, x, i, f[i])}
<1>3. 0 \in P
  <2>1. f[0] = first /\ first.out = <<>> /\ first.half = FALSE
    BY <1>2 DEF Follows
  <2>2. SubSeq(s, 1, 0) = <<>>
    OBVIOUS
  <2>3. Split(<<>>, x) = Append(<<>>, <<>>) /\ <<>> \in Seq(Seq(T)) /\ <<>> \in Seq(T)
    <3>1. Append(<<>>, <<>>) = << <<>> >>
      OBVIOUS
    <3> QED
      BY <3>1, SplitEmpty
  <2> HIDE DEF first
  <2>4. HalvedTo(T, s, x, 0, f[0], <<>>, <<>>)
    BY <2>1, <2>2, <2>3, NonEmptyNone DEF HalvedTo
  <2> QED
    BY <2>3, <2>4 DEF Halved
<1>4. ASSUME NEW i \in 0..n - 1, i \in P PROVE i + 1 \in P
  <2>1. i \in 0..n /\ i + 1 \in 1..n /\ (i + 1) - 1 = i
    BY <1>1
  <2>2. f[i] \in Halves(T)
    BY <2>1
  <2>3. f[i + 1] = HalveStep(T, s, x)[i + 1][f[i]]
    BY <1>2, <2>1 DEF Follows
  <2>4. f[i + 1] = Thin(f[i], s[i + 1], x)
    BY <2>1, <2>2, <2>3 DEF HalveStep
  <2>5. Halved(T, s, x, i + 1, Thin(f[i], s[i + 1], x))
    BY <1>4, <2>2, HalvedOn
  <2> QED
    BY <2>4, <2>5
<1> HIDE DEF P
<1>5. 0..n \subseteq P
  <2> HIDE DEF n
  <2> QED
    BY <1>1, <1>3, <1>4, InductionUpTo
<1>6. n \in 0..n
  BY <1>1
<1>7. PICK q \in Seq(Seq(T)), w \in Seq(T) : HalvedTo(T, s, x, n, f[n], q, w)
  BY <1>5, <1>6 DEF P, Halved
<1>8. /\ Split(s, x) = Append(q, w)
      /\ Split(f[n].out, x) = Append(NonEmpty(q), w)
      /\ w # <<>>
  <2>1. SubSeq(s, 1, n) = s
    BY SubSeqFull
  <2>2. n > 0 /\ s[n] # x
    BY <1>1
  <2> HIDE DEF n
  <2> QED
    BY <1>7, <2>1, <2>2 DEF HalvedTo
<1> QED
  BY <1>2, <1>8, NonEmptyAppend

(* Three spaces in a row are at the end only. *)
LEMMA NoThreeBefore ==
  ASSUME NEW T, NEW x, NEW l \in Seq(T), NEW m \in 1..Len(l), l[m] # x,
         \A i \in 1..Len(l) - 3 : (\A j \in i..i + 2 : l[j] = x) => l[i + 3] = x
  PROVE  NoThree(SubSeq(l, 1, m), x)
<1> DEFINE s == SubSeq(l, 1, m)
<1>1. m \in Nat /\ Len(l) \in Nat /\ m <= Len(l)
  OBVIOUS
<1>2. s \in Seq(T) /\ Len(s) = m /\ \A i \in 1..m : s[i] = l[i]
  OBVIOUS
<1> SUFFICES ASSUME NEW i \in 1..m - 2, \A j \in i..i + 2 : l[j] = x PROVE FALSE
  <2> HIDE DEF s
  <2>1. ASSUME NEW i \in 1..m - 2, \A j \in i..i + 2 : s[j] = x
        PROVE  \A j \in i..i + 2 : l[j] = x
    BY <1>1, <1>2, <2>1
  <2> QED
    BY <1>2, <2>1 DEF NoThree, s
<1> HIDE DEF s
<1> DEFINE P == {k \in Nat : \A j \in i + k..i + k + 2 : l[j] = x}
<1>3. 0 \in P
  BY <1>1
<1>4. ASSUME NEW k \in 0..(m - i - 2) - 1, k \in P PROVE k + 1 \in P
  <2>1. \A j \in i + k..i + k + 2 : l[j] = x
    BY <1>4
  <2>2. i + k \in 1..Len(l) - 3
    BY <1>1
  <2>3. l[(i + k) + 3] = x
    BY <2>1, <2>2
  <2>4. ASSUME NEW j \in i + (k + 1)..i + (k + 1) + 2 PROVE l[j] = x
    <3>1. j \in i + k..i + k + 2 \/ j = (i + k) + 3
      BY <1>1
    <3> QED
      BY <2>1, <2>3, <3>1
  <2> QED
    BY <1>1, <2>4
<1> HIDE DEF P
<1>5. m - i - 2 \in Nat
  BY <1>1
<1>6. 0..m - i - 2 \subseteq P
  BY <1>3, <1>4, <1>5, InductionUpTo
<1>7. PICK k \in 0..m - i - 2 : k = m - i - 2
  BY <1>5
<1>8. \A j \in i + k..i + k + 2 : l[j] = x
  BY <1>6, <1>7 DEF P
<1>9. m \in i + k..i + k + 2
  BY <1>1, <1>7
<1> QED
  BY <1>8, <1>9

LEMMA NonEmptyFirst ==
  ASSUME NEW T, NEW u \in Seq(T), u # <<>>, NEW r \in Seq(Seq(T))
  PROVE  LET words == NonEmpty(<<u>> \o r) IN Len(words) > 0 /\ words[1] = u
<1> DEFINE Good(words) == Len(words) > 0 /\ words[1] = u
           P == {t \in Seq(Seq(T)) : Good(NonEmpty(<<u>> \o t))}
<1>1. <<u>> \in Seq(Seq(T)) /\ <<u>> = Append(<<>>, u) /\ <<>> \in Seq(Seq(T))
  OBVIOUS
<1>2. <<>> \in P
  <2>1. <<u>> \o <<>> = <<u>>
    BY <1>1, ConcatEmptySeq
  <2>2. NonEmpty(<<u>>) = Append(<<>>, u)
    BY <1>1, NonEmptyAppend, NonEmptyNone
  <2>3. Good(<<u>>)
    OBVIOUS
  <2> HIDE DEF Good
  <2> QED
    BY <1>1, <2>1, <2>2, <2>3
<1>3. ASSUME NEW t \in Seq(Seq(T)), t \in P, NEW e \in Seq(T) PROVE Append(t, e) \in P
  <2> DEFINE k == <<u>> \o t
  <2>1. k \in Seq(Seq(T)) /\ <<u>> \o Append(t, e) = Append(k, e) /\ Append(t, e) \in Seq(Seq(T))
    BY <1>1, ConcatAppend, ConcatProperties, AppendProperties
  <2>2. Good(NonEmpty(k))
    BY <1>3
  <2> HIDE DEF k
  <2>3. NonEmpty(k) \in Seq(Seq(T))
    BY <2>1, NonEmptyTyped
  <2>4. NonEmpty(Append(k, e)) = IF e = <<>> THEN NonEmpty(k) ELSE Append(NonEmpty(k), e)
    BY <2>1, NonEmptyAppend
  <2>5. Good(Append(NonEmpty(k), e))
    BY <2>2, <2>3, AppendProperties
  <2> HIDE DEF Good
  <2>6. Good(NonEmpty(Append(k, e)))
    BY <2>2, <2>4, <2>5
  <2> QED
    BY <2>1, <2>6
<1> HIDE DEF P
<1>4. Seq(Seq(T)) \subseteq P
  BY <1>2, <1>3, SequenceInduction
<1> QED
  BY <1>4 DEF P

(* The first word of a line that does not begin with x. *)
LEMMA FirstWord ==
  ASSUME NEW T, NEW x, NEW s \in Seq(T), s # <<>>, s[1] # x
  PROVE  \E p \in 1..Len(s) : /\ Len(NonEmpty(Split(s, x))) > 0
                              /\ NonEmpty(Split(s, x))[1] = SubSeq(s, 1, p)
                              /\ \A j \in 1..p : s[j] # x
<1> DEFINE n == Len(s)
<1>1. n \in Nat \ {0}
  BY EmptySeq
<1>2. CASE x \notin Bytes(s)
  <2>1. Split(s, x) = <<s>> \o <<>>
    <3>1. <<s>> \o <<>> = <<s>>
      OBVIOUS
    <3> QED
      BY <1>2, <3>1, SplitOne
  <2>2. <<>> \in Seq(Seq(T))
    OBVIOUS
  <2>3. Len(NonEmpty(Split(s, x))) > 0 /\ NonEmpty(Split(s, x))[1] = s
    BY <2>1, <2>2, NonEmptyFirst
  <2>4. SubSeq(s, 1, n) = s
    BY SubSeqFull
  <2>5. \A j \in 1..n : s[j] # x
    BY <1>2 DEF Bytes
  <2>6. n \in 1..Len(s)
    BY <1>1
  <2> HIDE DEF n
  <2> QED
    BY <2>3, <2>4, <2>5, <2>6
<1>3. CASE x \in Bytes(s)
  <2>1. PICK p \in 1..n : s[p] = x /\ \A k \in 1..p - 1 : s[k] # x
    BY <1>3, FirstByte
  <2> DEFINE u == SubSeq(s, 1, p - 1)
             v == SubSeq(s, p + 1, n)
  <2>2. x \in T
    BY <2>1, ElementOfSeq
  <2>3. Split(s, x) = <<u>> \o Split(v, x)
    BY <2>1, <2>2, SplitFirst
  <2>4. p # 1 /\ p - 1 \in 1..n
    BY <1>1, <2>1
  <2>5. u \in Seq(T) /\ Len(u) = p - 1 /\ v \in Seq(T)
    <3>1. 1 \in 1..n + 1 /\ p - 1 \in 0..n /\ p + 1 \in 1..n + 1 /\ n \in 0..n
      BY <1>1, <2>4
    <3> QED
      BY <2>4, <3>1, BytesSubSeq
  <2>6. u # <<>>
    BY <2>4, <2>5
  <2> HIDE DEF u, v, n
  <2>7. Split(v, x) \in Seq(Seq(T))
    BY <2>5, SplitTyped DEF Pieces
  <2>8. Len(NonEmpty(Split(s, x))) > 0 /\ NonEmpty(Split(s, x))[1] = u
    BY <2>3, <2>5, <2>6, <2>7, NonEmptyFirst
  <2> QED
    BY <2>1, <2>4, <2>8 DEF u, n
<1> QED
  BY <1>2, <1>3

(* A word that ends with the colon behind a name loses it. *)
LEMMA ColonTrimmed ==
  ASSUME NEW T, NEW w \in Seq(T), IsName(SubSeq(w, 1, Len(w) - 1)), w[Len(w)] = COLON
  PROVE  /\ Len(w) \in Nat /\ Len(w) > 1
         /\ TrimRight(w, COLON) = SubSeq(w, 1, Len(w) - 1)
<1> DEFINE n == Len(w)
<1>1. PICK k \in 0..n : /\ TrimRight(w, COLON) = SubSeq(w, 1, k)
                        /\ k > 0 => w[k] # COLON
                        /\ \A i \in k + 1..n : w[i] = COLON
  BY TrimRightCut
<1>2. n \in Nat /\ n - 1 > 0
  <2>1. n \in Nat
    OBVIOUS
  <2>2. n - 1 < 1 => SubSeq(w, 1, n - 1) = <<>>
    BY <2>1, SubSeqEmpty
  <2> HIDE DEF n
  <2> QED
    BY <2>1, <2>2 DEF IsName, n
<1>3. w[n - 1] # COLON
  <2>1. SubSeq(w, 1, n - 1) \in Seq(T) /\ Bytes(SubSeq(w, 1, n - 1)) = {w[i] : i \in 1..n - 1}
    <3>1. 1 \in 1..n + 1 /\ n - 1 \in 0..n
      BY <1>2
    <3> QED
      BY <3>1, BytesSubSeq
  <2>2. n - 1 \in 1..n - 1
    BY <1>2
  <2>3. w[n - 1] \in Letter
    BY <2>1, <2>2 DEF IsName
  <2> QED
    BY <2>3, ListAssumption
<1>4. k # n
  BY <1>1, <1>2
<1>5. ~(k < n - 1)
  <2> SUFFICES ASSUME k < n - 1 PROVE FALSE
    OBVIOUS
  <2>1. n - 1 \in k + 1..n
    BY <1>2
  <2> QED
    BY <1>1, <1>3, <2>1
<1>6. k = n - 1
  BY <1>2, <1>4, <1>5
<1> QED
  BY <1>1, <1>2, <1>6

(* A well-formed line is cut into the names that it mentions. *)
LEMMA LineTokens ==
  ASSUME NEW T, NEW l \in Seq(T), l # <<>>, WellFormed(l)
  PROVE  Matches(l) /\ TokeniseLine(l) = Tokens(l) /\ Tokens(l) \in Pieces(T)
<1> DEFINE n == Len(l)
           W == Words(l)
           w == W[1]
<1>1. n \in Nat \ {0} /\ l[1] # SPACE
  BY EmptySeq DEF WellFormed
<1>2. PICK m \in 0..n : /\ TrimRight(l, SPACE) = SubSeq(l, 1, m)
                        /\ m > 0 => l[m] # SPACE
                        /\ \A i \in m + 1..n : l[i] = SPACE
  BY TrimRightCut
<1>3. m \in 1..n
  <2>1. m # 0
    <3>1. 1 \in 0 + 1..n
      BY <1>1
    <3> QED
      BY <1>1, <1>2, <3>1
  <2> QED
    BY <1>1, <2>1
<1> DEFINE t == SubSeq(l, 1, m)
<1>4. t \in Seq(T) /\ Len(t) = m /\ t # <<>> /\ t[1] # SPACE /\ t[m] # SPACE
  <2>1. t \in Seq(T) /\ Len(t) = m /\ \A i \in 1..m : t[i] = l[i]
    BY <1>3
  <2>2. m > 0 /\ 1 \in 1..m /\ m \in 1..m
    BY <1>3
  <2> QED
    BY <1>1, <1>2, <2>1, <2>2
<1>5. NoThree(t, SPACE)
  BY <1>2, <1>3, NoThreeBefore DEF WellFormed
<1>6. W = NonEmpty(Split(t, SPACE))
  BY <1>2, EndNoWords DEF Words
<1>7. Split(Halve(TrimRight(l, SPACE), SPACE), SPACE) = W
  <2> HIDE DEF t, W
  <2>1. TrimRight(l, SPACE) = t
    BY <1>2 DEF t
  <2>2. t[Len(t)] # SPACE
    BY <1>4
  <2> QED
    BY <1>4, <1>5, <1>6, <2>1, <2>2, HalveWords
<1>8. PICK p \in 1..n : /\ Len(W) > 0
                        /\ w = SubSeq(l, 1, p)
                        /\ \A j \in 1..p : l[j] # SPACE
  BY <1>1, FirstWord DEF Words
<1>9. W \in Seq(Seq(T)) /\ w \in Seq(T)
  <2>1. W \in Seq(Seq(T))
    BY SplitTyped, NonEmptyTyped DEF Words, Pieces
  <2> HIDE DEF W
  <2>2. 1 \in 1..Len(W)
    BY <1>8, <2>1
  <2> QED
    BY <2>1, <2>2, ElementOfSeq
<1>10. IsName(SubSeq(w, 1, Len(w) - 1)) /\ w[Len(w)] = COLON
  BY DEF WellFormed
<1> HIDE DEF W
<1>11. /\ Len(w) \in Nat /\ Len(w) > 1
       /\ TrimRight(w, COLON) = SubSeq(w, 1, Len(w) - 1)
  <2> HIDE DEF w
  <2> QED
    BY <1>9, <1>10, ColonTrimmed
<1>12. Matches(l)
  <2>1. Len(w) = p /\ w[p] = l[p]
    BY <1>8
  <2>2. l[p] = COLON /\ p \in 2..n
    BY <1>10, <1>11, <2>1
  <2>3. \A j \in 1..p - 1 : l[j] # SPACE
    BY <1>8
  <2> QED
    BY <2>2, <2>3 DEF Matches
<1> DEFINE v == SubSeq(w, 1, Len(w) - 1)
<1>13. TokeniseLine(l) = [W EXCEPT ![1] = TrimRight(W[1], COLON)]
  BY <1>7 DEF TokeniseLine
<1>14. Tokens(l) = [i \in DOMAIN W |-> IF i = 1 THEN v ELSE W[i]]
  BY DEF Tokens, W
<1>15. v \in Seq(T)
  <2>1. 1 \in 1..Len(w) + 1 /\ Len(w) - 1 \in 0..Len(w)
    BY <1>11
  <2> HIDE DEF w
  <2> QED
    BY <1>9, <2>1, BytesSubSeq
<1>16. [W EXCEPT ![1] = v] = [i \in DOMAIN W |-> IF i = 1 THEN v ELSE W[i]]
  BY <1>9
<1>17. [W EXCEPT ![1] = v] \in Seq(Seq(T)) /\ Len([W EXCEPT ![1] = v]) = Len(W)
  <2> HIDE DEF v
  <2>1. 1 \in 1..Len(W)
    BY <1>8, <1>9
  <2> QED
    BY <1>9, <1>15, <2>1, ExceptSeq
<1> HIDE DEF v
<1>18. TokeniseLine(l) = [W EXCEPT ![1] = v]
  BY <1>11, <1>13 DEF v
<1>19. [W EXCEPT ![1] = v] # <<>>
  BY <1>8, <1>17
<1> QED
  BY <1>12, <1>14, <1>16, <1>17, <1>18, <1>19 DEF Pieces

-----------------------------------------------------------------------------
(* The packages are those mentioned, in the order of their first mention.  *)

LEMMA FirstsTyped ==
  ASSUME NEW names, NEW V, names \in Seq(V)
  PROVE  Firsts(names) \subseteq 1..Len(names) /\ IsFiniteSet(Firsts(names))
<1>1. Firsts(names) \subseteq 1..Len(names)
  BY DEF Firsts
<1>2. IsFiniteSet(1..Len(names))
  BY FS_Interval
<1> QED
  BY <1>1, <1>2, FS_Subset

(* A name mentioned once more. *)
LEMMA FirstsAppend ==
  ASSUME NEW V, NEW names \in Seq(V), NEW w \in V
  PROVE  Firsts(Append(names, w)) =
           IF w \in Bytes(names) THEN Firsts(names) ELSE Firsts(names) \cup {Len(names) + 1}
<1> DEFINE n == Len(names)
           t == Append(names, w)
<1>1. n \in Nat /\ DOMAIN names = 1..n /\ DOMAIN t = 1..n + 1
      /\ t[n + 1] = w /\ \A i \in 1..n : t[i] = names[i]
  BY AppendProperties
<1> HIDE DEF n, t
<1>2. \A i \in 1..n : \A j \in 1..i - 1 : j \in 1..n
  BY <1>1
<1>3. ASSUME NEW i \in 1..n PROVE i \in Firsts(t) <=> i \in Firsts(names)
  <2>1. i \in 1..n + 1
    BY <1>1
  <2>2. (\A j \in 1..i - 1 : t[j] # t[i]) <=> \A j \in 1..i - 1 : names[j] # names[i]
    BY <1>1, <1>2
  <2> QED
    BY <1>1, <2>1, <2>2 DEF Firsts
<1>4. n + 1 \in Firsts(t) <=> w \notin Bytes(names)
  <2>1. n + 1 \in 1..n + 1 /\ (n + 1) - 1 = n
    BY <1>1
  <2>2. n + 1 \in Firsts(t) <=> \A j \in 1..n : t[j] # w
    BY <1>1, <2>1 DEF Firsts
  <2>3. w \in Bytes(names) <=> \E j \in 1..n : names[j] = w
    BY <1>1 DEF Bytes
  <2> QED
    BY <1>1, <2>2, <2>3
<1>5. Firsts(t) \subseteq 1..n + 1 /\ Firsts(names) \subseteq 1..n
  BY <1>1 DEF Firsts
<1>6. \A i \in 1..n + 1 : i \in 1..n \/ i = n + 1
  BY <1>1
<1>7. n + 1 \notin 1..n
  BY <1>1
<1>8. CASE w \in Bytes(names)
  <2>1. Firsts(t) \subseteq Firsts(names) /\ Firsts(names) \subseteq Firsts(t)
    BY <1>3, <1>4, <1>5, <1>6, <1>8
  <2> QED
    BY <1>8, <2>1 DEF n, t
<1>9. CASE w \notin Bytes(names)
  <2>1. /\ Firsts(t) \subseteq Firsts(names) \cup {n + 1}
        /\ Firsts(names) \cup {n + 1} \subseteq Firsts(t)
    BY <1>3, <1>4, <1>5, <1>6, <1>9
  <2> QED
    BY <1>9, <2>1 DEF n, t
<1> QED
  BY <1>8, <1>9

\* How many names there are up to i.
Place(names, i) == Cardinality(Firsts(names) \cap 1..i)

LEMMA PlaceAppend ==
  ASSUME NEW V, NEW names \in Seq(V), NEW w \in V
  PROVE  /\ \A i \in Firsts(names) : Place(Append(names, w), i) = Place(names, i)
         /\ Cardinality(Firsts(names)) \in Nat
         /\ w \notin Bytes(names) =>
              /\ Cardinality(Firsts(Append(names, w))) = Cardinality(Firsts(names)) + 1
              /\ Place(Append(names, w), Len(names) + 1) = Cardinality(Firsts(names)) + 1
<1> DEFINE n == Len(names)
           F == Firsts(names)
           G == Firsts(Append(names, w))
<1>1. n \in Nat /\ F \subseteq 1..n /\ IsFiniteSet(F)
  BY FirstsTyped
<1>2. G = IF w \in Bytes(names) THEN F ELSE F \cup {n + 1}
  BY FirstsAppend
<1>3. Cardinality(F) \in Nat
  BY <1>1, FS_CardinalityType
<1>4. \A i \in F : Place(Append(names, w), i) = Place(names, i)
  <2> HIDE DEF n, F, G
  <2> SUFFICES ASSUME NEW i \in F PROVE G \cap 1..i = F \cap 1..i
    BY DEF Place, F, G
  <2>1. i \in 1..n /\ n + 1 \notin 1..i
    BY <1>1
  <2> QED
    BY <1>2, <2>1
<1>5. ASSUME w \notin Bytes(names)
      PROVE  /\ Cardinality(G) = Cardinality(F) + 1
             /\ Place(Append(names, w), n + 1) = Cardinality(F) + 1
  <2>0. Place(Append(names, w), n + 1) = Cardinality(G \cap 1..n + 1)
    BY DEF Place
  <2> HIDE DEF n, F, G
  <2>1. n + 1 \notin F
    BY <1>1
  <2>2. G = F \cup {n + 1}
    BY <1>2, <1>5
  <2>3. Cardinality(G) = Cardinality(F) + 1
    BY <1>1, <2>1, <2>2, FS_AddElement
  <2>4. G \cap 1..n + 1 = G
    <3>1. 1..n \subseteq 1..n + 1 /\ n + 1 \in 1..n + 1
      BY <1>1
    <3> QED
      BY <1>1, <2>2, <3>1
  <2> QED
    BY <2>0, <2>3, <2>4
<1> QED
  BY <1>3, <1>4, <1>5

LEMMA FirstOfName ==
  ASSUME NEW V, NEW names \in Seq(V), NEW w \in Bytes(names)
  PROVE  \E i \in Firsts(names) : names[i] = w
<1>1. PICK p \in 1..Len(names) : names[p] = w /\ \A k \in 1..p - 1 : names[k] # w
  BY FirstByte
<1> QED
  BY <1>1 DEF Firsts

(* The list of packages that names, mentioned in this order, and the       *)
(* dependencies given to each of them make.                                *)
AsMentioned(T, all, names, deps) ==
  /\ \A w \in Seq(T) : w \notin Bytes(names) => deps[w] = <<>>
  /\ Len(all) = Cardinality(Firsts(names))
  /\ \A i \in Firsts(names) :
       /\ Place(names, i) \in 1..Len(all)
       /\ all[Place(names, i)] = [name |-> names[i], deps |-> deps[names[i]]]
  /\ \A k \in 1..Len(all) : \E i \in Firsts(names) : k = Place(names, i)

Dependencies(T) == [Seq(T) -> Seq(Seq(T))]

LEMMA NamedMentioned ==
  ASSUME NEW T, NEW all \in Seq(Package(T)), NEW names \in Seq(Seq(T)), NEW w \in Seq(T),
         NEW deps, AsMentioned(T, all, names, deps)
  PROVE  AsMentioned(T, Named(all, w), Append(names, w), deps)
<1> DEFINE n == Len(names)
           t == Append(names, w)
           F == Firsts(names)
           a == Len(all)
<1>1. n \in Nat /\ F \subseteq 1..n /\ t[n + 1] = w /\ \A i \in 1..n : t[i] = names[i]
  BY FirstsTyped, AppendProperties
<1>2. Bytes(t) = Bytes(names) \cup {w}
  BY BytesAppend
<1>3. Firsts(t) = IF w \in Bytes(names) THEN F ELSE F \cup {n + 1}
  BY FirstsAppend
<1>4. /\ \A i \in F : Place(t, i) = Place(names, i)
      /\ w \notin Bytes(names) => Cardinality(Firsts(t)) = Cardinality(F) + 1
                                  /\ Place(t, n + 1) = Cardinality(F) + 1
  BY PlaceAppend
<1>5. /\ \A u \in Seq(T) : u \notin Bytes(names) => deps[u] = <<>>
      /\ a = Cardinality(F)
      /\ \A i \in F : /\ Place(names, i) \in 1..a
                      /\ all[Place(names, i)] = [name |-> names[i], deps |-> deps[names[i]]]
      /\ \A k \in 1..a : \E i \in F : k = Place(names, i)
  BY DEF AsMentioned
<1>6. a \in Nat /\ DOMAIN all = 1..a
  OBVIOUS
<1>7. Has(all, w) <=> w \in Bytes(names)
  <2> HIDE DEF F, t, a
  <2>1. ASSUME Has(all, w) PROVE w \in Bytes(names)
    <3>1. PICK k \in 1..a : all[k].name = w
      BY <1>6, <2>1 DEF Has
    <3>2. PICK i \in F : k = Place(names, i)
      BY <1>5
    <3>3. all[k] = [name |-> names[i], deps |-> deps[names[i]]]
      BY <1>5, <3>2
    <3>4. all[k].name = names[i]
      BY <3>3
    <3>5. i \in DOMAIN names
      BY <1>1
    <3> QED
      BY <3>1, <3>4, <3>5 DEF Bytes
  <2>2. ASSUME w \in Bytes(names) PROVE Has(all, w)
    <3>1. PICK i \in F : names[i] = w
      BY <2>2, FirstOfName DEF F
    <3>2. PICK k \in 1..a : k = Place(names, i)
      BY <1>5
    <3>3. all[k] = [name |-> names[i], deps |-> deps[names[i]]]
      BY <1>5, <3>2
    <3>4. all[k].name = w
      BY <3>1, <3>3
    <3> QED
      BY <1>6, <3>4 DEF Has
  <2> QED
    BY <2>1, <2>2
<1> HIDE DEF n, t, F, a
<1>8. \A u \in Seq(T) : u \notin Bytes(t) => deps[u] = <<>>
  BY <1>2, <1>5
<1>9. CASE w \in Bytes(names)
  <2>1. Named(all, w) = all /\ Firsts(t) = F
    BY <1>3, <1>7, <1>9 DEF Named
  <2>2. \A i \in F : /\ Place(t, i) \in 1..a
                     /\ all[Place(t, i)] = [name |-> t[i], deps |-> deps[t[i]]]
    BY <1>1, <1>4, <1>5
  <2>3. \A k \in 1..a : \E i \in F : k = Place(t, i)
    BY <1>4, <1>5
  <2> QED
    BY <1>5, <1>8, <2>1, <2>2, <2>3 DEF AsMentioned, a, t
<1>10. CASE w \notin Bytes(names)
  <2> DEFINE p == [name |-> w, deps |-> <<>>]
             r == Append(all, p)
  <2>1. Named(all, w) = r /\ Firsts(t) = F \cup {n + 1}
    BY <1>3, <1>7, <1>10 DEF Named
  <2>2. p \in Package(T)
    BY DEF Package
  <2>3. p = [name |-> w, deps |-> deps[w]]
    BY <1>5, <1>10
  <2> HIDE DEF p
  <2>4. Len(r) = a + 1 /\ r[a + 1] = p /\ \A k \in 1..a : r[k] = all[k]
    BY <2>2, AppendProperties DEF a
  <2> HIDE DEF r
  <2>5. \A k \in 1..a : k \in 1..a + 1
    BY <1>6
  <2>6. a + 1 \in 1..a + 1 /\ \A k \in 1..a + 1 : k \in 1..a \/ k = a + 1
    BY <1>6
  <2>7. Place(t, n + 1) = a + 1 /\ Cardinality(Firsts(t)) = a + 1
    BY <1>4, <1>5, <1>10
  <2>8. ASSUME NEW i \in F \cup {n + 1}
        PROVE  Place(t, i) \in 1..a + 1 /\ r[Place(t, i)] = [name |-> t[i], deps |-> deps[t[i]]]
    <3>1. CASE i \in F
      <4>1. i \in 1..n /\ Place(t, i) = Place(names, i) /\ t[i] = names[i]
        BY <1>1, <1>4, <3>1
      <4>2. Place(t, i) \in 1..a /\ all[Place(t, i)] = [name |-> t[i], deps |-> deps[t[i]]]
        BY <1>5, <3>1, <4>1
      <4> QED
        BY <2>4, <2>5, <4>2
    <3>2. CASE i = n + 1
      BY <1>1, <2>3, <2>4, <2>6, <2>7, <3>2
    <3> QED
      BY <3>1, <3>2
  <2>9. ASSUME NEW k \in 1..a + 1 PROVE \E i \in F \cup {n + 1} : k = Place(t, i)
    <3>1. CASE k \in 1..a
      BY <1>4, <1>5, <3>1
    <3>2. CASE k = a + 1
      BY <2>7, <3>2
    <3> QED
      BY <2>6, <3>1, <3>2
  <2> QED
    BY <1>8, <2>1, <2>4, <2>7, <2>8, <2>9 DEF AsMentioned, t
<1> QED
  BY <1>9, <1>10

LEMMA AddMentioned ==
  ASSUME NEW T, NEW all \in Seq(Package(T)), NEW names \in Seq(Seq(T)),
         NEW p \in Bytes(names), NEW d \in Seq(T),
         NEW deps \in Dependencies(T), AsMentioned(T, all, names, deps)
  PROVE  AsMentioned(T, AddDependency(all, p, d), names, [deps EXCEPT ![p] = Append(@, d)])
<1> DEFINE F == Firsts(names)
           a == Len(all)
           r == AddDependency(all, p, d)
           more == [deps EXCEPT ![p] = Append(@, d)]
<1>1. F \subseteq 1..Len(names) /\ Bytes(names) \subseteq Seq(T) /\ \A i \in F : names[i] \in Seq(T)
  <2>1. \A i \in 1..Len(names) : names[i] \in Seq(T)
    BY ElementOfSeq
  <2> QED
    BY <2>1, FirstsTyped DEF Bytes
<1>2. deps \in [Seq(T) -> Seq(Seq(T))] /\ p \in Seq(T)
  BY <1>1 DEF Dependencies
<1>3. /\ \A u \in Seq(T) : u \notin Bytes(names) => deps[u] = <<>>
      /\ a = Cardinality(F)
      /\ \A i \in F : /\ Place(names, i) \in 1..a
                      /\ all[Place(names, i)] = [name |-> names[i], deps |-> deps[names[i]]]
      /\ \A k \in 1..a : \E i \in F : k = Place(names, i)
  BY DEF AsMentioned
<1>4. r = [i \in 1..a |-> IF all[i].name = p
                          THEN [all[i] EXCEPT !.deps = Append(@, d)] ELSE all[i]]
  BY DEF AddDependency
<1>5. a \in Nat
  OBVIOUS
<1>6. \A u \in Seq(T) : more[u] = IF u = p THEN Append(deps[u], d) ELSE deps[u]
  BY <1>2
<1> HIDE DEF F, a, r, more
<1>7. Len(r) = a
  BY <1>4, <1>5
<1>8. ASSUME NEW i \in F
      PROVE  r[Place(names, i)] = [name |-> names[i], deps |-> more[names[i]]]
  <2>1. PICK k \in 1..a : k = Place(names, i)
    BY <1>3
  <2>2. all[k] = [name |-> names[i], deps |-> deps[names[i]]]
    BY <1>3, <2>1
  <2>7. all[k].name = names[i] /\ all[k].deps = deps[names[i]]
    BY <2>2
  <2>3. r[k] = IF names[i] = p THEN [all[k] EXCEPT !.deps = Append(@, d)] ELSE all[k]
    BY <1>4, <2>7
  <2>4. more[names[i]] = IF names[i] = p THEN Append(deps[names[i]], d) ELSE deps[names[i]]
    BY <1>1, <1>6
  <2>5. CASE names[i] = p
    <3>1. PICK z : z = Append(deps[names[i]], d)
      OBVIOUS
    <3>2. r[k] = [all[k] EXCEPT !.deps = z]
      BY <2>3, <2>5, <2>7, <3>1
    <3>3. [all[k] EXCEPT !.deps = z] = [name |-> names[i], deps |-> z]
      BY <2>2
    <3>4. more[names[i]] = z
      BY <2>4, <2>5, <3>1
    <3> QED
      BY <2>1, <3>2, <3>3, <3>4
  <2>6. CASE names[i] # p
    BY <2>1, <2>2, <2>3, <2>4, <2>6
  <2> QED
    BY <2>5, <2>6
<1>9. \A u \in Seq(T) : u \notin Bytes(names) => more[u] = <<>>
  BY <1>3, <1>6
<1> QED
  BY <1>3, <1>7, <1>8, <1>9 DEF AsMentioned, F, r, more

LEMMA TokenMentioned ==
  ASSUME NEW T, NEW all \in Closed(T), NEW names \in Seq(Seq(T)),
         NEW p \in Bytes(names), NEW d \in Seq(T),
         NEW deps \in Dependencies(T), AsMentioned(T, all, names, deps)
  PROVE  /\ AsMentioned(T, AddDependency(Named(all, d), p, d), Append(names, d),
                        [deps EXCEPT ![p] = Append(@, d)])
         /\ p \in Bytes(Append(names, d))
<1>1. all \in Seq(Package(T)) /\ Named(all, d) \in Seq(Package(T))
  BY NamedClosed DEF Closed
<1>2. AsMentioned(T, Named(all, d), Append(names, d), deps)
  BY <1>1, NamedMentioned
<1>3. p \in Bytes(Append(names, d))
  BY BytesAppend
<1>4. Append(names, d) \in Seq(Seq(T))
  BY AppendProperties
<1> QED
  BY <1>1, <1>2, <1>3, <1>4, AddMentioned

(* The dependencies with those of one more line. *)
DepsWith(deps, p, more) == [deps EXCEPT ![p] = @ \o more]

LEMMA TokensMentioned ==
  ASSUME NEW T, NEW all \in Closed(T), NEW names \in Seq(Seq(T)),
         NEW tokens \in Pieces(T), NEW deps \in Dependencies(T),
         AsMentioned(T, all, names, deps)
  PROVE  AsMentioned(T, TokensToPackage(all, tokens), names \o tokens,
                     DepsWith(deps, tokens[1], Tail(tokens)))
<1> DEFINE n == Len(tokens)
           p == tokens[1]
           ns(i) == names \o SubSeq(tokens, 1, i)
           ds(i) == DepsWith(deps, p, SubSeq(tokens, 2, i))
<1>1. n \in Nat /\ n >= 1 /\ \A i \in 1..n : tokens[i] \in Seq(T)
  <2>1. tokens \in Seq(Seq(T)) /\ tokens # <<>>
    BY DEF Pieces
  <2>2. n \in Nat /\ n # 0 /\ \A i \in 1..n : tokens[i] \in Seq(T)
    BY <2>1, EmptySeq, ElementOfSeq
  <2> HIDE DEF n
  <2> QED
    BY <2>2
<1>2. tokens \in Seq(Seq(T)) /\ p \in Seq(T) /\ deps \in [Seq(T) -> Seq(Seq(T))]
  BY <1>1 DEF Pieces, Dependencies
<1>3. PICK f \in [0..n -> Closed(T)] :
        /\ TokensToPackage(all, tokens) = f[n]
        /\ Follows(f, n, all, TokensStep(T, all, tokens))
  BY TokensFunction
<1> DEFINE Reached(i) == AsMentioned(T, f[i], ns(i), ds(i)) /\ p \in Bytes(ns(i))
           P == {i \in Nat : i \in 1..n => Reached(i)}
<1>4. Reached(1)
  <2>1. f[1] = Named(all, p)
    <3>1. f[1] = TokensStep(T, all, tokens)[1][f[0]] /\ f[0] = all
      BY <1>1, <1>3 DEF Follows
    <3> QED
      BY <1>1, <3>1 DEF TokensStep
  <2>2. SubSeq(tokens, 1, 1) = <<p>> /\ SubSeq(tokens, 2, 1) = <<>>
    <3>1. PICK k \in 1..Len(tokens) : k = 1
      BY <1>1
    <3>2. SubSeq(tokens, 1, k) = SubSeq(tokens, 1, k - 1) \o <<tokens[k]>>
      BY <1>2, <3>1, SubSeqRecursiveSecond
    <3>3. SubSeq(tokens, 1, k - 1) = <<>> /\ SubSeq(tokens, 2, k) = <<>>
      BY <3>1, SubSeqEmpty
    <3>4. <<>> \o <<tokens[k]>> = <<tokens[k]>>
      OBVIOUS
    <3> QED
      BY <3>1, <3>2, <3>3, <3>4
  <2>3. ns(1) = Append(names, p)
    BY <1>2, <2>2, AppendIsConcat
  <2>4. ds(1) = deps
    <3>1. deps[p] \o <<>> = deps[p]
      BY <1>2, ConcatEmptySeq
    <3> HIDE DEF p
    <3>2. [deps EXCEPT ![p] = deps[p]] = deps
      BY <1>2
    <3> QED
      BY <2>2, <3>1, <3>2 DEF DepsWith
  <2>5. all \in Seq(Package(T))
    BY DEF Closed
  <2> HIDE DEF ns, ds, p
  <2>6. AsMentioned(T, Named(all, p), Append(names, p), deps)
    BY <1>2, <2>5, NamedMentioned
  <2>7. p \in Bytes(Append(names, p))
    BY <1>2, BytesAppend
  <2> QED
    BY <2>1, <2>3, <2>4, <2>6, <2>7
<1>5. ASSUME NEW i \in 1..n - 1, Reached(i) PROVE Reached(i + 1)
  <2> DEFINE d == tokens[i + 1]
  <2>1. i \in 0..n /\ i \in 0..n - 1 /\ i + 1 \in 1..n /\ (i + 1) - 1 = i /\ i + 1 # 1
    BY <1>1
  <2>2. f[i] \in Closed(T) /\ d \in Seq(T)
    BY <1>1, <2>1
  <2>3. f[i + 1] = AddDependency(Named(f[i], d), p, d)
    <3>1. f[i + 1] = TokensStep(T, all, tokens)[i + 1][f[i]]
      BY <1>3, <2>1 DEF Follows
    <3> QED
      BY <2>1, <2>2, <3>1 DEF TokensStep
  <2>4. /\ SubSeq(tokens, 1, i) \in Seq(Seq(T)) /\ SubSeq(tokens, 2, i) \in Seq(Seq(T))
        /\ SubSeq(tokens, 1, i + 1) = Append(SubSeq(tokens, 1, i), d)
        /\ SubSeq(tokens, 2, i + 1) = Append(SubSeq(tokens, 2, i), d)
    <3>1. /\ 1 \in 1..n /\ 2 \in 1..n /\ i + 1 \in 1..n /\ i + 1 \in 2..n
          /\ 1 \in 1..n + 1 /\ 2 \in 1..n + 1
      BY <1>1
    <3>2. SubSeq(tokens, 1, i) \in Seq(Seq(T)) /\ SubSeq(tokens, 2, i) \in Seq(Seq(T))
      BY <1>2, <2>1, <3>1, BytesSubSeq
    <3>3. SubSeq(tokens, 1, i + 1) = SubSeq(tokens, 1, (i + 1) - 1) \o <<d>>
      BY <1>2, <3>1, SubSeqRecursiveSecond
    <3>4. SubSeq(tokens, 2, i + 1) = SubSeq(tokens, 2, (i + 1) - 1) \o <<d>>
      BY <1>2, <3>1, SubSeqRecursiveSecond
    <3> HIDE DEF d
    <3> QED
      BY <2>1, <2>2, <3>2, <3>3, <3>4, AppendIsConcat
  <2>5. ns(i + 1) = Append(ns(i), d) /\ ns(i) \in Seq(Seq(T))
    <3> HIDE DEF d
    <3> QED
      BY <2>2, <2>4, ConcatAppend, ConcatProperties
  <2>6. ds(i) \in Dependencies(T) /\ ds(i + 1) = [ds(i) EXCEPT ![p] = Append(@, d)]
    <3> DEFINE a == SubSeq(tokens, 2, i)
    <3>1. deps[p] \in Seq(Seq(T)) /\ a \in Seq(Seq(T))
      BY <1>2, <2>4
    <3>2. deps[p] \o a \in Seq(Seq(T)) /\ deps[p] \o Append(a, d) = Append(deps[p] \o a, d)
      <4> HIDE DEF a, p, d
      <4>1. PICK c \in Seq(Seq(T)) : c = deps[p]
        BY <3>1
      <4>2. c \o a \in Seq(Seq(T)) /\ c \o Append(a, d) = Append(c \o a, d)
        BY <2>2, <3>1, ConcatAppend, ConcatProperties
      <4> QED
        BY <4>1, <4>2
    <3>3. ds(i) = [deps EXCEPT ![p] = deps[p] \o a]
      BY DEF DepsWith
    <3>4. ds(i + 1) = [deps EXCEPT ![p] = Append(deps[p] \o a, d)]
      BY <2>4, <3>2 DEF DepsWith
    <3> HIDE DEF a, p, d, ds
    <3>5. PICK z \in Seq(Seq(T)) : z = deps[p] \o a
      BY <3>2
    <3>6. [deps EXCEPT ![p] = z] \in [Seq(T) -> Seq(Seq(T))] /\ [deps EXCEPT ![p] = z][p] = z
      BY <1>2
    <3>7. [[deps EXCEPT ![p] = z] EXCEPT ![p] = Append(z, d)] = [deps EXCEPT ![p] = Append(z, d)]
      BY <1>2
    <3> QED
      BY <3>3, <3>4, <3>5, <3>6, <3>7 DEF Dependencies
  <2> HIDE DEF ns, ds, d, p
  <2>7. AsMentioned(T, f[i], ns(i), ds(i)) /\ p \in Bytes(ns(i))
    BY <1>5
  <2>8. /\ AsMentioned(T, AddDependency(Named(f[i], d), p, d), Append(ns(i), d),
                       [ds(i) EXCEPT ![p] = Append(@, d)])
        /\ p \in Bytes(Append(ns(i), d))
    BY <2>2, <2>5, <2>6, <2>7, TokenMentioned
  <2> QED
    BY <2>3, <2>5, <2>6, <2>8
<1> HIDE DEF Reached
<1>6. 0 \in P
  OBVIOUS
<1>7. ASSUME NEW i \in 0..n - 1, i \in P PROVE i + 1 \in P
  <2>1. i = 0 \/ (i \in 1..n - 1 /\ i \in 1..n)
    BY <1>1
  <2>2. Reached(i + 1)
    BY <1>4, <1>5, <1>7, <2>1
  <2> QED
    BY <2>2
<1> HIDE DEF P, n
<1>8. 0..n \subseteq P
  BY <1>1, <1>6, <1>7, InductionUpTo
<1>9. n \in 0..n /\ n \in 1..n
  BY <1>1
<1>10. AsMentioned(T, f[n], ns(n), ds(n))
  BY <1>8, <1>9 DEF P, Reached
<1>11. SubSeq(tokens, 1, n) = tokens /\ SubSeq(tokens, 2, n) = Tail(tokens)
  BY <1>2, SubSeqFull, TailIsSubSeq DEF n, Pieces
<1> QED
  BY <1>3, <1>10, <1>11

-----------------------------------------------------------------------------
(* What the lines mention grows by the names of each line.                 *)

LEMMA MapAppend ==
  ASSUME NEW S, NEW V, NEW h \in [S -> V], NEW s \in Seq(S), NEW e \in S
  PROVE  /\ [i \in DOMAIN s |-> h[s[i]]] \in Seq(V)
         /\ [i \in DOMAIN Append(s, e) |-> h[Append(s, e)[i]]]
              = Append([i \in DOMAIN s |-> h[s[i]]], h[e])
<1> DEFINE n == Len(s)
           t == Append(s, e)
           a == [i \in DOMAIN s |-> h[s[i]]]
           b == [i \in DOMAIN t |-> h[t[i]]]
           c == Append(a, h[e])
<1>1. n \in Nat /\ DOMAIN s = 1..n /\ \A i \in 1..n : s[i] \in S
  BY ElementOfSeq
<1>2. t \in Seq(S) /\ DOMAIN t = 1..n + 1 /\ t[n + 1] = e /\ \A i \in 1..n : t[i] = s[i]
  BY AppendProperties
<1> HIDE DEF t, n
<1>3. a \in Seq(V) /\ Len(a) = n /\ \A i \in 1..n : a[i] = h[s[i]]
  BY <1>1
<1>4. \A i \in 1..n + 1 : i \in 1..n \/ i = n + 1
  BY <1>1
<1>5. \A i \in 1..n + 1 : t[i] \in S
  BY <1>1, <1>2, <1>4
<1>6. b \in Seq(V) /\ Len(b) = n + 1 /\ \A i \in 1..n + 1 : b[i] = h[t[i]]
  BY <1>1, <1>2, <1>5
<1> HIDE DEF a, b
<1>7. c \in Seq(V) /\ Len(c) = n + 1 /\ c[n + 1] = h[e] /\ \A i \in 1..n : c[i] = a[i]
  BY <1>3, AppendProperties
<1> HIDE DEF c
<1>8. \A i \in 1..n + 1 : b[i] = c[i]
  <2>1. \A i \in 1..n : i \in 1..n + 1
    BY <1>1
  <2>2. b[n + 1] = c[n + 1]
    <3>1. n + 1 \in 1..n + 1
      BY <1>1
    <3> QED
      BY <1>2, <1>6, <1>7, <3>1
  <2>3. \A i \in 1..n : b[i] = c[i]
    BY <1>2, <1>3, <1>6, <1>7, <2>1
  <2> QED
    BY <1>4, <2>2, <2>3
<1>9. b = c
  BY <1>6, <1>7, <1>8, SeqEqual
<1> QED
  BY <1>3, <1>9 DEF a, b, c, t

(* The lines of a text that is written as it should be. *)
Formed(T) == {l \in Seq(T) : l # <<>> /\ WellFormed(l)}

LEMMA LinesAppend ==
  ASSUME NEW T, NEW lines \in Seq(Formed(T)), NEW l \in Formed(T)
  PROVE  /\ Mentions(lines) \in Seq(Seq(T))
         /\ Mentions(Append(lines, l)) = Mentions(lines) \o Tokens(l)
         /\ \A w \in Seq(T) :
              /\ DepsOf(lines, w) \in Seq(Seq(T))
              /\ DepsOf(Append(lines, l), w)
                   = DepsOf(lines, w) \o (IF Tokens(l)[1] = w THEN Tail(Tokens(l)) ELSE <<>>)
<1> DEFINE F == Formed(T)
           V == Seq(Seq(T))
<1>1. ASSUME NEW k \in F PROVE Tokens(k) \in V /\ Tail(Tokens(k)) \in V
  <2>1. Tokens(k) \in Seq(Seq(T)) /\ Tokens(k) # <<>>
    BY <1>1, LineTokens DEF Formed, Pieces
  <2> QED
    BY <2>1, HeadTailProperties
<1>2. <<>> \in V
  OBVIOUS
<1>3. lines \in Seq(F) /\ l \in F /\ Append(lines, l) \in Seq(F)
  BY AppendProperties
<1>4. \A s \in Seq(F) : \A i \in DOMAIN s : s[i] \in F
  BY ElementOfSeq
<1>5. /\ Mentions(lines) \in V
      /\ Mentions(Append(lines, l)) = Mentions(lines) \o Tokens(l)
  <2> DEFINE h == [k \in F |-> Tokens(k)]
             g(s) == [i \in DOMAIN s |-> h[s[i]]]
  <2>1. h \in [F -> V] /\ h[l] = Tokens(l)
    BY <1>1
  <2>2. \A s \in Seq(F) : Mentions(s) = FlattenSeq(g(s))
    BY <1>4 DEF Mentions
  <2> HIDE DEF h, F, V
  <2>3. g(lines) \in Seq(V) /\ g(Append(lines, l)) = Append(g(lines), h[l])
    BY <1>3, <2>1, MapAppend
  <2> HIDE DEF g
  <2>4. h[l] \in V
    BY <1>1, <2>1 DEF F
  <2>5. FlattenSeq(g(lines)) \in V
    BY <2>3, FlattenTyped DEF V
  <2>6. FlattenSeq(Append(g(lines), h[l])) = FlattenSeq(g(lines)) \o h[l]
    BY <2>3, <2>4, FlattenAppend DEF V
  <2> QED
    BY <1>3, <2>1, <2>2, <2>3, <2>5, <2>6 DEF F
<1>6. ASSUME NEW w \in Seq(T)
      PROVE  /\ DepsOf(lines, w) \in V
             /\ DepsOf(Append(lines, l), w)
                  = DepsOf(lines, w) \o (IF Tokens(l)[1] = w THEN Tail(Tokens(l)) ELSE <<>>)
  <2> DEFINE h == [k \in F |-> IF Tokens(k)[1] = w THEN Tail(Tokens(k)) ELSE <<>>]
             g(s) == [i \in DOMAIN s |-> h[s[i]]]
  <2>0. h \in [F -> V]
    BY <1>1, <1>2
  <2>1. h[l] = IF Tokens(l)[1] = w THEN Tail(Tokens(l)) ELSE <<>>
    OBVIOUS
  <2>2. \A s \in Seq(F) : DepsOf(s, w) = FlattenSeq(g(s))
    BY <1>4 DEF DepsOf
  <2> HIDE DEF h, F, V
  <2>3. g(lines) \in Seq(V) /\ g(Append(lines, l)) = Append(g(lines), h[l])
    <3> HIDE DEF g
    <3>1. \A s \in Seq(F) : \A e \in F :
            /\ [i \in DOMAIN s |-> h[s[i]]] \in Seq(V)
            /\ [i \in DOMAIN Append(s, e) |-> h[Append(s, e)[i]]]
                 = Append([i \in DOMAIN s |-> h[s[i]]], h[e])
      BY <2>0, MapAppend
    <3> QED
      BY <1>3, <3>1 DEF g
  <2> HIDE DEF g
  <2>4. h[l] \in V
    BY <1>1, <1>2, <2>1 DEF F
  <2>5. FlattenSeq(g(lines)) \in V
    BY <2>3, FlattenTyped DEF V
  <2>6. FlattenSeq(Append(g(lines), h[l])) = FlattenSeq(g(lines)) \o h[l]
    BY <2>3, <2>4, FlattenAppend DEF V
  <2> QED
    BY <1>3, <2>1, <2>2, <2>3, <2>5, <2>6 DEF F
<1> QED
  BY <1>5, <1>6

-----------------------------------------------------------------------------
(* A text is read line by line.                                            *)

(* The dependencies that lines give each name. *)
DepsTable(T, lines) == [w \in Seq(T) |-> DepsOf(lines, w)]

LEMMA DepsTableAppend ==
  ASSUME NEW T, NEW lines \in Seq(Formed(T)), NEW l \in Formed(T)
  PROVE  /\ DepsTable(T, lines) \in Dependencies(T)
         /\ DepsTable(T, Append(lines, l))
              = DepsWith(DepsTable(T, lines), Tokens(l)[1], Tail(Tokens(l)))
<1> DEFINE more == Append(lines, l)
           p == Tokens(l)[1]
           ds == Tail(Tokens(l))
           d == DepsTable(T, lines)
           e == DepsTable(T, more)
<1>1. \A w \in Seq(T) : /\ DepsOf(lines, w) \in Seq(Seq(T))
                        /\ DepsOf(more, w) = DepsOf(lines, w) \o (IF p = w THEN ds ELSE <<>>)
  BY LinesAppend
<1>2. d \in [Seq(T) -> Seq(Seq(T))] /\ \A w \in Seq(T) : d[w] = DepsOf(lines, w)
  BY <1>1 DEF DepsTable
<1>3. e = [w \in Seq(T) |-> DepsOf(more, w)]
  BY DEF DepsTable
<1> HIDE DEF more, p, ds, d, e
<1>4. \A w \in Seq(T) : DepsOf(more, w) = IF w = p THEN d[w] \o ds ELSE d[w]
  <2> SUFFICES ASSUME NEW w \in Seq(T)
               PROVE  DepsOf(more, w) = IF w = p THEN d[w] \o ds ELSE d[w]
    OBVIOUS
  <2>1. PICK z \in Seq(Seq(T)) : z = d[w]
    BY <1>2
  <2>2. z \o <<>> = z
    BY ConcatEmptySeq
  <2> QED
    BY <1>1, <1>2, <2>1, <2>2
<1>5. DepsWith(d, p, ds) = [w \in Seq(T) |-> IF w = p THEN d[w] \o ds ELSE d[w]]
  BY <1>2 DEF DepsWith
<1>6. e = [w \in Seq(T) |-> IF w = p THEN d[w] \o ds ELSE d[w]]
  BY <1>3, <1>4
<1>7. e = DepsWith(d, p, ds)
  BY <1>5, <1>6
<1> QED
  BY <1>2, <1>7 DEF more, p, ds, d, e, Dependencies

LEMMA NothingMentioned ==
  ASSUME NEW T
  PROVE  AsMentioned(T, <<>>, Mentions(<<>>), DepsTable(T, <<>>))
<1>1. Mentions(<<>>) = <<>>
  <2>1. [i \in DOMAIN <<>> |-> Tokens(<<>>[i])] = <<>>
    OBVIOUS
  <2> QED
    BY <2>1, FlattenEmpty DEF Mentions
<1>2. \A w \in Seq(T) : DepsTable(T, <<>>)[w] = <<>>
  <2> SUFFICES ASSUME NEW w \in Seq(T) PROVE DepsOf(<<>>, w) = <<>>
    BY DEF DepsTable
  <2>1. [i \in DOMAIN <<>> |->
           IF Tokens(<<>>[i])[1] = w THEN Tail(Tokens(<<>>[i])) ELSE <<>>] = <<>>
    OBVIOUS
  <2> QED
    BY <2>1, FlattenEmpty DEF DepsOf
<1>3. Firsts(<<>>) = {}
  BY DEF Firsts
<1>4. Len(<<>>) = 0 /\ 1..0 = {} /\ Cardinality({}) = 0
  BY FS_EmptySet
<1>5. PICK n : n = <<>>
  OBVIOUS
<1>6. AsMentioned(T, n, n, DepsTable(T, n))
  BY <1>2, <1>3, <1>4, <1>5 DEF AsMentioned
<1> QED
  BY <1>1, <1>5, <1>6

LEMMA LineMentioned ==
  ASSUME NEW T, NEW r \in Read(T), ~r.err, NEW lines \in Seq(Formed(T)), NEW l \in Formed(T),
         AsMentioned(T, r.packages, Mentions(lines), DepsTable(T, lines))
  PROVE  /\ ~ReadLine(r, l).err
         /\ AsMentioned(T, ReadLine(r, l).packages, Mentions(Append(lines, l)),
                        DepsTable(T, Append(lines, l)))
<1>1. r \in [err : BOOLEAN, packages : Closed(T)]
  BY DEF Read
<1>2. l \in Seq(T) /\ l # <<>> /\ WellFormed(l)
  BY DEF Formed
<1>3. Matches(l) /\ TokeniseLine(l) = Tokens(l) /\ Tokens(l) \in Pieces(T)
  BY <1>2, LineTokens
<1>4. PICK z : z = TokensToPackage(r.packages, Tokens(l))
  OBVIOUS
<1>5. ReadLine(r, l) = [r EXCEPT !.packages = z]
  BY <1>2, <1>3, <1>4 DEF ReadLine
<1>6. ReadLine(r, l).err = r.err /\ ReadLine(r, l).packages = z
  BY <1>1, <1>5
<1>7. Mentions(lines) \in Seq(Seq(T)) /\ Mentions(Append(lines, l)) = Mentions(lines) \o Tokens(l)
  BY LinesAppend
<1>8. /\ DepsTable(T, lines) \in Dependencies(T)
      /\ DepsTable(T, Append(lines, l))
           = DepsWith(DepsTable(T, lines), Tokens(l)[1], Tail(Tokens(l)))
  BY DepsTableAppend
<1>9. r.packages \in Closed(T)
  BY <1>1
<1>10. AsMentioned(T, z, Mentions(Append(lines, l)), DepsTable(T, Append(lines, l)))
  BY <1>3, <1>4, <1>7, <1>8, <1>9, TokensMentioned
<1> QED
  BY <1>6, <1>10

LEMMA NonEmptyHas ==
  ASSUME NEW T, NEW ss \in Seq(Seq(T)), NEW i \in DOMAIN ss, ss[i] # <<>>
  PROVE  ss[i] \in Bytes(NonEmpty(ss))
<1> DEFINE Kept(s) == \A w \in Bytes(s) : w # <<>> => w \in Bytes(NonEmpty(s))
           P == {s \in Seq(Seq(T)) : Kept(s)}
<1>1. <<>> \in P
  <2>1. <<>> \in Seq(Seq(T)) /\ Bytes(<<>>) = {}
    BY BytesEmpty
  <2> QED
    BY <2>1
<1>2. ASSUME NEW s \in Seq(Seq(T)), s \in P, NEW w \in Seq(T)
      PROVE  Append(s, w) \in P
  <2>1. Append(s, w) \in Seq(Seq(T)) /\ Bytes(Append(s, w)) = Bytes(s) \cup {w}
    BY AppendProperties, BytesAppend
  <2>2. NonEmpty(Append(s, w)) = IF w = <<>> THEN NonEmpty(s) ELSE Append(NonEmpty(s), w)
    BY NonEmptyAppend
  <2>3. Bytes(Append(NonEmpty(s), w)) = Bytes(NonEmpty(s)) \cup {w}
    BY NonEmptyTyped, BytesAppend
  <2>4. Kept(Append(s, w))
    BY <1>2, <2>1, <2>2, <2>3
  <2> QED
    BY <2>1, <2>4
<1> HIDE DEF P
<1>3. Seq(Seq(T)) \subseteq P
  <2> DEFINE S == Seq(T)
  <2>1. \A s \in Seq(S) : s \in P => \A w \in S : Append(s, w) \in P
    BY <1>2
  <2> HIDE DEF S
  <2> QED
    BY <1>1, <2>1, SequenceInduction DEF S
<1>4. Kept(ss)
  BY <1>3 DEF P
<1> QED
  BY <1>4 DEF Bytes

LEMMA LinesMentioned ==
  ASSUME NEW T, NEW ss \in Seq(Seq(T)),
         \A i \in 1..Len(ss) : ss[i] # <<>> => WellFormed(ss[i]),
         NEW f \in [0..Len(ss) -> Read(T)],
         Follows(f, Len(ss), [err |-> FALSE, packages |-> <<>>], ReadStep(T, ss))
  PROVE  /\ ~f[Len(ss)].err
         /\ NonEmpty(ss) \in Seq(Formed(T))
         /\ AsMentioned(T, f[Len(ss)].packages, Mentions(NonEmpty(ss)),
                        DepsTable(T, NonEmpty(ss)))
<1> DEFINE n == Len(ss)
           lines(i) == NonEmpty(SubSeq(ss, 1, i))
           Reached(i) == /\ ~f[i].err
                         /\ lines(i) \in Seq(Formed(T))
                         /\ AsMentioned(T, f[i].packages, Mentions(lines(i)),
                                        DepsTable(T, lines(i)))
           P == {i \in Nat : i \in 0..n => Reached(i)}
<1>1. n \in Nat
  OBVIOUS
<1>2. 0 \in P
  <2>1. SubSeq(ss, 1, 0) = <<>>
    BY SubSeqEmpty
  <2>2. lines(0) = <<>>
    BY <2>1, NonEmptyNone
  <2>3. ~f[0].err /\ f[0].packages = <<>>
    BY DEF Follows
  <2>4. <<>> \in Seq(Formed(T))
    OBVIOUS
  <2> HIDE DEF lines
  <2>5. Reached(0)
    BY <2>2, <2>3, <2>4, NothingMentioned
  <2> QED
    BY <2>5
<1>3. ASSUME NEW i \in 0..n - 1, i \in P PROVE i + 1 \in P
  <2> DEFINE l == ss[i + 1]
  <2>1. i \in 0..n /\ i + 1 \in 1..n /\ (i + 1) - 1 = i /\ i + 1 \in Nat
    BY <1>1
  <2>2. Reached(i)
    BY <1>3, <2>1
  <2>3. /\ SubSeq(ss, 1, i) \in Seq(Seq(T)) /\ l \in Seq(T)
        /\ SubSeq(ss, 1, i + 1) = Append(SubSeq(ss, 1, i), l)
    BY Prefix
  <2>4. lines(i + 1) = IF l = <<>> THEN lines(i) ELSE Append(lines(i), l)
    BY <2>3, NonEmptyAppend
  <2>5. f[i + 1] = ReadLine(f[i], l)
    <3>1. f[i + 1] = ReadStep(T, ss)[i + 1][f[(i + 1) - 1]]
      BY <2>1 DEF Follows
    <3>2. f[i] \in Read(T)
      BY <2>1
    <3> QED
      BY <2>1, <3>1, <3>2 DEF ReadStep
  <2>6. l # <<>> => l \in Formed(T)
    BY <2>1, <2>3 DEF Formed
  <2> HIDE DEF l, lines
  <2>7. CASE l = <<>>
    <3>1. f[i + 1] = f[i]
      BY <2>5, <2>7 DEF ReadLine
    <3> QED
      BY <2>1, <2>2, <2>4, <2>7, <3>1
  <2>8. CASE l # <<>>
    <3>1. l \in Formed(T) /\ f[i] \in Read(T)
      BY <2>1, <2>6, <2>8
    <3>2. Append(lines(i), l) \in Seq(Formed(T))
      BY <2>2, <3>1, AppendProperties
    <3>3. /\ ~ReadLine(f[i], l).err
          /\ AsMentioned(T, ReadLine(f[i], l).packages, Mentions(Append(lines(i), l)),
                         DepsTable(T, Append(lines(i), l)))
      BY <2>2, <3>1, LineMentioned
    <3>4. Reached(i + 1)
      BY <2>4, <2>5, <2>8, <3>2, <3>3
    <3> QED
      BY <2>1, <3>4
  <2> QED
    BY <2>7, <2>8
<1> HIDE DEF P, n, Reached
<1>4. 0..n \subseteq P
  BY <1>1, <1>2, <1>3, InductionUpTo
<1>5. Reached(n)
  BY <1>1, <1>4 DEF P
<1>6. SubSeq(ss, 1, n) = ss
  BY SubSeqFull DEF n
<1> QED
  BY <1>5, <1>6 DEF Reached, n

(* A text of well-formed lines is read as it is written: TextToPackages    *)
(* returns no error and the packages in the order in which they are first  *)
(* mentioned, each with the dependencies of all its lines: for every       *)
(* alphabet and texts of every length.                                     *)
THEOREM ListReadsAsWritten == Spec => []ReadsAsWritten
<1>1. text \in Seq(Text) => ReadsAsWritten
  <2> SUFFICES ASSUME text \in Seq(Text), \A i \in DOMAIN Lines : WellFormed(Lines[i])
               PROVE  LET read  == TextToPackages(text)
                          names == Mentions(Lines)
                      IN /\ ~read.err
                         /\ Len(read.packages) = Cardinality(Firsts(names))
                         /\ \A i \in Firsts(names) :
                              read.packages[Cardinality(Firsts(names) \cap 1..i)]
                                = [name |-> names[i], deps |-> DepsOf(Lines, names[i])]
    BY DEF ReadsAsWritten
  <2> DEFINE ss == Split(text, NL)
             names == Mentions(Lines)
             read == TextToPackages(text)
  <2>1. ss \in Seq(Seq(Text))
    BY SplitTyped DEF Pieces
  <2>2. Lines = NonEmpty(ss)
    BY DEF Lines
  <2>3. PICK f \in [0..Len(ss) -> Read(Text)] :
          /\ read = f[Len(ss)]
          /\ Follows(f, Len(ss), [err |-> FALSE, packages |-> <<>>], ReadStep(Text, ss))
    BY TextFunction
  <2> HIDE DEF ss, read
  <2>4. ASSUME NEW i \in 1..Len(ss), ss[i] # <<>> PROVE WellFormed(ss[i])
    <3>1. ss[i] \in Bytes(Lines)
      BY <2>1, <2>2, <2>4, NonEmptyHas
    <3> QED
      BY <3>1 DEF Bytes
  <2>5. /\ ~read.err /\ Lines \in Seq(Formed(Text))
        /\ AsMentioned(Text, read.packages, names, DepsTable(Text, Lines))
    BY <2>1, <2>2, <2>3, <2>4, LinesMentioned
  <2>6. names \in Seq(Seq(Text))
    <3>1. CASE Lines = <<>>
      <4>1. [i \in DOMAIN <<>> |-> Tokens(<<>>[i])] = <<>> /\ <<>> \in Seq(Seq(Text))
        OBVIOUS
      <4> QED
        BY <3>1, <4>1, FlattenEmpty DEF Mentions
    <3>2. CASE Lines # <<>>
      <4>1. Lines[1] \in Formed(Text)
        <5>1. Lines # <<>> => 1 \in 1..Len(Lines)
          BY <2>5, EmptySeq
        <5> QED
          BY <2>5, <3>2, <5>1, ElementOfSeq
      <4> QED
        BY <2>5, <4>1, LinesAppend
    <3> QED
      BY <3>1, <3>2
  <2> HIDE DEF names
  <2>7. ASSUME NEW i \in Firsts(names)
        PROVE  read.packages[Cardinality(Firsts(names) \cap 1..i)]
                 = [name |-> names[i], deps |-> DepsOf(Lines, names[i])]
    <3>1. names[i] \in Seq(Text)
      BY <2>6, FirstsTyped, ElementOfSeq
    <3>2. DepsTable(Text, Lines)[names[i]] = DepsOf(Lines, names[i])
      BY <3>1 DEF DepsTable
    <3> QED
      BY <2>5, <3>2 DEF AsMentioned, Place
  <2> QED
    BY <2>5, <2>7 DEF AsMentioned, names, read
<1> QED
  BY <1>1, TextTyped, PTL

=============================================================================
