--------------------------- MODULE OperatorProofs ---------------------------
(***************************************************************************)
(* What the operators of Strings and Segments return, for every sequence,  *)
(* and the inductions, over numbers and over sequences, that the lemmas    *)
(* about them and the theorems about texts rest on.                        *)
(***************************************************************************)
EXTENDS Strings, Segments, SequenceTheorems, WellFoundedInduction, TLAPS

-----------------------------------------------------------------------------
(* Induction.  What is to be shown of every number, or of every sequence,  *)
(* is stated as the set of those of which it holds.                        *)

LEMMA LessThan == IsWellFoundedOn({ss \in Nat \X Nat : ss[1] < ss[2]}, Nat)
BY NatLessThanWellFounded DEF OpToRel

LEMMA Least ==
  ASSUME NEW S \in SUBSET Nat, S # {}
  PROVE  \E n \in S : \A k \in S : n <= k
<1> DEFINE R == {ss \in Nat \X Nat : ss[1] < ss[2]}
<1>1. IsWellFoundedOn(R, Nat)
  BY LessThan
<1> HIDE DEF R
<1>2. \E n \in S : \A k \in S : ~(<<k, n>> \in R)
  BY <1>1, WFMin
<1>3. ASSUME NEW n \in S, NEW k \in S, ~(<<k, n>> \in R) PROVE n <= k
  BY <1>3 DEF R
<1> QED
  BY <1>2, <1>3

LEMMA Induction ==
  ASSUME NEW S, 0 \in S, \A n \in Nat : n \in S => n + 1 \in S
  PROVE  Nat \subseteq S
<1> SUFFICES ASSUME Nat \ S # {} PROVE FALSE
  OBVIOUS
<1>1. PICK n \in Nat \ S : \A k \in Nat \ S : n <= k
  BY Least
<1>2. n - 1 \in Nat /\ n = (n - 1) + 1
  BY <1>1
<1>3. n - 1 \in S
  BY <1>1, <1>2
<1> QED
  BY <1>1, <1>2, <1>3

(* What is true of 0 and goes from each number below n to the next is true *)
(* up to n.                                                                *)
LEMMA InductionUpTo ==
  ASSUME NEW n \in Nat, NEW S, 0 \in S, \A i \in 0..n - 1 : i \in S => i + 1 \in S
  PROVE  0..n \subseteq S
<1> DEFINE T == {i \in Nat : i <= n => i \in S}
<1>1. 0 \in T
  OBVIOUS
<1>2. ASSUME NEW i \in Nat, i \in T PROVE i + 1 \in T
  <2>1. i + 1 <= n => i \in 0..n - 1 /\ i \in S
    BY <1>2
  <2> QED
    BY <2>1
<1> HIDE DEF T
<1>3. Nat \subseteq T
  BY <1>1, <1>2, Induction
<1> QED
  BY <1>3 DEF T

LEMMA Greatest ==
  ASSUME NEW n \in Nat, NEW S \in SUBSET (0..n), S # {}
  PROVE  \E m \in S : \A k \in S : k <= m
<1> DEFINE T == {n - k : k \in S}
<1>1. T \in SUBSET Nat /\ T # {}
  <2>1. \A k \in S : n - k \in Nat
    OBVIOUS
  <2> QED
    BY <2>1
<1>2. PICK t \in T : \A k \in T : t <= k
  BY <1>1, Least
<1>3. PICK m \in S : t = n - m
  OBVIOUS
<1>4. ASSUME NEW k \in S PROVE k <= m
  <2>1. n - k \in T
    OBVIOUS
  <2>2. t <= n - k
    BY <1>2, <2>1
  <2> QED
    BY <1>3, <2>2
<1> QED
  BY <1>4

(* The same of sequences, which grow at their end. *)
LEMMA SequenceInduction ==
  ASSUME NEW S, NEW P, <<>> \in P,
         \A s \in Seq(S) : s \in P => \A e \in S : Append(s, e) \in P
  PROVE  Seq(S) \subseteq P
<1> DEFINE N == {n \in Nat : \A s \in Seq(S) : Len(s) = n => s \in P}
<1>1. 0 \in N
  <2>1. \A s \in Seq(S) : Len(s) = 0 => s = <<>>
    OBVIOUS
  <2> QED
    BY <2>1
<1>2. ASSUME NEW n \in Nat, n \in N PROVE n + 1 \in N
  <2> SUFFICES ASSUME NEW s \in Seq(S), Len(s) = n + 1 PROVE s \in P
    OBVIOUS
  <2>1. s # <<>>
    OBVIOUS
  <2>2. PICK t \in Seq(S), e \in S : s = Append(t, e)
    BY <2>1, SequenceEmptyOrAppend
  <2>3. Len(t) = n
    BY <2>2
  <2>4. t \in P
    BY <1>2, <2>3
  <2> QED
    BY <2>2, <2>4
<1> HIDE DEF N
<1>3. Nat \subseteq N
  BY <1>1, <1>2, Induction
<1> QED
  BY <1>3 DEF N

(* f starts with first and goes on with step, n times.  Such a function     *)
(* exists, and two of them agree.                                          *)
Follows(f, n, first, step) ==
  f[0] = first /\ \A i \in 1..n : f[i] = step[i][f[i - 1]]

LEMMA Recursion ==
  ASSUME NEW n \in Nat, NEW V, NEW first \in V, NEW step \in [1..n -> [V -> V]]
  PROVE  \E f \in [0..n -> V] : Follows(f, n, first, step)
<1> DEFINE S == {m \in Nat : m <= n => \E f \in [0..m -> V] : Follows(f, m, first, step)}
<1>1. 0 \in S
  <2>1. [i \in 0..0 |-> first] \in [0..0 -> V]
    OBVIOUS
  <2>2. Follows([i \in 0..0 |-> first], 0, first, step)
    BY DEF Follows
  <2> QED
    BY <2>1, <2>2
<1>2. ASSUME NEW m \in Nat, m \in S PROVE m + 1 \in S
  <2> SUFFICES ASSUME m + 1 <= n
               PROVE  \E f \in [0..m + 1 -> V] : Follows(f, m + 1, first, step)
    OBVIOUS
  <2>1. PICK f \in [0..m -> V] : Follows(f, m, first, step)
    BY <1>2
  <2> DEFINE g == [i \in 0..m + 1 |-> IF i <= m THEN f[i] ELSE step[m + 1][f[m]]]
  <2>2. g \in [0..m + 1 -> V]
    <3>1. m + 1 \in 1..n /\ f[m] \in V
      OBVIOUS
    <3>2. step[m + 1][f[m]] \in V
      BY <3>1
    <3> QED
      BY <3>2
  <2>3. g[0] = first
    BY <2>1 DEF Follows
  <2>4. ASSUME NEW i \in 1..m + 1 PROVE g[i] = step[i][g[i - 1]]
    <3>1. i - 1 \in 0..m /\ g[i - 1] = f[i - 1]
      OBVIOUS
    <3>2. CASE i <= m
      BY <2>1, <3>1, <3>2 DEF Follows
    <3>3. CASE i = m + 1
      BY <3>1, <3>3
    <3> QED
      BY <3>2, <3>3
  <2>5. Follows(g, m + 1, first, step)
    <3> HIDE DEF g
    <3> QED
      BY <2>3, <2>4 DEF Follows
  <2> QED
    BY <2>2, <2>5
<1>3. Nat \subseteq S
  <2> HIDE DEF S
  <2> QED
    BY <1>1, <1>2, Induction
<1>4. n \in S
  BY <1>3
<1> QED
  BY <1>4

FollowsIn(g, n, first, step, V) ==
  g[0] = first /\ \A i \in 1..n : g[i - 1] \in V => g[i] = step[i][g[i - 1]]

RunsIn(f, n, first, step, V) == f \in [0..n -> V] /\ Follows(f, n, first, step)

LEMMA SameRecursion ==
  ASSUME NEW n \in Nat, NEW V, NEW first, NEW step, NEW f, RunsIn(f, n, first, step, V),
         NEW g, FollowsIn(g, n, first, step, V)
  PROVE  \A i \in 0..n : g[i] = f[i]
<1> DEFINE S == {i \in Nat : i <= n => g[i] = f[i]}
<1>1. 0 \in S
  BY DEF RunsIn, Follows, FollowsIn
<1>2. ASSUME NEW i \in 0..n - 1, i \in S PROVE i + 1 \in S
  <2>1. PICK j \in 1..n : j = i + 1
    OBVIOUS
  <2>2. g[j - 1] = f[j - 1] /\ f[j - 1] \in V
    BY <1>2, <2>1 DEF RunsIn
  <2>3. g[j] = step[j][g[j - 1]]
    BY <2>2 DEF FollowsIn
  <2>4. f[j] = step[j][f[j - 1]]
    BY DEF RunsIn, Follows
  <2> QED
    BY <2>1, <2>2, <2>3, <2>4
<1> HIDE DEF S
<1>3. 0..n \subseteq S
  BY <1>1, <1>2, InductionUpTo
<1> QED
  BY <1>3 DEF S

(* One step more. *)
SameSteps(step, more, n, V) == \A i \in 1..n : \A v \in V : more[i][v] = step[i][v]

LEMMA RecursionGoesOn ==
  ASSUME NEW n \in Nat, NEW V, NEW first, NEW step, NEW more, NEW f, NEW g,
         RunsIn(f, n, first, step, V), RunsIn(g, n + 1, first, more, V),
         SameSteps(step, more, n, V)
  PROVE  f[n] \in V /\ g[n + 1] = more[n + 1][f[n]]
<1>1. ASSUME NEW i \in 1..n, g[i - 1] \in V PROVE g[i] = step[i][g[i - 1]]
  <2>1. i \in 1..n + 1
    OBVIOUS
  <2>2. g[i] = more[i][g[i - 1]]
    BY <2>1 DEF RunsIn, Follows
  <2> QED
    BY <1>1, <2>2 DEF SameSteps
<1>2. FollowsIn(g, n, first, step, V)
  BY <1>1 DEF FollowsIn, RunsIn, Follows
<1>3. \A i \in 0..n : g[i] = f[i]
  BY <1>2, SameRecursion
<1>4. n \in 0..n /\ n + 1 \in 1..n + 1 /\ (n + 1) - 1 = n
  OBVIOUS
<1>5. g[n] = f[n] /\ f[n] \in V
  BY <1>3, <1>4 DEF RunsIn
<1>6. g[n + 1] = more[n + 1][g[(n + 1) - 1]]
  BY <1>4 DEF RunsIn, Follows
<1> QED
  BY <1>4, <1>5, <1>6

-----------------------------------------------------------------------------
(* Split. *)

Pieces(T) == Seq(Seq(T)) \ {<<>>}

SplitStep(T, s, x) == [i \in 1..Len(s) |-> [p \in Pieces(T) |-> Cut(p, s[i], x)]]

LEMMA CutTyped ==
  ASSUME NEW T, NEW p \in Pieces(T), NEW e \in T, NEW x
  PROVE  Cut(p, e, x) \in Pieces(T)
<1>1. p \in Seq(Seq(T)) /\ Len(p) \in 1..Len(p)
  BY DEF Pieces
<1>2. <<>> \in Seq(T)
  OBVIOUS
<1>3. Append(p, <<>>) \in Seq(Seq(T)) /\ Append(p, <<>>) # <<>>
  BY <1>1, <1>2, AppendProperties
<1>4. Append(p[Len(p)], e) \in Seq(T)
  BY <1>1, AppendProperties
<1>5. [p EXCEPT ![Len(p)] = Append(p[Len(p)], e)] \in Seq(Seq(T))
  BY <1>1, <1>4, ExceptSeq
<1>6. Len([p EXCEPT ![Len(p)] = Append(p[Len(p)], e)]) = Len(p)
  BY <1>1, <1>4, ExceptSeq
<1>7. [p EXCEPT ![Len(p)] = Append(p[Len(p)], e)] # <<>>
  BY <1>1, <1>6
<1> QED
  BY <1>3, <1>5, <1>7 DEF Pieces, Cut

LEMMA SplitFunction ==
  ASSUME NEW T, NEW s \in Seq(T), NEW x
  PROVE  \E f \in [0..Len(s) -> Pieces(T)] :
           Split(s, x) = f[Len(s)] /\ Follows(f, Len(s), << <<>> >>, SplitStep(T, s, x))
<1> DEFINE n == Len(s)
           first == << <<>> >>
           step == SplitStep(T, s, x)
           Rec(f) == [i \in 0..Len(s) |->
             IF i = 0 THEN << <<>> >> ELSE Cut(f[i - 1], s[i], x)]
<1>1. n \in Nat /\ first \in Pieces(T)
  <2>1. <<>> \in Seq(T)
    OBVIOUS
  <2>2. << <<>> >> \in Seq(Seq(T)) /\ << <<>> >> # <<>>
    BY <2>1
  <2> QED
    BY <2>2 DEF Pieces
<1>2. step \in [1..n -> [Pieces(T) -> Pieces(T)]]
  <2>1. \A i \in 1..n : \A p \in Pieces(T) : Cut(p, s[i], x) \in Pieces(T)
    BY CutTyped
  <2> QED
    BY <2>1 DEF SplitStep
<1>3. PICK f \in [0..n -> Pieces(T)] : Follows(f, n, first, step)
  <2> HIDE DEF step, n, first
  <2> QED
    BY <1>1, <1>2, Recursion
<1>4. \A h : Rec(h)[0] = first
  BY <1>1
<1>5. ASSUME NEW h, NEW i \in 1..n, h[i - 1] \in Pieces(T)
      PROVE  Rec(h)[i] = step[i][h[i - 1]]
  <2>1. step[i][h[i - 1]] = Cut(h[i - 1], s[i], x)
    BY <1>5 DEF SplitStep
  <2>2. i \in 0..Len(s) /\ i # 0
    OBVIOUS
  <2> QED
    BY <2>1, <2>2
<1>6. \A h : Rec(h) = [i \in 0..n |-> Rec(h)[i]]
  OBVIOUS
<1>7. Split(s, x) = (CHOOSE h : h = Rec(h))[n]
  BY DEF Split
<1> HIDE DEF Rec, step, first, n
<1>8. f = Rec(f)
  <2>1. ASSUME NEW i \in 0..n PROVE f[i] = Rec(f)[i]
    <3>1. CASE i = 0
      BY <1>3, <1>4, <3>1 DEF Follows
    <3>2. CASE i \in 1..n
      <4>1. f[i] = step[i][f[i - 1]]
        BY <1>3, <3>2 DEF Follows
      <4>2. i - 1 \in 0..n
        BY <1>1, <3>2
      <4>3. f[i - 1] \in Pieces(T)
        BY <4>2
      <4> QED
        BY <1>5, <3>2, <4>1, <4>3
    <3> QED
      BY <1>1, <3>1, <3>2
  <2>2. f = [i \in 0..n |-> f[i]]
    OBVIOUS
  <2>3. [i \in 0..n |-> f[i]] = [i \in 0..n |-> Rec(f)[i]]
    BY <2>1
  <2> QED
    BY <1>6, <2>2, <2>3
<1> DEFINE g == CHOOSE h : h = Rec(h)
<1>9. g = Rec(g)
  BY <1>8, Zenon
<1> HIDE DEF g
<1>10. \A i \in 0..n : g[i] = f[i]
  <2>1. g[0] = first
    BY <1>4, <1>9
  <2>2. \A i \in 1..n : g[i - 1] \in Pieces(T) => g[i] = step[i][g[i - 1]]
    BY <1>5, <1>9
  <2>3. FollowsIn(g, n, first, step, Pieces(T))
    BY <2>1, <2>2 DEF FollowsIn
  <2>4. RunsIn(f, n, first, step, Pieces(T))
    BY <1>3 DEF RunsIn
  <2> QED
    BY <1>1, <2>3, <2>4, SameRecursion
<1>11. Split(s, x) = f[n]
  BY <1>1, <1>7, <1>10 DEF g
<1> QED
  BY <1>3, <1>11 DEF n, first, step

LEMMA SplitTyped ==
  ASSUME NEW T, NEW s \in Seq(T), NEW x
  PROVE  Split(s, x) \in Pieces(T)
<1>1. PICK f \in [0..Len(s) -> Pieces(T)] : Split(s, x) = f[Len(s)]
  BY SplitFunction
<1>2. Len(s) \in 0..Len(s)
  OBVIOUS
<1> QED
  BY <1>1, <1>2

LEMMA SplitEmpty ==
  ASSUME NEW x
  PROVE  Split(<<>>, x) = << <<>> >>
<1>1. <<>> \in Seq({}) /\ Len(<<>>) = 0
  OBVIOUS
<1>2. PICK f \in [0..Len(<<>>) -> Pieces({})] :
        /\ Split(<<>>, x) = f[Len(<<>>)]
        /\ Follows(f, Len(<<>>), << <<>> >>, SplitStep({}, <<>>, x))
  BY <1>1, SplitFunction
<1> QED
  BY <1>1, <1>2 DEF Follows

LEMMA SplitAppend ==
  ASSUME NEW T, NEW s \in Seq(T), NEW e \in T, NEW x
  PROVE  Split(Append(s, e), x) = Cut(Split(s, x), e, x)
<1> DEFINE t == Append(s, e)
           n == Len(s)
           first == << <<>> >>
<1>1. t \in Seq(T) /\ Len(t) = n + 1 /\ t[n + 1] = e /\ \A i \in 1..n : t[i] = s[i]
  BY AppendProperties
<1>2. n \in Nat
  OBVIOUS
<1>3. PICK f \in [0..n -> Pieces(T)] :
        Split(s, x) = f[n] /\ Follows(f, n, first, SplitStep(T, s, x))
  BY SplitFunction
<1> HIDE DEF t
<1>4. PICK g \in [0..Len(t) -> Pieces(T)] :
        Split(t, x) = g[Len(t)] /\ Follows(g, Len(t), first, SplitStep(T, t, x))
  BY <1>1, SplitFunction
<1> DEFINE step == SplitStep(T, s, x)
           more == SplitStep(T, t, x)
<1>5. SameSteps(step, more, n, Pieces(T))
  <2> SUFFICES ASSUME NEW i \in 1..n, NEW p \in Pieces(T) PROVE more[i][p] = step[i][p]
    BY DEF SameSteps
  <2>1. i \in 1..Len(t) /\ t[i] = s[i]
    BY <1>1, <1>2
  <2> QED
    BY <2>1 DEF SplitStep
<1>6. RunsIn(f, n, first, step, Pieces(T)) /\ RunsIn(g, n + 1, first, more, Pieces(T))
  BY <1>1, <1>3, <1>4 DEF RunsIn
<1> HIDE DEF n, first, step, more
<1>7. f[n] \in Pieces(T) /\ g[n + 1] = more[n + 1][f[n]]
  BY <1>2, <1>5, <1>6, RecursionGoesOn
<1>8. more[n + 1][f[n]] = Cut(f[n], e, x)
  <2>1. n + 1 \in 1..Len(t)
    BY <1>1, <1>2
  <2> QED
    BY <1>1, <1>7, <2>1 DEF SplitStep, more
<1> QED
  BY <1>1, <1>3, <1>4, <1>7, <1>8 DEF t

(* A byte next to bytes that are already there. *)
LEMMA BytesAppend ==
  ASSUME NEW T, NEW s \in Seq(T), NEW e \in T
  PROVE  Bytes(Append(s, e)) = Bytes(s) \cup {e}
<1>1. Append(s, e) \in Seq(T) /\ Len(Append(s, e)) = Len(s) + 1
  BY AppendProperties
<1>2. \A i \in 1..Len(s) : Append(s, e)[i] = s[i]
  BY AppendProperties
<1>3. Append(s, e)[Len(s) + 1] = e
  BY AppendProperties
<1>4. DOMAIN s = 1..Len(s) /\ DOMAIN Append(s, e) = 1..Len(s) + 1
  BY <1>1
<1>5. ASSUME NEW b \in Bytes(Append(s, e)) PROVE b \in Bytes(s) \cup {e}
  <2>1. PICK i \in 1..Len(s) + 1 : b = Append(s, e)[i]
    BY <1>4 DEF Bytes
  <2>2. i \in 1..Len(s) \/ i = Len(s) + 1
    OBVIOUS
  <2> QED
    BY <1>2, <1>3, <1>4, <2>1, <2>2 DEF Bytes
<1>6. ASSUME NEW b \in Bytes(s) \cup {e} PROVE b \in Bytes(Append(s, e))
  <2>1. CASE b = e
    <3>1. Len(s) + 1 \in 1..Len(s) + 1
      OBVIOUS
    <3> QED
      BY <1>3, <1>4, <2>1, <3>1 DEF Bytes
  <2>2. CASE b \in Bytes(s)
    <3>1. PICK i \in 1..Len(s) : b = s[i]
      BY <1>4, <2>2 DEF Bytes
    <3>2. i \in 1..Len(s) + 1
      OBVIOUS
    <3> QED
      BY <1>2, <1>4, <3>1, <3>2 DEF Bytes
  <2> QED
    BY <2>1, <2>2
<1> QED
  BY <1>5, <1>6

LEMMA BytesEmpty == Bytes(<<>>) = {}
BY DEF Bytes

LEMMA ConcatAppend ==
  ASSUME NEW S, NEW s \in Seq(S), NEW t \in Seq(S), NEW e \in S
  PROVE  s \o Append(t, e) = Append(s \o t, e)
<1>1. Append(t, e) = t \o <<e>> /\ <<e>> \in Seq(S)
  BY AppendIsConcat
<1>2. s \o t \in Seq(S)
  BY ConcatProperties
<1>3. Append(s \o t, e) = (s \o t) \o <<e>>
  BY <1>2, AppendIsConcat
<1> QED
  BY <1>1, <1>3, ConcatAssociative

LEMMA PiecesLast ==
  ASSUME NEW T, NEW p \in Pieces(T)
  PROVE  \E q \in Seq(Seq(T)), l \in Seq(T) : p = Append(q, l)
BY SequenceEmptyOrAppend DEF Pieces

(* A byte other than x goes to the end of the last piece. *)
LEMMA CutLast ==
  ASSUME NEW T, NEW q \in Seq(Seq(T)), NEW l \in Seq(T), NEW e \in T, NEW x, e # x
  PROVE  Cut(Append(q, l), e, x) = Append(q, Append(l, e))
<1> DEFINE p == Append(q, l)
           n == Len(q) + 1
           r == Append(l, e)
           k == Append(q, r)
           m == [p EXCEPT ![n] = r]
<1>1. Len(q) \in Nat /\ n \in 1..n
  OBVIOUS
<1>2. /\ p \in Seq(Seq(T)) /\ Len(p) = n /\ p[n] = l
      /\ \A i \in 1..Len(q) : p[i] = q[i]
  BY AppendProperties
<1>3. r \in Seq(T)
  BY AppendProperties
<1> HIDE DEF r
<1>4. /\ k \in Seq(Seq(T)) /\ Len(k) = n /\ k[n] = r
      /\ \A i \in 1..Len(q) : k[i] = q[i]
  BY <1>3, AppendProperties
<1> HIDE DEF p, k
<1>5. n \in 1..Len(p)
  BY <1>1, <1>2
<1> HIDE DEF n
<1>6. m \in Seq(Seq(T)) /\ Len(m) = Len(p)
  BY <1>2, <1>3, <1>5, ExceptSeq
<1>7. \A i \in 1..Len(p) : m[i] = IF i = n THEN r ELSE p[i]
  BY <1>2
<1>8. ASSUME NEW i \in 1..n PROVE m[i] = k[i]
  <2>1. i = n \/ i \in 1..Len(q)
    BY <1>1 DEF n
  <2>2. i = n => i \notin 1..Len(q)
    BY <1>1 DEF n
  <2> QED
    BY <1>2, <1>4, <1>7, <2>1, <2>2
<1> HIDE DEF m
<1>9. m = k
  BY <1>2, <1>4, <1>6, <1>8, SeqEqual
<1> QED
  BY <1>2, <1>9 DEF m, k, r, p, Cut

(* Bytes other than x make one piece. *)
LEMMA SplitOne ==
  ASSUME NEW T, NEW s \in Seq(T), NEW x, x \notin Bytes(s)
  PROVE  Split(s, x) = <<s>>
<1> DEFINE P == {t \in Seq(T) : x \notin Bytes(t) => Split(t, x) = <<t>>}
<1>1. <<>> \in P
  BY SplitEmpty
<1>2. ASSUME NEW t \in Seq(T), t \in P, NEW e \in T PROVE Append(t, e) \in P
  <2>1. Append(t, e) \in Seq(T)
    BY AppendProperties
  <2>2. ASSUME x \notin Bytes(Append(t, e)) PROVE Split(Append(t, e), x) = <<Append(t, e)>>
    <3>1. x \notin Bytes(t) /\ e # x
      BY <2>2, BytesAppend
    <3>2. Split(t, x) = <<t>>
      BY <1>2, <3>1
    <3>3. Split(Append(t, e), x) = [<<t>> EXCEPT ![Len(<<t>>)] = Append(@, e)]
      BY <3>1, <3>2, SplitAppend DEF Cut
    <3>4. Len(<<t>>) = 1 /\ <<t>>[1] = t
      OBVIOUS
    <3> QED
      BY <3>3, <3>4
  <2> QED
    BY <2>1, <2>2
<1> HIDE DEF P
<1>3. Seq(T) \subseteq P
  BY <1>1, <1>2, SequenceInduction
<1> QED
  BY <1>3 DEF P

(* What stands before a byte x and what stands behind it are cut apart. *)
LEMMA SplitConcat ==
  ASSUME NEW T, NEW x \in T, NEW u \in Seq(T), NEW v \in Seq(T)
  PROVE  Split(Append(u, x) \o v, x) = Split(u, x) \o Split(v, x)
<1> DEFINE w == Append(u, x)
           A == Split(u, x)
           P == {t \in Seq(T) : Split(w \o t, x) = A \o Split(t, x)}
<1>1. w \in Seq(T) /\ A \in Pieces(T) /\ A \in Seq(Seq(T))
  BY AppendProperties, SplitTyped DEF Pieces
<1>2. <<>> \in P
  <2>1. w \o <<>> = w
    BY <1>1, ConcatEmptySeq
  <2>2. Split(w, x) = Append(A, <<>>)
    BY SplitAppend DEF Cut
  <2>3. <<>> \in Seq(T)
    OBVIOUS
  <2>4. Append(A, <<>>) = A \o << <<>> >>
    BY <1>1, <2>3, AppendIsConcat
  <2> HIDE DEF w, A
  <2> QED
    BY <2>1, <2>2, <2>3, <2>4, SplitEmpty
<1>3. ASSUME NEW t \in Seq(T), t \in P, NEW e \in T PROVE Append(t, e) \in P
  <2> HIDE DEF w, A
  <2> DEFINE B == Split(t, x)
  <2>1. B \in Pieces(T) /\ B \in Seq(Seq(T)) /\ Len(B) \in Nat \ {0}
    BY SplitTyped DEF Pieces
  <2>2. w \o t \in Seq(T) /\ Append(t, e) \in Seq(T)
    BY <1>1, ConcatProperties, AppendProperties
  <2>3. w \o Append(t, e) = Append(w \o t, e)
    BY <1>1
  <2>4. Split(w \o Append(t, e), x) = Cut(A \o B, e, x)
    BY <1>3, <2>2, <2>3, SplitAppend
  <2>5. Split(Append(t, e), x) = Cut(B, e, x)
    BY SplitAppend
  <2> HIDE DEF B
  <2>6. Cut(A \o B, e, x) = A \o Cut(B, e, x)
    <3>1. CASE e = x
      <4>1. <<>> \in Seq(T)
        OBVIOUS
      <4>2. \A d \in Seq(T) : A \o Append(B, d) = Append(A \o B, d)
        BY <1>1, <2>1, ConcatAppend
      <4>3. A \o Append(B, <<>>) = Append(A \o B, <<>>)
        BY <4>1, <4>2
      <4> QED
        BY <3>1, <4>3 DEF Cut
    <3>2. CASE e # x
      <4>1. PICK F \in Seq(Seq(T)), l \in Seq(T) : B = Append(F, l)
        BY <2>1, PiecesLast
      <4>2. \A d \in Seq(T) : A \o Append(F, d) = Append(A \o F, d)
        BY <1>1, ConcatAppend
      <4>3. Append(l, e) \in Seq(T)
        BY AppendProperties
      <4>4. A \o F \in Seq(Seq(T))
        BY <1>1, ConcatProperties
      <4>5. Cut(B, e, x) = Append(F, Append(l, e))
        BY <3>2, <4>1, CutLast
      <4>6. Cut(A \o B, e, x) = Append(A \o F, Append(l, e))
        <5>1. A \o B = Append(A \o F, l)
          BY <4>1, <4>2
        <5>2. \A q \in Seq(Seq(T)) : Cut(Append(q, l), e, x) = Append(q, Append(l, e))
          BY <3>2, CutLast
        <5> QED
          BY <4>4, <5>1, <5>2
      <4>7. A \o Append(F, Append(l, e)) = Append(A \o F, Append(l, e))
        BY <4>2, <4>3
      <4> QED
        BY <4>5, <4>6, <4>7
    <3> QED
      BY <3>1, <3>2
  <2> QED
    BY <2>2, <2>4, <2>5, <2>6 DEF B
<1> HIDE DEF P
<1>4. Seq(T) \subseteq P
  BY <1>2, <1>3, SequenceInduction
<1> QED
  BY <1>4 DEF P

LEMMA SubSeqAppend ==
  ASSUME NEW T, NEW s \in Seq(T), NEW e \in T, NEW a \in 1..Len(s) + 1
  PROVE  /\ \A c \in 0..Len(s) : SubSeq(Append(s, e), a, c) = SubSeq(s, a, c)
         /\ SubSeq(Append(s, e), a, Len(s) + 1) = Append(SubSeq(s, a, Len(s)), e)
<1> DEFINE t == Append(s, e)
           n == Len(s)
<1>1. t \in Seq(T) /\ Len(t) = n + 1 /\ t[n + 1] = e /\ \A i \in 1..n : t[i] = s[i]
  BY AppendProperties
<1>2. n \in Nat /\ a \in 1..n + 1
  OBVIOUS
<1> HIDE DEF t, n
<1>3. ASSUME NEW c \in 0..n PROVE SubSeq(t, a, c) = SubSeq(s, a, c)
  <2>1. \A i \in a..c : t[i] = s[i] /\ s[i] \in T
    <3>1. \A i \in 1..n : t[i] = s[i] /\ s[i] \in T
      BY <1>1, ElementOfSeq DEF n
    <3> QED
      BY <1>2, <3>1
  <2>2. /\ SubSeq(t, a, c) \in Seq(T) /\ SubSeq(s, a, c) \in Seq(T)
        /\ Len(SubSeq(t, a, c)) = Len(SubSeq(s, a, c))
        /\ Len(SubSeq(t, a, c)) = IF a <= c THEN c - a + 1 ELSE 0
        /\ \A i \in 1..c - a + 1 : SubSeq(t, a, c)[i] = t[a + i - 1] /\ SubSeq(s, a, c)[i] = s[a + i - 1]
    BY <1>2, <2>1, SubSeqProperties
  <2>3. \A i \in 1..Len(SubSeq(t, a, c)) : SubSeq(t, a, c)[i] = SubSeq(s, a, c)[i]
    BY <1>2, <2>1, <2>2
  <2> QED
    BY <2>2, <2>3, SeqEqual
<1>4. SubSeq(t, a, n + 1) = Append(SubSeq(t, a, n), e)
  <2>1. a \in 1..Len(t) /\ n + 1 \in a..Len(t) /\ (n + 1) - 1 = n
    BY <1>1, <1>2
  <2>2. SubSeq(t, a, n + 1) = SubSeq(t, a, (n + 1) - 1) \o <<t[n + 1]>>
    BY <1>1, <2>1, SubSeqRecursiveSecond
  <2>3. \A i \in a..n : t[i] \in T
    BY <1>1, <2>1, ElementOfSeq
  <2>4. SubSeq(t, a, n) \in Seq(T)
    BY <1>2, <2>3, SubSeqProperties
  <2> QED
    BY <1>1, <2>1, <2>2, <2>4, AppendIsConcat
<1>5. n \in 0..n
  BY <1>2
<1> QED
  BY <1>3, <1>4, <1>5 DEF t, n

(* Where Split cuts.  w is what stands between the byte x at j, or the     *)
(* beginning, and the next x before it.                                    *)
IsPiece(s, x, w) ==
  \E j \in 1..Len(s) : \E a \in 1..j :
    /\ s[j] = x
    /\ a > 1 => s[a - 1] = x
    /\ \A i \in a..j - 1 : s[i] # x
    /\ w = SubSeq(s, a, j - 1)

\* w is what stands behind the last x.
IsLast(s, x, w) ==
  \E a \in 1..Len(s) + 1 : /\ a > 1 => s[a - 1] = x
                           /\ \A i \in a..Len(s) : s[i] # x
                           /\ w = SubSeq(s, a, Len(s))

CutUp(s, x, q, k) ==
  /\ Split(s, x) = Append(q, SubSeq(s, k + 1, Len(s)))
  /\ k > 0 => s[k] = x
  /\ \A i \in k + 1..Len(s) : s[i] # x
  /\ \A w : w \in Bytes(q) <=> IsPiece(s, x, w)

LEMMA PieceAppend ==
  ASSUME NEW T, NEW s \in Seq(T), NEW e \in T, NEW x, NEW w
  PROVE  IsPiece(Append(s, e), x, w) <=>
           IsPiece(s, x, w) \/ (e = x /\ IsLast(s, x, w))
<1> DEFINE t == Append(s, e)
           n == Len(s)
<1>1. t \in Seq(T) /\ Len(t) = n + 1 /\ t[n + 1] = e /\ \A i \in 1..n : t[i] = s[i]
  BY AppendProperties
<1>2. n \in Nat
  OBVIOUS
<1>3. \A a \in 1..n + 1 : \A c \in 0..n : SubSeq(t, a, c) = SubSeq(s, a, c)
  BY SubSeqAppend
<1> DEFINE Between(b, a, j) == /\ a > 1 => b[a - 1] = x
                               /\ \A i \in a..j - 1 : b[i] # x
                               /\ w = SubSeq(b, a, j - 1)
<1>4. ASSUME NEW j \in 1..n + 1, NEW a \in 1..j
      PROVE  Between(t, a, j) <=> Between(s, a, j)
  <2>1. j - 1 \in 0..n /\ a \in 1..n + 1 /\ (a > 1 => a - 1 \in 1..n) /\ a..j - 1 \subseteq 1..n
    BY <1>2
  <2>2. SubSeq(t, a, j - 1) = SubSeq(s, a, j - 1)
    BY <1>3, <2>1
  <2>3. a > 1 => t[a - 1] = s[a - 1]
    BY <1>1, <2>1
  <2>4. \A i \in a..j - 1 : t[i] = s[i]
    BY <1>1, <2>1
  <2> QED
    BY <2>2, <2>3, <2>4
<1>5. IsPiece(t, x, w) <=> \E j \in 1..n + 1 : \E a \in 1..j : t[j] = x /\ Between(t, a, j)
  BY <1>1 DEF IsPiece
<1>6. IsPiece(s, x, w) <=> \E j \in 1..n : \E a \in 1..j : s[j] = x /\ Between(s, a, j)
  BY DEF IsPiece
<1>7. IsLast(s, x, w) <=> \E a \in 1..n + 1 : Between(s, a, n + 1)
  <2>1. (n + 1) - 1 = n
    BY <1>2
  <2> QED
    BY <2>1 DEF IsLast
<1> HIDE DEF Between, t
<1>8. (\E j \in 1..n + 1 : \E a \in 1..j : t[j] = x /\ Between(t, a, j)) <=>
        \/ \E j \in 1..n : \E a \in 1..j : s[j] = x /\ Between(s, a, j)
        \/ e = x /\ \E a \in 1..n + 1 : Between(s, a, n + 1)
  <2>1. \A j : j \in 1..n + 1 <=> j \in 1..n \/ j = n + 1
    BY <1>2
  <2> HIDE DEF n
  <2> QED
    BY <1>1, <1>4, <2>1
<1> QED
  BY <1>5, <1>6, <1>7, <1>8 DEF t

LEMMA SplitCuts ==
  ASSUME NEW T, NEW x, NEW s \in Seq(T)
  PROVE  \E q \in Seq(Seq(T)) : \E k \in 0..Len(s) : CutUp(s, x, q, k)
<1> DEFINE P == {t \in Seq(T) : \E q \in Seq(Seq(T)) : \E k \in 0..Len(t) : CutUp(t, x, q, k)}
<1>1. <<>> \in P
  <2>1. <<>> \in Seq(T) /\ <<>> \in Seq(Seq(T)) /\ Len(<<>>) = 0 /\ 0 \in 0..0
    OBVIOUS
  <2>2. CutUp(<<>>, x, <<>>, 0)
    <3>1. Append(<<>>, SubSeq(<<>>, 0 + 1, Len(<<>>))) = << <<>> >>
      OBVIOUS
    <3>2. \A w : ~IsPiece(<<>>, x, w)
      BY <2>1 DEF IsPiece
    <3> QED
      <4>1. Split(<<>>, x) = Append(<<>>, SubSeq(<<>>, 0 + 1, Len(<<>>)))
        BY <3>1, SplitEmpty
      <4>2. \A w : w \in Bytes(<<>>) <=> IsPiece(<<>>, x, w)
        BY <3>2, BytesEmpty
      <4>3. ~(0 > 0) /\ \A i \in 0 + 1..Len(<<>>) : <<>>[i] # x
        BY <2>1
      <4> QED
        BY <4>1, <4>2, <4>3 DEF CutUp
  <2> QED
    BY <2>1, <2>2
<1>2. ASSUME NEW t \in Seq(T), t \in P, NEW e \in T PROVE Append(t, e) \in P
  <2> DEFINE n == Len(t)
             u == Append(t, e)
  <2>1. PICK q \in Seq(Seq(T)), k \in 0..n : CutUp(t, x, q, k)
    BY <1>2
  <2>2. u \in Seq(T) /\ Len(u) = n + 1 /\ u[n + 1] = e /\ \A i \in 1..n : u[i] = t[i]
    BY AppendProperties
  <2>3. n \in Nat /\ k \in 0..n /\ k + 1 \in 1..n + 1
    BY <2>1
  <2> DEFINE l == SubSeq(t, k + 1, n)
  <2>4. l \in Seq(T)
    <3>1. \A i \in k + 1..n : t[i] \in T
      BY <2>3, ElementOfSeq
    <3> QED
      BY <2>3, <3>1, SubSeqProperties
  <2>5. Split(t, x) = Append(q, l)
    BY <2>1 DEF CutUp
  <2>6. Split(u, x) = Cut(Append(q, l), e, x)
    BY <2>5, SplitAppend
  <2>7. (k > 0 => t[k] = x) /\ \A i \in k + 1..n : t[i] # x
    BY <2>1 DEF CutUp
  <2>8. \A w : w \in Bytes(q) <=> IsPiece(t, x, w)
    BY <2>1 DEF CutUp
  <2>9. CASE e = x
    <3>1. Append(q, l) \in Seq(Seq(T)) /\ Bytes(Append(q, l)) = Bytes(q) \cup {l}
      <4> HIDE DEF l
      <4>1. Append(q, l) \in Seq(Seq(T))
        BY <2>4, AppendProperties
      <4> QED
        BY <2>4, <4>1, BytesAppend
    <3>2. Split(u, x) = Append(Append(q, l), <<>>)
      BY <2>6, <2>9 DEF Cut
    <3>3. SubSeq(u, n + 1 + 1, Len(u)) = <<>>
      BY <2>2, <2>3, SubSeqEmpty
    <3>4. ASSUME NEW w
          PROVE  w = l <=> IsLast(t, x, w)
      <4>1. ASSUME NEW a \in 1..n + 1, a > 1 => t[a - 1] = x, \A i \in a..n : t[i] # x
            PROVE  a = k + 1
        <5>1. ~(a < k + 1)
          <6>1. a < k + 1 => k \in a..n /\ k > 0
            BY <2>3
          <6> QED
            BY <2>7, <4>1, <6>1
        <5>2. ~(a > k + 1)
          <6>1. a > k + 1 => a - 1 \in k + 1..n /\ a > 1
            BY <2>3
          <6> QED
            BY <2>7, <4>1, <6>1
        <5> QED
          BY <2>3, <5>1, <5>2
      <4>2. (k + 1 > 1 => t[(k + 1) - 1] = x) /\ k + 1 \in 1..n + 1
        BY <2>3, <2>7
      <4>3. IsLast(t, x, w) => w = l
        BY <4>1 DEF IsLast
      <4>4. IsLast(t, x, l)
        <5>1. \E a \in 1..n + 1 : /\ a > 1 => t[a - 1] = x
                                  /\ \A i \in a..n : t[i] # x
                                  /\ l = SubSeq(t, a, n)
          BY <2>7, <4>2
        <5> QED
          BY <5>1 DEF IsLast
      <4> QED
        BY <4>3, <4>4
    <3>5. \A w : w \in Bytes(Append(q, l)) <=> IsPiece(u, x, w)
      <4>1. \A w : IsPiece(u, x, w) <=> IsPiece(t, x, w) \/ w = l
        <5> HIDE DEF l
        <5>1. \A w : IsPiece(u, x, w) <=> IsPiece(t, x, w) \/ (e = x /\ IsLast(t, x, w))
          BY PieceAppend
        <5> QED
          BY <2>9, <3>4, <5>1
      <4> QED
        BY <2>8, <3>1, <4>1
    <3>6. n + 1 \in 0..Len(u) /\ u[n + 1] = x /\ \A i \in n + 1 + 1..Len(u) : u[i] # x
      BY <2>2, <2>3, <2>9
    <3>7. CutUp(u, x, Append(q, l), n + 1)
      <4> HIDE DEF u, l, n
      <4> QED
        BY <3>2, <3>3, <3>5, <3>6 DEF CutUp
    <3> HIDE DEF u, l, n
    <3> QED
      BY <2>2, <3>1, <3>6, <3>7 DEF u
  <2>10. CASE e # x
    <3>1. Split(u, x) = Append(q, Append(l, e))
      <4> HIDE DEF l, u
      <4> QED
        BY <2>4, <2>6, <2>10, CutLast
    <3>2. SubSeq(u, k + 1, Len(u)) = Append(l, e)
      BY <2>2, <2>3, SubSeqAppend
    <3>3. \A w : w \in Bytes(q) <=> IsPiece(u, x, w)
      BY <2>8, <2>10, PieceAppend
    <3>4. k > 0 => u[k] = x
      BY <2>2, <2>3, <2>7
    <3>5. \A i \in k + 1..Len(u) : u[i] # x
      BY <2>2, <2>3, <2>7, <2>10
    <3>6. CutUp(u, x, q, k)
      <4> HIDE DEF u, l, n
      <4> QED
        BY <3>1, <3>2, <3>3, <3>4, <3>5 DEF CutUp
    <3>7. k \in 0..Len(u)
      BY <2>2, <2>3
    <3> HIDE DEF u, l, n
    <3> QED
      BY <2>2, <3>6, <3>7 DEF u
  <2> QED
    BY <2>9, <2>10
<1> HIDE DEF P
<1>3. Seq(T) \subseteq P
  BY <1>1, <1>2, SequenceInduction
<1> QED
  BY <1>3 DEF P

(* The pieces of s are those that x ends in s and one more x. *)
LEMMA SplitBytes ==
  ASSUME NEW T, NEW x \in T, NEW s \in Seq(T), NEW w
  PROVE  w \in Bytes(Split(s, x)) <=> IsPiece(Append(s, x), x, w)
<1>1. PICK q \in Seq(Seq(T)), k \in 0..Len(Append(s, x)) : CutUp(Append(s, x), x, q, k)
  BY SplitCuts, AppendProperties
<1>2. Split(Append(s, x), x) = Append(Split(s, x), <<>>)
  BY SplitAppend DEF Cut
<1>3. Split(s, x) \in Seq(Seq(T)) /\ <<>> \in Seq(T)
  BY SplitTyped DEF Pieces
<1> DEFINE l == SubSeq(Append(s, x), k + 1, Len(Append(s, x)))
<1>4. l \in Seq(T)
  <2>1. Append(s, x) \in Seq(T)
    BY AppendProperties
  <2>2. \A i \in k + 1..Len(Append(s, x)) : Append(s, x)[i] \in T
    BY <2>1, ElementOfSeq
  <2>3. k + 1 \in Int /\ Len(Append(s, x)) \in Int
    BY <2>1
  <2> QED
    BY <2>2, <2>3, SubSeqProperties
<1>5. Append(q, l) = Append(Split(s, x), <<>>)
  BY <1>1, <1>2 DEF CutUp
<1> HIDE DEF l
<1>6. q = Split(s, x)
  BY <1>3, <1>4, <1>5, AppendInjective
<1> QED
  BY <1>1, <1>6 DEF CutUp

LEMMA BytesSubSeq ==
  ASSUME NEW T, NEW s \in Seq(T), NEW a \in 1..Len(s) + 1, NEW c \in 0..Len(s)
  PROVE  /\ SubSeq(s, a, c) \in Seq(T)
         /\ Len(SubSeq(s, a, c)) = IF a <= c THEN c - a + 1 ELSE 0
         /\ \A i \in 1..c - a + 1 : SubSeq(s, a, c)[i] = s[a + i - 1]
         /\ Bytes(SubSeq(s, a, c)) = {s[i] : i \in a..c}
<1>1. \A i \in a..c : s[i] \in T
  BY ElementOfSeq
<1>2. SubSeq(s, a, c) \in Seq(T)
  BY <1>1, SubSeqProperties
<1>3. Len(SubSeq(s, a, c)) = IF a <= c THEN c - a + 1 ELSE 0
  BY <1>1, SubSeqProperties
<1>4. \A i \in 1..c - a + 1 : SubSeq(s, a, c)[i] = s[a + i - 1]
  BY <1>1, SubSeqProperties
<1>5. DOMAIN SubSeq(s, a, c) = 1..c - a + 1
  BY <1>2, <1>3
<1>6. ASSUME NEW i \in a..c PROVE \E j \in 1..c - a + 1 : s[i] = SubSeq(s, a, c)[j]
  <2>1. PICK j \in 1..c - a + 1 : a + j - 1 = i
    <3>1. i - a + 1 \in 1..c - a + 1 /\ a + (i - a + 1) - 1 = i
      OBVIOUS
    <3> QED
      BY <3>1
  <2> QED
    BY <1>4, <2>1
<1>7. ASSUME NEW j \in 1..c - a + 1 PROVE \E i \in a..c : s[i] = SubSeq(s, a, c)[j]
  <2>1. a + j - 1 \in a..c
    OBVIOUS
  <2> QED
    BY <1>4, <2>1
<1>8. Bytes(SubSeq(s, a, c)) = {s[i] : i \in a..c}
  <2> DEFINE r == SubSeq(s, a, c)
  <2> HIDE DEF r
  <2>1. Bytes(r) = {r[j] : j \in 1..c - a + 1}
    BY <1>5 DEF Bytes, r
  <2>2. {r[j] : j \in 1..c - a + 1} = {s[i] : i \in a..c}
    <3>1. \A j \in 1..c - a + 1 : \E i \in a..c : s[i] = r[j]
      BY <1>7 DEF r
    <3>2. \A i \in a..c : \E j \in 1..c - a + 1 : s[i] = r[j]
      BY <1>6 DEF r
    <3>3. ASSUME NEW w \in {r[j] : j \in 1..c - a + 1} PROVE w \in {s[i] : i \in a..c}
      <4>1. PICK j \in 1..c - a + 1 : w = r[j]
        OBVIOUS
      <4>2. PICK i \in a..c : s[i] = r[j]
        BY <3>1
      <4> QED
        BY <4>1, <4>2
    <3>4. ASSUME NEW w \in {s[i] : i \in a..c} PROVE w \in {r[j] : j \in 1..c - a + 1}
      <4>1. PICK i \in a..c : w = s[i]
        OBVIOUS
      <4>2. PICK j \in 1..c - a + 1 : s[i] = r[j]
        BY <3>2
      <4> QED
        BY <4>1, <4>2
    <3> QED
      BY <3>3, <3>4
  <2> QED
    BY <2>1, <2>2 DEF r
<1> QED
  BY <1>2, <1>3, <1>4, <1>8

LEMMA SubSeqSubSeq ==
  ASSUME NEW T, NEW s \in Seq(T), NEW a \in 1..Len(s) + 1, NEW b \in 0..Len(s),
         NEW c \in Nat \ {0}, NEW d \in Nat, a + c - 1 <= Len(s) + 1, a + d - 1 <= b
  PROVE  SubSeq(SubSeq(s, a, b), c, d) = SubSeq(s, a + c - 1, a + d - 1)
<1> DEFINE r == SubSeq(s, a, b)
           L == SubSeq(r, c, d)
           R == SubSeq(s, a + c - 1, a + d - 1)
<1>1. Len(s) \in Nat /\ a + c - 1 \in 1..Len(s) + 1 /\ a + d - 1 \in 0..Len(s)
  OBVIOUS
<1>2. /\ r \in Seq(T)
      /\ Len(r) = IF a <= b THEN b - a + 1 ELSE 0
      /\ \A i \in 1..b - a + 1 : r[i] = s[a + i - 1]
  BY BytesSubSeq
<1>3. /\ R \in Seq(T)
      /\ Len(R) = IF a + c - 1 <= a + d - 1 THEN (a + d - 1) - (a + c - 1) + 1 ELSE 0
      /\ \A i \in 1..(a + d - 1) - (a + c - 1) + 1 : R[i] = s[(a + c - 1) + i - 1]
  BY <1>1, BytesSubSeq
<1> HIDE DEF r, R
<1>4. CASE c > d
  <2>1. L = <<>>
    BY <1>4, SubSeqEmpty
  <2>2. Len(R) = 0
    BY <1>3, <1>4
  <2> QED
    BY <1>3, <2>1, <2>2 DEF r, R
<1>5. CASE c <= d
  <2>1. c \in 1..Len(r) + 1 /\ d \in 0..Len(r)
    BY <1>2, <1>5
  <2>2. /\ L \in Seq(T)
        /\ Len(L) = IF c <= d THEN d - c + 1 ELSE 0
        /\ \A i \in 1..d - c + 1 : L[i] = r[c + i - 1]
    BY <1>2, <2>1, BytesSubSeq
  <2>3. Len(L) = d - c + 1 /\ Len(R) = d - c + 1
    BY <1>3, <1>5, <2>2
  <2>4. ASSUME NEW i \in 1..d - c + 1 PROVE L[i] = R[i]
    <3>1. PICK j \in 1..b - a + 1 : j = c + i - 1
      BY <1>5
    <3>2. a + j - 1 = (a + c - 1) + i - 1
      BY <1>5, <3>1
    <3>3. i \in 1..(a + d - 1) - (a + c - 1) + 1
      BY <1>5
    <3> QED
      BY <1>2, <1>3, <2>2, <3>1, <3>2, <3>3
  <2> HIDE DEF L
  <2> QED
    BY <1>3, <2>2, <2>3, <2>4, SeqEqual DEF L, r, R
<1> QED
  BY <1>4, <1>5

LEMMA AppendPair == ASSUME NEW a, NEW b PROVE Append(<<a>>, b) = <<a, b>>
<1> DEFINE S == {a, b}
           t == <<a>>
           u == <<a, b>>
<1>1. /\ t \in Seq(S) /\ u \in Seq(S) /\ b \in S /\ Len(t) = 1 /\ Len(u) = 2
      /\ t[1] = a /\ u[1] = a /\ u[2] = b
  OBVIOUS
<1> HIDE DEF t, u, S
<1>2. /\ Append(t, b) \in Seq(S) /\ Len(Append(t, b)) = 2
      /\ Append(t, b)[1] = a /\ Append(t, b)[2] = b
  <2>1. /\ Append(t, b) \in Seq(S) /\ Len(Append(t, b)) = Len(t) + 1
        /\ \A i \in 1..Len(t) : Append(t, b)[i] = t[i]
        /\ Append(t, b)[Len(t) + 1] = b
    <3>1. t \in Seq(S) /\ b \in S
      BY <1>1
    <3> QED
      BY <3>1, AppendProperties
  <2>2. 1 \in 1..1 /\ 1 + 1 = 2
    OBVIOUS
  <2> QED
    BY <1>1, <2>1, <2>2
<1>3. \A i \in 1..2 : i = 1 \/ i = 2
  OBVIOUS
<1>4. \A i \in 1..2 : Append(t, b)[i] = u[i]
  BY <1>1, <1>2, <1>3
<1> QED
  BY <1>1, <1>2, <1>4, SeqEqual DEF t, u

LEMMA AppendTriple == ASSUME NEW a, NEW b, NEW c PROVE Append(<<a, b>>, c) = <<a, b, c>>
<1> DEFINE S == {a, b, c}
           t == <<a, b>>
           u == <<a, b, c>>
<1>1. /\ t \in Seq(S) /\ u \in Seq(S) /\ c \in S /\ Len(t) = 2 /\ Len(u) = 3
      /\ t[1] = a /\ t[2] = b /\ u[1] = a /\ u[2] = b /\ u[3] = c
  OBVIOUS
<1> HIDE DEF t, u, S
<1>2. /\ Append(t, c) \in Seq(S) /\ Len(Append(t, c)) = 3
      /\ Append(t, c)[1] = a /\ Append(t, c)[2] = b /\ Append(t, c)[3] = c
  <2>1. /\ Append(t, c) \in Seq(S) /\ Len(Append(t, c)) = Len(t) + 1
        /\ \A i \in 1..Len(t) : Append(t, c)[i] = t[i]
        /\ Append(t, c)[Len(t) + 1] = c
    <3>1. t \in Seq(S) /\ c \in S
      BY <1>1
    <3> QED
      BY <3>1, AppendProperties
  <2>2. 1 \in 1..2 /\ 2 \in 1..2 /\ 2 + 1 = 3
    OBVIOUS
  <2> QED
    BY <1>1, <2>1, <2>2
<1>3. \A i \in 1..3 : i = 1 \/ i = 2 \/ i = 3
  OBVIOUS
<1>4. \A i \in 1..3 : Append(t, c)[i] = u[i]
  BY <1>1, <1>2, <1>3
<1> QED
  BY <1>1, <1>2, <1>4, SeqEqual DEF t, u

LEMMA ThreeTuples ==
  ASSUME NEW a, NEW b, NEW c
  PROVE  <<a>> \o (<<b>> \o <<c>>) = <<a, b, c>>
<1> DEFINE S == {a, b, c}
<1>1. <<a>> \in Seq(S) /\ <<b>> \in Seq(S) /\ c \in S /\ b \in S
  OBVIOUS
<1>2. <<b>> \o <<c>> = Append(<<b>>, c)
  BY <1>1, AppendIsConcat
<1>3. <<a>> \o Append(<<b>>, c) = Append(<<a>> \o <<b>>, c)
  BY <1>1, ConcatAppend
<1>4. <<a>> \o <<b>> = Append(<<a>>, b)
  BY <1>1, AppendIsConcat
<1> QED
  BY <1>2, <1>3, <1>4, AppendPair, AppendTriple

(* The first x, and what follows it. *)
LEMMA SplitFirst ==
  ASSUME NEW T, NEW x \in T, NEW s \in Seq(T), NEW p \in 1..Len(s),
         s[p] = x, \A k \in 1..p - 1 : s[k] # x
  PROVE  Split(s, x) = <<SubSeq(s, 1, p - 1)>> \o Split(SubSeq(s, p + 1, Len(s)), x)
<1> DEFINE n == Len(s)
           u == SubSeq(s, 1, p - 1)
           v == SubSeq(s, p + 1, n)
<1>1. n \in Nat /\ p \in 1..n
  OBVIOUS
<1>2. u \in Seq(T) /\ v \in Seq(T) /\ Bytes(u) = {s[i] : i \in 1..p - 1}
  BY <1>1, BytesSubSeq
<1>3. SubSeq(s, 1, p) = Append(u, x)
  <2>1. SubSeq(s, 1, p) = u \o <<s[p]>>
    BY <1>1, SubSeqRecursiveSecond
  <2> QED
    BY <1>2, <2>1, AppendIsConcat
<1>4. s = SubSeq(s, 1, p) \o v
  <2>1. SubSeq(s, 1, n) = s
    BY SubSeqFull
  <2>2. SubSeq(s, 1, p) \o SubSeq(s, p + 1, n) = SubSeq(s, 1, n)
    BY <1>1, ConcatAdjacentSubSeq
  <2> QED
    BY <2>1, <2>2
<1> HIDE DEF u, v, n
<1>5. Split(s, x) = Split(u, x) \o Split(v, x)
  <2>1. s = Append(u, x) \o v
    BY <1>3, <1>4
  <2>2. Split(Append(u, x) \o v, x) = Split(u, x) \o Split(v, x)
    BY <1>2, SplitConcat
  <2> QED
    BY <2>1, <2>2
<1>6. x \notin Bytes(u)
  BY <1>2
<1> QED
  BY <1>2, <1>5, <1>6, SplitOne DEF u, v, n

LEMMA FirstByte ==
  ASSUME NEW T, NEW x, NEW s \in Seq(T), x \in Bytes(s)
  PROVE  \E p \in 1..Len(s) : s[p] = x /\ \A k \in 1..p - 1 : s[k] # x
<1> DEFINE S == {k \in 1..Len(s) : s[k] = x}
<1>1. S \in SUBSET Nat /\ S # {}
  BY DEF Bytes
<1>2. PICK p \in S : \A k \in S : p <= k
  BY <1>1, Least
<1>3. ASSUME NEW k \in 1..p - 1 PROVE s[k] # x
  <2>1. k \in 1..Len(s) /\ ~(p <= k)
    OBVIOUS
  <2> QED
    BY <1>2, <2>1
<1> QED
  BY <1>3

\* x is in s at p and at q and nowhere else.
TwoCuts(s, x, p, q) == /\ p \in 1..Len(s) /\ q \in p + 1..Len(s)
                       /\ s[p] = x /\ s[q] = x
                       /\ \A k \in 1..Len(s) : s[k] = x => k \in {p, q}

LEMMA SplitTwoCuts ==
  ASSUME NEW T, NEW x \in T, NEW s \in Seq(T), NEW p, NEW q, TwoCuts(s, x, p, q)
  PROVE  Split(s, x) = <<SubSeq(s, 1, p - 1), SubSeq(s, p + 1, q - 1), SubSeq(s, q + 1, Len(s))>>
<1> DEFINE n == Len(s)
           r == SubSeq(s, p + 1, n)
<1>1. n \in Nat /\ p \in 1..n /\ q \in p + 1..n
  BY DEF TwoCuts
<1>2. Split(s, x) = <<SubSeq(s, 1, p - 1)>> \o Split(r, x)
  <2>1. \A k \in 1..p - 1 : k \in 1..n /\ k \notin {p, q}
    BY <1>1
  <2>2. \A k \in 1..p - 1 : s[k] # x
    BY <2>1 DEF TwoCuts
  <2> QED
    BY <1>1, <2>2, SplitFirst DEF TwoCuts
<1>3. r \in Seq(T) /\ Len(r) = n - p /\ \A i \in 1..n - p : r[i] = s[p + i]
  <2>1. p + 1 \in 1..n + 1 /\ n \in 0..n
    BY <1>1
  <2>2. /\ r \in Seq(T)
        /\ Len(r) = IF p + 1 <= n THEN n - (p + 1) + 1 ELSE 0
        /\ \A i \in 1..n - (p + 1) + 1 : r[i] = s[(p + 1) + i - 1]
    BY <2>1, BytesSubSeq
  <2>3. \A i : i \in 1..n - p => i \in 1..n - (p + 1) + 1 /\ (p + 1) + i - 1 = p + i
    BY <1>1
  <2>4. \A i \in 1..n - p : r[i] = s[p + i]
    BY <2>2, <2>3
  <2>5. Len(r) = n - p
    BY <1>1, <2>2
  <2> QED
    BY <2>2, <2>4, <2>5
<1> DEFINE m == q - p
<1>4. Split(r, x) = <<SubSeq(r, 1, m - 1)>> \o Split(SubSeq(r, m + 1, Len(r)), x)
  <2>1. m \in 1..Len(r) /\ r[m] = x
    <3>1. m \in 1..n - p /\ p + m = q
      BY <1>1
    <3> QED
      BY <1>3, <3>1 DEF TwoCuts
  <2>2. ASSUME NEW k \in 1..m - 1 PROVE r[k] # x
    <3>1. k \in 1..n - p /\ p + k \in 1..n /\ p + k \notin {p, q}
      BY <1>1
    <3> QED
      BY <1>3, <3>1 DEF TwoCuts
  <2> HIDE DEF r, m
  <2> QED
    BY <1>3, <2>1, <2>2, SplitFirst
<1>5. SubSeq(r, 1, m - 1) = SubSeq(s, p + 1, q - 1)
  BY <1>1, SubSeqSubSeq
<1>6. SubSeq(r, m + 1, Len(r)) = SubSeq(s, q + 1, n)
  BY <1>1, <1>3, SubSeqSubSeq
<1>7. Split(SubSeq(s, q + 1, n), x) = <<SubSeq(s, q + 1, n)>>
  <2>1. q + 1 \in 1..n + 1 /\ n \in 0..n
    BY <1>1
  <2>2. SubSeq(s, q + 1, n) \in Seq(T) /\ Bytes(SubSeq(s, q + 1, n)) = {s[i] : i \in q + 1..n}
    BY <2>1, BytesSubSeq
  <2>3. \A i \in q + 1..n : i \in 1..n /\ i \notin {p, q}
    BY <1>1
  <2>4. x \notin Bytes(SubSeq(s, q + 1, n))
    BY <2>2, <2>3 DEF TwoCuts
  <2> HIDE DEF n
  <2> QED
    BY <2>2, <2>4, SplitOne
<1> HIDE DEF r, m, n
<1>8. Split(s, x) = <<SubSeq(s, 1, p - 1)>> \o (<<SubSeq(s, p + 1, q - 1)>> \o <<SubSeq(s, q + 1, n)>>)
  BY <1>2, <1>4, <1>5, <1>6, <1>7
<1> QED
  BY <1>8, ThreeTuples DEF n

LEMMA FrontTyped ==
  ASSUME NEW T, NEW s \in Seq(T), NEW p \in 1..Len(s)
  PROVE  SubSeq(s, 1, p - 1) \in Seq(T)
<1>1. 1 \in 1..Len(s) + 1 /\ p - 1 \in 0..Len(s)
  OBVIOUS
<1> QED
  BY <1>1, BytesSubSeq

(* Three pieces are what two cuts make. *)
LEMMA SplitThree ==
  ASSUME NEW T, NEW x \in T, NEW s \in Seq(T), Len(Split(s, x)) = 3
  PROVE  \E p, q : TwoCuts(s, x, p, q)
<1> DEFINE n == Len(s)
<1>1. x \in Bytes(s)
  <2> SUFFICES ASSUME x \notin Bytes(s) PROVE FALSE
    OBVIOUS
  <2>1. Split(s, x) = <<s>>
    BY SplitOne
  <2> QED
    BY <2>1
<1>2. PICK p \in 1..n : s[p] = x /\ \A k \in 1..p - 1 : s[k] # x
  BY <1>1, FirstByte
<1> DEFINE r == SubSeq(s, p + 1, n)
<1>3. r \in Seq(T) /\ Len(r) = n - p /\ \A i \in 1..n - p : r[i] = s[p + i]
  <2>1. p + 1 \in 1..n + 1 /\ n \in 0..n
    OBVIOUS
  <2>2. /\ r \in Seq(T)
        /\ Len(r) = IF p + 1 <= n THEN n - (p + 1) + 1 ELSE 0
        /\ \A i \in 1..n - (p + 1) + 1 : r[i] = s[(p + 1) + i - 1]
    BY <2>1, BytesSubSeq
  <2>3. \A i : i \in 1..n - p => i \in 1..n - (p + 1) + 1 /\ (p + 1) + i - 1 = p + i
    OBVIOUS
  <2>4. \A i \in 1..n - p : r[i] = s[p + i]
    BY <2>2, <2>3
  <2>5. Len(r) = n - p
    BY <2>2
  <2> QED
    BY <2>2, <2>4, <2>5
<1>4. Split(s, x) = <<SubSeq(s, 1, p - 1)>> \o Split(r, x)
  BY <1>2, SplitFirst
<1>5. \A t \in Seq(T) : \A w \in Seq(T) : /\ Len(<<w>> \o Split(t, x)) = 1 + Len(Split(t, x))
                                          /\ Len(Split(t, x)) \in Nat \ {0}
  <2> SUFFICES ASSUME NEW t \in Seq(T), NEW w \in Seq(T)
               PROVE  /\ Len(<<w>> \o Split(t, x)) = 1 + Len(Split(t, x))
                      /\ Len(Split(t, x)) \in Nat \ {0}
    OBVIOUS
  <2>1. Split(t, x) \in Pieces(T)
    BY SplitTyped
  <2> QED
    BY <2>1 DEF Pieces
<1> HIDE DEF r
<1>6. Len(Split(r, x)) = 2
  <2>1. SubSeq(s, 1, p - 1) \in Seq(T)
    BY FrontTyped
  <2>2. Len(Split(s, x)) = 1 + Len(Split(r, x)) /\ Len(Split(r, x)) \in Nat
    BY <1>3, <1>4, <1>5, <2>1
  <2>3. \A i \in Nat : 3 = 1 + i => i = 2
    OBVIOUS
  <2> QED
    BY <2>2, <2>3
<1>7. x \in Bytes(r)
  <2> SUFFICES ASSUME x \notin Bytes(r) PROVE FALSE
    OBVIOUS
  <2>1. Split(r, x) = <<r>>
    BY <1>3, SplitOne
  <2> QED
    BY <1>6, <2>1
<1>8. PICK m \in 1..Len(r) : r[m] = x /\ \A k \in 1..m - 1 : r[k] # x
  BY <1>3, <1>7, FirstByte
<1> DEFINE v == SubSeq(r, m + 1, Len(r))
<1>9. v \in Seq(T) /\ Bytes(v) = {r[i] : i \in m + 1..Len(r)}
  <2>1. r \in Seq(T)
    BY <1>3
  <2>2. m + 1 \in 1..Len(r) + 1 /\ Len(r) \in 0..Len(r)
    BY <2>1
  <2>3. \A a \in 1..Len(r) + 1 : \A c \in 0..Len(r) :
          SubSeq(r, a, c) \in Seq(T) /\ Bytes(SubSeq(r, a, c)) = {r[i] : i \in a..c}
    BY <2>1, BytesSubSeq
  <2> QED
    BY <2>2, <2>3
<1>10. Split(r, x) = <<SubSeq(r, 1, m - 1)>> \o Split(v, x)
  BY <1>3, <1>8, SplitFirst
<1> HIDE DEF v
<1>11. Len(Split(v, x)) = 1
  <2>1. SubSeq(r, 1, m - 1) \in Seq(T)
    BY <1>3, FrontTyped
  <2>2. Len(Split(r, x)) = 1 + Len(Split(v, x)) /\ Len(Split(v, x)) \in Nat
    BY <1>5, <1>9, <1>10, <2>1
  <2>3. \A i \in Nat : 2 = 1 + i => i = 1
    OBVIOUS
  <2> QED
    BY <1>6, <2>2, <2>3
<1>12. x \notin Bytes(v)
  <2> SUFFICES ASSUME x \in Bytes(v) PROVE FALSE
    OBVIOUS
  <2>0. v \in Seq(T)
    BY <1>9
  <2>1. PICK j \in 1..Len(v) : v[j] = x /\ \A k \in 1..j - 1 : v[k] # x
    BY <2>0, FirstByte
  <2>2. Split(v, x) = <<SubSeq(v, 1, j - 1)>> \o Split(SubSeq(v, j + 1, Len(v)), x)
    BY <1>9, <2>1, SplitFirst
  <2>3. SubSeq(v, j + 1, Len(v)) \in Seq(T)
    <3>1. j + 1 \in 1..Len(v) + 1 /\ Len(v) \in 0..Len(v)
      BY <1>9
    <3> QED
      BY <1>9, <3>1, BytesSubSeq
  <2>4. SubSeq(v, 1, j - 1) \in Seq(T)
    BY <1>9, FrontTyped
  <2>5. Len(Split(v, x)) = 1 + Len(Split(SubSeq(v, j + 1, Len(v)), x))
        /\ Len(Split(SubSeq(v, j + 1, Len(v)), x)) \in Nat \ {0}
    BY <1>5, <2>2, <2>3, <2>4
  <2>6. \A i \in Nat \ {0} : 1 # 1 + i
    OBVIOUS
  <2> QED
    BY <1>11, <2>5, <2>6
<1>13. p + m \in p + 1..n /\ s[p + m] = x
  BY <1>3, <1>8
<1>14. ASSUME NEW k \in 1..n, s[k] = x PROVE k \in {p, p + m}
  <2>1. ~(k < p)
    BY <1>2, <1>14
  <2>2. k > p => k - p \in 1..n - p /\ p + (k - p) = k
    OBVIOUS
  <2>3. k > p => r[k - p] = x
    BY <1>3, <1>14, <2>2
  <2>4. k > p => ~(k - p < m)
    BY <1>3, <1>8, <2>2, <2>3
  <2>5. k > p => ~(k - p > m)
    BY <1>3, <1>9, <1>12, <2>2, <2>3
  <2> QED
    BY <1>3, <2>1, <2>4, <2>5
<1>15. TwoCuts(s, x, p, p + m)
  BY <1>2, <1>13, <1>14 DEF TwoCuts
<1> QED
  BY <1>15

-----------------------------------------------------------------------------
(* TrimRight and Halve. *)

LEMMA TrimRightCut ==
  ASSUME NEW T, NEW s \in Seq(T), NEW x
  PROVE  \E m \in 0..Len(s) : /\ TrimRight(s, x) = SubSeq(s, 1, m)
                              /\ m > 0 => s[m] # x
                              /\ \A i \in m + 1..Len(s) : s[i] = x
<1> DEFINE n == Len(s)
           kept == {i \in 1..n : \E j \in i..n : s[j] # x}
<1>1. n \in Nat /\ DOMAIN s = 1..n /\ \A i \in 1..n : s[i] \in T
  BY ElementOfSeq
<1>2. TrimRight(s, x) = [i \in kept |-> s[i]]
  BY <1>1 DEF TrimRight
<1>3. \E m \in 0..n : kept = 1..m
  <2>1. CASE kept = {}
    <3>1. 0 \in 0..n /\ 1..0 = {}
      BY <1>1
    <3> QED
      BY <2>1, <3>1
  <2>2. CASE kept # {}
    <3>1. kept \in SUBSET (0..n)
      BY <1>1
    <3>2. PICK m \in kept : \A k \in kept : k <= m
      <4> HIDE DEF kept, n
      <4> QED
        BY <1>1, <2>2, <3>1, Greatest
    <3>3. m \in 1..n /\ \E j \in m..n : s[j] # x
      OBVIOUS
    <3>4. ASSUME NEW i \in 1..m PROVE i \in kept
      <4>1. i \in 1..n
        BY <1>1, <3>3
      <4>2. \A j \in m..n : j \in i..n
        BY <1>1, <3>3
      <4> QED
        BY <3>3, <4>1, <4>2
    <3>5. \A i \in kept : i \in 1..m
      BY <1>1, <3>2, <3>3
    <3> HIDE DEF kept
    <3>6. kept \subseteq 1..m /\ 1..m \subseteq kept
      BY <3>4, <3>5
    <3>7. m \in 0..n
      BY <1>1, <3>3
    <3> QED
      BY <3>6, <3>7
  <2> QED
    BY <2>1, <2>2
<1>4. PICK m \in 0..n : kept = 1..m
  BY <1>3
<1>5. \A i \in m + 1..n : s[i] = x
  <2> SUFFICES ASSUME NEW i \in m + 1..n PROVE s[i] = x
    OBVIOUS
  <2>1. i \in 1..n /\ i \notin 1..m /\ i \in i..n
    BY <1>1
  <2> QED
    BY <1>4, <2>1
<1>6. m > 0 => s[m] # x
  <2> SUFFICES ASSUME m > 0 PROVE s[m] # x
    OBVIOUS
  <2>1. m \in kept
    BY <1>1, <1>4
  <2>2. PICK j \in m..n : s[j] # x
    BY <2>1
  <2>3. j = m \/ j \in m + 1..n
    BY <1>1
  <2> QED
    BY <1>5, <2>2, <2>3
<1> HIDE DEF kept
<1>7. TrimRight(s, x) = SubSeq(s, 1, m)
  <2>1. TrimRight(s, x) = [i \in 1..m |-> s[i]]
    BY <1>2, <1>4
  <2>2. SubSeq(s, 1, m) = [i \in 1..m - 1 + 1 |-> s[1 + i - 1]]
    BY <1>1 DEF n
  <2>3. m - 1 + 1 = m /\ \A i \in 1..m : 1 + i - 1 = i
    BY <1>1
  <2> QED
    BY <2>1, <2>2, <2>3
<1> QED
  BY <1>5, <1>6, <1>7 DEF n

LEMMA TrimRightTyped ==
  ASSUME NEW T, NEW s \in Seq(T), NEW x
  PROVE  TrimRight(s, x) \in Seq(T)
BY TrimRightCut, BytesSubSeq

Halves(T) == [out : Seq(T), half : BOOLEAN]

HalveStep(T, s, x) == [i \in 1..Len(s) |-> [r \in Halves(T) |-> Thin(r, s[i], x)]]

LEMMA HalveFunction ==
  ASSUME NEW T, NEW s \in Seq(T), NEW x
  PROVE  \E f \in [0..Len(s) -> Halves(T)] :
           /\ Halve(s, x) = f[Len(s)].out
           /\ Follows(f, Len(s), [out |-> <<>>, half |-> FALSE], HalveStep(T, s, x))
<1> DEFINE n == Len(s)
           V == Halves(T)
           first == [out |-> <<>>, half |-> FALSE]
           step == HalveStep(T, s, x)
           Rec(h) == [i \in 0..Len(s) |->
             IF i = 0 THEN [out |-> <<>>, half |-> FALSE] ELSE Thin(h[i - 1], s[i], x)]
<1>1. n \in Nat /\ first \in V
  BY DEF Halves
<1>2. step \in [1..n -> [V -> V]]
  <2>1. ASSUME NEW i \in 1..n, NEW r \in V PROVE Thin(r, s[i], x) \in V
    <3>1. r \in [out : Seq(T), half : BOOLEAN] /\ s[i] \in T
      BY ElementOfSeq DEF Halves
    <3>2. Append(r.out, s[i]) \in Seq(T) /\ (s[i] = x) \in BOOLEAN
      BY <3>1, AppendProperties
    <3>3. [out |-> Append(r.out, s[i]), half |-> s[i] = x] \in V
      BY <3>2 DEF Halves
    <3>4. [r EXCEPT !.half = FALSE] \in V
      BY <3>1 DEF Halves
    <3> QED
      BY <3>3, <3>4 DEF Thin
  <2> QED
    BY <2>1 DEF HalveStep
<1>3. PICK f \in [0..n -> V] : Follows(f, n, first, step)
  <2> HIDE DEF step, n, first, V
  <2> QED
    BY <1>1, <1>2, Recursion
<1>4. \A h : Rec(h)[0] = first
  BY <1>1
<1>5. ASSUME NEW h, NEW i \in 1..n, h[i - 1] \in V
      PROVE  Rec(h)[i] = step[i][h[i - 1]]
  <2>1. step[i][h[i - 1]] = Thin(h[i - 1], s[i], x)
    BY <1>5 DEF HalveStep
  <2>2. i \in 0..Len(s) /\ i # 0
    OBVIOUS
  <2> QED
    BY <2>1, <2>2
<1>6. \A h : Rec(h) = [i \in 0..n |-> Rec(h)[i]]
  OBVIOUS
<1>7. Halve(s, x) = (CHOOSE h : h = Rec(h))[n].out
  BY DEF Halve
<1> HIDE DEF Rec, step, first, n, V
<1>8. f = Rec(f)
  <2>1. ASSUME NEW i \in 0..n PROVE f[i] = Rec(f)[i]
    <3>1. CASE i = 0
      BY <1>3, <1>4, <3>1 DEF Follows
    <3>2. CASE i \in 1..n
      <4>1. f[i] = step[i][f[i - 1]]
        BY <1>3, <3>2 DEF Follows
      <4>2. i - 1 \in 0..n
        BY <1>1, <3>2
      <4>3. f[i - 1] \in V
        BY <4>2
      <4> QED
        BY <1>5, <3>2, <4>1, <4>3
    <3> QED
      BY <1>1, <3>1, <3>2
  <2>2. f = [i \in 0..n |-> f[i]]
    OBVIOUS
  <2>3. [i \in 0..n |-> f[i]] = [i \in 0..n |-> Rec(f)[i]]
    BY <2>1
  <2> QED
    BY <1>6, <2>2, <2>3
<1> DEFINE g == CHOOSE h : h = Rec(h)
<1>9. g = Rec(g)
  BY <1>8, Zenon
<1> HIDE DEF g
<1>10. \A i \in 0..n : g[i] = f[i]
  <2>1. g[0] = first
    BY <1>4, <1>9
  <2>2. \A i \in 1..n : g[i - 1] \in V => g[i] = step[i][g[i - 1]]
    BY <1>5, <1>9
  <2>3. FollowsIn(g, n, first, step, V)
    BY <2>1, <2>2 DEF FollowsIn
  <2>4. RunsIn(f, n, first, step, V)
    BY <1>3 DEF RunsIn
  <2> QED
    BY <1>1, <2>3, <2>4, SameRecursion
<1>11. f[n] \in V /\ g[n] = f[n]
  BY <1>1, <1>10
<1>12. Halve(s, x) = f[n].out
  BY <1>7, <1>11 DEF g
<1> QED
  BY <1>3, <1>12 DEF V, first, step, n

LEMMA HalveTyped ==
  ASSUME NEW T, NEW s \in Seq(T), NEW x
  PROVE  Halve(s, x) \in Seq(T)
<1>1. PICK f \in [0..Len(s) -> Halves(T)] : Halve(s, x) = f[Len(s)].out
  BY HalveFunction
<1>2. Len(s) \in 0..Len(s)
  OBVIOUS
<1>3. f[Len(s)] \in [out : Seq(T), half : BOOLEAN]
  BY <1>2 DEF Halves
<1> QED
  BY <1>1, <1>3

-----------------------------------------------------------------------------
(* SegmentListPackages. *)

(* The division of SegmentListPackages, and what multiples of its result   *)
(* stay within.                                                            *)
LEMMA Division ==
  ASSUME NEW L \in Nat \ {0}, NEW n \in 1..L
  PROVE  /\ L \div n \in Nat \ {0}
         /\ \A i \in 0..n - 1 : i * (L \div n) \in 0..L - 1
<1> DEFINE size == L \div n
<1>1. size \in Int /\ n * size <= L /\ L < n * size + n
  OBVIOUS
<1>2. size >= 1
  <2> SUFFICES ASSUME size <= 0 PROVE FALSE
    BY <1>1
  <2>1. n * size <= 0
    BY <1>1
  <2> QED
    BY <1>1, <2>1
<1>3. ASSUME NEW i \in 0..n - 1 PROVE i * size \in 0..L - 1
  <2> HIDE DEF size
  <2>1. n * size = i * size + (n - i) * size
    BY <1>1
  <2>2. i * size >= 0 /\ (n - i) * size >= 1 /\ i * size \in Int /\ (n - i) * size \in Int
    BY <1>1, <1>2
  <2> QED
    BY <1>1, <2>1, <2>2
<1> QED
  BY <1>1, <1>2, <1>3

(* SegmentListPackages cuts a list that is not empty at places that go up  *)
(* from its beginning to its end, so that every package is in one segment, *)
(* in its order, and no segment is empty; and there are as many segments   *)
(* as were asked for, unless there are fewer packages.                     *)
THEOREM SegmentsFollow ==
  ASSUME NEW S, NEW list \in Seq(S), list # <<>>, NEW max \in Nat \ {0}
  PROVE  LET segments == SegmentListPackages(list, max)
             n        == Clamp(list, max)
         IN /\ Len(segments) = n
            /\ n \in 1..max
            /\ \E cut \in [0..n -> 0..Len(list)] :
                 /\ cut[0] = 0 /\ cut[n] = Len(list)
                 /\ \A i \in 1..n : /\ cut[i - 1] < cut[i]
                                    /\ segments[i] = SubSeq(list, cut[i - 1] + 1, cut[i])
<1> DEFINE segments == SegmentListPackages(list, max)
           n        == Clamp(list, max)
           size     == Len(list) \div n
           cut      == [i \in 0..n |-> IF i < n THEN i * size ELSE Len(list)]
<1>1. Len(list) \in Nat \ {0}
  OBVIOUS
<1>2. n \in 1..Len(list) /\ n \in 1..max
  BY <1>1 DEF Clamp
<1>3. size \in Nat \ {0} /\ \A i \in 0..n - 1 : i * size \in 0..Len(list) - 1
  BY <1>1, <1>2, Division
<1>4. segments = [i \in 1..n |-> SubSeq(list, (i - 1) * size + 1,
                                        IF i < n THEN i * size ELSE Len(list))]
  BY <1>2 DEF SegmentListPackages
<1> HIDE DEF segments, n, size
<1>5. cut \in [0..n -> 0..Len(list)]
  <2>1. ASSUME NEW i \in 0..n PROVE (IF i < n THEN i * size ELSE Len(list)) \in 0..Len(list)
    BY <1>1, <1>2, <1>3
  <2> QED
    BY <2>1
<1>6. cut[0] = 0 /\ cut[n] = Len(list)
  BY <1>2, <1>3
<1>7. ASSUME NEW i \in 1..n
      PROVE  cut[i - 1] < cut[i] /\ segments[i] = SubSeq(list, cut[i - 1] + 1, cut[i])
  <2>1. i - 1 \in 0..n - 1 /\ cut[i - 1] = (i - 1) * size
    BY <1>2
  <2>2. cut[i] = IF i < n THEN i * size ELSE Len(list)
    BY <1>2
  <2>3. (i - 1) * size < i * size
    BY <1>2, <1>3
  <2>4. (i - 1) * size \in 0..Len(list) - 1
    BY <1>3, <2>1
  <2>5. cut[i - 1] < cut[i]
    <3>1. CASE i < n
      BY <2>1, <2>2, <2>3, <3>1
    <3>2. CASE ~(i < n)
      BY <1>1, <2>1, <2>2, <2>4, <3>2
    <3> QED
      BY <3>1, <3>2
  <2>6. segments[i] = SubSeq(list, cut[i - 1] + 1, cut[i])
    <3> HIDE DEF cut
    <3>1. segments[i] = SubSeq(list, (i - 1) * size + 1,
                               IF i < n THEN i * size ELSE Len(list))
      BY <1>4
    <3> QED
      BY <2>1, <2>2, <3>1
  <2> QED
    BY <2>5, <2>6
<1>8. Len(segments) = n
  BY <1>2, <1>4
<1> QED
  BY <1>2, <1>5, <1>6, <1>7, <1>8 DEF segments, n

(* Every package of the list is in some segment.                           *)
LEMMA SegmentsReach ==
  ASSUME NEW S, NEW list \in Seq(S), list # <<>>, NEW max \in Nat \ {0}, NEW k \in 1..Len(list)
  PROVE  LET segments == SegmentListPackages(list, max)
         IN \E i \in DOMAIN segments : \E j \in DOMAIN segments[i] : segments[i][j] = list[k]
<1> DEFINE segments == SegmentListPackages(list, max)
           n        == Clamp(list, max)
           size     == Len(list) \div n
           q        == (k - 1) \div size
<1>1. Len(list) \in Nat \ {0} /\ n \in 1..Len(list) /\ n \in 1..max
  BY DEF Clamp
<1>2. size \in Nat \ {0} /\ \A i \in 0..n - 1 : i * size \in 0..Len(list) - 1
  BY <1>1, Division
<1>3. segments = [i \in 1..n |-> SubSeq(list, (i - 1) * size + 1,
                                        IF i < n THEN i * size ELSE Len(list))]
  BY <1>1 DEF SegmentListPackages
<1> HIDE DEF segments, n, size
<1>4. q \in Nat /\ q * size \in Nat /\ q * size <= k - 1 /\ k - 1 < q * size + size
  <2>1. q \in Int /\ size * q <= k - 1 /\ k - 1 < size * q + size
    BY <1>2
  <2> HIDE DEF q
  <2>2. q >= 0
    <3> SUFFICES ASSUME q <= -1 PROVE FALSE
      BY <2>1
    <3>1. size * q <= -size
      BY <1>2, <2>1
    <3> QED
      BY <1>2, <2>1, <3>1
  <2>3. size * q = q * size /\ q * size >= 0 /\ q * size \in Int
    BY <1>2, <2>1, <2>2
  <2> QED
    BY <2>1, <2>2, <2>3
<1> HIDE DEF q
<1>5. SUFFICES ASSUME NEW i \in 1..n, NEW lo \in 0..k - 1, NEW hi \in k..Len(list),
                      segments[i] = SubSeq(list, lo + 1, hi)
               PROVE  \E j \in DOMAIN segments[i] : segments[i][j] = list[k]
  <2> DEFINE i  == IF q + 1 < n THEN q + 1 ELSE n
             lo == (i - 1) * size
             hi == IF i < n THEN i * size ELSE Len(list)
  <2>1. i \in 1..n
    BY <1>1, <1>4
  <2>2. lo \in 0..k - 1
    <3>1. CASE q + 1 < n
      BY <1>4, <3>1
    <3>2. CASE ~(q + 1 < n)
      <4>1. PICK d \in Nat : q = (n - 1) + d
        BY <1>1, <1>4, <3>2
      <4>2. q * size = (n - 1) * size + d * size /\ d * size >= 0
        BY <1>1, <1>2, <4>1
      <4>3. (n - 1) * size \in Nat
        BY <1>1, <1>2
      <4>4. d * size \in Int
        BY <1>2, <4>1
      <4>5. (n - 1) * size <= k - 1
        BY <1>4, <4>2, <4>3, <4>4
      <4> QED
        BY <3>2, <4>3, <4>5
    <3> QED
      BY <3>1, <3>2
  <2>3. hi \in k..Len(list)
    <3>1. CASE q + 1 < n
      <4>1. (q + 1) * size = q * size + size
        BY <1>2, <1>4
      <4>2. q + 1 \in 0..n - 1
        BY <1>1, <1>4, <3>1
      <4>3. (q + 1) * size \in 0..Len(list) - 1
        BY <1>2, <4>2
      <4> QED
        BY <1>4, <3>1, <4>1, <4>3
    <3>2. CASE ~(q + 1 < n)
      BY <1>1, <3>2
    <3> QED
      BY <3>1, <3>2
  <2>4. segments[i] = SubSeq(list, lo + 1, hi)
    <3>1. \A x \in 1..n : segments[x] = SubSeq(list, (x - 1) * size + 1,
                                               IF x < n THEN x * size ELSE Len(list))
      BY <1>3
    <3> HIDE DEF i
    <3> QED
      BY <2>1, <3>1
  <2>5. DOMAIN segments = 1..n
    BY <1>3
  <2> HIDE DEF i, lo, hi
  <2> QED
    BY <2>1, <2>2, <2>3, <2>4, <2>5 DEF segments
<1>6. k - lo \in DOMAIN SubSeq(list, lo + 1, hi) /\ SubSeq(list, lo + 1, hi)[k - lo] = list[k]
  BY <1>1
<1> QED
  BY <1>5, <1>6

=============================================================================
