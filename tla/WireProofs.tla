----------------------------- MODULE WireProofs -----------------------------
(***************************************************************************)
(* Theorems about WireFormat, for every alphabet, every set of commands    *)
(* and lines of every length.                                              *)
(***************************************************************************)
EXTENDS WireFormat, OperatorProofs

-----------------------------------------------------------------------------
(* Join. *)

JoinStep(T, names) ==
  [i \in 1..Len(names) |-> [t \in Seq(T) |->
     IF i = 1 THEN names[1] ELSE t \o <<COMMA>> \o names[i]]]

LEMMA JoinFunction ==
  ASSUME NEW T, COMMA \in T, NEW names \in Seq(Seq(T))
  PROVE  \E f \in [0..Len(names) -> Seq(T)] :
           Join(names) = f[Len(names)] /\ Follows(f, Len(names), <<>>, JoinStep(T, names))
<1> DEFINE n == Len(names)
           first == <<>>
           step == JoinStep(T, names)
           Rec(f) == [k \in 0..Len(names) |->
             IF k = 0 THEN <<>>
             ELSE IF k = 1 THEN names[1]
             ELSE f[k - 1] \o <<COMMA>> \o names[k]]
<1>1. n \in Nat /\ first \in Seq(T)
  OBVIOUS
<1>2. step \in [1..n -> [Seq(T) -> Seq(T)]]
  <2>1. ASSUME NEW i \in 1..n, NEW t \in Seq(T)
        PROVE  (IF i = 1 THEN names[1] ELSE t \o <<COMMA>> \o names[i]) \in Seq(T)
    <3>1. names[i] \in Seq(T) /\ <<COMMA>> \in Seq(T)
      BY ElementOfSeq
    <3>2. t \o <<COMMA>> \in Seq(T)
      BY <3>1, ConcatProperties
    <3>3. t \o <<COMMA>> \o names[i] \in Seq(T)
      BY <3>1, <3>2, ConcatProperties
    <3> QED
      BY <3>1, <3>3
  <2> QED
    BY <2>1 DEF JoinStep
<1>3. PICK f \in [0..n -> Seq(T)] : Follows(f, n, first, step)
  <2> HIDE DEF step, n, first
  <2> QED
    BY <1>1, <1>2, Recursion
<1>4. \A h : Rec(h)[0] = first
  BY <1>1
<1>5. ASSUME NEW h, NEW i \in 1..n, h[i - 1] \in Seq(T)
      PROVE  Rec(h)[i] = step[i][h[i - 1]]
  <2>1. step[i][h[i - 1]] = IF i = 1 THEN names[1] ELSE h[i - 1] \o <<COMMA>> \o names[i]
    BY <1>5 DEF JoinStep
  <2>2. i \in 0..Len(names) /\ i # 0
    OBVIOUS
  <2> QED
    BY <2>1, <2>2
<1>6. \A h : Rec(h) = [i \in 0..n |-> Rec(h)[i]]
  OBVIOUS
<1>7. Join(names) = (CHOOSE h : h = Rec(h))[n]
  BY DEF Join
<1> HIDE DEF Rec, step, first, n
<1>8. f = Rec(f)
  <2>1. ASSUME NEW i \in 0..n PROVE f[i] = Rec(f)[i]
    <3>1. CASE i = 0
      BY <1>3, <1>4, <3>1 DEF Follows
    <3>2. CASE i \in 1..n
      <4>1. f[i] = step[i][f[i - 1]]
        BY <1>3, <3>2 DEF Follows
      <4>2. i - 1 \in 0..n
        BY <1>1, <3>2
      <4>3. f[i - 1] \in Seq(T)
        BY <4>2
      <4> QED
        BY <1>5, <3>2, <4>1, <4>3
    <3> QED
      BY <1>1, <3>1, <3>2
  <2>2. f = [i \in 0..n |-> f[i]]
    OBVIOUS
  <2>3. [i \in 0..n |-> f[i]] = [i \in 0..n |-> Rec(f)[i]]
    BY <2>1
  <2> QED
    BY <1>6, <2>2, <2>3
<1> DEFINE g == CHOOSE h : h = Rec(h)
<1>9. g = Rec(g)
  BY <1>8, Zenon
<1> HIDE DEF g
<1>10. \A i \in 0..n : g[i] = f[i]
  <2>1. g[0] = first
    BY <1>4, <1>9
  <2>2. \A i \in 1..n : g[i - 1] \in Seq(T) => g[i] = step[i][g[i - 1]]
    BY <1>5, <1>9
  <2>3. FollowsIn(g, n, first, step, Seq(T))
    BY <2>1, <2>2 DEF FollowsIn
  <2>4. RunsIn(f, n, first, step, Seq(T))
    BY <1>3 DEF RunsIn
  <2> QED
    BY <1>1, <2>3, <2>4, SameRecursion
<1>11. Join(names) = f[n]
  BY <1>1, <1>7, <1>10 DEF g
<1> QED
  BY <1>3, <1>11 DEF n, first, step

LEMMA JoinTyped ==
  ASSUME NEW T, COMMA \in T, NEW names \in Seq(Seq(T))
  PROVE  Join(names) \in Seq(T)
<1>1. PICK f \in [0..Len(names) -> Seq(T)] : Join(names) = f[Len(names)]
  BY JoinFunction
<1>2. Len(names) \in 0..Len(names)
  OBVIOUS
<1> QED
  BY <1>1, <1>2

LEMMA JoinEmpty == Join(<<>>) = <<>>
<1>1. <<>> \in Seq(Seq({COMMA})) /\ Len(<<>>) = 0 /\ COMMA \in {COMMA}
  OBVIOUS
<1>2. PICK f \in [0..Len(<<>>) -> Seq({COMMA})] :
        Join(<<>>) = f[Len(<<>>)] /\ Follows(f, Len(<<>>), <<>>, JoinStep({COMMA}, <<>>))
  BY <1>1, JoinFunction
<1> QED
  BY <1>1, <1>2 DEF Follows

LEMMA JoinAppend ==
  ASSUME NEW T, COMMA \in T, NEW names \in Seq(Seq(T)), NEW w \in Seq(T)
  PROVE  Join(Append(names, w)) = IF names = <<>> THEN w ELSE Join(names) \o <<COMMA>> \o w
<1> DEFINE t == Append(names, w)
           n == Len(names)
           first == <<>>
<1>1. /\ t \in Seq(Seq(T)) /\ Len(t) = n + 1 /\ t[n + 1] = w
      /\ \A i \in 1..n : t[i] = names[i]
  BY AppendProperties
<1>2. n \in Nat /\ (names = <<>> <=> n = 0)
  OBVIOUS
<1>3. PICK f \in [0..n -> Seq(T)] :
        Join(names) = f[n] /\ Follows(f, n, first, JoinStep(T, names))
  BY JoinFunction
<1> HIDE DEF t
<1>4. PICK g \in [0..Len(t) -> Seq(T)] :
        Join(t) = g[Len(t)] /\ Follows(g, Len(t), first, JoinStep(T, t))
  BY <1>1, JoinFunction
<1> DEFINE V == Seq(T)
           step == JoinStep(T, names)
           more == JoinStep(T, t)
<1>5. SameSteps(step, more, n, V)
  <2> SUFFICES ASSUME NEW i \in 1..n, NEW p \in V PROVE more[i][p] = step[i][p]
    BY DEF SameSteps
  <2>1. i \in 1..Len(t) /\ 1 \in 1..n /\ t[1] = names[1] /\ t[i] = names[i]
    BY <1>1, <1>2
  <2> QED
    BY <2>1 DEF JoinStep
<1>6. RunsIn(f, n, first, step, V) /\ RunsIn(g, n + 1, first, more, V)
  BY <1>1, <1>3, <1>4 DEF RunsIn
<1>7. n \in Nat
  BY <1>2
<1> HIDE DEF n, first, step, more, V
<1>8. f[n] \in V /\ g[n + 1] = more[n + 1][f[n]]
  BY <1>5, <1>6, <1>7, RecursionGoesOn
<1>11. more[n + 1][f[n]] = IF n + 1 = 1 THEN t[1] ELSE f[n] \o <<COMMA>> \o t[n + 1]
  <2>1. n + 1 \in 1..Len(t)
    BY <1>1, <1>2
  <2> QED
    BY <1>8, <2>1 DEF JoinStep, V, more
<1>12. CASE n = 0
  <2>1. n + 1 = 1 /\ names = <<>>
    BY <1>2, <1>12
  <2> QED
    BY <1>1, <1>4, <1>8, <1>11, <2>1 DEF t
<1>13. CASE n # 0
  <2>1. n + 1 # 1 /\ names # <<>>
    BY <1>2, <1>13
  <2> QED
    BY <1>1, <1>3, <1>4, <1>8, <1>11, <2>1 DEF t
<1> QED
  BY <1>12, <1>13

Free(T) == {w \in Seq(T) : COMMA \notin Bytes(w)}

(* Splitting at the commas what strings.Join put together gives the names  *)
(* back, for any number of names without a comma in them.                  *)
THEOREM SplitJoin ==
  ASSUME NEW T, COMMA \in T, NEW names \in Seq(Free(T)), names # <<>>
  PROVE  Split(Join(names), COMMA) = names
<1> DEFINE F == Free(T)
           P == {t \in Seq(F) : t = <<>> \/ Split(Join(t), COMMA) = t}
<1>0. Seq(F) \subseteq Seq(Seq(T)) /\ F \subseteq Seq(T)
  <2>1. F \subseteq Seq(T)
    BY DEF Free
  <2> QED
    BY <2>1
<1>1. <<>> \in P
  OBVIOUS
<1>2. ASSUME NEW t \in Seq(F), t \in P, NEW w \in F PROVE Append(t, w) \in P
  <2>1. t \in Seq(Seq(T)) /\ w \in Seq(T) /\ COMMA \notin Bytes(w)
    BY <1>0 DEF Free
  <2>2. Append(t, w) \in Seq(F)
    BY AppendProperties
  <2>3. Join(Append(t, w)) = IF t = <<>> THEN w ELSE Join(t) \o <<COMMA>> \o w
    BY <2>1, JoinAppend
  <2>4. Split(w, COMMA) = <<w>>
    BY <2>1, SplitOne
  <2>5. CASE t = <<>>
    <3>1. Append(<<>>, w) = <<w>>
      OBVIOUS
    <3> QED
      BY <2>2, <2>3, <2>4, <2>5, <3>1
  <2>6. CASE t # <<>>
    <3>1. Join(t) \in Seq(T) /\ Split(Join(t), COMMA) = t
      BY <1>2, <2>1, <2>6, JoinTyped
    <3>2. Join(t) \o <<COMMA>> = Append(Join(t), COMMA)
      BY <3>1, AppendIsConcat
    <3>3. Split(Append(Join(t), COMMA) \o w, COMMA) = Split(Join(t), COMMA) \o Split(w, COMMA)
      BY <2>1, <3>1, SplitConcat
    <3>4. t \o <<w>> = Append(t, w)
      BY <2>1, AppendIsConcat
    <3> QED
      BY <2>2, <2>3, <2>4, <2>6, <3>1, <3>2, <3>3, <3>4
  <2> QED
    BY <2>5, <2>6
<1> HIDE DEF P, F
<1>3. Seq(F) \subseteq P
  BY <1>1, <1>2, SequenceInduction
<1> QED
  BY <1>3 DEF P, F

-----------------------------------------------------------------------------
(* parseMessage, on a line that ends with its only newline. *)

IsLine(b) == /\ b \in Seq(Byte) /\ b # <<>> /\ b[Len(b)] = NL
             /\ \A i \in 1..Len(b) - 1 : b[i] # NL

Body(b) == SubSeq(b, 1, Len(b) - 1)

LEMMA Reserved == PIPE # COMMA /\ PIPE # NL /\ COMMA # NL /\ PIPE \in Byte /\ COMMA \in Byte
BY DEF PIPE, COMMA, NL, Byte

\* A loop that starts at i ends at j, the first byte of stop.
Stops(b, i, stop, j) == j \in i..Len(b) /\ b[j] \in stop /\ \A k \in i..j - 1 : b[k] \notin stop

LEMMA ScanStops ==
  ASSUME NEW b, IsLine(b), NEW i \in 1..Len(b), NEW stop, NL \in stop
  PROVE  Stops(b, i, stop, Scan(b, i, stop))
<1> DEFINE hits == {j \in i..Len(b) : b[j] \in stop}
<1>1. Len(b) \in Nat /\ b[Len(b)] = NL
  BY DEF IsLine
<1>2. hits \in SUBSET Nat /\ Len(b) \in hits
  BY <1>1
<1>3. PICK j \in hits : \A k \in hits : j <= k
  BY <1>2, Least
<1>4. \A m \in hits : (\A k \in hits : m <= k) => m = j
  BY <1>2, <1>3
<1>5. Scan(b, i, stop) = CHOOSE m \in hits : \A k \in hits : m <= k
  BY <1>2 DEF Scan
<1> HIDE DEF hits
<1>6. Scan(b, i, stop) = j
  BY <1>3, <1>4, <1>5, Zenon
<1>7. ASSUME NEW k \in i..j - 1, b[k] \in stop PROVE FALSE
  <2>1. k \in i..Len(b) /\ ~(j <= k)
    BY <1>1 DEF hits
  <2>2. k \in hits
    BY <1>7, <2>1 DEF hits
  <2> QED
    BY <1>3, <2>1, <2>2
<1> QED
  BY <1>6, <1>7 DEF Stops, hits

(* The pipes at p and q make the three fields of b, and the second of them *)
(* is a name.                                                              *)
Fields(b, p, q) == /\ TwoCuts(b, PIPE, p, q)
                   /\ p + 1 < q
                   /\ \A k \in p + 1..q - 1 : b[k] # COMMA

First(b, p) == SubSeq(b, 1, p - 1)
Second(b, p, q) == SubSeq(b, p + 1, q - 1)
Third(b, q) == SubSeq(b, q + 1, Len(b) - 1)

LEMMA FieldsStop ==
  ASSUME NEW b, IsLine(b), NEW p, NEW q, Fields(b, p, q)
  PROVE  /\ p \in 1..Len(b) /\ q \in p + 2..Len(b) - 1
         /\ Stops(b, 1, {PIPE, NL}, p)
         /\ Stops(b, p + 1, {PIPE, COMMA, NL}, q)
         /\ Stops(b, q + 1, {PIPE, NL}, Len(b))
         /\ q + 1 < Len(b) => b[q + 1] # NL
<1>1. /\ Len(b) \in Nat /\ b[Len(b)] = NL /\ p \in 1..Len(b) /\ q \in p + 1..Len(b) /\ p + 1 < q
      /\ b[p] = PIPE /\ b[q] = PIPE /\ \A k \in 1..Len(b) : b[k] = PIPE => k \in {p, q}
      /\ \A k \in p + 1..q - 1 : b[k] # COMMA
  BY DEF IsLine, Fields, TwoCuts
<1>2. \A i \in 1..Len(b) - 1 : b[i] # NL
  BY DEF IsLine
<1>3. q # Len(b)
  BY <1>1, Reserved
<1>4. \A k \in 1..p - 1 : b[k] \notin {PIPE, NL}
  <2>1. \A k \in 1..p - 1 : k \in 1..Len(b) /\ k \in 1..Len(b) - 1 /\ k \notin {p, q}
    BY <1>1
  <2> QED
    BY <1>1, <1>2, <2>1
<1>5. \A k \in p + 1..q - 1 : b[k] \notin {PIPE, COMMA, NL}
  <2>1. \A k \in p + 1..q - 1 : k \in 1..Len(b) /\ k \in 1..Len(b) - 1 /\ k \notin {p, q}
    BY <1>1
  <2> QED
    BY <1>1, <1>2, <2>1
<1>6. \A k \in q + 1..Len(b) - 1 : b[k] \notin {PIPE, NL}
  <2>1. \A k \in q + 1..Len(b) - 1 : k \in 1..Len(b) /\ k \in 1..Len(b) - 1 /\ k \notin {p, q}
    BY <1>1
  <2> QED
    BY <1>1, <1>2, <2>1
<1>7. q + 1 < Len(b) => b[q + 1] # NL
  BY <1>1, <1>2
<1> QED
  BY <1>1, <1>3, <1>4, <1>5, <1>6, <1>7 DEF Stops

LEMMA StopsOnce ==
  ASSUME NEW b, NEW i \in Int, NEW stop, NEW j, NEW k, Len(b) \in Int,
         Stops(b, i, stop, j), Stops(b, i, stop, k)
  PROVE  j = k
<1>1. j \in i..Len(b) /\ k \in i..Len(b)
  BY DEF Stops
<1>2. ~(j < k) /\ ~(k < j)
  <2>1. j < k => j \in i..k - 1
    BY <1>1
  <2>2. k < j => k \in i..j - 1
    BY <1>1
  <2> QED
    BY <2>1, <2>2 DEF Stops
<1> QED
  BY <1>1, <1>2

(* What the line is taken for, whose third field is empty or not. *)
Taken(b, p, q) ==
  IF q + 1 = Len(b) THEN Message(First(b, p), Second(b, p, q), {})
  ELSE ParseDeps(b, First(b, p), Second(b, p, q), q + 1, Len(b))

LEMMA FieldsTaken ==
  ASSUME NEW b, IsLine(b), NEW p, NEW q, Fields(b, p, q)
  PROVE  parseMessage(b) = Taken(b, p, q)
<1> DEFINE n == Len(b)
<1>1. /\ n \in Nat /\ n # 0 /\ b[n] = NL /\ DOMAIN b = 1..n /\ b # <<>>
      /\ p \in 1..n /\ q \in p + 2..n - 1
  BY FieldsStop DEF IsLine
<1>0. n \in Nat /\ p \in 1..n /\ q \in p + 2..n - 1 /\ 1 \in 1..n
  BY <1>1
<1>2. Scan(b, 1, {PIPE, NL}) = p
  <2>1. Stops(b, 1, {PIPE, NL}, p) /\ Stops(b, 1, {PIPE, NL}, Scan(b, 1, {PIPE, NL}))
    BY <1>0, FieldsStop, ScanStops
  <2> QED
    BY <1>0, <2>1, StopsOnce
<1>3. Scan(b, p + 1, {PIPE, COMMA, NL}) = q
  <2>1. p + 1 \in 1..n
    BY <1>0
  <2>2. Stops(b, p + 1, {PIPE, COMMA, NL}, q)
        /\ Stops(b, p + 1, {PIPE, COMMA, NL}, Scan(b, p + 1, {PIPE, COMMA, NL}))
    BY <2>1, FieldsStop, ScanStops
  <2> QED
    BY <1>0, <2>1, <2>2, StopsOnce
<1>4. Scan(b, q + 1, {PIPE, NL}) = n
  <2>1. q + 1 \in 1..n
    BY <1>0
  <2>2. Stops(b, q + 1, {PIPE, NL}, n) /\ Stops(b, q + 1, {PIPE, NL}, Scan(b, q + 1, {PIPE, NL}))
    BY <2>1, FieldsStop, ScanStops
  <2> QED
    BY <1>0, <2>1, <2>2, StopsOnce
<1>5. b[p] = PIPE /\ b[q] = PIPE
  BY DEF Fields, TwoCuts
<1>6. At(b, p) = PIPE /\ At(b, q) = PIPE /\ At(b, n) = NL /\ At(b, q + 1) = b[q + 1]
  <2>1. q \in 1..n /\ n \in 1..n /\ q + 1 \in 1..n
    BY <1>0
  <2> QED
    BY <1>1, <1>5, <2>1 DEF At
<1>7. p + 1 # q
  BY <1>1
<1>8. ParseFields(b) = ParseTail(b, First(b, p), Second(b, p, q), q + 1)
  BY <1>2, <1>3, <1>6, <1>7, Reserved DEF ParseFields, First, Second, PIPE, COMMA, NL
<1>9. parseMessage(b) = ParseFields(b)
  BY <1>1, <1>6 DEF parseMessage
<1>10. CASE q + 1 = n
  <2>1. At(b, q + 1) = NL
    BY <1>6, <1>10
  <2>2. ParseTail(b, First(b, p), Second(b, p, q), q + 1) = Message(First(b, p), Second(b, p, q), {})
    BY <2>1 DEF ParseTail
  <2> QED
    BY <1>8, <1>9, <1>10, <2>2 DEF Taken
<1>11. CASE q + 1 # n
  <2>1. q + 1 < n
    BY <1>0, <1>11
  <2>2. At(b, q + 1) # NL
    BY <1>6, <2>1, FieldsStop
  <2>3. ParseTail(b, First(b, p), Second(b, p, q), q + 1)
          = ParseDeps(b, First(b, p), Second(b, p, q), q + 1, n)
    BY <1>4, <1>6, <2>2, Reserved DEF ParseTail, PIPE, NL
  <2> QED
    BY <1>8, <1>9, <1>11, <2>3 DEF Taken
<1> QED
  BY <1>10, <1>11

(* Whatever does not have the three fields is rejected, and never by       *)
(* running past its end.                                                   *)
Refused(r) == \E e : r = Rejected(e) /\ e \notin {"nil", "panic"}

LEMMA RefusedBecause ==
  ASSUME NEW e, e \notin {"nil", "panic"}
  PROVE  Refused(Rejected(e))
BY DEF Refused

LEMMA OthersRefused ==
  ASSUME NEW b, IsLine(b), \A p, q : ~Fields(b, p, q)
  PROVE  Refused(parseMessage(b))
<1> DEFINE n == Len(b)
           p == Scan(b, 1, {PIPE, NL})
           q == Scan(b, p + 1, {PIPE, COMMA, NL})
           l == Scan(b, q + 1, {PIPE, NL})
<1>1. n \in Nat \ {0} /\ b[n] = NL /\ DOMAIN b = 1..n /\ b # <<>> /\ \A i \in 1..n - 1 : b[i] # NL
  BY DEF IsLine
<1>2. parseMessage(b) = ParseFields(b)
  <2>1. n \in 1..n
    BY <1>1
  <2>2. At(b, n) = NL
    BY <1>1, <2>1 DEF At
  <2> QED
    BY <1>1, <2>2 DEF parseMessage
<1>3. Stops(b, 1, {PIPE, NL}, p)
  BY <1>1, ScanStops
<1>0. Scan(b, 1, {PIPE, NL}) = p
  OBVIOUS
<1> HIDE DEF p
<1>4. p \in 1..n /\ b[p] \in {PIPE, NL} /\ At(b, p) = b[p]
  BY <1>1, <1>3 DEF Stops, At
<1>5. CASE b[p] = NL
  <2>1. ParseFields(b) = Rejected("too few pipes")
    BY <1>0, <1>4, <1>5 DEF ParseFields, NL, PIPE, COMMA
  <2> QED
    BY <1>2, <2>1, RefusedBecause
<1>6. CASE b[p] = PIPE
  <2>1. p + 1 \in 1..n
    <3>1. p # n
      BY <1>1, <1>6, Reserved
    <3>2. n \in Nat /\ p \in 1..n
      BY <1>1, <1>4
    <3> QED
      BY <3>1, <3>2
  <2>2. Stops(b, p + 1, {PIPE, COMMA, NL}, q)
    BY <2>1, ScanStops
  <2>0. Scan(b, p + 1, {PIPE, COMMA, NL}) = q
    OBVIOUS
  <2> HIDE DEF q
  <2>3. q \in p + 1..n /\ b[q] \in {PIPE, COMMA, NL} /\ At(b, q) = b[q]
    BY <1>1, <1>4, <2>2 DEF Stops, At
  <2>4. CASE b[q] = NL
    <3>1. ParseFields(b) = Rejected("too few pipes")
      BY <1>0, <1>4, <1>6, <2>0, <2>3, <2>4 DEF ParseFields, NL, PIPE, COMMA
    <3> QED
      BY <1>2, <3>1, RefusedBecause
  <2>5. CASE b[q] = COMMA
    <3>1. ParseFields(b) = Rejected("comma in package")
      BY <1>0, <1>4, <1>6, <2>0, <2>3, <2>5 DEF ParseFields, NL, PIPE, COMMA
    <3> QED
      BY <1>2, <3>1, RefusedBecause
  <2>6. CASE b[q] = PIPE /\ p + 1 = q
    <3>1. ParseFields(b) = Rejected("empty package")
      BY <1>0, <1>4, <1>6, <2>0, <2>3, <2>6 DEF ParseFields, NL, PIPE, COMMA
    <3> QED
      BY <1>2, <3>1, RefusedBecause
  <2>7. CASE b[q] = PIPE /\ p + 1 # q
    <3>1. q + 1 \in 1..n
      <4>1. q # n
        BY <1>1, <2>7, Reserved
      <4>2. n \in Nat /\ p \in 1..n /\ q \in p + 1..n
        BY <1>1, <1>4, <2>3
      <4> QED
        BY <4>1, <4>2
    <3>2. Stops(b, q + 1, {PIPE, NL}, l)
      BY <3>1, ScanStops
    <3>0. Scan(b, q + 1, {PIPE, NL}) = l
      OBVIOUS
    <3> HIDE DEF l
    <3>3. l \in q + 1..n /\ b[l] \in {PIPE, NL} /\ At(b, l) = b[l] /\ At(b, q + 1) = b[q + 1]
      BY <1>1, <3>1, <3>2 DEF Stops, At
    <3>4. ParseFields(b) = ParseTail(b, First(b, p), Second(b, p, q), q + 1)
      BY <1>0, <1>4, <1>6, <2>0, <2>3, <2>7, Reserved DEF ParseFields, First, Second, PIPE, COMMA, NL
    <3>5. l # n
      <4> SUFFICES ASSUME l = n PROVE Fields(b, p, q)
        OBVIOUS
      <4>1. \A k \in p + 1..q - 1 : b[k] # COMMA /\ b[k] # PIPE
        BY <2>2 DEF Stops
      <4>2. \A k \in 1..p - 1 : b[k] # PIPE
        BY <1>3 DEF Stops
      <4>3. \A k \in q + 1..n - 1 : b[k] # PIPE
        BY <3>2 DEF Stops
      <4>4. ASSUME NEW k \in 1..n, b[k] = PIPE PROVE k \in {p, q}
        <5>1. k # n
          BY <1>1, <4>4, Reserved
        <5>2. k \in 1..p - 1 \/ k = p \/ k \in p + 1..q - 1 \/ k = q \/ k \in q + 1..n - 1
          BY <1>1, <1>4, <2>3, <5>1
        <5> QED
          BY <4>1, <4>2, <4>3, <4>4, <5>2
      <4>5. p + 1 < q
        BY <1>4, <2>3, <2>7
      <4> QED
        BY <1>0, <1>4, <1>6, <2>0, <2>3, <2>7, <4>1, <4>4, <4>5 DEF Fields, TwoCuts
    <3>9. q + 1 \in 1..n - 1 /\ l \in 1..n - 1
      <4>1. n \in Nat /\ p \in 1..n /\ q \in p + 1..n /\ l \in q + 1..n
        BY <1>1, <1>4, <2>3, <3>3
      <4> QED
        BY <3>5, <4>1
    <3>6. b[l] = PIPE
      BY <1>1, <3>3, <3>9
    <3>7. b[q + 1] # NL
      BY <1>1, <3>9
    <3>8. ParseTail(b, First(b, p), Second(b, p, q), q + 1) = Rejected("pipe in package")
      BY <3>0, <3>3, <3>6, <3>7 DEF ParseTail, PIPE, NL
    <3> QED
      BY <1>2, <3>4, <3>8, RefusedBecause
  <2> QED
    BY <2>3, <2>4, <2>5, <2>6, <2>7
<1> QED
  BY <1>4, <1>5, <1>6

-----------------------------------------------------------------------------
(* The dependencies. *)

Stop == {COMMA, NL}

\* A name from a to the byte before j, between the bytes of Stop behind q.
IsName(b, q, j, a) == /\ j \in q + 1..Len(b) /\ b[j] \in Stop
                      /\ a \in q + 1..j
                      /\ a > q + 1 => b[a - 1] \in Stop
                      /\ \A k \in a..j - 1 : b[k] \notin Stop

\* What ParseDeps makes of the names, that before j beginning at start[j].
NamesFrom(b, q, c, w, start) ==
  LET ends == {j \in q + 1..Len(b) : b[j] \in Stop}
  IN /\ \A j \in ends :
          start[j] \in q + 1..j /\ \A a : IsName(b, q, j, a) <=> a = start[j]
     /\ ParseDeps(b, c, w, q + 1, Len(b)) =
          IF \E j \in ends : start[j] = j THEN Rejected("empty package")
          ELSE Message(c, w, {SubSeq(b, start[j], j - 1) : j \in ends})

LEMMA NamesTaken ==
  ASSUME NEW b, Len(b) \in Nat, NEW q \in Nat, NEW c, NEW w
  PROVE  \E start : NamesFrom(b, q, c, w, start)
<1> DEFINE n == Len(b)
           ends == {k \in q + 1..n : b[k] \in Stop}
           before(j) == {k \in ends : k < j}
           st(j) == IF before(j) = {} THEN q + 1
                    ELSE 1 + CHOOSE k \in before(j) : \A m \in before(j) : m <= k
           start == [j \in ends |-> st(j)]
<1>1. ParseDeps(b, c, w, q + 1, n) =
        IF \E j \in ends : st(j) = j THEN Rejected("empty package")
        ELSE Message(c, w, {SubSeq(b, st(j), j - 1) : j \in ends})
  BY DEF ParseDeps, Stop
<1>2. ASSUME NEW j \in ends
      PROVE  st(j) \in q + 1..j /\ \A a : IsName(b, q, j, a) <=> a = st(j)
  <2>1. j \in q + 1..n /\ b[j] \in Stop /\ n \in Nat /\ q \in Nat
    OBVIOUS
  <2>2. CASE before(j) = {}
    <3>1. st(j) = q + 1
      BY <2>2
    <3>2. \A k \in q + 1..j - 1 : b[k] \notin Stop
      <4>1. \A k \in q + 1..j - 1 : k \in q + 1..n /\ k < j /\ k \notin before(j)
        BY <2>1, <2>2
      <4> QED
        BY <4>1
    <3>3. ASSUME NEW a, IsName(b, q, j, a) PROVE a = q + 1
      <4>1. a \in q + 1..j /\ (a > q + 1 => b[a - 1] \in Stop)
        BY <3>3 DEF IsName
      <4>2. a > q + 1 => a - 1 \in q + 1..j - 1
        BY <2>1, <4>1
      <4> QED
        BY <2>1, <3>2, <4>1, <4>2
    <3>4. q + 1 \in q + 1..j /\ ~(q + 1 > q + 1)
      BY <2>1
    <3>5. IsName(b, q, j, q + 1)
      BY <2>1, <3>2, <3>4 DEF IsName
    <3> HIDE DEF st
    <3> QED
      BY <3>1, <3>3, <3>4, <3>5
  <2>3. CASE before(j) # {}
    <3>1. before(j) \in SUBSET (0..n)
      BY <2>1
    <3>2. PICK k \in before(j) : \A m \in before(j) : m <= k
      BY <2>1, <2>3, <3>1, Greatest
    <3>3. \A i \in before(j) : (\A m \in before(j) : m <= i) => i = k
      BY <3>1, <3>2
    <3>4. (CHOOSE i \in before(j) : \A m \in before(j) : m <= i) = k
      <4> HIDE DEF before
      <4> QED
        BY <3>2, <3>3, Zenon
    <3>5. st(j) = 1 + k
      BY <2>3, <3>4
    <3>6. k \in q + 1..j - 1 /\ b[k] \in Stop
      BY <2>1
    <3>7. ASSUME NEW i \in k + 1..j - 1 PROVE b[i] \notin Stop
      <4>1. i \in q + 1..n /\ i < j /\ ~(i <= k)
        BY <2>1, <3>6
      <4>2. i \notin before(j)
        BY <3>2, <4>1
      <4> QED
        BY <4>1, <4>2
    <3>8. ASSUME NEW a, IsName(b, q, j, a) PROVE a = 1 + k
      <4>1. /\ a \in q + 1..j /\ (a > q + 1 => b[a - 1] \in Stop)
            /\ \A i \in a..j - 1 : b[i] \notin Stop
        BY <3>8 DEF IsName
      <4>2. ~(a <= k)
        <5>1. a <= k => k \in a..j - 1
          BY <2>1, <3>6, <4>1
        <5> QED
          BY <3>6, <4>1, <5>1
      <4>3. ~(a > 1 + k)
        <5>1. a > 1 + k => a > q + 1 /\ a - 1 \in k + 1..j - 1
          BY <2>1, <3>6, <4>1
        <5> QED
          BY <3>7, <4>1, <5>1
      <4>4. a \in Int /\ k \in Int
        BY <2>1, <3>6, <4>1
      <4> QED
        BY <4>2, <4>3, <4>4
    <3>9. 1 + k \in q + 1..j /\ (1 + k) - 1 = k /\ k + 1 = 1 + k
      BY <2>1, <3>6
    <3>10. IsName(b, q, j, 1 + k)
      BY <2>1, <3>6, <3>7, <3>9 DEF IsName
    <3> HIDE DEF st, before
    <3> QED
      BY <3>5, <3>8, <3>9, <3>10
  <2> QED
    BY <2>2, <2>3
<1> HIDE DEF st
<1>3. \A j \in ends : start[j] = st(j)
  OBVIOUS
<1>4. \A j \in ends : start[j] \in q + 1..j /\ \A a : IsName(b, q, j, a) <=> a = start[j]
  BY <1>2, <1>3
<1>5. (\E j \in ends : st(j) = j) <=> (\E j \in ends : start[j] = j)
  BY <1>3
<1>6. {SubSeq(b, st(j), j - 1) : j \in ends} = {SubSeq(b, start[j], j - 1) : j \in ends}
  BY <1>3
<1> HIDE DEF start
<1>7. ParseDeps(b, c, w, q + 1, n) =
        IF \E j \in ends : start[j] = j THEN Rejected("empty package")
        ELSE Message(c, w, {SubSeq(b, start[j], j - 1) : j \in ends})
  BY <1>1, <1>5, <1>6
<1>8. NamesFrom(b, q, c, w, start)
  BY <1>4, <1>7 DEF NamesFrom
<1> QED
  BY <1>8

LEMMA NamesSplit ==
  ASSUME NEW b, IsLine(b), NEW q \in 1..Len(b) - 1, NEW w
  PROVE  w \in Bytes(Split(Third(b, q), COMMA)) <=>
           \E j, a : IsName(b, q, j, a) /\ w = SubSeq(b, a, j - 1)
<1> DEFINE n == Len(b)
           v == Third(b, q)
           d == Append(v, COMMA)
           m == n - q
<1>1. b \in Seq(Byte) /\ n \in Nat /\ b[n] = NL /\ (\A i \in 1..n - 1 : b[i] # NL)
  BY DEF IsLine
<1>0. n \in Nat /\ q \in 1..n - 1 /\ q + 1 \in 1..n + 1 /\ n - 1 \in 0..n /\ m \in Nat \ {0}
  BY <1>1
<1>2. /\ v \in Seq(Byte)
      /\ Len(v) = IF q + 1 <= n - 1 THEN (n - 1) - (q + 1) + 1 ELSE 0
      /\ \A i \in 1..(n - 1) - (q + 1) + 1 : v[i] = b[(q + 1) + i - 1]
  BY <1>0, <1>1, BytesSubSeq DEF Third
<1>3. Len(v) = m - 1
  BY <1>0, <1>2
<1>4. \A i \in 1..m - 1 : v[i] = b[q + i]
  <2>1. \A i \in 1..m - 1 : i \in 1..(n - 1) - (q + 1) + 1 /\ (q + 1) + i - 1 = q + i
    BY <1>0
  <2> QED
    BY <1>2, <2>1
<1>5. /\ d \in Seq(Byte) /\ Len(d) = Len(v) + 1 /\ d[Len(v) + 1] = COMMA
      /\ \A i \in 1..Len(v) : d[i] = v[i]
  BY <1>2, Reserved, AppendProperties
<1>6. Len(d) = m /\ d[m] = COMMA /\ \A i \in 1..m - 1 : d[i] = b[q + i]
  <2>1. Len(v) + 1 = m
    BY <1>0, <1>3
  <2> QED
    BY <1>3, <1>4, <1>5, <2>1
<1>7. \A i \in 1..m : d[i] = COMMA <=> b[q + i] \in Stop
  <2>1. ASSUME NEW i \in 1..m - 1 PROVE d[i] = COMMA <=> b[q + i] \in Stop
    <3>1. q + i \in 1..n - 1
      BY <1>0
    <3> QED
      BY <1>1, <1>6, <3>1 DEF Stop
  <2>2. q + m = n
    BY <1>0
  <2>3. \A i \in 1..m : i = m \/ i \in 1..m - 1
    BY <1>0
  <2> QED
    BY <1>1, <1>6, <2>1, <2>2, <2>3 DEF Stop
<1>8. ASSUME NEW j \in 1..m, NEW a \in 1..j
      PROVE  SubSeq(d, a, j - 1) = SubSeq(b, q + a, q + j - 1)
  <2>1. a \in 1..Len(v) + 1 /\ j - 1 \in 0..Len(v)
    BY <1>0, <1>3
  <2>2. SubSeq(d, a, j - 1) = SubSeq(v, a, j - 1)
    BY <1>2, <2>1, Reserved, SubSeqAppend
  <2>3. /\ a \in Nat \ {0} /\ j - 1 \in Nat /\ (q + 1) + a - 1 <= Len(b) + 1
        /\ (q + 1) + (j - 1) - 1 <= Len(b) - 1
        /\ (q + 1) + a - 1 = q + a /\ (q + 1) + (j - 1) - 1 = q + j - 1
    BY <1>0
  <2>4. SubSeq(v, a, j - 1) = SubSeq(b, (q + 1) + a - 1, (q + 1) + (j - 1) - 1)
    BY <1>0, <1>1, <2>3, SubSeqSubSeq DEF Third
  <2> QED
    BY <2>2, <2>3, <2>4
<1> HIDE DEF d, v, m
<1>9. w \in Bytes(Split(v, COMMA)) <=> IsPiece(d, COMMA, w)
  BY <1>2, Reserved, SplitBytes DEF d
<1>10. ASSUME IsPiece(d, COMMA, w)
       PROVE  \E j, a : IsName(b, q, j, a) /\ w = SubSeq(b, a, j - 1)
  <2>0. PICK j \in 1..m : \E a \in 1..j : /\ d[j] = COMMA
                                          /\ a > 1 => d[a - 1] = COMMA
                                          /\ \A i \in a..j - 1 : d[i] # COMMA
                                          /\ w = SubSeq(d, a, j - 1)
    BY <1>6, <1>10 DEF IsPiece
  <2>1. PICK a \in 1..j : /\ d[j] = COMMA
                          /\ a > 1 => d[a - 1] = COMMA
                          /\ \A i \in a..j - 1 : d[i] # COMMA
                          /\ w = SubSeq(d, a, j - 1)
    BY <2>0
  <2>2. /\ q + j \in q + 1..n /\ q + a \in q + 1..q + j
        /\ q + a > q + 1 => a > 1 /\ a - 1 \in 1..m /\ q + (a - 1) = q + a - 1
        /\ \A k \in q + a..q + j - 1 : k - q \in a..j - 1 /\ k - q \in 1..m /\ q + (k - q) = k
    BY <1>0 DEF m
  <2>3. b[q + j] \in Stop
    BY <1>7, <2>1
  <2>4. q + a > q + 1 => b[q + a - 1] \in Stop
    BY <1>7, <2>1, <2>2
  <2>5. \A k \in q + a..q + j - 1 : b[k] \notin Stop
    BY <1>7, <2>1, <2>2
  <2>6. IsName(b, q, q + j, q + a)
    BY <2>2, <2>3, <2>4, <2>5 DEF IsName
  <2>7. w = SubSeq(b, q + a, q + j - 1)
    BY <1>8, <2>1
  <2>8. PICK k, i : k = q + j /\ i = q + a
    OBVIOUS
  <2>9. IsName(b, q, k, i) /\ w = SubSeq(b, i, k - 1)
    BY <2>6, <2>7, <2>8
  <2> QED
    BY <2>9
<1>11. ASSUME NEW j, NEW a, IsName(b, q, j, a)
       PROVE  IsPiece(d, COMMA, SubSeq(b, a, j - 1))
  <2>1. /\ j \in q + 1..n /\ b[j] \in Stop
        /\ a \in q + 1..j
        /\ a > q + 1 => b[a - 1] \in Stop
        /\ \A k \in a..j - 1 : b[k] \notin Stop
    BY <1>11 DEF IsName
  <2>2. /\ j - q \in 1..m /\ a - q \in 1..j - q /\ q + (j - q) = j /\ q + (a - q) = a
        /\ a - q > 1 => a > q + 1 /\ (a - q) - 1 \in 1..m /\ q + ((a - q) - 1) = a - 1
        /\ \A i \in a - q..(j - q) - 1 : i \in 1..m /\ q + i \in a..j - 1
    BY <1>0, <2>1 DEF m
  <2>3. d[j - q] = COMMA
    BY <1>7, <2>1, <2>2
  <2>4. a - q > 1 => d[(a - q) - 1] = COMMA
    BY <1>7, <2>1, <2>2
  <2>5. \A i \in a - q..(j - q) - 1 : d[i] # COMMA
    BY <1>7, <2>1, <2>2
  <2>6. SubSeq(d, a - q, (j - q) - 1) = SubSeq(b, a, j - 1)
    <3>1. PICK k, i : k = j - q /\ i = a - q
      OBVIOUS
    <3>2. k \in 1..m /\ i \in 1..k /\ q + k = j /\ q + i = a
      BY <2>2, <3>1
    <3>3. SubSeq(d, i, k - 1) = SubSeq(b, q + i, q + k - 1)
      BY <1>8, <3>2
    <3>4. SubSeq(d, i, k - 1) = SubSeq(b, a, j - 1)
      BY <3>2, <3>3
    <3> QED
      BY <3>1, <3>4
  <2> QED
    BY <1>6, <2>2, <2>3, <2>4, <2>5, <2>6 DEF IsPiece
<1> QED
  BY <1>9, <1>10, <1>11 DEF v

(* The last loop finds what splitting the third field at the commas would. *)
LEMMA DepsTaken ==
  ASSUME NEW b, IsLine(b), NEW q \in 1..Len(b) - 1, NEW c, NEW w
  PROVE  ParseDeps(b, c, w, q + 1, Len(b)) =
           IF <<>> \in Bytes(Split(Third(b, q), COMMA)) THEN Rejected("empty package")
           ELSE Message(c, w, Bytes(Split(Third(b, q), COMMA)))
<1> DEFINE D == Bytes(Split(Third(b, q), COMMA))
           ends == {j \in q + 1..Len(b) : b[j] \in Stop}
<1>1. b \in Seq(Byte) /\ Len(b) \in Nat /\ q \in Nat
  BY DEF IsLine
<1>2. PICK start : NamesFrom(b, q, c, w, start)
  BY <1>1, NamesTaken
<1>3. /\ \A j \in ends :
           start[j] \in q + 1..j /\ \A a : IsName(b, q, j, a) <=> a = start[j]
      /\ ParseDeps(b, c, w, q + 1, Len(b)) =
           IF \E j \in ends : start[j] = j THEN Rejected("empty package")
           ELSE Message(c, w, {SubSeq(b, start[j], j - 1) : j \in ends})
  BY <1>2 DEF NamesFrom
<1>4. \A v : v \in D <=> \E j, a : IsName(b, q, j, a) /\ v = SubSeq(b, a, j - 1)
  BY NamesSplit
<1>5. \A j, a : IsName(b, q, j, a) => j \in ends
  BY DEF IsName
<1>6. \A v : v \in D <=> \E j \in ends : v = SubSeq(b, start[j], j - 1)
  <2> HIDE DEF D, ends
  <2>1. ASSUME NEW v, NEW j \in ends, v = SubSeq(b, start[j], j - 1) PROVE v \in D
    <3>1. IsName(b, q, j, start[j])
      BY <1>3
    <3> QED
      BY <1>4, <2>1, <3>1
  <2>2. ASSUME NEW v, v \in D PROVE \E j \in ends : v = SubSeq(b, start[j], j - 1)
    <3>1. PICK j, a : IsName(b, q, j, a) /\ v = SubSeq(b, a, j - 1)
      BY <1>4, <2>2
    <3>2. j \in ends /\ a = start[j]
      BY <1>3, <1>5, <3>1
    <3> QED
      BY <3>1, <3>2
  <2> QED
    BY <2>1, <2>2
<1>7. ASSUME NEW j \in ends PROVE start[j] = j <=> SubSeq(b, start[j], j - 1) = <<>>
  <2>1. PICK a : a = start[j]
    OBVIOUS
  <2>2. j \in q + 1..Len(b) /\ a \in q + 1..j
    BY <1>3, <2>1
  <2>3. a \in 1..Len(b) + 1 /\ j - 1 \in 0..Len(b) /\ a \in Int /\ j \in Int
    BY <1>1, <2>2
  <2>4. Len(SubSeq(b, a, j - 1)) = IF a <= j - 1 THEN j - 1 - a + 1 ELSE 0
    BY <1>1, <2>3, BytesSubSeq
  <2>5. SubSeq(b, a, j - 1) \in Seq(Byte)
    BY <1>1, <2>3, BytesSubSeq
  <2>6. Len(SubSeq(b, a, j - 1)) = 0 <=> a = j
    BY <2>2, <2>3, <2>4
  <2>7. SubSeq(b, a, j - 1) = <<>> <=> a = j
    BY <2>5, <2>6, EmptySeq
  <2> QED
    BY <2>1, <2>7
<1>8. (\E j \in ends : start[j] = j) <=> <<>> \in D
  <2> HIDE DEF D, ends
  <2> QED
    BY <1>6, <1>7
<1>9. {SubSeq(b, start[j], j - 1) : j \in ends} = D
  <2> HIDE DEF D, ends
  <2> QED
    BY <1>6
<1> QED
  BY <1>3, <1>8, <1>9

-----------------------------------------------------------------------------
(* The parts of a line. *)

LEMMA BodyParts ==
  ASSUME NEW b, IsLine(b)
  PROVE  /\ Body(b) \in Seq(Byte)
         /\ \A p, q : TwoCuts(Body(b), PIPE, p, q) <=> TwoCuts(b, PIPE, p, q)
<1> DEFINE n == Len(b)
           d == Body(b)
<1>1. b \in Seq(Byte) /\ n \in Nat \ {0} /\ b[n] = NL /\ \A i \in 1..n - 1 : b[i] # NL
  BY EmptySeq DEF IsLine
<1>2. 1 \in 1..n + 1 /\ n - 1 \in 0..n
  BY <1>1
<1>3. /\ d \in Seq(Byte) /\ Len(d) = (IF 1 <= n - 1 THEN n - 1 - 1 + 1 ELSE 0)
      /\ \A i \in 1..n - 1 - 1 + 1 : d[i] = b[1 + i - 1]
  BY <1>1, <1>2, BytesSubSeq DEF Body
<1>4. Len(d) = n - 1
  <2>1. (IF 1 <= n - 1 THEN n - 1 - 1 + 1 ELSE 0) = n - 1
    <3>0. n \in Nat /\ n # 0
      BY <1>1
    <3> HIDE DEF n
    <3>1. n \in Int /\ (~(1 <= n - 1) => n = 1)
      BY <3>0
    <3> QED
      BY <3>1
  <2>2. Len(d) = IF 1 <= n - 1 THEN n - 1 - 1 + 1 ELSE 0
    BY <1>3
  <2> QED
    BY <2>1, <2>2
<1>5. \A i \in 1..n - 1 : d[i] = b[i]
  <2>1. \A i \in 1..n - 1 : i \in 1..n - 1 - 1 + 1 /\ 1 + i - 1 = i
    BY <1>1
  <2> QED
    BY <1>3, <2>1
<1> HIDE DEF d
<1>6. ASSUME NEW p, NEW q, TwoCuts(d, PIPE, p, q) PROVE TwoCuts(b, PIPE, p, q)
  <2>1. /\ p \in 1..n - 1 /\ q \in p + 1..n - 1 /\ d[p] = PIPE /\ d[q] = PIPE
        /\ \A k \in 1..n - 1 : d[k] = PIPE => k \in {p, q}
    BY <1>4, <1>6 DEF TwoCuts
  <2>2. p \in 1..n /\ q \in p + 1..n /\ q \in 1..n - 1
    BY <1>1, <2>1
  <2>3. b[p] = PIPE /\ b[q] = PIPE
    BY <1>5, <2>1, <2>2
  <2>4. \A k \in 1..n : k = n \/ k \in 1..n - 1
    BY <1>1
  <2>5. \A k \in 1..n : b[k] = PIPE => k \in {p, q}
    BY <1>1, <1>5, <2>1, <2>4, Reserved
  <2> QED
    BY <2>2, <2>3, <2>5 DEF TwoCuts
<1>7. ASSUME NEW p, NEW q, TwoCuts(b, PIPE, p, q) PROVE TwoCuts(d, PIPE, p, q)
  <2>1. /\ p \in 1..n /\ q \in p + 1..n /\ b[p] = PIPE /\ b[q] = PIPE
        /\ \A k \in 1..n : b[k] = PIPE => k \in {p, q}
    BY <1>7 DEF TwoCuts
  <2>2. q # n
    BY <1>1, <2>1, Reserved
  <2>3. p \in 1..n - 1 /\ q \in p + 1..n - 1 /\ q \in 1..n - 1
    BY <1>1, <2>1, <2>2
  <2>4. d[p] = PIPE /\ d[q] = PIPE
    BY <1>5, <2>1, <2>3
  <2>5. \A k \in 1..n - 1 : k \in 1..n
    BY <1>1
  <2>6. \A k \in 1..n - 1 : d[k] = PIPE => k \in {p, q}
    BY <1>5, <2>1, <2>5
  <2> QED
    BY <1>4, <2>3, <2>4, <2>6 DEF TwoCuts
<1> QED
  BY <1>3, <1>6, <1>7 DEF d

LEMMA CutsBefore ==
  ASSUME NEW b, IsLine(b), NEW p, NEW q, TwoCuts(b, PIPE, p, q)
  PROVE  /\ Len(b) \in Nat /\ p \in 1..Len(b) - 1 /\ q \in p + 1..Len(b) - 1
         /\ First(b, p) \in Seq(Byte) /\ Second(b, p, q) \in Seq(Byte)
         /\ Third(b, q) \in Seq(Byte)
         /\ Len(Second(b, p, q)) = q - p - 1
         /\ Len(Third(b, q)) = Len(b) - q - 1
         /\ Bytes(Second(b, p, q)) = {b[i] : i \in p + 1..q - 1}
<1> DEFINE n == Len(b)
<1>1. b \in Seq(Byte) /\ n \in Nat /\ b[n] = NL
  BY DEF IsLine
<1>2. p \in 1..n /\ q \in p + 1..n /\ b[q] = PIPE
  BY DEF TwoCuts
<1>3. q # n
  BY <1>1, <1>2, Reserved
<1>4. p \in 1..n - 1 /\ q \in p + 1..n - 1
  BY <1>1, <1>2, <1>3
<1>5. /\ 1 \in 1..n + 1 /\ p - 1 \in 0..n /\ p + 1 \in 1..n + 1 /\ q - 1 \in 0..n
      /\ q + 1 \in 1..n + 1 /\ n - 1 \in 0..n
  BY <1>1, <1>4
<1>6. First(b, p) \in Seq(Byte)
  BY <1>1, <1>5, BytesSubSeq DEF First
<1>7. /\ Second(b, p, q) \in Seq(Byte)
      /\ Len(Second(b, p, q)) = IF p + 1 <= q - 1 THEN (q - 1) - (p + 1) + 1 ELSE 0
      /\ Bytes(Second(b, p, q)) = {b[i] : i \in p + 1..q - 1}
  BY <1>1, <1>5, BytesSubSeq DEF Second
<1>8. /\ Third(b, q) \in Seq(Byte)
      /\ Len(Third(b, q)) = IF q + 1 <= n - 1 THEN (n - 1) - (q + 1) + 1 ELSE 0
  BY <1>1, <1>5, BytesSubSeq DEF Third
<1>9. (IF p + 1 <= q - 1 THEN (q - 1) - (p + 1) + 1 ELSE 0) = q - p - 1
  BY <1>1, <1>4
<1>10. (IF q + 1 <= n - 1 THEN (n - 1) - (q + 1) + 1 ELSE 0) = n - q - 1
  BY <1>1, <1>4
<1> QED
  BY <1>1, <1>4, <1>6, <1>7, <1>8, <1>9, <1>10

LEMMA PartsOfLine ==
  ASSUME NEW b, IsLine(b), NEW p, NEW q, TwoCuts(b, PIPE, p, q)
  PROVE  Parts(b) = <<First(b, p), Second(b, p, q), Third(b, q)>>
<1> DEFINE n == Len(b)
           d == Body(b)
<1>1. b \in Seq(Byte) /\ n \in Nat /\ p \in 1..n - 1 /\ q \in p + 1..n - 1
  BY CutsBefore DEF IsLine
<1>2. d \in Seq(Byte) /\ TwoCuts(d, PIPE, p, q)
  BY BodyParts
<1>3. 1 \in 1..n + 1 /\ n - 1 \in 0..n
  BY <1>1
<1>4. Len(d) = n - 1
  <2>1. Len(d) = IF 1 <= n - 1 THEN n - 1 - 1 + 1 ELSE 0
    BY <1>1, <1>3, BytesSubSeq DEF Body
  <2> QED
    BY <1>1, <2>1
<1>5. Split(d, PIPE) = <<SubSeq(d, 1, p - 1), SubSeq(d, p + 1, q - 1), SubSeq(d, q + 1, Len(d))>>
  BY <1>2, Reserved, SplitTwoCuts
<1>6. ASSUME NEW i \in 1..n, NEW j \in 0..n - 1
      PROVE  SubSeq(d, i, j) = SubSeq(b, i, j)
  <2>1. i \in Nat \ {0} /\ j \in Nat /\ 1 + i - 1 <= n + 1 /\ 1 + j - 1 <= n - 1
        /\ 1 + i - 1 = i /\ 1 + j - 1 = j
    BY <1>1
  <2>2. SubSeq(SubSeq(b, 1, n - 1), i, j) = SubSeq(b, 1 + i - 1, 1 + j - 1)
    BY <1>1, <1>3, <2>1, SubSeqSubSeq
  <2> QED
    BY <2>1, <2>2 DEF Body
<1> HIDE DEF d
<1>7. /\ 1 \in 1..n /\ p + 1 \in 1..n /\ q + 1 \in 1..n
      /\ p - 1 \in 0..n - 1 /\ q - 1 \in 0..n - 1 /\ n - 1 \in 0..n - 1
  BY <1>1
<1>8. /\ SubSeq(d, 1, p - 1) = First(b, p)
      /\ SubSeq(d, p + 1, q - 1) = Second(b, p, q)
      /\ SubSeq(d, q + 1, Len(d)) = Third(b, q)
  BY <1>4, <1>6, <1>7 DEF First, Second, Third
<1>9. Parts(b) = Split(d, PIPE)
  BY DEF Parts, d, Body
<1> QED
  BY <1>5, <1>8, <1>9

LEMMA ThreeParts ==
  ASSUME NEW b, IsLine(b), Len(Parts(b)) = 3
  PROVE  \E p, q : TwoCuts(b, PIPE, p, q)
<1>1. Body(b) \in Seq(Byte) /\ Len(Split(Body(b), PIPE)) = 3
  BY BodyParts DEF Parts, Body
<1>2. \E p, q : TwoCuts(Body(b), PIPE, p, q)
  BY <1>1, Reserved, SplitThree
<1> QED
  BY <1>2, BodyParts


-----------------------------------------------------------------------------
(* What parseMessage makes of a line. *)

LEMMA TakenApart ==
  ASSUME NEW b, IsLine(b), NEW p, NEW q, Fields(b, p, q)
  PROVE  /\ Parts(b) = <<First(b, p), Second(b, p, q), Third(b, q)>>
         /\ parseMessage(b) =
              IF <<>> \in Bytes(Names(b)) THEN Rejected("empty package")
              ELSE Message(First(b, p), Second(b, p, q), Bytes(Names(b)))
<1>1. TwoCuts(b, PIPE, p, q)
  BY DEF Fields
<1>2. Parts(b) = <<First(b, p), Second(b, p, q), Third(b, q)>>
  BY <1>1, PartsOfLine
<1>3. Names(b) = IF Third(b, q) = <<>> THEN <<>> ELSE Split(Third(b, q), COMMA)
  BY <1>2 DEF Names
<1>4. /\ Len(b) \in Nat /\ q \in Int /\ q \in 1..Len(b) - 1 /\ Third(b, q) \in Seq(Byte)
      /\ Len(Third(b, q)) = Len(b) - q - 1
  BY <1>1, CutsBefore
<1>5. Third(b, q) = <<>> <=> q + 1 = Len(b)
  <2>1. Third(b, q) = <<>> <=> Len(Third(b, q)) = 0
    BY <1>4, EmptySeq
  <2>2. Len(b) - q - 1 = 0 <=> q + 1 = Len(b)
    BY <1>4
  <2> QED
    BY <1>4, <2>1, <2>2
<1>6. parseMessage(b) = Taken(b, p, q)
  BY FieldsTaken
<1>7. CASE q + 1 = Len(b)
  <2>1. Bytes(Names(b)) = {}
    BY <1>3, <1>5, <1>7, BytesEmpty
  <2> QED
    BY <1>2, <1>6, <1>7, <2>1 DEF Taken
<1>8. CASE q + 1 # Len(b)
  <2>1. Names(b) = Split(Third(b, q), COMMA)
    BY <1>3, <1>5, <1>8
  <2>2. ParseDeps(b, First(b, p), Second(b, p, q), q + 1, Len(b)) =
          IF <<>> \in Bytes(Split(Third(b, q), COMMA)) THEN Rejected("empty package")
          ELSE Message(First(b, p), Second(b, p, q), Bytes(Split(Third(b, q), COMMA)))
    BY <1>4, DepsTaken
  <2> QED
    BY <1>2, <1>6, <1>8, <2>1, <2>2 DEF Taken
<1> QED
  BY <1>7, <1>8

LEMMA WellFormedFields ==
  ASSUME NEW b, IsLine(b)
  PROVE  WellFormed(b) <=> (\E p, q : Fields(b, p, q)) /\ <<>> \notin Bytes(Names(b))
<1>1. ASSUME WellFormed(b) PROVE \E p, q : Fields(b, p, q)
  <2>1. Len(Parts(b)) = 3 /\ Parts(b)[2] # <<>> /\ COMMA \notin Bytes(Parts(b)[2])
    BY <1>1 DEF WellFormed
  <2>2. PICK p, q : TwoCuts(b, PIPE, p, q)
    BY <2>1, ThreeParts
  <2>3. Parts(b)[2] = Second(b, p, q)
    BY <2>2, PartsOfLine
  <2>4. /\ p \in Int /\ q \in p + 1..Len(b) - 1 /\ Len(b) \in Nat
        /\ Len(Second(b, p, q)) = q - p - 1
        /\ Second(b, p, q) \in Seq(Byte)
        /\ Bytes(Second(b, p, q)) = {b[i] : i \in p + 1..q - 1}
    BY <2>2, CutsBefore
  <2>5. Len(Second(b, p, q)) # 0
    BY <2>1, <2>3, <2>4, EmptySeq
  <2>6. p + 1 < q
    <3>1. q - p - 1 # 0
      BY <2>4, <2>5
    <3>2. p \in Int /\ q \in Int /\ p + 1 <= q
      BY <2>4
    <3> QED
      BY <3>1, <3>2
  <2>7. \A k \in p + 1..q - 1 : b[k] # COMMA
    BY <2>1, <2>3, <2>4
  <2>8. Fields(b, p, q)
    BY <2>2, <2>6, <2>7 DEF Fields
  <2> QED
    BY <2>8
<1>2. WellFormed(b) => <<>> \notin Bytes(Names(b))
  BY DEF WellFormed
<1>3. ASSUME NEW p, NEW q, Fields(b, p, q), <<>> \notin Bytes(Names(b)) PROVE WellFormed(b)
  <2>1. TwoCuts(b, PIPE, p, q) /\ p + 1 < q /\ \A k \in p + 1..q - 1 : b[k] # COMMA
    BY <1>3 DEF Fields
  <2>2. Parts(b) = <<First(b, p), Second(b, p, q), Third(b, q)>>
    BY <2>1, PartsOfLine
  <2>3. Len(Parts(b)) = 3 /\ Parts(b)[2] = Second(b, p, q)
    BY <2>2
  <2>4. /\ p \in Int /\ q \in p + 1..Len(b) - 1 /\ Len(b) \in Nat
        /\ Len(Second(b, p, q)) = q - p - 1
        /\ Bytes(Second(b, p, q)) = {b[i] : i \in p + 1..q - 1}
    BY <2>1, CutsBefore
  <2>5. COMMA \notin Bytes(Second(b, p, q))
    BY <2>1, <2>4
  <2>6. Second(b, p, q) # <<>>
    <3>1. q - p - 1 # 0
      <4>1. p \in Int /\ q \in Int /\ p + 1 < q
        BY <2>1, <2>4
      <4> QED
        BY <4>1
    <3>2. Len(Second(b, p, q)) # 0
      BY <2>4, <3>1
    <3> QED
      BY <3>2, EmptySeq
  <2> QED
    BY <1>3, <2>3, <2>5, <2>6 DEF WellFormed, IsLine
<1> QED
  BY <1>1, <1>2, <1>3

LEMMA Parsing ==
  ASSUME NEW b, IsLine(b)
  PROVE  IF WellFormed(b)
         THEN parseMessage(b) = Message(Parts(b)[1], Parts(b)[2], Bytes(Names(b)))
         ELSE Refused(parseMessage(b))
<1>1. CASE \E p, q : Fields(b, p, q)
  <2>1. PICK p, q : Fields(b, p, q)
    BY <1>1
  <2>2. /\ Parts(b) = <<First(b, p), Second(b, p, q), Third(b, q)>>
        /\ parseMessage(b) =
             IF <<>> \in Bytes(Names(b)) THEN Rejected("empty package")
             ELSE Message(First(b, p), Second(b, p, q), Bytes(Names(b)))
    BY <2>1, TakenApart
  <2>3. Parts(b)[1] = First(b, p) /\ Parts(b)[2] = Second(b, p, q)
    <3>1. Parts(b) = <<First(b, p), Second(b, p, q), Third(b, q)>>
      BY <2>2
    <3> QED
      BY <3>1
  <2>4. WellFormed(b) <=> <<>> \notin Bytes(Names(b))
    BY <2>1, WellFormedFields
  <2>5. Refused(Rejected("empty package"))
    BY RefusedBecause
  <2> QED
    BY <2>2, <2>3, <2>4, <2>5
<1>2. CASE \A p, q : ~Fields(b, p, q)
  <2>1. ~WellFormed(b)
    BY <1>2, WellFormedFields
  <2>2. Refused(parseMessage(b))
    BY <1>2, OthersRefused
  <2> QED
    BY <2>1, <2>2
<1> QED
  BY <1>1, <1>2

(* A line that has not arrived in full is refused. *)
LEMMA Unfinished ==
  ASSUME NEW b \in Seq(Byte), b = <<>> \/ b[Len(b)] # NL
  PROVE  Refused(parseMessage(b)) /\ ~WellFormed(b)
<1>1. b # <<>> => At(b, Len(b)) = b[Len(b)]
  <2>1. b # <<>> => Len(b) \in DOMAIN b
    BY EmptySeq
  <2> QED
    BY <2>1 DEF At
<1>2. parseMessage(b) = Rejected("must end in newline")
  BY <1>1 DEF parseMessage
<1>3. Refused(Rejected("must end in newline"))
  BY RefusedBecause
<1> QED
  BY <1>2, <1>3 DEF WellFormed

-----------------------------------------------------------------------------
(* The line, as far as it has arrived. *)

\* Only its last byte may be a newline.
LineInv == line \in Seq(Byte) /\ \A i \in 1..Len(line) - 1 : line[i] # NL

LEMMA LineOrUnfinished ==
  ASSUME LineInv
  PROVE  IsLine(line) \/ (line \in Seq(Byte) /\ (line = <<>> \/ line[Len(line)] # NL))
BY DEF LineInv, IsLine

LEMMA NilOrRefused ==
  ASSUME NEW r, Refused(r)
  PROVE  r.err # "panic" /\ r.err # "nil"
BY DEF Refused, Rejected

-----------------------------------------------------------------------------
(* A request that is put together and taken apart. *)

LEMMA RequestFields ==
  ASSUME NEW b \in Seq(Byte), \A i \in 1..Len(b) - 1 : b[i] # NL,
         IsRequest(parseMessage(b))
  PROVE  IsLine(b) /\ \E p, q : Fields(b, p, q) /\ First(b, p) \in Commands
<1>1. parseMessage(b).err = "nil" /\ parseMessage(b).command \in Commands
  BY DEF IsRequest
<1>2. ~Refused(parseMessage(b))
  BY <1>1, NilOrRefused
<1>3. IsLine(b)
  BY <1>2, Unfinished DEF IsLine
<1>4. WellFormed(b) /\ parseMessage(b) = Message(Parts(b)[1], Parts(b)[2], Bytes(Names(b)))
  BY <1>2, <1>3, Parsing
<1>5. PICK p, q : Fields(b, p, q)
  BY <1>3, <1>4, WellFormedFields
<1>6. Parts(b) = <<First(b, p), Second(b, p, q), Third(b, q)>>
  BY <1>3, <1>5, TakenApart
<1>7. Parts(b)[1] = First(b, p)
  BY <1>6
<1>8. parseMessage(b).command = First(b, p)
  BY <1>4, <1>7 DEF Message
<1> QED
  BY <1>1, <1>3, <1>5, <1>8

(* What MakeMessage does with the parts of a line. *)
(* What remains of two sequences in their concatenation. *)
LEMMA ConcatParts ==
  ASSUME NEW S, NEW s \in Seq(S), NEW t \in Seq(S)
  PROVE  /\ s \o t \in Seq(S) /\ Len(s \o t) = Len(s) + Len(t)
         /\ SubSeq(s \o t, Len(s) + 1, Len(s) + Len(t)) = t
         /\ \A i \in 1..Len(s) : (s \o t)[i] = s[i]
         /\ \A i \in 1..Len(t) : (s \o t)[Len(s) + i] = t[i]
         /\ \A a \in 1..Len(s) + 1, e \in 0..Len(s) : SubSeq(s \o t, a, e) = SubSeq(s, a, e)
<1> DEFINE r == s \o t
           m == Len(s)
           n == Len(t)
<1>1. m \in Nat /\ n \in Nat
  OBVIOUS
<1>2. /\ r \in Seq(S) /\ Len(r) = m + n
      /\ \A i \in 1..m + n : r[i] = IF i <= m THEN s[i] ELSE t[i - m]
  BY ConcatProperties
<1> HIDE DEF r, m, n
<1>3. \A i \in 1..m : r[i] = s[i]
  <2>1. \A i \in 1..m : i \in 1..m + n /\ i <= m
    BY <1>1
  <2> QED
    BY <1>2, <2>1
<1>4. \A i \in 1..n : r[m + i] = t[i]
  <2>1. \A i \in 1..n : m + i \in 1..m + n /\ ~(m + i <= m) /\ (m + i) - m = i
    BY <1>1
  <2> QED
    BY <1>2, <2>1
<1>5. SubSeq(r, m + 1, m + n) = t
  <2>1. m + 1 \in 1..Len(r) + 1 /\ m + n \in 0..Len(r)
    BY <1>1, <1>2
  <2>2. /\ SubSeq(r, m + 1, m + n) \in Seq(S)
        /\ Len(SubSeq(r, m + 1, m + n)) = IF m + 1 <= m + n THEN (m + n) - (m + 1) + 1 ELSE 0
        /\ \A i \in 1..(m + n) - (m + 1) + 1 : SubSeq(r, m + 1, m + n)[i] = r[(m + 1) + i - 1]
    BY <1>2, <2>1, BytesSubSeq
  <2>3. Len(SubSeq(r, m + 1, m + n)) = n
    BY <1>1, <2>2
  <2>4. \A i \in 1..n : i \in 1..(m + n) - (m + 1) + 1 /\ (m + 1) + i - 1 = m + i
    BY <1>1
  <2>5. \A i \in 1..n : SubSeq(r, m + 1, m + n)[i] = t[i]
    BY <1>4, <2>2, <2>4
  <2>6. Len(t) = n
    BY DEF n
  <2> QED
    BY <2>2, <2>3, <2>5, <2>6, SeqEqual
<1>6. ASSUME NEW a \in 1..m + 1, NEW e \in 0..m PROVE SubSeq(r, a, e) = SubSeq(s, a, e)
  <2>1. a \in 1..Len(r) + 1 /\ e \in 0..Len(r) /\ a \in Int /\ e \in Int
    BY <1>1, <1>2
  <2>2. a \in 1..Len(s) + 1 /\ e \in 0..Len(s)
    BY DEF m
  <2>3. /\ SubSeq(r, a, e) \in Seq(S)
        /\ Len(SubSeq(r, a, e)) = IF a <= e THEN e - a + 1 ELSE 0
        /\ \A i \in 1..e - a + 1 : SubSeq(r, a, e)[i] = r[a + i - 1]
    BY <1>2, <2>1, BytesSubSeq
  <2>4. /\ SubSeq(s, a, e) \in Seq(S)
        /\ Len(SubSeq(s, a, e)) = IF a <= e THEN e - a + 1 ELSE 0
        /\ \A i \in 1..e - a + 1 : SubSeq(s, a, e)[i] = s[a + i - 1]
    BY <2>2, BytesSubSeq
  <2>5. \A i \in 1..e - a + 1 : a + i - 1 \in 1..m
    BY <1>1
  <2>6. \A i \in 1..e - a + 1 : SubSeq(r, a, e)[i] = SubSeq(s, a, e)[i]
    BY <1>3, <2>3, <2>4, <2>5
  <2>7. Len(SubSeq(r, a, e)) = Len(SubSeq(s, a, e))
    BY <2>3, <2>4
  <2>8. 1..Len(SubSeq(r, a, e)) \subseteq 1..e - a + 1
    BY <2>1, <2>3
  <2>9. \A i \in 1..Len(SubSeq(r, a, e)) : SubSeq(r, a, e)[i] = SubSeq(s, a, e)[i]
    BY <2>6, <2>8
  <2> QED
    BY <2>3, <2>4, <2>7, <2>9, SeqEqual
<1> QED
  BY <1>2, <1>3, <1>4, <1>5, <1>6 DEF r, m, n

(* A line that is sent. *)
LEMMA EndsLine ==
  ASSUME NEW s \in Seq(Byte \ {NL})
  PROVE  IsLine(s \o <<NL>>)
<1>1. s \in Seq(Byte) /\ <<NL>> \in Seq(Byte) /\ Len(<<NL>>) = 1 /\ Len(s) \in Nat
  BY DEF Byte
<1>2. /\ s \o <<NL>> \in Seq(Byte) /\ Len(s \o <<NL>>) = Len(s) + 1
      /\ \A i \in 1..Len(s) : (s \o <<NL>>)[i] = s[i]
      /\ \A i \in 1..1 : (s \o <<NL>>)[Len(s) + i] = <<NL>>[i]
  BY <1>1, ConcatParts
<1>3. \A i \in 1..Len(s) : s[i] # NL
  BY ElementOfSeq
<1>4. (s \o <<NL>>)[Len(s) + 1] = NL
  BY <1>2
<1>5. s \o <<NL>> # <<>> /\ (Len(s) + 1) - 1 = Len(s)
  BY <1>1, <1>2, EmptySeq
<1> QED
  BY <1>2, <1>3, <1>4, <1>5 DEF IsLine

LEMMA Inner ==
  /\ Seq(Plain) \subseteq Seq(Byte \ {NL}) /\ Seq(Plain \cup {COMMA}) \subseteq Seq(Byte \ {NL})
  /\ <<PIPE>> \in Seq(Byte \ {NL}) /\ <<NL>> \in Seq(Byte)
  /\ Seq(Byte \ {NL}) \subseteq Seq(Byte)
<1>1. /\ Plain \cup {COMMA} \subseteq Byte \ {NL} /\ Plain \subseteq Byte \ {NL}
      /\ PIPE \in Byte \ {NL} /\ NL \in Byte
  BY WireAssumption, Reserved DEF Byte
<1> QED
  BY <1>1

(* ConcatParts for lengths with names. *)
Joined(S, s, t, k, l) ==
  /\ s \o t \in Seq(S) /\ Len(s \o t) = k + l
  /\ SubSeq(s \o t, k + 1, k + l) = t
  /\ \A i \in 1..k : (s \o t)[i] = s[i]
  /\ \A i \in 1..l : (s \o t)[k + i] = t[i]
  /\ \A a \in 1..k + 1, e \in 0..k : SubSeq(s \o t, a, e) = SubSeq(s, a, e)

LEMMA ConcatAt ==
  ASSUME NEW S, NEW s, NEW t, NEW k, NEW l,
         s \in Seq(S), t \in Seq(S), k = Len(s), l = Len(t)
  PROVE  Joined(S, s, t, k, l)
<1>1. Joined(S, s, t, Len(s), Len(t))
  BY ConcatParts DEF Joined
<1> QED
  BY <1>1

Line(c, w, j) == c \o <<PIPE>> \o w \o <<PIPE>> \o j \o <<NL>>

(* The fields of a line that is put together. *)
LEMMA Composed ==
  ASSUME NEW c \in Seq(Plain), NEW w \in Seq(Plain), w # <<>>, NEW j \in Seq(Plain \cup {COMMA})
  PROVE  /\ IsLine(Line(c, w, j))
         /\ \E p, q : /\ Fields(Line(c, w, j), p, q) /\ First(Line(c, w, j), p) = c
                      /\ Second(Line(c, w, j), p, q) = w /\ Third(Line(c, w, j), q) = j
<1> DEFINE S  == Byte \ {NL}
           s1 == c \o <<PIPE>>
           s2 == s1 \o w
           s3 == s2 \o <<PIPE>>
           s4 == s3 \o j
           b  == s4 \o <<NL>>
<1>0. Line(c, w, j) = b
  BY DEF Line
<1>1. c \in Seq(S) /\ w \in Seq(S) /\ j \in Seq(S) /\ <<PIPE>> \in Seq(S) /\ Seq(S) \subseteq Seq(Byte)
      /\ <<NL>> \in Seq(Byte) /\ Len(<<PIPE>>) = 1 /\ Len(<<NL>>) = 1 /\ <<PIPE>>[1] = PIPE
  BY Inner
<1>2. PICK lc \in Nat, lw \in Nat, lj \in Nat : lc = Len(c) /\ lw = Len(w) /\ lj = Len(j) /\ lw # 0
  BY EmptySeq
\* Where the pipes and the last bytes of the fields are.
<1> DEFINE p == lc + 1
           e == p + lw
           q == e + 1
           z == q + lj
           n == z + 1
<1>3. /\ p \in Nat /\ e \in Nat /\ q \in Nat /\ z \in Nat /\ n \in Nat
      /\ 1 <= p /\ lc < p /\ p < e /\ e < q /\ q <= z /\ z < n
      /\ p - 1 = lc /\ q - 1 = e /\ n - 1 = z
  BY <1>2
<1>4. p = lc + 1 /\ e = p + lw /\ q = e + 1 /\ z = q + lj /\ n = z + 1
  OBVIOUS
<1> HIDE DEF S, p, e, q, z, n
<1>5. /\ s1 \in Seq(S) /\ Len(s1) = p /\ s1[p] = PIPE /\ SubSeq(s1, 1, lc) = c
  <2>1. Joined(S, c, <<PIPE>>, lc, 1)
    BY <1>1, <1>2, ConcatAt
  <2>2. SubSeq(c, 1, lc) = c
    BY <1>1, <1>2, SubSeqFull
  <2>3. 1 \in 1..lc + 1 /\ lc \in 0..lc /\ 1 \in 1..1
    OBVIOUS
  <2> QED
    BY <1>1, <1>4, <2>1, <2>2, <2>3 DEF Joined
<1> HIDE DEF s1
<1>6. /\ s2 \in Seq(S) /\ Len(s2) = e /\ s2[p] = PIPE /\ SubSeq(s2, 1, lc) = c
      /\ SubSeq(s2, p + 1, e) = w
  <2>1. Joined(S, s1, w, p, lw)
    BY <1>1, <1>2, <1>5, ConcatAt
  <2>2. 1 \in 1..p + 1 /\ lc \in 0..p /\ p \in 1..p
    BY <1>3
  <2> QED
    BY <1>4, <1>5, <2>1, <2>2 DEF Joined
<1> HIDE DEF s2
<1>7. /\ s3 \in Seq(S) /\ Len(s3) = q /\ s3[p] = PIPE /\ s3[q] = PIPE /\ SubSeq(s3, 1, lc) = c
      /\ SubSeq(s3, p + 1, e) = w
  <2>1. Joined(S, s2, <<PIPE>>, e, 1)
    BY <1>1, <1>6, ConcatAt
  <2>2. /\ 1 \in 1..e + 1 /\ lc \in 0..e /\ p \in 1..e /\ 1 \in 1..1
        /\ p + 1 \in 1..e + 1 /\ e \in 0..e
    BY <1>3
  <2> QED
    BY <1>1, <1>4, <1>6, <2>1, <2>2 DEF Joined
<1> HIDE DEF s3
<1>8. /\ s4 \in Seq(S) /\ Len(s4) = z /\ s4[p] = PIPE /\ s4[q] = PIPE /\ SubSeq(s4, 1, lc) = c
      /\ SubSeq(s4, p + 1, e) = w /\ SubSeq(s4, q + 1, z) = j
  <2>1. Joined(S, s3, j, q, lj)
    BY <1>1, <1>2, <1>7, ConcatAt
  <2>2. /\ 1 \in 1..q + 1 /\ lc \in 0..q /\ p \in 1..q /\ q \in 1..q
        /\ p + 1 \in 1..q + 1 /\ e \in 0..q
    BY <1>3
  <2> QED
    BY <1>4, <1>7, <2>1, <2>2 DEF Joined
<1> HIDE DEF s4
<1>9. IsLine(b)
  BY <1>8, EndsLine DEF S
<1>10. /\ b \in Seq(Byte) /\ Len(b) = n /\ b[p] = PIPE /\ b[q] = PIPE /\ b[n] = NL
       /\ SubSeq(b, 1, lc) = c /\ SubSeq(b, p + 1, e) = w /\ SubSeq(b, q + 1, z) = j
  <2>1. Joined(Byte, s4, <<NL>>, z, 1)
    BY <1>1, <1>8, ConcatAt
  <2>2. /\ 1 \in 1..z + 1 /\ lc \in 0..z /\ p \in 1..z /\ q \in 1..z
        /\ p + 1 \in 1..z + 1 /\ e \in 0..z /\ q + 1 \in 1..z + 1 /\ z \in 0..z
    BY <1>3
  <2>3. /\ b \in Seq(Byte) /\ Len(b) = n /\ b[p] = PIPE /\ b[q] = PIPE
        /\ SubSeq(b, 1, lc) = c /\ SubSeq(b, p + 1, e) = w /\ SubSeq(b, q + 1, z) = j
    BY <1>4, <1>8, <2>1, <2>2 DEF Joined
  <2> QED
    BY <1>9, <2>3 DEF IsLine
<1> HIDE DEF b
<1>11. /\ Bytes(c) = {b[i] : i \in 1..lc} /\ Bytes(w) = {b[i] : i \in p + 1..e}
       /\ Bytes(j) = {b[i] : i \in q + 1..z}
  <2>1. /\ 1 \in 1..Len(b) + 1 /\ lc \in 0..Len(b) /\ p + 1 \in 1..Len(b) + 1 /\ e \in 0..Len(b)
        /\ q + 1 \in 1..Len(b) + 1 /\ z \in 0..Len(b)
    BY <1>2, <1>3, <1>10
  <2>2. /\ Bytes(SubSeq(b, 1, lc)) = {b[i] : i \in 1..lc}
        /\ Bytes(SubSeq(b, p + 1, e)) = {b[i] : i \in p + 1..e}
        /\ Bytes(SubSeq(b, q + 1, z)) = {b[i] : i \in q + 1..z}
    <3>1. b \in Seq(Byte)
      BY <1>10
    <3>2. ASSUME NEW a \in 1..Len(b) + 1, NEW d \in 0..Len(b)
          PROVE  Bytes(SubSeq(b, a, d)) = {b[i] : i \in a..d}
      BY <3>1, BytesSubSeq
    <3> QED
      BY <2>1, <3>2
  <2> QED
    BY <1>10, <2>2
<1>12. /\ Bytes(c) \subseteq Plain /\ Bytes(w) \subseteq Plain /\ Bytes(j) \subseteq Plain \cup {COMMA}
  BY ElementOfSeq DEF Bytes
<1>13. PIPE \notin Plain \cup {COMMA} /\ COMMA \notin Plain /\ PIPE # NL
  BY WireAssumption, Reserved
<1>14. ASSUME NEW i \in 1..n, b[i] = PIPE PROVE i \in {p, q}
  <2>1. i \in 1..lc \/ i = p \/ i \in p + 1..e \/ i = q \/ i \in q + 1..z \/ i = n
    BY <1>3
  <2>2. i \notin 1..lc /\ i \notin p + 1..e /\ i \notin q + 1..z
    BY <1>11, <1>12, <1>13, <1>14
  <2>3. i # n
    BY <1>10, <1>13, <1>14
  <2> QED
    BY <2>1, <2>2, <2>3
<1>15. \A k \in p + 1..q - 1 : b[k] # COMMA
  BY <1>3, <1>11, <1>12, <1>13
<1>16. p \in 1..n /\ q \in p + 1..n /\ p + 1 < q
  BY <1>3
<1>17. Fields(b, p, q)
  BY <1>10, <1>14, <1>15, <1>16 DEF Fields, TwoCuts
<1>18. First(b, p) = c /\ Second(b, p, q) = w /\ Third(b, q) = j
  BY <1>3, <1>10 DEF First, Second, Third
<1> QED
  BY <1>0, <1>9, <1>17, <1>18

(* What parseMessage makes of a request of the suite. *)
LEMMA MadeParsed ==
  ASSUME NEW cmd \in Commands, NEW pkg \in PackageNames, NEW names \in Seq(PackageNames)
  PROVE  /\ IsLine(MakeMessage(cmd, pkg, names))
         /\ parseMessage(MakeMessage(cmd, pkg, names)) = Message(cmd, pkg, Bytes(names))
<1> DEFINE T == Plain \cup {COMMA}
           j == Join(names)
           b == MakeMessage(cmd, pkg, names)
<1>1. cmd \in Seq(Plain) /\ pkg \in Seq(Plain) /\ pkg # <<>> /\ PackageNames \subseteq Seq(Plain)
  BY WireAssumption
<1>2. PackageNames \subseteq Free(T)
  <2> SUFFICES ASSUME NEW w \in PackageNames PROVE w \in Free(T)
    OBVIOUS
  <2>1. w \in Seq(Plain) /\ Bytes(w) \subseteq Plain
    BY <1>1, ElementOfSeq DEF Bytes
  <2>2. w \in Seq(T) /\ COMMA \notin Bytes(w)
    BY <2>1, WireAssumption
  <2> QED
    BY <2>2 DEF Free
<1>3. names \in Seq(Free(T)) /\ names \in Seq(Seq(T)) /\ COMMA \in T
  <2>1. Free(T) \subseteq Seq(T)
    BY DEF Free
  <2>2. COMMA \in T
    OBVIOUS
  <2> HIDE DEF T
  <2>3. names \in Seq(Free(T))
    BY <1>2, ElementOfSeq
  <2>4. names \in Seq(Seq(T))
    BY <2>1, <2>3
  <2> QED
    BY <2>2, <2>3, <2>4
<1> HIDE DEF T
<1>4. j \in Seq(T)
  BY <1>3, JoinTyped
<1>5. names # <<>> => Split(j, COMMA) = names
  BY <1>3, SplitJoin
<1>6. <<>> \notin Bytes(names)
  <2>1. \A i \in DOMAIN names : names[i] \in PackageNames
    OBVIOUS
  <2> QED
    BY <2>1, WireAssumption DEF Bytes
<1>7. b = Line(cmd, pkg, j)
  BY DEF MakeMessage, Line
<1>8. /\ IsLine(b)
      /\ \E p, q : Fields(b, p, q) /\ First(b, p) = cmd /\ Second(b, p, q) = pkg /\ Third(b, q) = j
  <2> HIDE DEF j, b
  <2> QED
    BY <1>1, <1>4, <1>7, Composed DEF T
<1>9. PICK p, q : Fields(b, p, q) /\ First(b, p) = cmd /\ Second(b, p, q) = pkg /\ Third(b, q) = j
  BY <1>8
<1>10. j = <<>> => names = <<>>
  <2> SUFFICES ASSUME j = <<>>, names # <<>> PROVE FALSE
    OBVIOUS
  <2>1. names = << <<>> >>
    BY <1>5, SplitEmpty
  <2>2. names[1] = <<>> /\ 1 \in DOMAIN names
    BY <2>1
  <2> QED
    BY <1>6, <2>2 DEF Bytes
<1>11. names = <<>> => j = <<>>
  BY JoinEmpty
<1> HIDE DEF j, b
<1>12. Parts(b) = <<cmd, pkg, j>>
  BY <1>8, <1>9, TakenApart
<1>13. Parts(b)[3] = j
  BY <1>12
<1>14. Names(b) = names
  BY <1>5, <1>10, <1>11, <1>13 DEF Names
<1>15. parseMessage(b) = Message(cmd, pkg, Bytes(names))
  BY <1>6, <1>8, <1>9, <1>14, TakenApart
<1> QED
  BY <1>8, <1>15 DEF b

(* The command of a line that begins with plain bytes and a pipe. *)
LEMMA PlainCommand ==
  ASSUME NEW c \in Seq(Plain), NEW d \in Seq(Byte), d # <<>>, d[1] = PIPE,
         NEW p, NEW q, TwoCuts(c \o d, PIPE, p, q)
  PROVE  /\ p = Len(c) + 1 /\ First(c \o d, p) = c
         /\ \E k \in 2..Len(d) : d[k] = PIPE
<1> DEFINE b == c \o d
           l == Len(c)
           m == Len(d)
<1>1. c \in Seq(Byte) /\ l \in Nat /\ m \in Nat /\ m >= 1
  <2>1. Plain \subseteq Byte
    BY DEF Byte
  <2>2. Seq(Plain) \subseteq Seq(Byte)
    BY <2>1
  <2>3. m # 0
    BY EmptySeq
  <2> QED
    BY <2>2, <2>3
<1>2. /\ b \in Seq(Byte) /\ Len(b) = l + m
      /\ \A i \in 1..l + m : b[i] = IF i <= l THEN c[i] ELSE d[i - l]
  BY <1>1, ConcatProperties
<1>3. \A i \in 1..l : c[i] # PIPE
  <2>1. \A i \in 1..l : c[i] \in Plain
    BY ElementOfSeq
  <2> QED
    BY <2>1, WireAssumption
<1>4. /\ p \in 1..l + m /\ q \in p + 1..l + m /\ b[p] = PIPE /\ b[q] = PIPE
      /\ \A k \in 1..l + m : b[k] = PIPE => k \in {p, q}
  BY <1>2 DEF TwoCuts
<1> HIDE DEF b, l, m
<1>5. \A i \in 1..l + m : i <= l => b[i] # PIPE
  <2>1. \A i \in 1..l + m : i <= l => i \in 1..l
    BY <1>1
  <2> QED
    BY <1>2, <1>3, <2>1
<1>6. p \in Int /\ q \in Int /\ p > l /\ q > p
  BY <1>1, <1>4, <1>5
<1>7. p = l + 1
  <2>1. l + 1 \in 1..l + m /\ ~(l + 1 <= l) /\ (l + 1) - l = 1
    BY <1>1
  <2>2. b[l + 1] = PIPE
    BY <1>2, <2>1
  <2>3. l + 1 = p \/ l + 1 = q
    BY <1>4, <2>1, <2>2
  <2> QED
    BY <1>1, <1>6, <2>3
<1>8. \E k \in 2..m : d[k] = PIPE
  <2>1. q \in 1..l + m /\ ~(q <= l) /\ q - l \in 2..m
    BY <1>1, <1>4, <1>6, <1>7
  <2>2. b[q] = d[q - l]
    BY <1>2, <2>1
  <2> QED
    BY <1>4, <2>1, <2>2
<1>9. SubSeq(b, 1, p - 1) = c
  <2>1. p - 1 = l
    BY <1>1, <1>7
  <2>2. 1 \in 1..Len(b) + 1 /\ l \in 0..Len(b)
    BY <1>1, <1>2
  <2>3. /\ SubSeq(b, 1, l) \in Seq(Byte)
        /\ Len(SubSeq(b, 1, l)) = (IF 1 <= l THEN l - 1 + 1 ELSE 0)
        /\ \A i \in 1..l - 1 + 1 : SubSeq(b, 1, l)[i] = b[1 + i - 1]
    BY <1>2, <2>2, BytesSubSeq
  <2>4. (IF 1 <= l THEN l - 1 + 1 ELSE 0) = l
    <3>1. l \in Int /\ (~(1 <= l) => l = 0)
      BY <1>1
    <3> QED
      BY <3>1
  <2>5. ASSUME NEW i \in 1..l PROVE SubSeq(b, 1, l)[i] = c[i]
    <3>1. i \in 1..l - 1 + 1 /\ 1 + i - 1 = i /\ i \in 1..l + m /\ i <= l
      BY <1>1
    <3> QED
      BY <1>2, <2>3, <3>1
  <2>6. Len(SubSeq(b, 1, l)) = l
    BY <2>3, <2>4
  <2>7. Len(c) = l
    BY DEF l
  <2> QED
    BY <1>1, <2>1, <2>3, <2>5, <2>6, <2>7, SeqEqual
<1> QED
  BY <1>7, <1>8, <1>9 DEF First, b, l, m


(* What MakeBrokenMessage returns lacks its last pipe or has an unknown    *)
(* command.                                                                *)
LEMMA WordsPlain == Words \subseteq Seq(Plain)
<1>1. ASSUME NEW w \in Words PROVE w \in Seq(Plain)
  <2>1. PICK n \in 1..3 : w \in [1..n -> Plain]
    BY <1>1 DEF Words
  <2>2. n \in Nat
    BY <2>1
  <2> QED
    BY <2>1, <2>2
<1> QED
  BY <1>1

LEMMA PlainBytes == Seq(Plain) \subseteq Seq(Byte) /\ <<PIPE>> \in Seq(Byte) /\ <<NL>> \in Seq(Byte)
<1>1. Plain \subseteq Byte /\ PIPE \in Byte /\ NL \in Byte
  BY DEF Byte
<1> QED
  BY <1>1

LEMMA LastPipeLost ==
  ASSUME NEW c \in Seq(Plain), NEW w \in Seq(Plain), NEW p, NEW q,
         TwoCuts(c \o <<PIPE>> \o w \o <<NL>>, PIPE, p, q)
  PROVE  FALSE
<1> DEFINE e == <<PIPE>> \o w
           d == e \o <<NL>>
<1>1. c \in Seq(Byte) /\ w \in Seq(Byte) /\ <<PIPE>> \in Seq(Byte) /\ <<NL>> \in Seq(Byte)
  BY PlainBytes
<1>2. /\ e \in Seq(Byte) /\ Len(e) = 1 + Len(w) /\ Len(w) \in Nat
      /\ \A i \in 1..1 + Len(w) : e[i] = IF i <= 1 THEN <<PIPE>>[i] ELSE w[i - 1]
  BY <1>1, ConcatProperties
<1>3. /\ d \in Seq(Byte) /\ Len(d) = Len(e) + 1
      /\ \A i \in 1..Len(e) + 1 : d[i] = IF i <= Len(e) THEN e[i] ELSE <<NL>>[i - Len(e)]
  BY <1>1, <1>2, ConcatProperties
<1>4. c \o <<PIPE>> \o w \o <<NL>> = c \o d
  <2>1. (c \o <<PIPE>>) \o w = c \o e
    BY <1>1, ConcatAssociative
  <2> HIDE DEF e
  <2>2. (c \o e) \o <<NL>> = c \o (e \o <<NL>>)
    BY <1>1, <1>2, ConcatAssociative
  <2> QED
    BY <2>1, <2>2
<1> HIDE DEF d, e
<1>5. \A i \in 1..Len(w) : w[i] # PIPE
  <2>1. \A i \in 1..Len(w) : w[i] \in Plain
    BY ElementOfSeq
  <2> QED
    BY <2>1, WireAssumption
<1>6. d[1] = PIPE /\ d # <<>>
  <2>1. 1 \in 1..1 + Len(w) /\ 1 \in 1..Len(e) + 1 /\ 1 <= Len(e) /\ 1 <= 1
    BY <1>2
  <2>2. e[1] = PIPE
    BY <1>2, <2>1
  <2>3. d[1] = e[1]
    BY <1>3, <2>1
  <2>4. Len(d) # 0
    BY <1>2, <1>3
  <2> QED
    BY <2>2, <2>3, <2>4, EmptySeq
<1>7. ASSUME NEW k \in 2..Len(d) PROVE d[k] # PIPE
  <2>1. CASE k <= Len(e)
    <3>1. /\ k \in 1..1 + Len(w) /\ k \in 1..Len(e) + 1 /\ ~(k <= 1) /\ k - 1 \in 1..Len(w)
      BY <1>2, <1>3, <2>1
    <3>2. d[k] = e[k]
      BY <1>3, <2>1, <3>1
    <3>3. e[k] = w[k - 1]
      BY <1>2, <3>1
    <3> QED
      BY <1>5, <3>1, <3>2, <3>3
  <2>2. CASE ~(k <= Len(e))
    <3>1. k \in 1..Len(e) + 1 /\ k - Len(e) = 1
      BY <1>2, <1>3, <2>2
    <3>2. d[k] = <<NL>>[k - Len(e)]
      BY <1>3, <2>2, <3>1
    <3>3. <<NL>>[1] = NL
      OBVIOUS
    <3> QED
      BY <3>1, <3>2, <3>3, Reserved
  <2> QED
    BY <2>1, <2>2
<1>8. TwoCuts(c \o d, PIPE, p, q)
  BY <1>4
<1>9. \E k \in 2..Len(d) : d[k] = PIPE
  BY <1>3, <1>6, <1>8, PlainCommand
<1> QED
  BY <1>7, <1>9

NoLastPipe(c, w) == c \o <<PIPE>> \o w \o <<NL>>
Unknown(c, x, y) == c \o <<PIPE, x, PIPE, y, NL>>

LEMMA BrokenKinds ==
  MakeBrokenMessage = {NoLastPipe(c, w) : c \in Commands, w \in Words}
    \cup {Unknown(c, x, y) : c \in Words \ Commands, x \in Plain, y \in Plain}
BY DEF MakeBrokenMessage, NoLastPipe, Unknown

LEMMA BrokenRefused ==
  ASSUME NEW b \in MakeBrokenMessage, NEW p, NEW q, TwoCuts(b, PIPE, p, q)
  PROVE  First(b, p) \notin Commands
<1>1. CASE b \in {NoLastPipe(c, w) : c \in Commands, w \in Words}
  <2>1. PICK c \in Commands, w \in Words : b = NoLastPipe(c, w)
    BY <1>1
  <2>2. c \in Seq(Plain) /\ w \in Seq(Plain)
    BY WireAssumption, WordsPlain
  <2>3. TwoCuts(c \o <<PIPE>> \o w \o <<NL>>, PIPE, p, q)
    BY <2>1 DEF NoLastPipe
  <2> QED
    BY <2>2, <2>3, LastPipeLost
<1>2. CASE b \in {Unknown(c, x, y) : c \in Words \ Commands, x \in Plain, y \in Plain}
  <2>1. PICK c \in Words \ Commands, x \in Plain, y \in Plain : b = Unknown(c, x, y)
    BY <1>2
  <2>2. c \in Seq(Plain)
    BY WordsPlain
  <2> DEFINE d == <<PIPE, x, PIPE, y, NL>>
  <2>3. d \in Seq(Byte) /\ d # <<>> /\ d[1] = PIPE
    BY DEF Byte
  <2> HIDE DEF d
  <2>4. TwoCuts(c \o d, PIPE, p, q)
    BY <2>1 DEF d, Unknown
  <2>5. First(c \o d, p) = c
    BY <2>2, <2>3, <2>4, PlainCommand
  <2> QED
    BY <2>1, <2>5 DEF d, Unknown
<1> QED
  BY <1>1, <1>2, BrokenKinds

LEMMA BrokenLine ==
  ASSUME NEW b \in MakeBrokenMessage
  PROVE  IsLine(b)
<1> DEFINE S == Byte \ {NL}
<1>1. CASE b \in {NoLastPipe(c, w) : c \in Commands, w \in Words}
  <2>1. PICK c \in Commands, w \in Words : b = NoLastPipe(c, w)
    BY <1>1
  <2>2. c \in Seq(S) /\ w \in Seq(S) /\ <<PIPE>> \in Seq(S)
    BY WireAssumption, WordsPlain, Inner
  <2> HIDE DEF S
  <2>3. c \o <<PIPE>> \in Seq(S)
    BY <2>2, ConcatProperties
  <2>4. (c \o <<PIPE>>) \o w \in Seq(S)
    BY <2>2, <2>3, ConcatProperties
  <2> QED
    BY <2>1, <2>4, EndsLine DEF NoLastPipe, S
<1>2. CASE b \in {Unknown(c, x, y) : c \in Words \ Commands, x \in Plain, y \in Plain}
  <2>1. PICK c \in Words \ Commands, x \in Plain, y \in Plain : b = Unknown(c, x, y)
    BY <1>2
  <2> DEFINE t == <<PIPE, x, PIPE, y>>
             d == <<PIPE, x, PIPE, y, NL>>
  <2>2. c \in Seq(S) /\ Seq(S) \subseteq Seq(Byte) /\ <<NL>> \in Seq(Byte)
    BY WordsPlain, Inner
  <2>3. PIPE \in S /\ x \in S /\ y \in S /\ NL \in Byte
    BY WireAssumption, Reserved DEF Byte
  <2>4. t \in Seq(S) /\ d \in Seq(Byte)
    BY <2>3
  <2>5. t \o <<NL>> = d
    <3>1. t \o <<NL>> \in Seq(Byte) /\ Len(t \o <<NL>>) = 5
          /\ \A i \in 1..5 : (t \o <<NL>>)[i] = IF i <= 4 THEN t[i] ELSE <<NL>>[i - 4]
      BY <2>2, <2>4, ConcatProperties
    <3>2. Len(d) = 5 /\ \A i \in 1..5 : d[i] = IF i <= 4 THEN t[i] ELSE <<NL>>[i - 4]
      OBVIOUS
    <3> HIDE DEF t, d
    <3> QED
      BY <2>4, <3>1, <3>2, SeqEqual
  <2> HIDE DEF S, t, d
  <2>6. c \o t \in Seq(S)
    BY <2>2, <2>4, ConcatProperties
  <2>7. (c \o t) \o <<NL>> = c \o d
    <3>1. c \in Seq(Byte) /\ t \in Seq(Byte)
      BY <2>2, <2>4
    <3>2. (c \o t) \o <<NL>> = c \o (t \o <<NL>>)
      BY <2>2, <3>1, ConcatAssociative
    <3> QED
      BY <2>5, <3>2
  <2>8. b = c \o d
    BY <2>1 DEF Unknown, d
  <2> QED
    BY <2>6, <2>7, <2>8, EndsLine DEF S
<1> QED
  BY <1>1, <1>2, BrokenKinds

-----------------------------------------------------------------------------
(* The line and what the suite means by it. *)

Made(l, r) ==
  \E cmd \in Commands, pkg \in PackageNames, names \in Seq(PackageNames) :
    l = MakeMessage(cmd, pkg, names) /\ r = Message(cmd, pkg, Bytes(names))

Spoilt(l, r) == r = Broken /\ l \in MakeBrokenMessage

RequestInv == \/ request = Unsent
              \/ Spoilt(line, request)
              \/ Made(line, request)

LEMMA MakeMakes == Make => Made(line, request)'
<1> SUFFICES ASSUME Make PROVE Made(line', request')
  OBVIOUS
<1>1. PICK cmd \in Commands, pkg \in PackageNames, n \in 0..MaxNames :
        \E names \in [1..n -> PackageNames] :
          line' = MakeMessage(cmd, pkg, names) /\ request' = Message(cmd, pkg, Bytes(names))
  BY DEF Make
<1>2. PICK names \in [1..n -> PackageNames] :
          line' = MakeMessage(cmd, pkg, names) /\ request' = Message(cmd, pkg, Bytes(names))
  BY <1>1
<1>3. names \in Seq(PackageNames)
  BY <1>2
<1> QED
  BY <1>2, <1>3 DEF Made

LEMMA MakeBreaks == MakeBroken => Spoilt(line, request)'
<1> SUFFICES ASSUME MakeBroken PROVE Spoilt(line', request')
  OBVIOUS
<1> QED
  BY DEF MakeBroken, Spoilt

LEMMA WholeLine ==
  ASSUME NEW b, IsLine(b)
  PROVE  b \in Seq(Byte) /\ \A i \in 1..Len(b) - 1 : b[i] # NL
BY DEF IsLine

LEMMA LineArrives == Spec => []LineInv
<1>1. Init => LineInv
  <2>1. <<>> \in Seq(Byte) /\ Len(<<>>) = 0
    OBVIOUS
  <2> QED
    BY <2>1 DEF Init, LineInv
<1>2. LineInv /\ [Next]_<<line, request>> => LineInv'
  <2> SUFFICES ASSUME LineInv, [Next]_<<line, request>> PROVE LineInv'
    OBVIOUS
  <2>1. CASE Arrive
    <3>1. PICK x \in Byte : line' = Append(line, x)
      BY <2>1 DEF Arrive
    <3>2. /\ line' \in Seq(Byte) /\ Len(line') = Len(line) + 1
          /\ \A i \in 1..Len(line) : line'[i] = line[i]
      BY <3>1, AppendProperties DEF LineInv
    <3>3. \A i \in 1..Len(line) : line[i] # NL
      BY <2>1 DEF Arrive, Bytes, LineInv
    <3>4. Len(line') - 1 = Len(line)
      BY <3>2 DEF LineInv
    <3> QED
      BY <3>2, <3>3, <3>4 DEF LineInv
  <2>2. CASE Make
    <3>1. \E cmd \in Commands, pkg \in PackageNames, names \in Seq(PackageNames) :
            line' = MakeMessage(cmd, pkg, names)
      BY <2>2, MakeMakes DEF Made
    <3>2. IsLine(line')
      BY <3>1, MadeParsed
    <3> QED
      BY <3>2, WholeLine DEF LineInv
  <2>3. CASE MakeBroken
    <3>1. IsLine(line')
      BY <2>3, BrokenLine DEF MakeBroken
    <3> QED
      BY <3>1, WholeLine DEF LineInv
  <2>4. CASE UNCHANGED <<line, request>>
    BY <2>4 DEF LineInv
  <2> QED
    BY <2>1, <2>2, <2>3, <2>4 DEF Next
<1> QED
  BY <1>1, <1>2, PTL DEF Spec

LEMMA RequestKept == Spec => []RequestInv
<1>1. Init => RequestInv
  BY DEF Init, RequestInv
<1>2. RequestInv /\ [Next]_<<line, request>> => RequestInv'
  <2> SUFFICES ASSUME RequestInv, [Next]_<<line, request>> PROVE RequestInv'
    OBVIOUS
  <2>1. CASE Arrive
    BY <2>1 DEF Arrive, RequestInv, Unsent
  <2>2. CASE Make
    BY <2>2, MakeMakes DEF RequestInv
  <2>3. CASE MakeBroken
    BY <2>3, MakeBreaks DEF RequestInv
  <2>4. CASE UNCHANGED <<line, request>>
    BY <2>4 DEF RequestInv, Unsent, Spoilt, Broken, Made
  <2> QED
    BY <2>1, <2>2, <2>3, <2>4 DEF Next
<1> QED
  BY <1>1, <1>2, PTL DEF Spec

(* parseMessage accepts the lines that the protocol describes and no       *)
(* others, takes them apart as splitting them at the pipes and the third   *)
(* field at the commas would, and never runs past the end of one: for      *)
(* every alphabet and for lines of every length.                           *)
THEOREM WireParsesAsSpecified == Spec => []ParsesAsSpecified
<1>1. LineInv => ParsesAsSpecified
  <2> SUFFICES ASSUME LineInv PROVE ParsesAsSpecified
    OBVIOUS
  <2>1. CASE IsLine(line) /\ WellFormed(line)
    <3>1. parseMessage(line) = Message(Parts(line)[1], Parts(line)[2], Bytes(Names(line)))
      BY <2>1, Parsing
    <3>2. parseMessage(line).err = "nil"
      BY <3>1 DEF Message
    <3> QED
      BY <2>1, <3>1, <3>2 DEF ParsesAsSpecified
  <2>2. CASE ~WellFormed(line) /\ Refused(parseMessage(line))
    BY <2>2, NilOrRefused DEF ParsesAsSpecified
  <2>3. CASE IsLine(line) /\ ~WellFormed(line)
    BY <2>2, <2>3, Parsing
  <2>4. CASE ~IsLine(line)
    BY <2>2, <2>4, LineOrUnfinished, Unfinished
  <2> QED
    BY <2>1, <2>3, <2>4
<1> QED
  BY <1>1, LineArrives, PTL


(* What the test suite puts together from a command, a package and its     *)
(* dependencies is accepted and parsed back into them, and what            *)
(* MakeBrokenMessage returns is no request: for every alphabet, every set  *)
(* of commands, and any number of names of any length.                     *)
THEOREM WireRoundTrip == Spec => []RoundTrip
<1>1. LineInv /\ RequestInv => RoundTrip
  <2> SUFFICES ASSUME LineInv, RequestInv PROVE RoundTrip
    OBVIOUS
  <2> DEFINE r == parseMessage(line)
  <2>1. CASE request = Unsent
    <3>1. request.err # "nil" /\ request # Broken
      BY <2>1 DEF Unsent, Broken, Rejected
    <3> QED
      BY <3>1 DEF RoundTrip
  <2>2. CASE request = Broken /\ line \in MakeBrokenMessage
    <3>1. request.err # "nil"
      BY <2>2 DEF Broken, Rejected
    <3>2. ASSUME IsRequest(r) PROVE FALSE
      <4>1. \E p, q : Fields(line, p, q) /\ First(line, p) \in Commands
        BY <3>2, RequestFields DEF LineInv
      <4>2. PICK p, q : Fields(line, p, q) /\ First(line, p) \in Commands
        BY <4>1
      <4>3. TwoCuts(line, PIPE, p, q)
        BY <4>2 DEF Fields
      <4> QED
        BY <2>2, <4>2, <4>3, BrokenRefused
    <3> QED
      BY <3>1, <3>2 DEF RoundTrip
  <2>3. CASE Made(line, request)
    <3>1. PICK cmd \in Commands, pkg \in PackageNames, names \in Seq(PackageNames) :
            line = MakeMessage(cmd, pkg, names) /\ request = Message(cmd, pkg, Bytes(names))
      BY <2>3 DEF Made
    <3>2. r = request
      BY <3>1, MadeParsed
    <3>3. request.err = "nil" /\ Broken.err # "nil"
      BY <3>1 DEF Message, Broken, Rejected
    <3>4. request # Broken
      BY <3>3
    <3> QED
      BY <3>2, <3>4 DEF RoundTrip
  <2> QED
    BY <2>1, <2>2, <2>3 DEF RequestInv, Spoilt
<1> QED
  BY <1>1, LineArrives, RequestKept, PTL

(* The rest of a request has the same pipes, so its command would be the   *)
(* end of the request's.                                                   *)
LEMMA RestOfLine ==
  ASSUME NEW b, IsLine(b), NEW i \in 2..Len(b), NEW p, NEW q, TwoCuts(b, PIPE, p, q),
         NEW k, NEW l, TwoCuts(SubSeq(b, i, Len(b)), PIPE, k, l)
  PROVE  /\ i \in 2..p
         /\ First(SubSeq(b, i, Len(b)), k) = SubSeq(First(b, p), i, Len(First(b, p)))
         /\ Len(First(b, p)) = p - 1
<1> DEFINE n == Len(b)
           s == SubSeq(b, i, n)
<1>1. b \in Seq(Byte) /\ n \in Nat /\ i \in 2..n
  BY DEF IsLine
<1>2. i \in 1..n + 1 /\ n \in 0..n /\ i <= n
  BY <1>1
<1>3. /\ s \in Seq(Byte) /\ Len(s) = (IF i <= n THEN n - i + 1 ELSE 0)
      /\ \A j \in 1..n - i + 1 : s[j] = b[i + j - 1]
  BY <1>1, <1>2, BytesSubSeq
<1>4. Len(s) = n - i + 1
  BY <1>2, <1>3
<1>5. /\ p \in 1..n /\ q \in p + 1..n
      /\ \A j \in 1..n : b[j] = PIPE => j \in {p, q}
  BY DEF TwoCuts
<1>6. k \in 1..n - i + 1 /\ l \in k + 1..n - i + 1 /\ s[k] = PIPE /\ s[l] = PIPE
  BY <1>4 DEF TwoCuts
<1> HIDE DEF n, s
<1>7. p = i + k - 1
  <2>1. /\ i + k - 1 \in 1..n /\ i + l - 1 \in 1..n /\ i + k - 1 < i + l - 1
        /\ l \in 1..n - i + 1 /\ i + k - 1 \in Int /\ i + l - 1 \in Int
    BY <1>1, <1>6
  <2>2. b[i + k - 1] = PIPE /\ b[i + l - 1] = PIPE
    BY <1>3, <1>6, <2>1
  <2>3. i + k - 1 \in {p, q} /\ i + l - 1 \in {p, q}
    BY <1>5, <2>1, <2>2
  <2>4. p \in Int /\ q \in Int /\ p < q
    BY <1>1, <1>5
  <2> QED
    BY <2>1, <2>3, <2>4
<1>8. /\ i \in 2..p /\ k - 1 \in Nat /\ i \in Nat \ {0} /\ p - 1 \in Nat /\ p - 1 \in 0..n
      /\ i + 1 - 1 = i /\ i + (k - 1) - 1 = p - 1 /\ i + 1 - 1 <= n + 1 /\ i + (k - 1) - 1 <= n
      /\ 1 + i - 1 = i /\ 1 + (p - 1) - 1 = p - 1 /\ 1 + i - 1 <= n + 1
      /\ 1 + (p - 1) - 1 <= p - 1 /\ 1 \in 1..n + 1 /\ 1 \in Nat \ {0}
  BY <1>1, <1>5, <1>6, <1>7
<1>9. SubSeq(s, 1, k - 1) = SubSeq(b, i + 1 - 1, i + (k - 1) - 1)
  BY <1>1, <1>2, <1>8, SubSeqSubSeq DEF s, n
<1>10. SubSeq(SubSeq(b, 1, p - 1), i, p - 1) = SubSeq(b, 1 + i - 1, 1 + (p - 1) - 1)
  BY <1>1, <1>8, SubSeqSubSeq DEF n
<1>11. Len(SubSeq(b, 1, p - 1)) = p - 1
  <2>1. Len(SubSeq(b, 1, p - 1)) = IF 1 <= p - 1 THEN p - 1 - 1 + 1 ELSE 0
    BY <1>1, <1>8, BytesSubSeq DEF n
  <2>2. p \in Int /\ p > 1
    <3>1. i \in 2..p
      BY <1>8
    <3>2. p \in Int
      BY <1>1, <1>5
    <3> QED
      BY <3>1, <3>2
  <2> QED
    BY <2>1, <2>2
<1> QED
  BY <1>8, <1>9, <1>10, <1>11 DEF First, s, n

(* If the beginning of a request is lost with a read buffer, what is left  *)
(* of it is no request: for every alphabet, every set of commands none of  *)
(* which is empty or the end of another, and lines of every length.        *)
THEOREM WireRestOfRequestRejected == Spec => []RestOfRequestRejected
<1>1. LineInv => RestOfRequestRejected
  <2> SUFFICES ASSUME LineInv, IsRequest(parseMessage(line)), NEW i \in 2..Len(line),
                      IsRequest(parseMessage(SubSeq(line, i, Len(line))))
               PROVE  FALSE
    BY DEF RestOfRequestRejected
  <2> DEFINE n == Len(line)
             s == SubSeq(line, i, n)
  <2>1. line \in Seq(Byte) /\ n \in Nat /\ i \in 2..n /\ \A j \in 1..n - 1 : line[j] # NL
    BY DEF LineInv
  <2>2. i \in 1..n + 1 /\ n \in 0..n /\ i <= n
    BY <2>1
  <2>3. /\ s \in Seq(Byte) /\ Len(s) = (IF i <= n THEN n - i + 1 ELSE 0)
        /\ \A j \in 1..n - i + 1 : s[j] = line[i + j - 1]
    BY <2>1, <2>2, BytesSubSeq
  <2>4. Len(s) = n - i + 1
    BY <2>2, <2>3
  <2>5. ASSUME NEW j \in 1..Len(s) - 1 PROVE s[j] # NL
    <3>1. j \in 1..n - i + 1 /\ i + j - 1 \in 1..n - 1
      BY <2>1, <2>4
    <3> QED
      BY <2>1, <2>3, <3>1
  <2>6. IsLine(line) /\ \E p, q : Fields(line, p, q) /\ First(line, p) \in Commands
    BY <2>1, RequestFields
  <2>7. PICK p, q : Fields(line, p, q) /\ First(line, p) \in Commands
    BY <2>6
  <2>8. \E k, l : Fields(s, k, l) /\ First(s, k) \in Commands
    <3>1. IsRequest(parseMessage(s))
      OBVIOUS
    <3> HIDE DEF s
    <3> QED
      BY <2>3, <2>5, <3>1, RequestFields
  <2>9. PICK k, l : Fields(s, k, l) /\ First(s, k) \in Commands
    BY <2>8
  <2>10. TwoCuts(line, PIPE, p, q) /\ TwoCuts(s, PIPE, k, l)
    BY <2>7, <2>9 DEF Fields
  <2>11. /\ i \in 2..p /\ First(s, k) = SubSeq(First(line, p), i, Len(First(line, p)))
         /\ Len(First(line, p)) = p - 1
    BY <2>6, <2>10, RestOfLine
  <2>12. p \in Int
    BY <2>6, <2>10, CutsBefore
  <2> HIDE DEF s
  <2>13. CASE i = p
    <3>1. SubSeq(First(line, p), i, p - 1) = <<>>
      BY <2>12, <2>13, SubSeqEmpty
    <3> QED
      BY <2>9, <2>11, <3>1, WireAssumption
  <2>14. CASE i # p
    <3>1. i \in 2..Len(First(line, p))
      BY <2>11, <2>12, <2>14
    <3> QED
      BY <2>7, <2>9, <2>11, <3>1, WireAssumption
  <2> QED
    BY <2>13, <2>14
<1> QED
  BY <1>1, LineArrives, PTL

=============================================================================
