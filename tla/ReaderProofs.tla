----------------------------- MODULE ReaderProofs -----------------------------
(***************************************************************************)
(* Theorems about MessageReader, for any number of connections, buffers    *)
(* and lines of any length: whose bytes readMessage reads, and which of    *)
(* them it returns together.                                               *)
(***************************************************************************)
EXTENDS MessageReader, SequenceTheorems, TLAPS

Labels == {"serve", "read", "discard", "parse", "put"}

\* The bytes of connection c.
Cell(c) == [conn : {c}, line : Nat, pos : Nat, newline : BOOLEAN]

Cells(c) == Seq(Cell(c))

\* A sequence of bytes, of the lines of lengths s, in which every byte but the
\* first of a line follows the byte before it, and which ends with a line.
Ordered(s, w) ==
  /\ \A i \in 1..Len(w) : /\ w[i].line \in 1..Len(s)
                          /\ w[i].pos \in 1..s[w[i].line]
                          /\ w[i].newline <=> w[i].pos = s[w[i].line]
  /\ \A i \in 1..Len(w) : \A j \in i..Len(w) :
       (\A x \in i..j - 1 : ~w[x].newline) =>
         w[j].line = w[i].line /\ w[j].pos = w[i].pos + (j - i)
  /\ w # <<>> => w[Len(w)].newline

\* The bytes are the end of one of the lines of lengths s.
EndOfLine(c, s, bytes) == \E l \in DOMAIN s : \E j \in 1..s[l] :
                            bytes = SubSeq(Line(c, l, s[l]), j, s[l])

-----------------------------------------------------------------------------
(* Sequences of bytes.                                                     *)

LEMMA ConcatCells ==
  ASSUME NEW c, NEW u \in Cells(c), NEW v \in Cells(c)
  PROVE  /\ u \o v \in Cells(c)
         /\ Len(u) \in Nat /\ Len(v) \in Nat
         /\ Len(u \o v) = Len(u) + Len(v)
         /\ \A i \in 1..Len(u) : (u \o v)[i] = u[i]
         /\ \A i \in 1..Len(v) : (u \o v)[Len(u) + i] = v[i]
BY ConcatProperties DEF Cells

LEMMA ConcatThree ==
  ASSUME NEW c, NEW u \in Cells(c), NEW v \in Cells(c), NEW w \in Cells(c)
  PROVE  (u \o v) \o w = u \o (v \o w)
<1>1. u \in Seq(Cell(c)) /\ v \in Seq(Cell(c)) /\ w \in Seq(Cell(c))
  BY DEF Cells
<1> QED
  BY <1>1, ConcatAssociative

LEMMA OrderedEmpty == \A s : Ordered(s, <<>>)
BY DEF Ordered

(* What was read first may be thrown away.                                 *)
LEMMA OrderedEnd ==
  ASSUME NEW c, NEW s, NEW u \in Cells(c), NEW v \in Cells(c), Ordered(s, u \o v)
  PROVE  Ordered(s, v)
<1> DEFINE w == u \o v
           n == Len(u)
<1>1. /\ w \in Cells(c) /\ n \in Nat /\ Len(v) \in Nat
      /\ Len(w) = n + Len(v)
      /\ \A i \in 1..Len(v) : n + i \in 1..Len(w) /\ v[i] = w[n + i]
  BY ConcatCells
<1> HIDE DEF w, n
<1>2. Ordered(s, w)
  BY DEF w
<1>3. ASSUME NEW i \in 1..Len(v)
      PROVE  /\ v[i].line \in 1..Len(s)
             /\ v[i].pos \in 1..s[v[i].line]
             /\ v[i].newline <=> v[i].pos = s[v[i].line]
  BY <1>1, <1>2 DEF Ordered
<1>4. ASSUME NEW i \in 1..Len(v), NEW j \in i..Len(v), \A x \in i..j - 1 : ~v[x].newline
      PROVE  v[j].line = v[i].line /\ v[j].pos = v[i].pos + (j - i)
  <2>1. n + i \in 1..Len(w) /\ n + j \in n + i..Len(w)
    BY <1>1
  <2>2. ASSUME NEW x \in n + i..(n + j) - 1 PROVE ~w[x].newline
    <3>1. x - n \in i..j - 1 /\ x - n \in 1..Len(v) /\ x = n + (x - n)
      BY <1>1
    <3> QED
      BY <1>1, <1>4, <3>1
  <2>3. w[n + j].line = w[n + i].line /\ w[n + j].pos = w[n + i].pos + ((n + j) - (n + i))
    BY <1>2, <2>1, <2>2 DEF Ordered
  <2>4. (n + j) - (n + i) = j - i
    BY <1>1
  <2> QED
    BY <1>1, <2>3, <2>4
<1>5. ASSUME v # <<>> PROVE v[Len(v)].newline
  <2>1. Len(v) \in 1..Len(v) /\ w # <<>>
    BY <1>1, <1>5 DEF Cells
  <2> QED
    BY <1>1, <1>2, <2>1 DEF Ordered
<1> QED
  BY <1>3, <1>4, <1>5 DEF Ordered

\* The bytes l are the whole of line i of connection c.
IsLine(l, c, i, n) ==
  /\ l \in Cells(c) /\ Len(l) = n
  /\ \A j \in 1..n : l[j] = [conn |-> c, line |-> i, pos |-> j, newline |-> j = n]

LEMMA LineCells ==
  ASSUME NEW c, NEW i \in Nat, NEW n \in Nat
  PROVE  IsLine(Line(c, i, n), c, i, n)
<1>1. \A j \in 1..n : [conn |-> c, line |-> i, pos |-> j, newline |-> j = n] \in Cell(c)
  BY DEF Cell
<1>2. /\ Line(c, i, n) \in Cells(c) /\ Len(Line(c, i, n)) = n
      /\ \A j \in 1..n : Line(c, i, n)[j] = [conn |-> c, line |-> i, pos |-> j, newline |-> j = n]
  BY <1>1 DEF Line, Cells
<1> QED
  BY <1>2 DEF IsLine

(* The client sends another line.                                          *)
LEMMA OrderedLine ==
  ASSUME NEW c, NEW s \in Seq(Nat \ {0}), NEW w \in Cells(c), Ordered(s, w),
         NEW n \in Nat \ {0}
  PROVE  Ordered(Append(s, n), w \o Line(c, Len(s) + 1, n))
<1> DEFINE l == Line(c, Len(s) + 1, n)
           t == Append(s, n)
           v == w \o l
<1>1. /\ Len(s) \in Nat /\ Len(w) \in Nat /\ Len(t) = Len(s) + 1
      /\ \A i \in 1..Len(s) : t[i] = s[i]
      /\ t[Len(s) + 1] = n
  BY DEF Cells
<1>2. /\ l \in Cells(c) /\ Len(l) = n
      /\ \A j \in 1..n : l[j] = [conn |-> c, line |-> Len(s) + 1, pos |-> j, newline |-> j = n]
  <2>1. IsLine(l, c, Len(s) + 1, n)
    BY <1>1, LineCells
  <2> QED
    BY <2>1 DEF IsLine
<1>3. /\ Len(v) = Len(w) + n
      /\ \A i \in 1..Len(w) : v[i] = w[i]
      /\ \A i \in Len(w) + 1..Len(w) + n : i - Len(w) \in 1..n /\ v[i] = l[i - Len(w)]
  <2> HIDE DEF l
  <2>0. l \in Cells(c) /\ Len(l) = n
    BY <1>2
  <2>1. /\ Len(v) = Len(w) + n
        /\ \A i \in 1..Len(w) : v[i] = w[i]
        /\ \A i \in 1..n : v[Len(w) + i] = l[i]
    <3>1. /\ Len(v) = Len(w) + Len(l)
          /\ \A i \in 1..Len(w) : v[i] = w[i]
          /\ \A i \in 1..Len(l) : v[Len(w) + i] = l[i]
      <4> HIDE DEF v
      <4>1. ASSUME NEW x \in Cells(c)
            PROVE  /\ Len(w \o x) = Len(w) + Len(x)
                   /\ \A i \in 1..Len(w) : (w \o x)[i] = w[i]
                   /\ \A i \in 1..Len(x) : (w \o x)[Len(w) + i] = x[i]
        BY ConcatCells
      <4> QED
        BY <2>0, <4>1 DEF v
    <3> QED
      BY <2>0, <3>1
  <2>2. ASSUME NEW i \in Len(w) + 1..Len(w) + n
        PROVE  i - Len(w) \in 1..n /\ v[i] = l[i - Len(w)]
    <3>1. i - Len(w) \in 1..n /\ i = Len(w) + (i - Len(w))
      BY <1>1
    <3> QED
      BY <2>1, <3>1
  <2> QED
    BY <2>1, <2>2
<1> HIDE DEF l, t, v
<1>4. ASSUME NEW i \in 1..Len(v)
      PROVE  /\ v[i].line \in 1..Len(t)
             /\ v[i].pos \in 1..t[v[i].line]
             /\ v[i].newline <=> v[i].pos = t[v[i].line]
  <2>1. CASE i \in 1..Len(w)
    <3>1. /\ w[i].line \in 1..Len(s)
          /\ w[i].pos \in 1..s[w[i].line]
          /\ w[i].newline <=> w[i].pos = s[w[i].line]
      BY <2>1 DEF Ordered
    <3>2. t[w[i].line] = s[w[i].line] /\ v[i] = w[i] /\ w[i].line \in 1..Len(t)
      BY <1>1, <1>3, <2>1, <3>1
    <3> QED
      BY <3>1, <3>2
  <2>2. CASE i \in Len(w) + 1..Len(w) + n
    <3>1. i - Len(w) \in 1..n /\ v[i] = l[i - Len(w)]
      BY <1>3, <2>2
    <3>2. v[i] = [conn |-> c, line |-> Len(s) + 1, pos |-> i - Len(w), newline |-> i - Len(w) = n]
      BY <1>2, <3>1
    <3>3. v[i].line = Len(s) + 1 /\ v[i].pos = i - Len(w)
      BY <3>2
    <3>4. v[i].newline <=> i - Len(w) = n
      <4> DEFINE last == i - Len(w) = n
      <4>1. v[i].newline = last
        BY <3>2
      <4> QED
        BY <4>1
    <3> QED
      BY <1>1, <3>1, <3>3, <3>4
  <2> QED
    BY <1>1, <1>3, <2>1, <2>2
<1>5. ASSUME NEW i \in 1..Len(v), NEW j \in i..Len(v), \A x \in i..j - 1 : ~v[x].newline
      PROVE  v[j].line = v[i].line /\ v[j].pos = v[i].pos + (j - i)
  <2>1. CASE j \in 1..Len(w)
    <3>1. i \in 1..Len(w) /\ \A x \in i..j - 1 : x \in 1..Len(w) /\ ~w[x].newline
      BY <1>1, <1>3, <1>5, <2>1
    <3>2. w[j].line = w[i].line /\ w[j].pos = w[i].pos + (j - i)
      BY <1>1, <2>1, <3>1 DEF Ordered
    <3> QED
      BY <1>3, <2>1, <3>1, <3>2
  <2>2. CASE i \in Len(w) + 1..Len(w) + n
    <3>1. j \in Len(w) + 1..Len(w) + n
      BY <1>1, <1>3, <2>2
    <3>2. ASSUME NEW k \in Len(w) + 1..Len(w) + n
          PROVE  v[k].line = Len(s) + 1 /\ v[k].pos = k - Len(w)
      BY <1>2, <1>3
    <3>3. v[i].line = Len(s) + 1 /\ v[i].pos = i - Len(w)
      BY <2>2, <3>2
    <3>4. v[j].line = Len(s) + 1 /\ v[j].pos = j - Len(w)
      BY <3>1, <3>2
    <3>5. j - Len(w) = (i - Len(w)) + (j - i)
      BY <1>1, <2>2, <3>1
    <3> QED
      BY <3>3, <3>4, <3>5
  <2>3. CASE i \in 1..Len(w) /\ j \in Len(w) + 1..Len(w) + n
    <3>1. Len(w) \in i..j - 1 /\ w # <<>> /\ v[Len(w)] = w[Len(w)]
      BY <1>1, <1>3, <2>3, SMTT(30)
    <3>2. w[Len(w)].newline
      BY <3>1 DEF Ordered
    <3> QED
      BY <1>5, <3>1, <3>2
  <2> QED
    BY <1>1, <1>3, <2>1, <2>2, <2>3
<1>6. v[Len(v)].newline
  <2>1. Len(v) \in Len(w) + 1..Len(w) + n /\ Len(v) - Len(w) = n /\ n \in 1..n
    BY <1>1, <1>3
  <2>2. v[Len(v)] = [conn |-> c, line |-> Len(s) + 1, pos |-> n, newline |-> TRUE]
    BY <1>2, <1>3, <2>1
  <2> QED
    BY <2>2
<1> QED
  BY <1>4, <1>5, <1>6 DEF Ordered, t, v, l

(* The bytes up to the first newline are the end of a line.                *)
LEMMA FirstLineIsEnd ==
  ASSUME NEW c, NEW s \in Seq(Nat \ {0}), NEW u \in Cells(c), NEW v \in Cells(c),
         Ordered(s, u \o v), NEW i \in FirstNewline(u)
  PROVE  EndOfLine(c, s, SubSeq(u, 1, i))
<1> DEFINE w == u \o v
           l == u[1].line
           j == u[1].pos
           n == s[l]
<1>1. i \in 1..Len(u) /\ u[i].newline /\ \A x \in 1..i - 1 : ~u[x].newline
  BY DEF FirstNewline, Cells
<1>2. /\ Len(u) \in Nat /\ Len(v) \in Nat /\ Len(w) = Len(u) + Len(v)
      /\ \A x \in 1..Len(u) : w[x] = u[x]
  BY ConcatCells
<1> HIDE DEF w
<1>3. Ordered(s, w)
  BY DEF w
<1>4. ASSUME NEW x \in 1..i
      PROVE  /\ u[x] \in Cell(c)
             /\ u[x].line \in 1..Len(s)
             /\ u[x].pos \in 1..s[u[x].line]
             /\ u[x].newline <=> u[x].pos = s[u[x].line]
  <2>1. x \in 1..Len(u) /\ x \in 1..Len(w) /\ w[x] = u[x]
    BY <1>1, <1>2
  <2>2. u[x] \in Cell(c)
    BY <2>1 DEF Cells
  <2> QED
    BY <1>3, <2>1, <2>2, SMTT(30) DEF Ordered
<1>5. /\ 1 \in 1..i /\ l \in 1..Len(s) /\ j \in 1..n /\ n \in Nat \ {0}
      /\ u[1].line = l /\ u[1].pos = j /\ s[l] = n
  <2>1. 1 \in 1..i
    BY <1>1
  <2> QED
    BY <1>4, <2>1
<1> HIDE DEF l, j, n
<1>6. ASSUME NEW x \in 1..i PROVE u[x].line = l /\ u[x].pos = j + (x - 1)
  <2>1. 1 \in 1..Len(w) /\ x \in 1..Len(w) /\ w[1] = u[1] /\ w[x] = u[x]
    BY <1>1, <1>2
  <2>2. ASSUME NEW y \in 1..x - 1 PROVE ~w[y].newline
    <3>1. y \in 1..i - 1 /\ y \in 1..Len(u)
      BY <1>1, <1>2
    <3> QED
      BY <1>1, <1>2, <3>1
  <2>3. 1 \in 1..Len(w) /\ x \in 1..Len(w)
    BY <2>1
  <2>4. w[x].line = w[1].line /\ w[x].pos = w[1].pos + (x - 1)
    BY <1>3, <2>2, <2>3 DEF Ordered
  <2> QED
    BY <1>5, <2>1, <2>4
<1>7. j + (i - 1) = n
  <2>1. i \in 1..i
    BY <1>1
  <2> QED
    BY <1>1, <1>4, <1>5, <1>6, <2>1
<1> DEFINE line == Line(c, l, n)
<1>8. /\ line \in Cells(c) /\ Len(line) = n
      /\ \A y \in 1..n : line[y] = [conn |-> c, line |-> l, pos |-> y, newline |-> y = n]
  <2>1. l \in Nat /\ n \in Nat
    BY <1>5
  <2>2. IsLine(line, c, l, n)
    BY <2>1, LineCells
  <2> QED
    BY <2>2 DEF IsLine
<1>9. ASSUME NEW x \in 1..i PROVE u[x] = line[j + (x - 1)]
  <2> DEFINE y == j + (x - 1)
  <2>1. y \in 1..n
    BY <1>1, <1>5, <1>7
  <2>2. u[x].line = l /\ u[x].pos = y /\ u[x].conn = c /\ u[x].newline \in BOOLEAN
    BY <1>4, <1>6 DEF Cell
  <2>3. u[x].newline <=> y = n
    BY <1>4, <1>5, <1>6
  <2>4. u[x] = [conn |-> u[x].conn, line |-> u[x].line, pos |-> u[x].pos, newline |-> u[x].newline]
    BY <1>4 DEF Cell
  <2>5. u[x].newline = (y = n)
    BY <2>2, <2>3
  <2>6. u[x] = [conn |-> c, line |-> l, pos |-> y, newline |-> y = n]
    BY <2>2, <2>4, <2>5
  <2> QED
    BY <1>8, <2>1, <2>6
<1> HIDE DEF line
<1>10. SubSeq(u, 1, i) = SubSeq(line, j, n)
  <2>1. /\ SubSeq(u, 1, i) \in Seq(Cell(c)) /\ Len(SubSeq(u, 1, i)) = i
        /\ \A x \in 1..i : SubSeq(u, 1, i)[x] = u[x]
    <3>1. \A x \in 1..i : u[x] \in Cell(c)
      BY <1>4
    <3>2. 1 \in Int /\ i \in Int /\ 1 <= i /\ i - 1 + 1 = i
      BY <1>1
    <3> QED
      BY <3>1, <3>2, SubSeqProperties
  <2>2. /\ SubSeq(line, j, n) \in Seq(Cell(c)) /\ Len(SubSeq(line, j, n)) = i
        /\ \A x \in 1..i : SubSeq(line, j, n)[x] = line[j + (x - 1)]
    <3>1. \A y \in j..n : line[y] \in Cell(c)
      BY <1>5, <1>8 DEF Cells
    <3>2. j \in Int /\ n \in Int /\ j <= n /\ n - j + 1 = i
      BY <1>1, <1>5, <1>7
    <3>3. \A x \in 1..i : j + x - 1 = j + (x - 1)
      BY <1>5
    <3> QED
      BY <3>1, <3>2, <3>3, SubSeqProperties
  <2> QED
    BY <1>9, <2>1, <2>2, SeqEqual
<1>11. l \in DOMAIN s /\ j \in 1..s[l]
  BY <1>5
<1>12. SubSeq(u, 1, i) = SubSeq(Line(c, l, s[l]), j, s[l])
  BY <1>5, <1>10 DEF line
<1> QED
  BY <1>11, <1>12 DEF EndOfLine

-----------------------------------------------------------------------------
(* The invariant.                                                          *)

\* What the buffer that readMessage has for c holds.
Mem(c) == IF buf[c] = {} THEN <<>> ELSE memory[CHOOSE k \in buf[c] : TRUE]

\* readMessage has one buffer, which nobody else has and the pool does not.
HoldInv(c) == /\ pc[c] \in Labels
              /\ pc[c] = "serve" => buf[c] = {}
              /\ pc[c] # "serve" => \E k \in Buffer : buf[c] = {k}
              /\ \A k \in buf[c] : k \notin pool /\ \A d \in Conn \ {c} : k \notin buf[d]

\* What readMessage has returned is the end of a line.
IsEnd(c, bytes) == EndOfLine(c, sent[c], bytes)

\* The buffer and the stream together are in the order they were sent in.
ConnInv(c) == /\ sent[c] \in Seq(Nat \ {0})
              /\ stream[c] \in Cells(c)
              /\ Mem(c) \in Cells(c)
              /\ Ordered(sent[c], Mem(c) \o stream[c])
              /\ Returned(c) => IsEnd(c, result[c].bytes)

Typed == /\ DOMAIN memory = Buffer
         /\ DOMAIN buf = Conn /\ DOMAIN pc = Conn
         /\ DOMAIN stream = Conn /\ DOMAIN sent = Conn
         /\ DOMAIN result = Conn /\ DOMAIN read = Conn /\ DOMAIN failed = Conn

ReaderInv == Typed /\ \A c \in Conn : HoldInv(c) /\ ConnInv(c)

\* A step of connection c alone, which takes no buffer that another has.
OnlyOf(c) == \A d \in Conn \ {c} :
               /\ pc'[d] = pc[d] /\ buf'[d] = buf[d]
               /\ stream'[d] = stream[d] /\ sent'[d] = sent[d] /\ result'[d] = result[d]
               /\ \A k \in buf[d] : memory'[k] = memory[k] /\ k \notin pool' /\ k \notin buf'[c]

LEMMA MemOne ==
  ASSUME NEW c, NEW k, buf[c] = {k}
  PROVE  Mem(c) = memory[k]
BY DEF Mem

LEMMA InitReaderInv == RInit => ReaderInv
<1> SUFFICES ASSUME RInit PROVE ReaderInv
  OBVIOUS
<1>1. Typed
  BY DEF RInit, Typed
<1>2. ASSUME NEW c \in Conn PROVE HoldInv(c) /\ ConnInv(c)
  <2>1. pc[c] = "serve" /\ buf[c] = {} /\ stream[c] = <<>> /\ sent[c] = <<>>
    BY DEF RInit
  <2>2. HoldInv(c)
    BY <2>1 DEF HoldInv, Labels
  <2>3. Mem(c) = <<>> /\ <<>> \in Cells(c) /\ <<>> \o <<>> = <<>>
    BY <2>1, ConcatEmptySeq DEF Mem, Cells
  <2>4. ConnInv(c)
    BY <2>1, <2>3, OrderedEmpty DEF ConnInv, Returned
  <2> QED
    BY <2>2, <2>4
<1> QED
  BY <1>1, <1>2 DEF ReaderInv

(* A step of one connection is the others' business only in the buffer it  *)
(* takes.                                                                  *)
LEMMA OthersReaderInv ==
  ASSUME ReaderInv, NEW c \in Conn, OnlyOf(c), Typed',
         HoldInv(c)', ConnInv(c)'
  PROVE  ReaderInv'
<1>1. ASSUME NEW d \in Conn \ {c} PROVE HoldInv(d)' /\ ConnInv(d)'
  <2>1. HoldInv(d) /\ ConnInv(d)
    BY DEF ReaderInv
  <2>2. /\ pc'[d] = pc[d] /\ buf'[d] = buf[d]
        /\ stream'[d] = stream[d] /\ sent'[d] = sent[d] /\ result'[d] = result[d]
        /\ \A k \in buf[d] : memory'[k] = memory[k] /\ k \notin pool' /\ k \notin buf'[c]
    BY DEF OnlyOf
  <2>3. ASSUME NEW k \in buf[d], NEW e \in Conn \ {d} PROVE k \notin buf'[e]
    BY <2>1, <2>2 DEF HoldInv, OnlyOf
  <2>4. HoldInv(d)'
    BY <2>1, <2>2, <2>3 DEF HoldInv
  <2>5. Mem(d)' = Mem(d)
    <3>1. CASE buf[d] = {}
      BY <2>2, <3>1 DEF Mem
    <3>2. ASSUME NEW k, buf[d] = {k} PROVE Mem(d)' = Mem(d)
      BY <2>2, <3>2 DEF Mem
    <3> QED
      BY <2>1, <3>1, <3>2 DEF HoldInv
  <2>6. ConnInv(d)'
    BY <2>1, <2>2, <2>5 DEF ConnInv, Returned, IsEnd
  <2> QED
    BY <2>4, <2>6
<1> QED
  BY <1>1 DEF ReaderInv

(* A step that only sends, reads or moves on.                              *)
LEMMA SameBuffersReaderInv ==
  ASSUME ReaderInv, NEW c \in Conn, UNCHANGED <<pool, buf>>, Typed',
         pc'[c] \in Labels \ {"serve"} \/ pc'[c] = pc[c],
         pc[c] # "serve" \/ pc'[c] = pc[c],
         \A d \in Conn \ {c} : /\ pc'[d] = pc[d] /\ stream'[d] = stream[d]
                               /\ sent'[d] = sent[d] /\ result'[d] = result[d],
         \A k \in Buffer \ buf[c] : memory'[k] = memory[k],
         ConnInv(c)'
  PROVE  ReaderInv'
<1>1. HoldInv(c) /\ \A d \in Conn \ {c} : HoldInv(d)
  BY DEF ReaderInv
<1>2. HoldInv(c)'
  BY <1>1 DEF HoldInv
<1>3. OnlyOf(c)
  <2> SUFFICES ASSUME NEW d \in Conn \ {c}, NEW k \in buf[d]
               PROVE  memory'[k] = memory[k] /\ k \notin pool' /\ k \notin buf'[c]
    BY DEF OnlyOf
  <2>1. k \in Buffer /\ k \notin pool /\ k \notin buf[c]
    BY <1>1 DEF HoldInv
  <2> QED
    BY <2>1
<1> QED
  BY <1>2, <1>3, OthersReaderInv

(* The stream alone is in order too.                                       *)
LEMMA WithoutMem ==
  ASSUME NEW c \in Conn, ConnInv(c), UNCHANGED <<stream, sent>>, Mem(c)' = <<>>, ~Returned(c)'
  PROVE  ConnInv(c)'
<1>1. Ordered(sent[c], stream[c])
  BY OrderedEnd DEF ConnInv
<1>2. <<>> \o stream[c] = stream[c] /\ <<>> \in Cells(c)
  BY ConcatEmptySeq DEF ConnInv, Cells
<1> QED
  BY <1>1, <1>2 DEF ConnInv

-----------------------------------------------------------------------------
(* The steps.                                                              *)

LEMMA SendReaderInv ==
  ASSUME ReaderInv, NEW c \in Conn, Send(c)
  PROVE  ReaderInv'
<1>1. PICK n \in LineLengths :
        /\ sent' = [sent EXCEPT ![c] = Append(sent[c], n)]
        /\ stream' = [stream EXCEPT ![c] = stream[c] \o Line(c, Len(sent[c]) + 1, n)]
  BY DEF Send, Set
<1>2. UNCHANGED <<pool, memory, buf, pc, result, read, failed>>
  BY DEF Send, pooling
<1>3. n \in Nat \ {0}
  BY ReaderAssumption
<1>4. /\ sent[c] \in Seq(Nat \ {0}) /\ stream[c] \in Cells(c) /\ Mem(c) \in Cells(c)
      /\ Ordered(sent[c], Mem(c) \o stream[c])
      /\ Returned(c) => IsEnd(c, result[c].bytes)
  BY DEF ReaderInv, ConnInv
<1>5. Typed'
  BY <1>1, <1>2 DEF ReaderInv, Typed
<1>6. sent'[c] = Append(sent[c], n) /\ stream'[c] = stream[c] \o Line(c, Len(sent[c]) + 1, n)
  BY <1>1 DEF ReaderInv, Typed
<1>7. sent'[c] \in Seq(Nat \ {0})
  BY <1>3, <1>4, <1>6
<1>8. Line(c, Len(sent[c]) + 1, n) \in Cells(c)
  <2>1. Len(sent[c]) + 1 \in Nat
    BY <1>4
  <2>2. IsLine(Line(c, Len(sent[c]) + 1, n), c, Len(sent[c]) + 1, n)
    BY <1>3, <2>1, LineCells
  <2> QED
    BY <2>2 DEF IsLine
<1>9. Mem(c)' = Mem(c)
  BY <1>2 DEF Mem
<1>10. Ordered(sent'[c], Mem(c) \o stream'[c])
  <2>1. Mem(c) \o stream'[c] = (Mem(c) \o stream[c]) \o Line(c, Len(sent[c]) + 1, n)
    <3>1. \A u, v, w \in Cells(c) : (u \o v) \o w = u \o (v \o w)
      BY ConcatThree
    <3>2. (Mem(c) \o stream[c]) \o Line(c, Len(sent[c]) + 1, n)
            = Mem(c) \o (stream[c] \o Line(c, Len(sent[c]) + 1, n))
      BY <1>4, <1>8, <3>1
    <3> QED
      BY <1>6, <3>2
  <2>2. Mem(c) \o stream[c] \in Cells(c)
    BY <1>4, ConcatCells
  <2> QED
    BY <1>3, <1>4, <1>6, <2>1, <2>2, OrderedLine
<1>11. stream'[c] \in Cells(c)
  BY <1>4, <1>6, <1>8, ConcatCells
<1>12. Returned(c)' => IsEnd(c, result[c].bytes)'
  <2> SUFFICES ASSUME Returned(c)' PROVE IsEnd(c, result[c].bytes)'
    OBVIOUS
  <2>1. Returned(c)
    BY <1>2 DEF Returned
  <2>2. PICK i \in DOMAIN sent[c] : \E j \in 1..sent[c][i] :
          result[c].bytes = SubSeq(Line(c, i, sent[c][i]), j, sent[c][i])
    BY <1>4, <2>1 DEF IsEnd, EndOfLine
  <2>3. i \in DOMAIN sent'[c] /\ sent'[c][i] = sent[c][i]
    BY <1>3, <1>4, <1>6
  <2> QED
    BY <1>2, <2>2, <2>3 DEF IsEnd, EndOfLine
<1>13. ConnInv(c)'
  BY <1>4, <1>7, <1>9, <1>10, <1>11, <1>12 DEF ConnInv
<1> QED
  BY <1>1, <1>2, <1>5, <1>13, SameBuffersReaderInv

LEMMA GetReaderInv ==
  ASSUME ReaderInv, NEW c \in Conn, Get(c)
  PROVE  ReaderInv'
<1>1. PICK k \in Buffer \ UNION {buf[d] : d \in Conn} :
        /\ pool' = pool \ {k}
        /\ buf' = [buf EXCEPT ![c] = {k}]
        /\ memory' = [memory EXCEPT ![k] = <<>>]
  BY DEF Get, Set
<1>2. pc[c] = "serve" /\ pc' = [pc EXCEPT ![c] = "read"]
  BY DEF Get, Set
<1>3. UNCHANGED <<stream, sent, result, read, failed>>
  BY DEF Get
<1>4. Typed /\ Typed'
  BY <1>1, <1>2, <1>3 DEF ReaderInv, Typed
<1>5. HoldInv(c) /\ ConnInv(c) /\ buf[c] = {}
  BY <1>2 DEF ReaderInv, HoldInv
<1>6. pc'[c] = "read" /\ buf'[c] = {k} /\ memory'[k] = <<>> /\ k \notin pool'
  BY <1>1, <1>2, <1>4 DEF Typed
<1>7. \A d \in Conn : k \notin buf[d]
  BY <1>1
<1>8. HoldInv(c)'
  <2>1. \A d \in Conn \ {c} : buf'[d] = buf[d]
    BY <1>1, <1>4 DEF Typed
  <2> QED
    BY <1>1, <1>6, <1>7, <2>1 DEF HoldInv, Labels
<1>9. OnlyOf(c)
  <2> SUFFICES ASSUME NEW d \in Conn \ {c}
               PROVE  /\ pc'[d] = pc[d] /\ buf'[d] = buf[d]
                      /\ \A h \in buf[d] : memory'[h] = memory[h] /\ h \notin pool' /\ h \notin buf'[c]
    BY <1>3 DEF OnlyOf
  <2>1. pc'[d] = pc[d] /\ buf'[d] = buf[d]
    BY <1>1, <1>2, <1>4 DEF Typed
  <2>2. ASSUME NEW h \in buf[d]
        PROVE  memory'[h] = memory[h] /\ h \notin pool' /\ h \notin buf'[c]
    <3>1. h # k /\ h \notin pool /\ h \in Buffer
      BY <1>7 DEF ReaderInv, HoldInv
    <3> QED
      BY <1>1, <1>4, <1>6, <3>1 DEF Typed
  <2> QED
    BY <2>1, <2>2
<1>10. Mem(c) = <<>> /\ Mem(c)' = <<>>
  BY <1>5, <1>6 DEF Mem
<1>11. ConnInv(c)'
  BY <1>3, <1>5, <1>6, <1>10 DEF ConnInv, Returned
<1> QED
  BY <1>4, <1>8, <1>9, <1>11, OthersReaderInv

(* Bytes move from the stream to the buffer, as many as it has room for.   *)
LEMMA FillKeeps ==
  ASSUME ReaderInv, NEW c \in Conn, Fill(c)
  PROVE  /\ Mem(c)' \in Cells(c) /\ stream'[c] \in Cells(c)
         /\ Mem(c)' \o stream'[c] = Mem(c) \o stream[c]
         /\ Len(Mem(c)') <= BufSize
<1>0. PICK k \in buf[c] : \E n \in 1..BufSize - Len(memory[k]) :
        /\ n <= Len(stream[c])
        /\ memory' = [memory EXCEPT ![k] = memory[k] \o SubSeq(stream[c], 1, n)]
        /\ stream' = [stream EXCEPT ![c] = SubSeq(stream[c], n + 1, Len(stream[c]))]
  BY DEF Fill, Set
<1>1. PICK n \in 1..BufSize - Len(memory[k]) :
        /\ n <= Len(stream[c])
        /\ memory' = [memory EXCEPT ![k] = memory[k] \o SubSeq(stream[c], 1, n)]
        /\ stream' = [stream EXCEPT ![c] = SubSeq(stream[c], n + 1, Len(stream[c]))]
  BY <1>0
<1>2. pc[c] # "serve" /\ buf' = buf
  BY DEF Fill
<1>3. HoldInv(c) /\ ConnInv(c) /\ Typed
  BY DEF ReaderInv
<1>4. buf[c] = {k} /\ k \in Buffer
  BY <1>2, <1>3 DEF HoldInv
<1>6. Mem(c) = memory[k] /\ Mem(c)' = memory'[k]
  BY <1>2, <1>4 DEF Mem
<1>7. /\ memory'[k] = memory[k] \o SubSeq(stream[c], 1, n)
      /\ stream'[c] = SubSeq(stream[c], n + 1, Len(stream[c]))
  BY <1>1, <1>3, <1>4 DEF Typed
<1>8. memory[k] \in Cells(c) /\ stream[c] \in Cells(c) /\ n \in 1..Len(stream[c])
  BY <1>1, <1>3, <1>6 DEF ConnInv, Cells
<1>9. /\ SubSeq(stream[c], 1, n) \in Cells(c)
      /\ SubSeq(stream[c], n + 1, Len(stream[c])) \in Cells(c)
      /\ SubSeq(stream[c], 1, n) \o SubSeq(stream[c], n + 1, Len(stream[c])) = stream[c]
  <2>1. /\ 1 \in 1..Len(stream[c]) + 1 /\ n \in 0..Len(stream[c])
        /\ Len(stream[c]) \in n..Len(stream[c])
    BY <1>8 DEF Cells
  <2>2. SubSeq(stream[c], 1, n) \o SubSeq(stream[c], n + 1, Len(stream[c]))
          = SubSeq(stream[c], 1, Len(stream[c]))
    BY <1>8, <2>1, ConcatAdjacentSubSeq DEF Cells
  <2> QED
    BY <1>8, <2>2, SubSeqFull DEF Cells
<1>10. memory'[k] \o stream'[c] = memory[k] \o stream[c]
  <2>1. \A u, v, w \in Cells(c) : (u \o v) \o w = u \o (v \o w)
    BY ConcatThree, SMTT(30)
  <2>2. (memory[k] \o SubSeq(stream[c], 1, n)) \o SubSeq(stream[c], n + 1, Len(stream[c]))
          = memory[k] \o (SubSeq(stream[c], 1, n) \o SubSeq(stream[c], n + 1, Len(stream[c])))
    BY <1>8, <1>9, <2>1
  <2> QED
    BY <1>7, <1>9, <2>2
<1>11. memory'[k] \in Cells(c) /\ Len(memory'[k]) = Len(memory[k]) + n
  <2>1. PICK x \in Cells(c) : x = SubSeq(stream[c], 1, n)
    BY <1>9
  <2>2. Len(SubSeq(stream[c], 1, n)) = n
    <3>1. Len(stream[c]) \in Nat
      BY <1>8 DEF Cells
    <3>2. n - 1 + 1 = n /\ 1 <= n /\ n \in 0..Len(stream[c])
      BY <1>8, <3>1
    <3> QED
      BY <1>8, <3>2 DEF Cells
  <2>3. memory[k] \o x \in Cells(c) /\ Len(memory[k] \o x) = Len(memory[k]) + Len(x)
    BY <1>8, ConcatCells
  <2> QED
    BY <1>7, <2>1, <2>2, <2>3
<1>12. Len(memory'[k]) <= BufSize
  <2>1. Len(memory[k]) \in Nat /\ BufSize \in Int
    BY <1>8, ReaderAssumption DEF Cells, BufSize
  <2> QED
    BY <1>11, <2>1
<1> QED
  BY <1>6, <1>7, <1>9, <1>10, <1>11, <1>12

LEMMA FillReaderInv ==
  ASSUME ReaderInv, NEW c \in Conn, Fill(c)
  PROVE  ReaderInv'
<1>1. PICK k \in buf[c] : \E x, y : /\ memory' = [memory EXCEPT ![k] = x]
                                    /\ stream' = [stream EXCEPT ![c] = y]
  BY DEF Fill, Set
<1>2. pc[c] # "serve" /\ UNCHANGED <<pool, buf, pc, sent, result, read, failed>>
  BY DEF Fill
<1>3. HoldInv(c) /\ ConnInv(c) /\ Typed
  BY DEF ReaderInv
<1>4. buf[c] = {k} /\ k \in Buffer
  BY <1>2, <1>3 DEF HoldInv
<1>5. Typed'
  BY <1>1, <1>2, <1>3 DEF Typed
<1>6. ConnInv(c)'
  BY <1>2, <1>3, FillKeeps DEF ConnInv, Returned, IsEnd
<1> QED
  BY <1>1, <1>2, <1>3, <1>4, <1>5, <1>6, SameBuffersReaderInv DEF Typed, HoldInv, Labels

(* What the buffer holds is thrown away, and what follows is still in order. *)
LEMMA BufferFullReaderInv ==
  ASSUME ReaderInv, NEW c \in Conn, BufferFull(c)
  PROVE  ReaderInv'
<1>1. PICK k \in buf[c] : memory' = [memory EXCEPT ![k] = <<>>]
  BY DEF BufferFull, Set
<1>2. /\ pc[c] # "serve" /\ pc' = [pc EXCEPT ![c] = "discard"]
      /\ UNCHANGED <<pool, buf, stream, sent, result, read, failed>>
  BY DEF BufferFull, Set
<1>3. HoldInv(c) /\ ConnInv(c) /\ Typed
  BY DEF ReaderInv
<1>4. buf[c] = {k} /\ k \in Buffer
  BY <1>2, <1>3 DEF HoldInv
<1>5. Typed'
  BY <1>1, <1>2, <1>3 DEF Typed
<1>6. memory'[k] = <<>> /\ pc'[c] = "discard"
  BY <1>1, <1>2, <1>3, <1>4 DEF Typed
<1>7. Mem(c)' = <<>>
  BY <1>2, <1>4, <1>6 DEF Mem
<1>8. ConnInv(c)'
  BY <1>2, <1>3, <1>6, <1>7, WithoutMem DEF Returned, ConnInv
<1>9. \A d \in Conn \ {c} : pc'[d] = pc[d]
  BY <1>2, <1>3 DEF Typed
<1>10. \A h \in Buffer \ buf[c] : memory'[h] = memory[h]
  BY <1>1, <1>3, <1>4 DEF Typed
<1> QED
  BY <1>2, <1>5, <1>6, <1>8, <1>9, <1>10, SameBuffersReaderInv DEF Labels

(* A step that changes where readMessage is and what it returns, but no    *)
(* byte of a buffer or a socket.                                           *)
LEMMA SameBytesReaderInv ==
  ASSUME ReaderInv, NEW c \in Conn, UNCHANGED <<pool, memory, buf, stream, sent>>,
         pc[c] # "serve", NEW l \in Labels \ {"serve"}, pc' = [pc EXCEPT ![c] = l],
         DOMAIN result' = Conn, DOMAIN read' = Conn, DOMAIN failed' = Conn,
         \A d \in Conn \ {c} : result'[d] = result[d],
         Returned(c)' => IsEnd(c, result[c].bytes)'
  PROVE  ReaderInv'
<1>1. ConnInv(c) /\ Typed
  BY DEF ReaderInv
<1>2. Typed'
  BY <1>1 DEF Typed
<1>3. pc'[c] = l /\ \A d \in Conn \ {c} : pc'[d] = pc[d]
  BY <1>1 DEF Typed
<1>4. ConnInv(c)'
  <2>1. Mem(c)' = Mem(c)
    BY DEF Mem
  <2> QED
    BY <1>1, <2>1 DEF ConnInv
<1> QED
  BY <1>2, <1>3, <1>4, SameBuffersReaderInv

LEMMA LineFoundReaderInv ==
  ASSUME ReaderInv, NEW c \in Conn, LineFound(c)
  PROVE  ReaderInv'
<1>1. Typed
  BY DEF ReaderInv
<1>2. UNCHANGED <<pool, memory, buf, stream, sent, failed>>
  BY DEF LineFound, pooling
<1>3. CASE /\ pc[c] = "read" /\ pc' = Set(pc, c, "parse")
           /\ UNCHANGED <<result, read>>
  <2>1. pc' = [pc EXCEPT ![c] = "parse"] /\ pc'[c] = "parse"
    BY <1>1, <1>3 DEF Set, Typed
  <2>2. ~Returned(c)'
    BY <2>1 DEF Returned
  <2> QED
    BY <1>1, <1>2, <1>3, <2>1, <2>2, SameBytesReaderInv DEF Labels, Typed
<1>4. CASE /\ pc[c] = "discard" /\ pc' = Set(pc, c, "put")
           /\ result' = Set(result, c, Error("too large"))
           /\ read' = Set(read, c, read[c] + 1)
  <2>1. pc' = [pc EXCEPT ![c] = "put"] /\ result'[c].err = "too large"
    BY <1>1, <1>4 DEF Set, Typed, Error
  <2>2. ~Returned(c)'
    BY <2>1 DEF Returned
  <2>3. DOMAIN result' = Conn /\ DOMAIN read' = Conn /\ DOMAIN failed' = Conn
    BY <1>1, <1>2, <1>4 DEF Set, Typed
  <2>4. \A d \in Conn \ {c} : result'[d] = result[d]
    BY <1>1, <1>4 DEF Set, Typed
  <2> QED
    BY <1>1, <1>2, <1>4, <2>1, <2>2, <2>3, <2>4, SameBytesReaderInv DEF Labels
<1> QED
  BY <1>3, <1>4 DEF LineFound

LEMMA ReadFailsReaderInv ==
  ASSUME ReaderInv, NEW c \in Conn, ReadFails(c)
  PROVE  ReaderInv'
<1>1. Typed
  BY DEF ReaderInv
<1>2. /\ UNCHANGED <<pool, memory, buf, stream, sent, read>>
      /\ pc[c] # "serve" /\ pc' = [pc EXCEPT ![c] = "put"]
      /\ result' = [result EXCEPT ![c] = Error("error")]
      /\ failed' = [failed EXCEPT ![c] = TRUE]
  BY DEF ReadFails, pooling, Set
<1>3. result'[c].err = "error"
  BY <1>1, <1>2 DEF Typed, Error
<1>4. ~Returned(c)'
  BY <1>3 DEF Returned
<1>5. DOMAIN result' = Conn /\ DOMAIN read' = Conn /\ DOMAIN failed' = Conn
  BY <1>1, <1>2 DEF Typed
<1>6. \A d \in Conn \ {c} : result'[d] = result[d]
  BY <1>1, <1>2 DEF Typed
<1> QED
  BY <1>2, <1>4, <1>5, <1>6, SameBytesReaderInv DEF Labels

(* What is parsed is the slice, up to the newline, and so the end of a line. *)
LEMMA ParseReaderInv ==
  ASSUME ReaderInv, NEW c \in Conn, Parse(c)
  PROVE  ReaderInv'
<1>1. Typed /\ HoldInv(c) /\ ConnInv(c)
  BY DEF ReaderInv
<1>2. PICK k \in buf[c] : \E i \in FirstNewline(memory[k]) :
        result' = [result EXCEPT ![c] = Message(SubSeq(memory[k], 1, i))]
  BY DEF Parse, Set
<1>3. PICK i \in FirstNewline(memory[k]) :
        result' = [result EXCEPT ![c] = Message(SubSeq(memory[k], 1, i))]
  BY <1>2
<1>4. /\ UNCHANGED <<pool, memory, buf, stream, sent, failed>>
      /\ pc[c] # "serve" /\ pc' = [pc EXCEPT ![c] = "put"]
      /\ read' = [read EXCEPT ![c] = read[c] + 1]
  BY DEF Parse, pooling, Set
<1>5. Mem(c) = memory[k]
  <2>1. buf[c] = {k}
    BY <1>1, <1>4 DEF HoldInv
  <2> QED
    BY <2>1, MemOne
<1>6. result'[c].bytes = SubSeq(memory[k], 1, i)
  BY <1>1, <1>3 DEF Typed, Message
<1>7. EndOfLine(c, sent[c], SubSeq(memory[k], 1, i))
  <2> DEFINE s == sent[c]
             u == memory[k]
             v == stream[c]
  <2>1. /\ s \in Seq(Nat \ {0}) /\ u \in Cells(c) /\ v \in Cells(c)
        /\ Ordered(s, u \o v) /\ i \in FirstNewline(u)
    BY <1>1, <1>5 DEF ConnInv
  <2> HIDE DEF s, u, v
  <2>2. EndOfLine(c, s, SubSeq(u, 1, i))
    BY <2>1, FirstLineIsEnd
  <2> QED
    BY <2>2 DEF s, u
<1>8. IsEnd(c, result[c].bytes)'
  BY <1>4, <1>6, <1>7 DEF IsEnd
<1>9. DOMAIN result' = Conn /\ DOMAIN read' = Conn /\ DOMAIN failed' = Conn
  BY <1>1, <1>3, <1>4 DEF Typed
<1>10. \A d \in Conn \ {c} : result'[d] = result[d]
  BY <1>1, <1>3 DEF Typed
<1> QED
  BY <1>4, <1>8, <1>9, <1>10, SameBytesReaderInv DEF Labels

LEMMA PutReaderInv ==
  ASSUME ReaderInv, NEW c \in Conn, Put(c)
  PROVE  ReaderInv'
<1>1. Typed /\ HoldInv(c) /\ ConnInv(c)
  BY DEF ReaderInv
<1>2. /\ pool' = pool \cup buf[c]
      /\ memory' = [k \in Buffer |-> IF k \in buf[c] THEN <<>> ELSE memory[k]]
      /\ buf' = [buf EXCEPT ![c] = {}]
      /\ pc' = [pc EXCEPT ![c] = "serve"]
      /\ UNCHANGED <<stream, sent, result, read, failed>>
  BY DEF Put, Set
<1>3. Typed'
  BY <1>1, <1>2 DEF Typed
<1>4. pc'[c] = "serve" /\ buf'[c] = {}
  BY <1>1, <1>2 DEF Typed
<1>5. HoldInv(c)'
  BY <1>4 DEF HoldInv, Labels
<1>6. OnlyOf(c)
  <2> SUFFICES ASSUME NEW d \in Conn \ {c}
               PROVE  /\ pc'[d] = pc[d] /\ buf'[d] = buf[d]
                      /\ \A k \in buf[d] : memory'[k] = memory[k] /\ k \notin pool' /\ k \notin buf'[c]
    BY <1>2 DEF OnlyOf
  <2>1. pc'[d] = pc[d] /\ buf'[d] = buf[d]
    BY <1>1, <1>2 DEF Typed
  <2>2. ASSUME NEW k \in buf[d]
        PROVE  memory'[k] = memory[k] /\ k \notin pool' /\ k \notin buf'[c]
    <3>1. k \in Buffer /\ k \notin pool /\ k \notin buf[c]
      BY DEF ReaderInv, HoldInv
    <3> QED
      BY <1>2, <1>4, <3>1
  <2> QED
    BY <2>1, <2>2
<1>7. Mem(c)' = <<>>
  BY <1>4 DEF Mem
<1>8. ~Returned(c)'
  BY <1>4 DEF Returned
<1>9. ConnInv(c)'
  BY <1>1, <1>2, <1>7, <1>8, WithoutMem DEF ConnInv
<1> QED
  BY <1>3, <1>5, <1>6, <1>9, OthersReaderInv

-----------------------------------------------------------------------------
(* The theorems.                                                           *)

LEMMA NextReaderInv == ReaderInv /\ [RNext]_rvars => ReaderInv'
<1> SUFFICES ASSUME ReaderInv, [RNext]_rvars PROVE ReaderInv'
  OBVIOUS
<1>1. CASE UNCHANGED rvars
  BY <1>1 DEF rvars, pooling, ReaderInv, Typed, HoldInv, ConnInv, Mem, Returned, IsEnd
<1>2. ASSUME NEW c \in Conn, \/ Send(c)
                             \/ Get(c) \/ Fill(c) \/ BufferFull(c) \/ LineFound(c)
                             \/ ReadFails(c) \/ Parse(c) \/ Put(c)
      PROVE  ReaderInv'
  BY <1>2, SendReaderInv, GetReaderInv, FillReaderInv, BufferFullReaderInv,
     LineFoundReaderInv, ReadFailsReaderInv, ParseReaderInv, PutReaderInv
<1> QED
  BY <1>1, <1>2 DEF RNext

LEMMA AlwaysReaderInv == RSpec => []ReaderInv
BY InitReaderInv, NextReaderInv, PTL DEF RSpec

(* However many goroutines share the pool, a buffer is in one hand at a    *)
(* time, and holds bytes of the connection it is held for and no other.    *)
THEOREM BytesAlwaysOwn == RSpec => []OwnBytes
<1>1. ReaderInv => OwnBytes
  <2> SUFFICES ASSUME ReaderInv, NEW c \in Conn, NEW k \in buf[c]
               PROVE  /\ \A x \in Bytes(memory[k]) : x.conn = c
                      /\ k \notin pool
                      /\ \A d \in Conn \ {c} : k \notin buf[d]
    BY DEF OwnBytes
  <2>1. HoldInv(c) /\ ConnInv(c)
    BY DEF ReaderInv
  <2>2. memory[k] \in Cells(c)
    <3>1. buf[c] = {k}
      BY <2>1 DEF HoldInv
    <3> QED
      BY <2>1, <3>1, MemOne DEF ConnInv
  <2>3. ASSUME NEW x \in Bytes(memory[k]) PROVE x.conn = c
    <3>1. PICK i \in DOMAIN memory[k] : x = memory[k][i]
      BY DEF Bytes
    <3>2. i \in 1..Len(memory[k]) /\ memory[k][i] \in Cell(c)
      BY <2>2, <3>1 DEF Cells
    <3> QED
      BY <3>1, <3>2 DEF Cell
  <2> QED
    BY <2>1, <2>3 DEF HoldInv
<1> QED
  BY <1>1, AlwaysReaderInv, PTL

(* Whatever the lengths of the lines and of the reads that brought them,   *)
(* readMessage never joins what is left of one line to the next.           *)
THEOREM LinesNeverJoined == RSpec => []NeverJoined
<1>1. ReaderInv => NeverJoined
  BY DEF ReaderInv, ConnInv, IsEnd, EndOfLine, NeverJoined
<1> QED
  BY <1>1, AlwaysReaderInv, PTL

-----------------------------------------------------------------------------
(* A client that waits for each response.                                  *)

\* The bytes are the end of one line: the last is its newline, and no other.
LastOnly(w) == /\ w # <<>>
               /\ \A i \in 1..Len(w) : w[i].newline <=> i = Len(w)

\* The bytes of c that readMessage has not returned yet.
Rest(c) == Mem(c) \o stream[c]

\* readMessage has returned all that the client has sent.
AllRead(c) == Len(sent[c]) = read[c] /\ Rest(c) = <<>>

\* It has not begun to return the line that the client has sent last.
LineComing(c) == /\ Len(sent[c]) = read[c] + 1
                 /\ Rest(c) = Line(c, read[c] + 1, sent[c][read[c] + 1])

\* What readMessage returns for the n bytes of line i of c.
Whole(c, i, n) == IF n <= BufSize THEN Message(Line(c, i, n)) ELSE Error("too large")

WaitInv(c) ==
  /\ read[c] \in Nat
  /\ Len(Mem(c)) <= BufSize
  /\ pc[c] \in {"serve", "read"} => AllRead(c) \/ LineComing(c)
  /\ pc[c] = "discard" => /\ Len(sent[c]) = read[c] + 1
                          /\ sent[c][read[c] + 1] > BufSize
                          /\ LastOnly(Rest(c))
  /\ pc[c] = "parse" => LineComing(c) /\ FirstNewline(Mem(c)) # {}
  /\ pc[c] = "put" => /\ read[c] >= 1 /\ Len(sent[c]) = read[c] /\ stream[c] = <<>>
                      /\ result[c] = Whole(c, read[c], sent[c][read[c]])

WholeInv == \A c \in Patient : ~failed[c] => WaitInv(c)

LEMMA BufSizeType == BufSize \in Nat \ {0}
BY ReaderAssumption DEF BufSize

LEMMA LineLastOnly ==
  ASSUME NEW c, NEW i \in Nat, NEW n \in Nat \ {0}
  PROVE  LastOnly(Line(c, i, n)) /\ Len(Line(c, i, n)) = n /\ Line(c, i, n) \in Cells(c)
<1>0. n \in Nat
  OBVIOUS
<1> DEFINE l == Line(c, i, n)
<1> HIDE DEF l
<1>1. /\ l \in Cells(c) /\ Len(l) = n
      /\ \A j \in 1..n : l[j] = [conn |-> c, line |-> i, pos |-> j, newline |-> j = n]
  <2>1. IsLine(l, c, i, n)
    BY <1>0, LineCells DEF l
  <2> QED
    BY <2>1 DEF IsLine
<1>2. l # <<>> /\ Len(l) = n /\ l \in Cells(c)
  <2>1. Len(l) # 0
    BY <1>1
  <2>2. Len(<<>>) = 0
    OBVIOUS
  <2> QED
    BY <1>1, <2>1, <2>2
<1>3. ASSUME NEW j \in 1..Len(l) PROVE l[j].newline <=> j = Len(l)
  <2> DEFINE last == j = n
  <2>1. l[j] = [conn |-> c, line |-> i, pos |-> j, newline |-> j = n]
    BY <1>1, <1>2
  <2>2. l[j].newline = last
    BY <2>1
  <2> QED
    BY <1>2, <2>2
<1>4. LastOnly(l)
  BY <1>2, <1>3 DEF LastOnly
<1> QED
  BY <1>2, <1>4 DEF l

(* The newline is either in what the buffer holds, and then it is the last *)
(* of all, or still in the socket.                                         *)
LEMMA WhereNewline ==
  ASSUME NEW c, NEW u \in Cells(c), NEW v \in Cells(c), LastOnly(u \o v)
  PROVE  /\ FirstNewline(u) # {} => v = <<>> /\ u \o v = u /\ FirstNewline(u) = {Len(u)}
         /\ FirstNewline(u) = {} => LastOnly(v)
<1> DEFINE w == u \o v
<1>1. /\ Len(u) \in Nat /\ Len(v) \in Nat /\ Len(w) = Len(u) + Len(v)
      /\ \A i \in 1..Len(u) : w[i] = u[i]
      /\ \A i \in 1..Len(v) : w[Len(u) + i] = v[i]
      /\ DOMAIN u = 1..Len(u)
  BY ConcatCells DEF Cells
<1>2. w # <<>> /\ \A i \in 1..Len(w) : w[i].newline <=> i = Len(w)
  BY DEF LastOnly
<1> HIDE DEF w
<1>0. Len(u) \in Nat /\ Len(v) \in Nat /\ Len(w) = Len(u) + Len(v)
  BY <1>1
<1>3. ASSUME FirstNewline(u) # {} PROVE v = <<>> /\ w = u /\ FirstNewline(u) = {Len(u)}
  <2>1. PICK i \in FirstNewline(u) : TRUE
    BY <1>3
  <2>2. i \in 1..Len(u) /\ u[i].newline
    BY <1>1, <2>1 DEF FirstNewline
  <2>3. i \in 1..Len(w) /\ w[i].newline
    BY <1>1, <2>2
  <2>4. i = Len(w)
    BY <1>2, <2>3
  <2>5. Len(v) = 0 /\ i = Len(u)
    BY <1>0, <2>2, <2>4
  <2>6. v = <<>>
    BY <2>5, EmptySeq DEF Cells
  <2>7. w = u
    BY <2>6, ConcatEmptySeq DEF Cells, w
  <2>8. ASSUME NEW j \in FirstNewline(u) PROVE j = Len(u)
    <3>1. j \in 1..Len(u) /\ u[j].newline
      BY <1>1 DEF FirstNewline
    <3>2. j \in 1..Len(w) /\ w[j].newline
      BY <1>1, <3>1
    <3> QED
      BY <1>2, <2>7, <3>2
  <2>9. FirstNewline(u) = {Len(u)}
    BY <2>1, <2>5, <2>8
  <2> QED
    BY <2>6, <2>7, <2>9
<1>4. ASSUME FirstNewline(u) = {} PROVE LastOnly(v)
  <2>1. v # <<>>
    <3> SUFFICES ASSUME v = <<>> PROVE FALSE
      OBVIOUS
    <3>1. w = u
      BY ConcatEmptySeq DEF Cells, w
    <3>2. Len(w) # 0
      <4>1. w \in Seq(Cell(c))
        BY <3>1 DEF Cells
      <4> QED
        BY <1>2, <4>1, EmptySeq
    <3>3. Len(u) \in 1..Len(w) /\ Len(u) = Len(w)
      BY <1>1, <3>1, <3>2
    <3>4. u[Len(u)].newline
      BY <1>1, <1>2, <3>3
    <3>5. ASSUME NEW j \in 1..Len(u) - 1 PROVE ~u[j].newline
      <4>1. j \in 1..Len(w) /\ j \in 1..Len(u) /\ j # Len(w)
        <5>1. PICK n \in Nat : n = Len(u) /\ n = Len(w)
          BY <1>0, <3>3
        <5>2. j \in 1..n - 1
          BY <5>1
        <5>3. j \in 1..n /\ j # n
          BY <5>2
        <5> QED
          BY <5>1, <5>3
      <4>2. ~w[j].newline
        BY <1>2, <4>1
      <4>3. w[j] = u[j]
        BY <1>1, <4>1
      <4> QED
        BY <4>2, <4>3
    <3>6. Len(u) \in FirstNewline(u)
      BY <1>1, <3>3, <3>4, <3>5 DEF FirstNewline
    <3> QED
      BY <1>4, <3>6
  <2>2. ASSUME NEW i \in 1..Len(v) PROVE v[i].newline <=> i = Len(v)
    <3>1. Len(u) + i \in 1..Len(w) /\ (Len(u) + i = Len(w) <=> i = Len(v))
      BY <1>1
    <3> QED
      BY <1>1, <1>2, <3>1
  <2> QED
    BY <2>1, <2>2 DEF LastOnly
<1> QED
  BY <1>3, <1>4 DEF w

(* A step of c leaves the buffer and the bytes of the others alone.        *)
LEMMA OthersWait ==
  ASSUME ReaderInv, NEW c \in Conn, NEW d \in Conn \ {c},
         \/ Send(c) \/ Get(c) \/ Fill(c) \/ BufferFull(c) \/ LineFound(c)
         \/ ReadFails(c) \/ Parse(c) \/ Put(c)
  PROVE  /\ Mem(d)' = Mem(d)
         /\ pc'[d] = pc[d] /\ stream'[d] = stream[d] /\ sent'[d] = sent[d]
         /\ result'[d] = result[d] /\ read'[d] = read[d] /\ failed'[d] = failed[d]
<1>1. Typed /\ HoldInv(d) /\ HoldInv(c)
  BY DEF ReaderInv
<1>2. /\ pc'[d] = pc[d] /\ stream'[d] = stream[d] /\ sent'[d] = sent[d]
      /\ result'[d] = result[d] /\ read'[d] = read[d] /\ failed'[d] = failed[d]
      /\ buf'[d] = buf[d]
  <2>1. CASE Send(c) \/ Get(c) \/ Fill(c) \/ BufferFull(c)
    BY <1>1, <2>1 DEF Send, Get, Fill, BufferFull, Set, Typed, pooling
  <2>2. CASE LineFound(c) \/ ReadFails(c) \/ Parse(c) \/ Put(c)
    BY <1>1, <2>2 DEF LineFound, ReadFails, Parse, Put, Set, Typed, pooling
  <2> QED
    BY <2>1, <2>2
<1>3. ASSUME NEW k \in buf[d] PROVE memory'[k] = memory[k]
  <2>1. k \in Buffer /\ k \notin buf[c]
    BY <1>1 DEF HoldInv
  <2>2. CASE Send(c) \/ LineFound(c) \/ ReadFails(c) \/ Parse(c)
    BY <2>2 DEF Send, LineFound, ReadFails, Parse, pooling
  <2>3. CASE Get(c)
    <3>1. PICK h \in Buffer \ UNION {buf[e] : e \in Conn} : memory' = [memory EXCEPT ![h] = <<>>]
      BY <2>3 DEF Get, Set
    <3>2. h # k
      BY <3>1
    <3> QED
      BY <1>1, <2>1, <3>1, <3>2 DEF Typed
  <2>4. CASE Fill(c) \/ BufferFull(c)
    <3>1. PICK h \in buf[c] : \E x : memory' = [memory EXCEPT ![h] = x]
      BY <2>4 DEF Fill, BufferFull, Set
    <3> QED
      BY <1>1, <2>1, <3>1 DEF Typed
  <2>5. CASE Put(c)
    BY <2>1, <2>5 DEF Put
  <2> QED
    BY <2>2, <2>3, <2>4, <2>5
<1>4. Mem(d)' = Mem(d)
  <2>1. CASE buf[d] = {}
    BY <1>2, <2>1 DEF Mem
  <2>2. CASE buf[d] # {}
    <3>1. PICK k \in Buffer : buf[d] = {k} /\ buf'[d] = {k}
      BY <1>1, <1>2, <2>2 DEF HoldInv
    <3>2. Mem(d) = memory[k] /\ Mem(d)' = memory'[k]
      BY <3>1 DEF Mem
    <3> QED
      BY <1>3, <3>1, <3>2
  <2> QED
    BY <2>1, <2>2
<1> QED
  BY <1>2, <1>4

LEMMA WaitUnchanged ==
  ASSUME NEW d, WaitInv(d),
         Mem(d)' = Mem(d), pc'[d] = pc[d], stream'[d] = stream[d], sent'[d] = sent[d],
         result'[d] = result[d], read'[d] = read[d]
  PROVE  WaitInv(d)'
<1>1. Rest(d)' = Rest(d) /\ Whole(d, read[d], sent[d][read[d]])' = Whole(d, read[d], sent[d][read[d]])
  BY DEF Rest, Whole, Message, Error, Line, BufSize
<1>2. AllRead(d)' <=> AllRead(d)
  BY <1>1 DEF AllRead
<1>3. LineComing(d)' <=> LineComing(d)
  BY <1>1 DEF LineComing, Line
<1> QED
  BY <1>1, <1>2, <1>3 DEF WaitInv, LastOnly, FirstNewline, BufSize

(* The bytes of a patient client, when it is its own turn.                 *)
LEMMA OwnWait ==
  ASSUME ReaderInv, NEW c \in Patient, ~failed[c], WaitInv(c),
         \/ Send(c) \/ Get(c) \/ Fill(c) \/ BufferFull(c) \/ LineFound(c)
         \/ ReadFails(c) \/ Parse(c) \/ Put(c)
  PROVE  ~failed'[c] => WaitInv(c)'
<1>0. c \in Conn
  BY ReaderAssumption
<1>1. Typed /\ HoldInv(c) /\ ConnInv(c) /\ ReaderInv'
  BY <1>0, SendReaderInv, GetReaderInv, FillReaderInv, BufferFullReaderInv,
     LineFoundReaderInv, ReadFailsReaderInv, ParseReaderInv, PutReaderInv DEF ReaderInv
<1>2. PICK r \in Nat : r = read[c]
  BY DEF WaitInv
<1>3. PICK u \in Cells(c) : u = Mem(c)
  BY <1>1 DEF ConnInv
<1>4. PICK v \in Cells(c) : v = stream[c]
  BY <1>1 DEF ConnInv
<1>5. /\ sent[c] \in Seq(Nat \ {0}) /\ Len(sent[c]) \in Nat /\ Rest(c) = u \o v
      /\ BufSize \in Nat \ {0} /\ Len(u) <= BufSize
  BY <1>1, <1>3, <1>4, BufSizeType DEF ConnInv, Rest, WaitInv
<1>6. /\ <<>> \in Cells(c) /\ Len(<<>>) = 0
      /\ \A w \in Cells(c) : <<>> \o w = w /\ w \o <<>> = w
  BY ConcatEmptySeq DEF Cells
<1>7. ASSUME LineComing(c)
      PROVE  /\ LastOnly(u \o v) /\ sent[c][r + 1] \in Nat \ {0}
             /\ Len(u \o v) = sent[c][r + 1]
             /\ u \o v = Line(c, r + 1, sent[c][r + 1])
  <2>1. sent[c][r + 1] \in Nat \ {0}
    BY <1>2, <1>5, <1>7 DEF LineComing
  <2>2. u \o v = Line(c, r + 1, sent[c][r + 1])
    BY <1>2, <1>5, <1>7 DEF LineComing
  <2> QED
    BY <2>1, <2>2, LineLastOnly
<1>8. CASE Send(c)
  <2>1. PICK n \in LineLengths :
          /\ sent' = [sent EXCEPT ![c] = Append(sent[c], n)]
          /\ stream' = [stream EXCEPT ![c] = stream[c] \o Line(c, Len(sent[c]) + 1, n)]
    BY <1>8 DEF Send, Set
  <2>2. /\ UNCHANGED <<buf, memory, pc, read>>
        /\ Len(sent[c]) = r /\ pc[c] # "put"
    BY <1>2, <1>8 DEF Send, pooling
  <2>3. pc[c] \in {"serve", "read"} /\ AllRead(c)
    BY <1>1, <1>2, <1>5, <2>2 DEF WaitInv, HoldInv, Labels, AllRead, LineComing
  <2>4. /\ sent'[c] = Append(sent[c], n) /\ stream'[c] = v \o Line(c, r + 1, n)
        /\ n \in Nat \ {0}
    BY <1>0, <1>1, <1>4, <2>1, <2>2, ReaderAssumption DEF Typed
  <2>5. u = <<>> /\ v = <<>>
    <3>1. u \o v = <<>> /\ Len(u) \in Nat /\ Len(v) \in Nat
      BY <1>5, <2>3 DEF AllRead, Cells
    <3>2. Len(u) + Len(v) = 0
      BY <1>6, <3>1, ConcatCells
    <3>3. Len(u) = 0 /\ Len(v) = 0
      BY <3>1, <3>2
    <3> QED
      BY <3>3, EmptySeq DEF Cells
  <2>6. Mem(c)' = <<>>
    BY <1>3, <2>2, <2>5 DEF Mem
  <2>7. Rest(c)' = Line(c, r + 1, n)
    <3>1. Line(c, r + 1, n) \in Cells(c)
      BY <2>4, LineLastOnly
    <3>2. stream'[c] = Line(c, r + 1, n)
      BY <1>6, <2>4, <2>5, <3>1
    <3> QED
      BY <1>6, <2>6, <3>1, <3>2 DEF Rest
  <2>8. Len(sent'[c]) = r + 1 /\ sent'[c][r + 1] = n
    BY <1>5, <2>2, <2>4
  <2>9. LineComing(c)'
    BY <1>2, <2>2, <2>7, <2>8 DEF LineComing, Line
  <2> QED
    BY <1>2, <1>5, <1>6, <2>2, <2>3, <2>6, <2>9 DEF WaitInv, BufSize
<1>9. CASE Get(c)
  <2>1. /\ pc[c] = "serve" /\ pc'[c] = "read" /\ UNCHANGED <<stream, sent, result, read>>
        /\ \E k \in Buffer : /\ buf' = [buf EXCEPT ![c] = {k}]
                             /\ memory' = [memory EXCEPT ![k] = <<>>]
    BY <1>0, <1>1, <1>9 DEF Get, Set, Typed
  <2>2. Mem(c) = <<>>
    BY <1>1, <2>1 DEF HoldInv, Mem
  <2>3. Mem(c)' = <<>>
    BY <1>0, <1>1, <2>1 DEF Mem, Typed
  <2>4. (AllRead(c) \/ LineComing(c)) /\ Rest(c)' = Rest(c)
    BY <2>1, <2>2, <2>3 DEF WaitInv, Rest
  <2>5. (AllRead(c) \/ LineComing(c))'
    BY <2>1, <2>4 DEF AllRead, LineComing, Line
  <2> QED
    BY <1>2, <1>5, <1>6, <2>1, <2>3, <2>5 DEF WaitInv, BufSize
<1>10. ASSUME NEW k \in buf[c], pc[c] # "serve" PROVE buf[c] = {k} /\ k \in Buffer /\ u = memory[k]
  <2>1. buf[c] = {k} /\ k \in Buffer
    BY <1>1, <1>10 DEF HoldInv
  <2> QED
    BY <1>3, <2>1, MemOne
<1>11. CASE Fill(c)
  <2>1. /\ pc[c] \in {"read", "discard"} /\ UNCHANGED <<pc, sent, result, read>>
        /\ Len(Mem(c)') <= BufSize /\ Rest(c)' = Rest(c)
    BY <1>0, <1>11, FillKeeps DEF Fill, Rest
  <2>2. (AllRead(c) <=> AllRead(c)') /\ (LineComing(c) <=> LineComing(c)')
    BY <2>1 DEF AllRead, LineComing, Line
  <2> QED
    BY <1>5, <2>1, <2>2 DEF WaitInv, BufSize, LastOnly
<1>12. CASE BufferFull(c)
  <2>1. PICK k \in buf[c] : /\ FirstNewline(memory[k]) = {} /\ Len(memory[k]) >= BufSize
                            /\ memory' = [memory EXCEPT ![k] = <<>>]
    BY <1>12 DEF BufferFull, Set
  <2>2. /\ pc[c] \in {"read", "discard"} /\ pc'[c] = "discard"
        /\ UNCHANGED <<buf, stream, sent, read>>
    BY <1>0, <1>1, <1>12 DEF BufferFull, Set, Typed
  <2>3. buf[c] = {k} /\ FirstNewline(u) = {} /\ Len(u) >= BufSize /\ Mem(c)' = <<>>
    <3>1. buf[c] = {k} /\ k \in Buffer /\ u = memory[k]
      BY <1>10, <2>2
    <3>2. memory'[k] = <<>> /\ buf'[c] = {k}
      BY <1>1, <2>1, <2>2, <3>1 DEF Typed
    <3> QED
      BY <2>1, <3>1, <3>2 DEF Mem
  <2>4. Len(sent[c]) = r + 1 /\ sent[c][r + 1] > BufSize /\ LastOnly(u \o v)
    <3>1. CASE pc[c] = "discard"
      BY <1>2, <1>5, <3>1 DEF WaitInv
    <3>2. CASE pc[c] = "read"
      <4>1. ~AllRead(c)
        <5>1. Len(u \o v) = Len(u) + Len(v) /\ Len(u) \in Nat /\ Len(v) \in Nat
          BY ConcatCells
        <5>2. Len(u \o v) # 0
          BY <1>5, <2>3, <5>1
        <5> QED
          BY <1>5, <1>6, <5>2 DEF AllRead
      <4>2. LineComing(c)
        BY <3>2, <4>1 DEF WaitInv
      <4>3. LastOnly(v)
        BY <1>7, <2>3, <4>2, WhereNewline
      <4>4. Len(v) # 0 /\ Len(v) \in Nat /\ Len(u) \in Nat /\ Len(u \o v) = Len(u) + Len(v)
        BY <4>3, EmptySeq, ConcatCells DEF LastOnly, Cells
      <4>5. sent[c][r + 1] = Len(u) + Len(v)
        BY <1>7, <4>2, <4>4
      <4>6. sent[c][r + 1] > BufSize
        BY <1>5, <2>3, <4>4, <4>5
      <4> QED
        BY <1>2, <1>7, <4>2, <4>6 DEF LineComing
    <3> QED
      BY <2>2, <3>1, <3>2
  <2>5. LastOnly(v)
    BY <2>3, <2>4, WhereNewline
  <2>6. Rest(c)' = v
    BY <1>4, <1>6, <2>2, <2>3 DEF Rest
  <2>7. LastOnly(Rest(c))'
    BY <2>5, <2>6 DEF LastOnly
  <2> QED
    BY <1>2, <1>5, <1>6, <2>2, <2>3, <2>4, <2>7 DEF WaitInv, BufSize
<1>13. CASE LineFound(c)
  <2>1. PICK k \in buf[c] : FirstNewline(memory[k]) # {}
    BY <1>13 DEF LineFound
  <2>2. pc[c] \in {"read", "discard"} /\ UNCHANGED <<pool, memory, buf, stream, sent, failed>>
    BY <1>13 DEF LineFound, pooling
  <2>3. u = memory[k] /\ FirstNewline(u) # {} /\ Mem(c)' = u /\ Rest(c)' = Rest(c)
    BY <1>3, <1>10, <2>1, <2>2 DEF Mem, Rest
  <2>4. CASE pc[c] = "read"
    <3>1. pc'[c] = "parse" /\ read' = read
      BY <1>0, <1>1, <1>13, <2>4 DEF LineFound, Set, Typed
    <3>2. ~AllRead(c)
      <4>1. Len(u) # 0
        BY <2>3 DEF FirstNewline, Cells
      <4>2. Len(u \o v) = Len(u) + Len(v) /\ Len(u) \in Nat /\ Len(v) \in Nat
        BY ConcatCells
      <4>3. Len(u \o v) # 0
        BY <4>1, <4>2
      <4> QED
        BY <1>5, <1>6, <4>3 DEF AllRead
    <3>3. LineComing(c)
      BY <2>4, <3>2 DEF WaitInv
    <3>4. LineComing(c)'
      BY <2>2, <2>3, <3>1, <3>3 DEF LineComing, Line
    <3>5. FirstNewline(Mem(c))' # {}
      BY <2>3 DEF FirstNewline
    <3> QED
      BY <1>2, <1>5, <2>3, <3>1, <3>4, <3>5 DEF WaitInv, BufSize
  <2>5. CASE pc[c] = "discard"
    <3>1. pc'[c] = "put" /\ read'[c] = r + 1 /\ result'[c] = Error("too large")
      BY <1>0, <1>1, <1>2, <1>13, <2>5 DEF LineFound, Set, Typed
    <3>2. Len(sent[c]) = r + 1 /\ sent[c][r + 1] > BufSize /\ LastOnly(u \o v)
      BY <1>2, <1>5, <2>5 DEF WaitInv
    <3>3. stream'[c] = <<>>
      BY <1>4, <2>2, <2>3, <3>2, WhereNewline
    <3>4. sent[c][r + 1] \in Nat
      BY <1>5, <3>2
    <3>5. ~(sent[c][r + 1] <= BufSize)
      BY <1>5, <3>2, <3>4
    <3>6. result'[c] = Whole(c, read[c], sent[c][read[c]])'
      BY <2>2, <3>1, <3>5 DEF Whole, BufSize, Error
    <3>7. r + 1 \in Nat /\ r + 1 >= 1
      OBVIOUS
    <3> QED
      BY <1>5, <2>2, <2>3, <3>1, <3>2, <3>3, <3>6, <3>7 DEF WaitInv, BufSize
  <2> QED
    BY <2>2, <2>4, <2>5
<1>14. CASE ReadFails(c)
  <2>1. failed'[c]
    BY <1>0, <1>1, <1>14 DEF ReadFails, Set, Typed
  <2> QED
    BY <2>1
<1>15. CASE Parse(c)
  <2>1. PICK k \in buf[c] : \E i \in FirstNewline(memory[k]) :
          result' = [result EXCEPT ![c] = Message(SubSeq(memory[k], 1, i))]
    BY <1>15 DEF Parse, Set
  <2>2. /\ pc[c] = "parse" /\ pc'[c] = "put" /\ read'[c] = r + 1
        /\ UNCHANGED <<pool, memory, buf, stream, sent>>
    BY <1>0, <1>1, <1>2, <1>15 DEF Parse, pooling, Set, Typed
  <2>3. u = memory[k] /\ Mem(c)' = u
    BY <1>3, <1>10, <2>2 DEF Mem
  <2>4. LineComing(c) /\ FirstNewline(u) # {}
    BY <1>3, <2>2 DEF WaitInv
  <2>5. v = <<>> /\ u \o v = u /\ FirstNewline(u) = {Len(u)}
    BY <1>7, <2>4, WhereNewline
  <2>6. result'[c] = Message(SubSeq(u, 1, Len(u)))
    BY <1>0, <1>1, <2>1, <2>3, <2>5 DEF Typed
  <2>7. SubSeq(u, 1, Len(u)) = u
    BY SubSeqFull DEF Cells
  <2>8. u = Line(c, r + 1, sent[c][r + 1]) /\ sent[c][r + 1] <= BufSize
    BY <1>5, <1>7, <2>4, <2>5
  <2>9. result'[c] = Whole(c, read[c], sent[c][read[c]])'
    BY <2>2, <2>6, <2>7, <2>8 DEF Whole, BufSize, Message, Line
  <2>10. r + 1 \in Nat /\ r + 1 >= 1 /\ Len(sent[c]) = r + 1
    BY <1>2, <2>4 DEF LineComing
  <2> QED
    BY <1>4, <1>5, <2>2, <2>3, <2>5, <2>9, <2>10 DEF WaitInv, BufSize
<1>16. CASE Put(c)
  <2>1. /\ pc[c] = "put" /\ pc'[c] = "serve" /\ buf'[c] = {}
        /\ UNCHANGED <<stream, sent, result, read, failed>>
    BY <1>0, <1>1, <1>16 DEF Put, Set, Typed
  <2>2. Len(sent[c]) = read[c] /\ stream[c] = <<>>
    BY <2>1 DEF WaitInv
  <2>3. Mem(c)' = <<>>
    BY <2>1 DEF Mem
  <2>4. AllRead(c)'
    BY <1>6, <2>1, <2>2, <2>3 DEF AllRead, Rest
  <2> QED
    BY <1>2, <1>5, <1>6, <2>1, <2>3, <2>4 DEF WaitInv, BufSize
<1> QED
  BY <1>8, <1>9, <1>11, <1>12, <1>13, <1>14, <1>15, <1>16

LEMMA NextWholeInv == ReaderInv /\ WholeInv /\ [RNext]_rvars => WholeInv'
<1> SUFFICES ASSUME ReaderInv, WholeInv, [RNext]_rvars, NEW d \in Patient, ~failed'[d]
             PROVE  WaitInv(d)'
  BY DEF WholeInv
<1>1. CASE UNCHANGED rvars
  <2>1. UNCHANGED <<memory, buf, pc, stream, sent, result, read, failed>>
    BY <1>1 DEF rvars, pooling
  <2>2. Mem(d)' = Mem(d)
    BY <2>1 DEF Mem
  <2>3. WaitInv(d)
    BY <2>1 DEF WholeInv
  <2> QED
    BY <2>1, <2>2, <2>3, WaitUnchanged
<1>2. CASE RNext
  <2>1. PICK c \in Conn : \/ Send(c)
                          \/ Get(c) \/ Fill(c) \/ BufferFull(c) \/ LineFound(c)
                          \/ ReadFails(c) \/ Parse(c) \/ Put(c)
    BY <1>2 DEF RNext
  <2>2. CASE d # c
    <3>1. d \in Conn \ {c}
      BY <2>2, ReaderAssumption
    <3>2. /\ Mem(d)' = Mem(d)
          /\ pc'[d] = pc[d] /\ stream'[d] = stream[d] /\ sent'[d] = sent[d]
          /\ result'[d] = result[d] /\ read'[d] = read[d] /\ failed'[d] = failed[d]
      BY <2>1, <3>1, OthersWait
    <3>3. WaitInv(d)
      BY <3>2 DEF WholeInv
    <3> QED
      BY <3>2, <3>3, WaitUnchanged
  <2>3. CASE d = c
    <3>1. ~failed[c]
      <4>1. Typed
        BY DEF ReaderInv
      <4>2. \/ UNCHANGED failed
            \/ failed' = [failed EXCEPT ![c] = TRUE]
        BY <2>1 DEF Send, Get, Fill, BufferFull, LineFound, ReadFails, Parse, Put, Set
      <4> QED
        BY <2>3, <4>1, <4>2 DEF Typed
    <3>2. WaitInv(c)
      BY <2>3, <3>1 DEF WholeInv
    <3> QED
      BY <2>1, <2>3, <3>1, <3>2, OwnWait
  <2> QED
    BY <2>2, <2>3
<1> QED
  BY <1>1, <1>2

LEMMA InitWholeInv == RInit => WholeInv
<1> SUFFICES ASSUME RInit, NEW c \in Patient PROVE WaitInv(c)
  BY DEF WholeInv
<1>1. /\ pc[c] = "serve" /\ Mem(c) = <<>> /\ stream[c] = <<>> /\ sent[c] = <<>> /\ read[c] = 0
  BY ReaderAssumption DEF RInit, Mem
<1>2. Len(<<>>) = 0 /\ <<>> \o <<>> = <<>>
  OBVIOUS
<1>3. AllRead(c)
  BY <1>1, <1>2 DEF AllRead, Rest
<1>4. 0 <= BufSize
  BY BufSizeType
<1> QED
  BY <1>1, <1>2, <1>3, <1>4 DEF WaitInv

LEMMA AlwaysWholeInv == RSpec => [](ReaderInv /\ WholeInv)
BY InitReaderInv, InitWholeInv, NextReaderInv, NextWholeInv, PTL DEF RSpec

(* A client that waits for each response, and none of whose reads has      *)
(* failed, has each of its lines read whole, or refused as too large, and  *)
(* nothing of it left to be taken for the beginning of the next: for lines *)
(* and limits of any length, and however the bytes arrive.                 *)
THEOREM MessagesReadWhole == RSpec => []WholeMessages
<1>1. ReaderInv /\ WholeInv => WholeMessages
  <2> SUFFICES ASSUME ReaderInv, WholeInv, NEW c \in Patient, pc[c] = "put", ~failed[c]
               PROVE  /\ result[c] = Whole(c, read[c], sent[c][read[c]])
                      /\ stream[c] = <<>>
    BY DEF WholeMessages, Whole
  <2> QED
    BY DEF WholeInv, WaitInv
<1> QED
  BY <1>1, AlwaysWholeInv, PTL

=============================================================================
