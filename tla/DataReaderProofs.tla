-------------------------- MODULE DataReaderProofs --------------------------
(***************************************************************************)
(* Theorems about DataReader.                                              *)
(*                                                                         *)
(* A reader that is not told to start again stands behind the bytes it has *)
(* given (InPlace).  While a call moves or overwrites the bytes, that only *)
(* has to be true again when the call returns, and it raises the revision  *)
(* then (Moved); a call that appends keeps it, unless the reader waits at  *)
(* the end (Spared).  ReaderInv says so of every reader at every step.     *)
(***************************************************************************)
EXTENDS ContentProofs, DataReader

-----------------------------------------------------------------------------
(* A read.                                                                 *)

\* Reader states that differ in their position.
MovedReader(d, c, it, off) ==
    /\ d \in ReaderType
    /\ d.buf = c.buf /\ d.stale = c.stale /\ d.it = it /\ d.off = off

LEMMA ReaderMoves ==
    ASSUME NEW c \in ReaderType, NEW it \in Nodes \cup {NULL}, NEW off \in Nat,
           NEW d, d = [c EXCEPT !.it = it, !.off = off]
    PROVE  MovedReader(d, c, it, off)
  BY DEF ReaderType, MovedReader

LEMMA ReaderGoesOn ==
    ASSUME NEW c \in ReaderType, NEW off \in Nat, NEW d, d = [c EXCEPT !.off = off]
    PROVE  MovedReader(d, c, c.it, off)
  BY DEF ReaderType, MovedReader

LEMMA ReaderLeaves ==
    ASSUME NEW c \in ReaderType, NEW it \in Nodes \cup {NULL}, NEW d, d = [c EXCEPT !.it = it]
    PROVE  MovedReader(d, c, it, c.off)
  BY DEF ReaderType, MovedReader

\* The locals of a read.
RunType == [pos : ReaderType, left : Nat, dat : Seq(Byte), ok : BOOLEAN, over : BOOLEAN]

\* The bytes behind a reader in page ps[i], or at the end of the list (i = N + 1).
ReadSoFar(N, acc, c, i) == IF i <= N THEN acc[i - 1] + c.off ELSE acc[N]

\* The state s of a read of n bytes that began with z bytes behind the reader: what
\* was copied are the bytes from there to where the reader stands.
Reading(h, b, N, ps, acc, z, n, s, i) ==
    LET t == ReadSoFar(N, acc, s.pos, i)
    IN  /\ s \in RunType /\ i \in 1..(N + 1)
        /\ s.pos.it = ps[i] /\ s.pos.buf = b /\ s.pos.stale = FALSE /\ s.ok = TRUE
        /\ i <= N => s.pos.off < h.page[ps[i]].len
        /\ s.over => s.left = 0
        /\ t \in Nat /\ t <= acc[N] /\ z <= t /\ s.left + t = z + n
        /\ s.dat = SubSeq(Content(h, b), z + 1, t)

LEMMA PieceFits ==
    ASSUME NEW h, NEW c \in ReaderType, NEW n \in Nat, NodeLen(heap, c.it) \in Nat,
           c.off < NodeLen(heap, c.it)
    PROVE  /\ Piece(c, n) \in Nat /\ c.off + Piece(c, n) <= NodeLen(heap, c.it)
           /\ Piece(c, n) <= n
           /\ c.off + Piece(c, n) # NodeLen(heap, c.it) => Piece(c, n) = n
<1> DEFINE plen == NodeLen(heap, c.it)
<1>1. c.off \in Nat /\ c.off <= plen
  BY DEF ReaderType
<1>2. Piece(c, n) = Lower(plen - c.off, n)
  BY <1>1 DEF Piece
<1> HIDE DEF plen
<1>3. plen \in Nat
  BY DEF plen
<1>4. Lower(plen - c.off, n) = IF plen - c.off < n THEN plen - c.off ELSE n
  BY DEF Lower
<1>5. /\ Piece(c, n) \in Nat /\ c.off + Piece(c, n) <= plen /\ Piece(c, n) <= n
      /\ c.off + Piece(c, n) # plen => Piece(c, n) = n
  BY <1>1, <1>2, <1>3, <1>4
<1> QED BY <1>5 DEF plen

\* An iteration that reads: it goes to the next page or has read all it was to.
LEMMA ReadStepReads ==
    ASSUME HeapOK(heap), Filled(heap), NEW b \in Buffers, NEW N, NEW ps, NEW acc,
           Enumerates(heap, b, N, ps, acc), NEW z \in Nat, NEW n \in Nat, NEW s, NEW i,
           Reading(heap, b, N, ps, acc, z, n, s, i), i <= N, s.left # 0, ~s.over
    PROVE  \/ Reading(heap, b, N, ps, acc, z, n, ReadStep(s), i + 1)
           \/ Reading(heap, b, N, ps, acc, z, n, ReadStep(s), i) /\ ReadStep(s).left = 0
<1> DEFINE c == s.pos
           p == ps[i]
           l == heap.page[p].len
           m == Piece(c, s.left)
           d == [c EXCEPT !.off = @ + m]
           t == acc[i - 1] + c.off
           C == Content(heap, b)
           u == PageBytes(heap, p, c.off, m)
           whole == d.off = l
           g == ReadStep(s)
<1>1. /\ N \in Nat /\ i \in 1..N /\ i - 1 \in 0..N /\ i \in 0..N /\ acc[i - 1] \in Nat
      /\ acc[i] \in Nat /\ acc[N] \in Nat /\ acc[i] = acc[i - 1] + l /\ l \in Nat /\ p \in Mine(heap, b)
  <2>1. N \in Nat /\ i \in 1..N /\ i - 1 \in 0..N /\ i \in 0..N /\ N \in 0..N
    BY DEF Enumerates, Reading
  <2> QED BY <2>1, SumsGrow
<1>2. /\ c \in ReaderType /\ c.it = p /\ c.buf = b /\ c.stale = FALSE /\ c.off \in Nat /\ c.off < l
      /\ s.left \in Nat /\ s.dat \in Seq(Byte) /\ s.ok = TRUE /\ s.over = FALSE
      /\ t \in Nat /\ z <= t /\ s.left + t = z + n /\ s.dat = SubSeq(C, z + 1, t)
  BY <1>1 DEF Reading, ReadSoFar, RunType, ReaderType
<1>3. /\ p \in PageIds /\ p \in LivePages(heap) /\ NodeLen(heap, p) = l /\ p # b
      /\ heap.page[p].data \in DataIds /\ heap \in Heap
  BY <1>1, PageFacts DEF HeapOK
<1>4. /\ m \in Nat /\ c.off + m <= l /\ m <= s.left /\ (c.off + m # l => m = s.left)
  <2> HIDE DEF p, l, c
  <2> QED BY <1>1, <1>2, <1>3, PieceFits
<1> HIDE DEF m
<1>5. d \in ReaderType /\ d.it = p /\ d.buf = b /\ d.stale = FALSE /\ d.off = c.off + m
  <2> DEFINE e == c.off + m
  <2>1. e \in Nat /\ d = [c EXCEPT !.off = e]
    BY <1>2, <1>4
  <2> HIDE DEF e, c, d
  <2>2. MovedReader(d, c, c.it, e)
    BY <2>1, <1>2, ReaderGoesOn
  <2> QED BY <2>2, <1>2 DEF e, MovedReader
<1>6. InBounds(heap, p, c.off, m)
  <2> HIDE DEF p, c
  <2> QED BY <1>1, <1>2, <1>3, <1>4, WithinPage
<1> HIDE DEF d, c
<1>7. g = [pos |-> IF whole THEN NextPage(d) ELSE d, left |-> s.left - m,
           dat |-> s.dat \o u, ok |-> TRUE, over |-> ~whole]
  <2>1. ~(s.over \/ s.left = 0 \/ c.it = c.buf)
    BY <1>2, <1>3
  <2>2. InBounds(heap, c.it, c.off, m)
    BY <1>2, <1>6
  <2>3. NodeLen(heap, c.it) = l
    BY <1>2, <1>3
  <2> QED BY <2>1, <2>2, <2>3, <1>2 DEF ReadStep, c, d, m
<1>8. /\ C \in Seq(Byte) /\ Len(C) = acc[N] /\ t + m <= acc[i] /\ acc[i] <= acc[N]
      /\ u = SubSeq(C, t + 1, t + m)
  <2> DEFINE o == c.off
  <2>1. o + m <= heap.page[ps[i]].len /\ t = acc[i - 1] + o /\ o \in Nat /\ m \in Nat
        /\ i \in 1..N
    BY <1>1, <1>2, <1>4
  <2> HIDE DEF t, o, p, l, C, u, whole, g
  <2>2. InPage(heap, N, ps, acc, i, o, m, t)
    BY <2>1 DEF InPage
  <2>3. /\ Content(heap, b) \in Seq(Byte) /\ Len(Content(heap, b)) = acc[N]
        /\ t + m <= acc[i] /\ acc[i] <= acc[N]
        /\ PageBytes(heap, ps[i], o, m) = SubSeq(Content(heap, b), t + 1, t + m)
    BY <2>2, PageInContent
  <2> QED BY <2>3 DEF o, C, u, p
<1> HIDE DEF u, C
<1>9. s.dat \o u = SubSeq(C, z + 1, t + m) /\ s.dat \o u \in Seq(Byte)
  <2> DEFINE e == t + m
             f == acc[N]
             k == acc[i]
  <2>1. e \in Nat /\ t <= e /\ e <= Len(C)
    <3>1. t \in Nat /\ m \in Nat /\ e = t + m /\ e <= k /\ k <= f /\ k \in Nat /\ f \in Nat /\ Len(C) = f
      BY <1>1, <1>2, <1>4, <1>8
    <3> HIDE DEF t, e, f, k
    <3> QED BY <3>1
  <2> HIDE DEF t, e
  <2>2. SubSeq(C, z + 1, t) \o SubSeq(C, t + 1, e) = SubSeq(C, z + 1, e)
    <3>1. C \in Seq(Byte) /\ z \in Nat /\ t \in Nat /\ e \in Nat /\ z <= t /\ t <= e /\ e <= Len(C)
      BY <2>1, <1>2, <1>8
    <3> QED BY <3>1, Spliced
  <2>3. z <= e
    BY <2>1, <1>2
  <2>4. SubSeq(C, z + 1, e) \in Seq(Byte)
    BY <2>1, <2>3, <1>8, PieceOf
  <2> QED BY <2>2, <2>4, <1>2, <1>8 DEF e
<1>10. s.left - m \in Nat /\ (s.left - m) + (t + m) = z + n /\ z <= t + m /\ t + m \in Nat
       /\ t + m <= acc[N]
  <2> DEFINE f == acc[N]
             k == acc[i]
  <2>1. /\ t \in Nat /\ m \in Nat /\ s.left \in Nat /\ m <= s.left /\ z <= t /\ s.left + t = z + n
        /\ t + m <= k /\ k <= f /\ k \in Nat /\ f \in Nat
    BY <1>1, <1>2, <1>4, <1>8
  <2> HIDE DEF t, f, k
  <2>2. s.left - m \in Nat /\ (s.left - m) + (t + m) = z + n /\ z <= t + m /\ t + m \in Nat
        /\ t + m <= f
    BY <2>1
  <2> QED BY <2>2 DEF f
<1> HIDE DEF g
<1>11. CASE whole
  <2> DEFINE e == NextPage(d)
  <2>1. heap.nxt[p] = ps[i + 1] /\ ps[i + 1] \in Nodes /\ i + 1 \in 1..(N + 1)
    <3>1. heap.nxt[ps[i]] = ps[i + 1]
      BY <1>1, EnumNext
    <3> QED BY <3>1, <1>1 DEF Enumerates
  <2>2. e \in ReaderType /\ e.it = ps[i + 1] /\ e.buf = b /\ e.stale = FALSE /\ e.off = 0
    <3>1. e = [d EXCEPT !.it = ps[i + 1], !.off = 0]
      BY <2>1, <1>5 DEF NextPage, ReaderType
    <3>2. ps[i + 1] \in Nodes \cup {NULL} /\ 0 \in Nat
      BY <2>1
    <3> HIDE DEF e
    <3>3. MovedReader(e, d, ps[i + 1], 0)
      BY <3>1, <3>2, <1>5, ReaderMoves
    <3> QED BY <3>3, <1>5 DEF MovedReader
  <2>3. g = [pos |-> e, left |-> s.left - m, dat |-> s.dat \o u, ok |-> TRUE, over |-> FALSE]
    BY <1>7, <1>11
  <2> HIDE DEF e
  <2>4. /\ g \in RunType /\ g.pos = e /\ g.left = s.left - m /\ g.dat = s.dat \o u /\ g.ok = TRUE
        /\ g.over = FALSE
    BY <2>2, <2>3, <1>9, <1>10 DEF RunType
  <2>5. t + m = acc[i]
    <3> DEFINE x == acc[i - 1]
               y == acc[i]
               o == c.off
    <3>1. o + m = l /\ x \in Nat /\ y = x + l /\ l \in Nat /\ o \in Nat /\ m \in Nat /\ t = x + o
      BY <1>1, <1>2, <1>4, <1>5, <1>11
    <3> HIDE DEF x, y, o, l, t
    <3>2. t + m = y
      BY <3>1
    <3> QED BY <3>2 DEF y
  <2>6. ReadSoFar(N, acc, g.pos, i + 1) = t + m
    <3>1. CASE i + 1 <= N
      <4>1. (i + 1) - 1 = i /\ acc[i] + 0 = acc[i]
        BY <1>1
      <4> QED BY <4>1, <3>1, <2>2, <2>4, <2>5 DEF ReadSoFar
    <3>2. CASE ~(i + 1 <= N)
      <4>1. i = N
        BY <3>2, <1>1
      <4> QED BY <4>1, <3>2, <2>5 DEF ReadSoFar
    <3> QED BY <3>1, <3>2
  <2>7. i + 1 <= N => g.pos.off < heap.page[ps[i + 1]].len
    <3> SUFFICES ASSUME i + 1 <= N PROVE g.pos.off < heap.page[ps[i + 1]].len
      OBVIOUS
    <3>1. i + 1 \in 1..N
      BY <1>1
    <3>2. ps[i + 1] \in Mine(heap, b)
      BY <3>1 DEF Enumerates
    <3> QED BY <3>2, <2>2, <2>4 DEF Filled, Mine
  <2> HIDE DEF t
  <2>8. Reading(heap, b, N, ps, acc, z, n, g, i + 1)
    BY <2>1, <2>2, <2>4, <2>6, <2>7, <1>9, <1>10 DEF Reading, C
  <2> QED BY <2>8 DEF g
<1>12. CASE ~whole
  <2>1. m = s.left
    BY <1>12, <1>4, <1>5
  <2>2. g = [pos |-> d, left |-> s.left - m, dat |-> s.dat \o u, ok |-> TRUE, over |-> TRUE]
    BY <1>7, <1>12
  <2>3. /\ g \in RunType /\ g.pos = d /\ g.left = s.left - m /\ g.dat = s.dat \o u /\ g.ok = TRUE
        /\ g.over = TRUE
    BY <2>2, <1>5, <1>9, <1>10 DEF RunType
  <2>4. g.left = 0
    BY <2>1, <2>3, <1>2
  <2>5. ReadSoFar(N, acc, g.pos, i) = t + m
    <3>1. ReadSoFar(N, acc, g.pos, i) = acc[i - 1] + (c.off + m)
      BY <2>3, <1>5 DEF ReadSoFar
    <3>2. acc[i - 1] + (c.off + m) = t + m
      <4> DEFINE x == acc[i - 1]
                 o == c.off
      <4>1. x \in Nat /\ o \in Nat /\ m \in Nat /\ t = x + o
        BY <1>1, <1>2, <1>4
      <4> HIDE DEF x, o, t
      <4>2. x + (o + m) = t + m
        BY <4>1
      <4> QED BY <4>2 DEF x, o
    <3> QED BY <3>1, <3>2
  <2>6. g.pos.off < l
    <3> DEFINE e == c.off + m
    <3>1. g.pos.off = e
      BY <2>3, <1>5
    <3>2. e # l
      BY <1>5, <1>12
    <3>3. c.off \in Nat /\ m \in Nat /\ l \in Nat /\ e <= l
      BY <1>1, <1>2, <1>4
    <3> DEFINE o == c.off
    <3>4. e = o + m /\ o \in Nat
      BY <3>3
    <3> HIDE DEF e, l, o
    <3>5. e < l
      BY <3>2, <3>3, <3>4
    <3> QED BY <3>1, <3>5
  <2> HIDE DEF t
  <2>7. Reading(heap, b, N, ps, acc, z, n, g, i)
    BY <2>3, <2>4, <2>5, <2>6, <1>1, <1>5, <1>9, <1>10 DEF Reading, C, l, p
  <2> QED BY <2>4, <2>7 DEF g
<1> QED BY <1>11, <1>12

\* A loop that has read all it was to, or the whole list, goes on no more.
LEMMA ReadStepEnds ==
    ASSUME NEW b \in Buffers, NEW N, NEW ps, NEW acc, Enumerates(heap, b, N, ps, acc),
           NEW z, NEW n, NEW s, NEW i, Reading(heap, b, N, ps, acc, z, n, s, i),
           s.left = 0 \/ i = N + 1
    PROVE  ReadStep(s) = s
<1>1. s.pos.buf = b /\ s.pos.it = ps[i] /\ ps[N + 1] = b
  BY DEF Reading, Enumerates
<1>2. s.over \/ s.left = 0 \/ s.pos.it = s.pos.buf
  BY <1>1
<1> QED BY <1>2 DEF ReadStep

ReadStart(c, n) == [pos |-> c, left |-> n, dat |-> << >>, ok |-> TRUE, over |-> FALSE]

\* The loop ends with all that was asked for, or behind the last page.
LEMMA ReadLoopReads ==
    ASSUME HeapOK(heap), Filled(heap), NEW b \in Buffers, NEW N, NEW ps, NEW acc,
           Enumerates(heap, b, N, ps, acc), NEW z \in Nat, NEW n \in Nat, NEW c, NEW i,
           Reading(heap, b, N, ps, acc, z, n, ReadStart(c, n), i)
    PROVE  \E j : /\ Reading(heap, b, N, ps, acc, z, n, ReadLoop(c, n), j)
                  /\ ReadLoop(c, n).left = 0 \/ j = N + 1
<1> DEFINE C == Cardinality(PageIds)
           a == ReadStart(c, n)
           Midway(s, j) == Reading(heap, b, N, ps, acc, z, n, s, j)
           Far(s, j, k) == s.left = 0 \/ j = N + 1 \/ j >= k + 1
           S == [k \in 0..C |-> {s \in RunType : \E j : Midway(s, j) /\ Far(s, j, k)}]
           R == {s \in RunType : \E j : Midway(s, j)}
           F == [k \in 1..C |-> [s \in R |-> ReadStep(s)]]
           Rule(w) == w = [k \in 0..C |-> IF k = 0 THEN a ELSE ReadStep(w[k - 1])]
<1>1. C \in Nat /\ N <= C /\ N \in Nat
  BY EnumBounded DEF Enumerates
<1>2. ReadLoop(c, n) = (CHOOSE w : Rule(w))[C]
  BY DEF ReadLoop, ReadStart
<1>3. \A s, j : Midway(s, j) => s \in RunType /\ j \in 1..(N + 1)
  BY DEF Reading
<1> HIDE DEF C, a, Midway
<1>4. a \in S[0]
  <2>1. a \in RunType /\ Midway(a, i) /\ i \in 1..(N + 1)
    BY <1>3 DEF Midway, a
  <2>2. Far(a, i, 0) /\ 0 \in 0..C
    BY <2>1, <1>1
  <2> QED BY <2>1, <2>2
<1>5. ASSUME NEW k \in 1..C, NEW s, s \in S[k - 1] PROVE ReadStep(s) \in S[k]
  <2>1. k - 1 \in 0..C /\ k \in 0..C
    BY <1>1
  <2>2. PICK j : Midway(s, j) /\ Far(s, j, k - 1)
    BY <2>1, <1>5
  <2>3. CASE s.left = 0 \/ j = N + 1
    <3>1. ReadStep(s) = s
      BY <2>2, <2>3, ReadStepEnds DEF Midway
    <3> QED BY <3>1, <2>1, <2>2, <2>3, <1>3
  <2>4. CASE s.left # 0 /\ j # N + 1
    <3>1. j \in 1..N /\ j >= k
      BY <2>2, <2>4, <1>1, <1>3
    <3>2. j <= N /\ ~s.over
      BY <3>1, <2>2, <2>4, <1>1 DEF Midway, Reading, RunType
    <3>3. \/ Midway(ReadStep(s), j + 1)
          \/ Midway(ReadStep(s), j) /\ ReadStep(s).left = 0
      BY <3>2, <2>2, <2>4, ReadStepReads DEF Midway
    <3>4. j + 1 >= k + 1
      BY <3>1, <1>1
    <3> QED BY <3>3, <3>4, <2>1, <1>3
  <2> QED BY <2>3, <2>4
<1>6. \A k \in 0..C : S[k] \subseteq R
  OBVIOUS
<1> HIDE DEF S, R
<1>7. PICK f : ByRule(f, a, F, C)
  <2> HIDE DEF F
  <2> QED BY <1>1, RuleExists
<1>8. f[0] = a /\ \A k \in 1..C : f[k] = F[k][f[k - 1]]
  <2> HIDE DEF F
  <2> QED BY <1>7, <1>1, RuleSteps
<1>9. \A k \in 0..C : f[k] \in S[k]
  <2>1. ASSUME NEW k \in 1..C, f[k - 1] \in S[k - 1] PROVE f[k] \in S[k]
    <3>1. f[k - 1] \in R
      <4>1. k - 1 \in 0..C
        BY <1>1
      <4> QED BY <4>1, <2>1, <1>6
    <3>2. f[k] = ReadStep(f[k - 1])
      BY <3>1, <1>8
    <3> QED BY <3>2, <2>1, <1>5
  <2> HIDE DEF F
  <2> QED BY <2>1, <1>1, <1>4, <1>8, Along
<1>10. \A k \in 1..C : f[k] = ReadStep(f[k - 1])
  <2> SUFFICES ASSUME NEW k \in 1..C PROVE f[k] = ReadStep(f[k - 1])
    OBVIOUS
  <2>1. f[k - 1] \in R
    <3>1. k - 1 \in 0..C
      BY <1>1
    <3> QED BY <3>1, <1>6, <1>9
  <2> QED BY <2>1, <1>8
<1>11. \E w : Rule(w)
  <2> DEFINE g == [k \in 0..C |-> f[k]]
  <2>1. ASSUME NEW k \in 0..C PROVE g[k] = IF k = 0 THEN a ELSE ReadStep(g[k - 1])
    <3>1. CASE k = 0
      BY <3>1, <1>8
    <3>2. CASE k # 0
      <4>1. k \in 1..C /\ k - 1 \in 0..C
        BY <3>2, <1>1
      <4> QED BY <4>1, <3>2, <1>10
    <3> QED BY <3>1, <3>2
  <2>2. g = [k \in 0..C |-> g[k]]
    OBVIOUS
  <2> HIDE DEF g
  <2>3. Rule(g)
    BY <2>1, <2>2
  <2> QED BY <2>3
<1>12. PICK w : Rule(w) /\ ReadLoop(c, n) = w[C]
  <2> HIDE DEF Rule
  <2> QED BY <1>2, <1>11
<1>13. w[0] = a /\ \A k \in 1..C : w[k] = ReadStep(w[k - 1])
  <2>1. 0 \in 0..C /\ \A k \in 1..C : k \in 0..C /\ k # 0
    BY <1>1
  <2> QED BY <2>1, <1>12
<1> HIDE DEF Rule
<1>14. \A k \in 0..C : f[k] = w[k]
  <2>1. f[0] = w[0] /\ \A k \in 1..C : f[k - 1] = w[k - 1] => f[k] = w[k]
    BY <1>8, <1>10, <1>13
  <2> QED BY <2>1, <1>1, SameRule
<1>15. ReadLoop(c, n) \in S[C]
  <2>1. C \in 0..C
    BY <1>1
  <2> QED BY <2>1, <1>9, <1>12, <1>14
<1>16. PICK j : Midway(ReadLoop(c, n), j) /\ Far(ReadLoop(c, n), j, C)
  BY <1>1, <1>15 DEF S
<1>17. ReadLoop(c, n).left = 0 \/ j = N + 1
  BY <1>1, <1>3, <1>16
<1> QED BY <1>16, <1>17 DEF Midway

-----------------------------------------------------------------------------
(* Where a reader stands between its calls.                                *)

\* The reader c of b, which will not start again, has t bytes behind it.
Stands(h, b, N, ps, acc, c, i, t) ==
    /\ c \in ReaderType /\ c.buf = b /\ c.stale = FALSE
    /\ Spot(h, N, ps, acc, c, i, t)

At(h, b, c, t) ==
    \E N, ps, acc, i : Enumerates(h, b, N, ps, acc) /\ Stands(h, b, N, ps, acc, c, i, t)

LEMMA AtIsSpot ==
    ASSUME NEW h, NEW b, NEW c, NEW t
    PROVE  At(h, b, c, t) <=> /\ c \in ReaderType /\ c.buf = b /\ c.stale = FALSE
                              /\ SpotAt(h, b, c, t)
  BY DEF At, Stands, SpotAt

LEMMA StandsWithin ==
    ASSUME NEW h, HeapOK(h), NEW b \in Buffers, NEW N, NEW ps, NEW acc,
           Enumerates(h, b, N, ps, acc), NEW c, NEW i, NEW t,
           Stands(h, b, N, ps, acc, c, i, t)
    PROVE  t \in Nat /\ t <= acc[N] /\ acc[N] \in Nat /\ N \in Nat
<1>1. Spot(h, N, ps, acc, c, i, t)
  BY DEF Stands
<1> QED BY <1>1, SpotWithin

LEMMA AtHeadStands ==
    ASSUME HeapOK(heap), Filled(heap), NEW b \in Buffers, NEW N, NEW ps, NEW acc,
           Enumerates(heap, b, N, ps, acc), NEW c, c = AtHead(b)
    PROVE  \E i : Stands(heap, b, N, ps, acc, c, i, 0)
<1>1. N \in Nat /\ ps[0] = b /\ ps[N + 1] = b /\ acc[0] = 0 /\ \A i \in 1..N : ps[i] \in Mine(heap, b)
  <2>1. N \in Nat /\ acc[0] = 0 /\ \A i \in 1..N : ps[i] \in Mine(heap, b)
    BY SumsGrow
  <2> QED BY <2>1 DEF Enumerates
<1>2. heap.nxt[b] = ps[1] /\ ps[1] \in Nodes
  <2>1. 0 \in 0..N /\ 0 + 1 = 1 /\ 1 \in 0..(N + 1)
    BY <1>1
  <2>2. heap.nxt[ps[0]] = ps[0 + 1]
    BY <2>1, EnumNext
  <2> QED BY <2>1, <2>2, <1>1 DEF Enumerates
<1>3. c \in ReaderType /\ c.buf = b /\ c.stale = FALSE /\ c.it = ps[1] /\ c.off = 0
  BY <1>2 DEF AtHead, ReaderType
<1>4. CASE N = 0
  <2>1. Stands(heap, b, N, ps, acc, c, 0, 0)
    BY <1>1, <1>3, <1>4 DEF Stands, Spot
  <2> QED BY <2>1
<1>5. CASE N # 0
  <2>1. 1 \in 1..N /\ 1 - 1 = 0 /\ 1 \in 0..N
    BY <1>1, <1>5
  <2>2. heap.page[ps[1]].len \in Nat /\ heap.page[ps[1]].len > 0
    BY <2>1, <1>1, SumsGrow DEF Filled, Mine
  <2>3. Stands(heap, b, N, ps, acc, c, 1, 0)
    BY <2>1, <2>2, <1>1, <1>3 DEF Stands, Spot
  <2> QED BY <2>3
<1> QED BY <1>4, <1>5

\* The entry of the loop.
LEMMA ReadBegins ==
    ASSUME HeapOK(heap), Filled(heap), NEW b \in Buffers, NEW N, NEW ps, NEW acc,
           Enumerates(heap, b, N, ps, acc), NEW c, NEW i, NEW t,
           Stands(heap, b, N, ps, acc, c, i, t), NEW n \in Nat
    PROVE  \E j : Reading(heap, b, N, ps, acc, t, n, ReadStart(LeavePage(c), n), j)
<1>1. /\ t \in Nat /\ t <= acc[N] /\ acc[N] \in Nat /\ N \in Nat /\ i \in 0..N
      /\ c \in ReaderType /\ c.buf = b /\ c.stale = FALSE /\ c.it = ps[i] /\ c.off \in Nat
      /\ ps[0] = b /\ ps[N + 1] = b /\ acc[0] = 0 /\ N + 1 \in 0..(N + 1)
  <2>1. t \in Nat /\ t <= acc[N] /\ acc[N] \in Nat /\ N \in Nat /\ acc[0] = 0
    BY StandsWithin, SumsGrow
  <2>2. ps[0] = b /\ ps[N + 1] = b
    BY DEF Enumerates
  <2> QED BY <2>1, <2>2 DEF Stands, Spot, ReaderType
<1>2. SubSeq(Content(heap, b), t + 1, t) = << >>
  BY <1>1, ContentLen, NoPiece
<1>3. \A d \in ReaderType : LET s == ReadStart(d, n)
                            IN  /\ s \in RunType /\ s.pos = d /\ s.left = n /\ s.dat = << >>
                                /\ s.ok = TRUE /\ s.over = FALSE
  BY DEF ReadStart, RunType
<1>4. CASE i # 0 /\ c.off # heap.page[ps[i]].len
  <2>1. i \in 1..N /\ heap.page[ps[i]].len \in Nat /\ ps[i] \in Mine(heap, b)
    BY <1>1, <1>4, SumsGrow
  <2>2. NodeLen(heap, ps[i]) = heap.page[ps[i]].len /\ c.off < heap.page[ps[i]].len
    BY <2>1, <1>1, <1>4, PageFacts DEF Stands, Spot
  <2>3. LeavePage(c) = c
    BY <2>2, <1>1, <1>4 DEF LeavePage
  <2>4. ReadSoFar(N, acc, c, i) = t
    BY <2>1, <1>4 DEF ReadSoFar, Stands, Spot
  <2> DEFINE s == ReadStart(c, n)
  <2>5. /\ s \in RunType /\ s.pos = c /\ s.left = n /\ s.dat = << >>
        /\ s.ok = TRUE /\ s.over = FALSE
    BY <1>1, <1>3
  <2> HIDE DEF s
  <2>6. Reading(heap, b, N, ps, acc, t, n, s, i)
    BY <2>1, <2>2, <2>4, <2>5, <1>1, <1>2 DEF Reading
  <2> QED BY <2>3, <2>6 DEF s
<1>5. CASE i = 0 \/ c.off = heap.page[ps[i]].len
  <2> DEFINE d == [c EXCEPT !.it = heap.nxt[c.it]]
             s == ReadStart(d, n)
  <2>1. i = N /\ NodeLen(heap, ps[i]) = c.off
    <3>1. CASE i = 0
      BY <3>1, <1>1, HeapAssumption DEF Stands, Spot, NodeLen
    <3>2. CASE i # 0
      <4>1. ps[i] \in Mine(heap, b)
        BY <3>2, <1>1, SumsGrow
      <4> QED BY <4>1, <3>2, <1>5, PageFacts DEF Stands, Spot
    <3> QED BY <3>1, <3>2
  <2>2. heap.nxt[ps[N]] = ps[N + 1]
    BY <1>1, EnumNext
  <2>3. LeavePage(c) = d
    BY <2>1, <1>1 DEF LeavePage
  <2>4. MovedReader(d, c, ps[N + 1], c.off)
    <3>1. ps[N + 1] \in Nodes \cup {NULL}
      BY <1>1 DEF Nodes
    <3>2. d = [c EXCEPT !.it = ps[N + 1]]
      BY <2>1, <2>2, <1>1
    <3> HIDE DEF d
    <3> QED BY <3>1, <3>2, <1>1, ReaderLeaves
  <2> HIDE DEF d
  <2>5. /\ s \in RunType /\ s.pos = d /\ s.left = n /\ s.dat = << >>
        /\ s.ok = TRUE /\ s.over = FALSE
    BY <2>4, <1>3 DEF MovedReader
  <2> HIDE DEF s
  <2>6. t = acc[N]
    <3>1. CASE i = 0
      BY <3>1, <1>1 DEF Stands, Spot
    <3>2. CASE i # 0
      <4>1. i \in 1..N
        BY <3>2, <1>1
      <4>2. acc[i] = acc[i - 1] + heap.page[ps[i]].len
        BY <4>1, SumsGrow
      <4> QED BY <4>2, <3>2, <2>1, <1>5 DEF Stands, Spot
    <3> QED BY <3>1, <3>2
  <2>7. ReadSoFar(N, acc, s.pos, N + 1) = t
    BY <2>6, <1>1 DEF ReadSoFar
  <2>8. Reading(heap, b, N, ps, acc, t, n, s, N + 1)
    BY <2>4, <2>5, <2>7, <1>1, <1>2 DEF Reading, MovedReader
  <2> QED BY <2>3, <2>8 DEF s
<1> QED BY <1>4, <1>5

\* A read that began with z bytes behind the reader has ended with t.
ReadDone(b, N, ps, acc, z, n, s, t) ==
    /\ \E i : Stands(heap, b, N, ps, acc, StepBack(s.pos), i, t)
    /\ t = Lower(z + n, acc[N]) /\ t \in Nat /\ z <= t /\ t <= acc[N] /\ s.ok = TRUE
    /\ s.dat = SubSeq(Content(heap, b), z + 1, t)

\* The end of the loop: all that was asked for, or all that there is.
LEMMA ReadEnds ==
    ASSUME HeapOK(heap), NEW b \in Buffers, NEW N, NEW ps, NEW acc,
           Enumerates(heap, b, N, ps, acc), NEW z \in Nat, NEW n \in Nat, NEW s, NEW j,
           Reading(heap, b, N, ps, acc, z, n, s, j), s.left = 0 \/ j = N + 1,
           NEW t, t = ReadSoFar(N, acc, s.pos, j)
    PROVE  ReadDone(b, N, ps, acc, z, n, s, t)
<1> DEFINE c == s.pos
           f == acc[N]
           left == s.left
<1>0. N \in Nat /\ acc[0] = 0 /\ f \in Nat /\ ps[0] = b /\ ps[N + 1] = b
  <2>1. N \in Nat /\ acc[0] = 0
    BY SumsGrow
  <2>2. N \in 0..N
    BY <2>1
  <2>3. f \in Nat
    BY <2>2, SumsGrow
  <2> QED BY <2>1, <2>3 DEF Enumerates
<1>1. /\ s \in RunType /\ j \in 1..(N + 1) /\ c.it = ps[j] /\ c.buf = b /\ c.stale = FALSE
      /\ s.ok = TRUE /\ (j <= N => c.off < heap.page[ps[j]].len)
      /\ t \in Nat /\ t <= f /\ z <= t /\ left + t = z + n
      /\ s.dat = SubSeq(Content(heap, b), z + 1, t)
  BY DEF Reading
<1>2. c \in ReaderType /\ c.off \in Nat /\ left \in Nat
  BY <1>1 DEF RunType, ReaderType
<1>3. left = 0 \/ j = N + 1
  OBVIOUS
<1>4. j = N + 1 => t = f
  BY <1>0 DEF ReadSoFar
<1> HIDE DEF c, f, left
<1>5. t = Lower(z + n, f)
  <2>1. left = 0 => t = z + n
    BY <1>1
  <2>2. left # 0 => t = f /\ t < z + n
    BY <1>1, <1>2, <1>3, <1>4
  <2>3. z + n \in Nat /\ f \in Nat /\ t \in Nat /\ t <= f
    BY <1>0, <1>1
  <2> QED BY <2>1, <2>2, <2>3 DEF Lower
<1>6. \E i : Stands(heap, b, N, ps, acc, StepBack(c), i, t)
  <2>1. CASE j # N + 1
    <3>1. j \in 1..N /\ j \in 0..N /\ j <= N
      BY <2>1, <1>0, <1>1
    <3>2. ps[j] \in Mine(heap, b) /\ heap.page[ps[j]].len \in Nat
      BY <3>1, SumsGrow
    <3>3. c.it # c.buf
      BY <3>2, <1>1, PageFacts
    <3>4. StepBack(c) = c
      BY <3>3 DEF StepBack
    <3>5. t = acc[j - 1] + c.off
      BY <3>1 DEF ReadSoFar, c
    <3>6. c.off < heap.page[ps[j]].len
      BY <3>1, <1>1
    <3>7. c.off <= heap.page[ps[j]].len /\ c.off # heap.page[ps[j]].len
      BY <3>2, <3>6, <1>2
    <3>8. Stands(heap, b, N, ps, acc, c, j, t)
      BY <3>1, <3>5, <3>7, <1>1, <1>2 DEF Stands, Spot
    <3> QED BY <3>4, <3>8
  <2>2. CASE j = N + 1
    <3> DEFINE l == NodeLen(heap, ps[N])
               d == [c EXCEPT !.it = ps[N], !.off = l]
    <3>1. N \in 0..N /\ ps[N] \in Nodes /\ heap.nxt[ps[N]] = b
      <4>1. N \in 0..N
        BY <1>0
      <4> QED BY <4>1, <1>0, EnumNode, EnumNext
    <3>2. heap.prv[b] = ps[N]
      <4>1. b # NULL
        BY HeapAssumption
      <4>2. Linked(heap, ps[N])
        BY <3>1, <4>1 DEF Linked
      <4> QED BY <3>1, <4>2, Neighbours
    <3>3. StepBack(c) = d
      <4>1. c.it = c.buf /\ c.it = b
        BY <2>2, <1>0, <1>1
      <4> QED BY <4>1, <3>2, <1>2 DEF StepBack, ReaderType
    <3>4. l \in Nat
      BY NodeLenType
    <3>5. MovedReader(d, c, ps[N], l)
      <4>1. ps[N] \in Nodes \cup {NULL}
        BY <3>1
      <4> HIDE DEF d, l
      <4> QED BY <4>1, <3>4, <1>2, ReaderMoves DEF d
    <3> HIDE DEF d
    <3>6. CASE N = 0
      <4>1. l = 0 /\ t = 0
        BY <3>6, <2>2, <1>0, <1>4, HeapAssumption DEF NodeLen, f
      <4>2. Stands(heap, b, N, ps, acc, d, 0, 0)
        BY <4>1, <3>1, <3>5, <3>6, <1>1 DEF Stands, Spot, MovedReader
      <4> QED BY <4>1, <4>2, <3>3
    <3>7. CASE N # 0
      <4>1. N \in 1..N
        BY <3>7, <1>0
      <4>2. ps[N] \in Mine(heap, b) /\ acc[N] = acc[N - 1] + heap.page[ps[N]].len
        BY <4>1, SumsGrow
      <4>3. l = heap.page[ps[N]].len
        BY <4>2, PageFacts
      <4>4. t = acc[N - 1] + l
        BY <4>2, <4>3, <2>2, <1>4 DEF f
      <4>5. d.off = l /\ l <= l
        BY <3>4, <3>5 DEF MovedReader
      <4>6. Spot(heap, N, ps, acc, d, N, t)
        <5>1. d.it = ps[N] /\ d.off \in Nat /\ N \in 0..N /\ N # 0
          BY <4>1, <4>5, <3>4, <3>5 DEF MovedReader
        <5> QED BY <5>1, <4>3, <4>4, <4>5 DEF Spot
      <4>7. Stands(heap, b, N, ps, acc, d, N, t)
        BY <4>6, <3>5, <1>1 DEF Stands, MovedReader
      <4> QED BY <4>7, <3>3
    <3> QED BY <3>6, <3>7
  <2> QED BY <2>1, <2>2
<1> QED BY <1>1, <1>5, <1>6 DEF c, f, ReadDone

\* What a reader knows of its position: nothing if it will start at the head.
Knows(c, b, z) ==
    /\ c \in ReaderType /\ c.buf = b /\ z \in Nat
    /\ c.stale = TRUE => z = 0
    /\ c.stale = FALSE => At(heap, b, c, z)

LEMMA AtWithin ==
    ASSUME NEW h, HeapOK(h), NEW b \in Buffers, NEW c, NEW t, At(h, b, c, t)
    PROVE  /\ Content(h, b) \in Seq(Byte) /\ t \in Nat /\ t <= Len(Content(h, b))
           /\ c \in ReaderType /\ c.buf = b /\ c.stale = FALSE
<1>1. PICK N, ps, acc, i : Enumerates(h, b, N, ps, acc) /\ Stands(h, b, N, ps, acc, c, i, t)
  BY DEF At
<1>2. t \in Nat /\ t <= acc[N]
  BY <1>1, StandsWithin
<1>3. Content(h, b) \in Seq(Byte) /\ Len(Content(h, b)) = acc[N]
  BY <1>1, ContentLen
<1> QED BY <1>1, <1>2, <1>3 DEF Stands, Spot

\* A read of n bytes behind the first z of b has the result res and ends behind the
\* first t.
ReadIs(b, z, n, res, t) ==
    /\ res.ok = TRUE /\ At(heap, b, res.pos, t)
    /\ t \in Nat /\ z <= t /\ t <= Len(Content(heap, b))
    /\ res.dat = SubSeq(Content(heap, b), z + 1, t)
    /\ t = Lower(z + n, Len(Content(heap, b)))

\* What pb_data_reader_read does.
LEMMA ReadRight ==
    ASSUME HeapOK(heap), Filled(heap), NEW b \in Buffers, Listed(heap, b), NEW c, NEW z,
           Knows(c, b, z), NEW n \in Nat
    PROVE  \E t : ReadIs(b, z, n, ReadResult(c, n), t)
<1> DEFINE res == ReadResult(c, n)
           t == Lower(z + n, Len(Content(heap, b)))
<1>0. res = ReadResult(c, n) /\ t = Lower(z + n, Len(Content(heap, b)))
  OBVIOUS
<1> HIDE DEF res, t
<1> DEFINE d == Current(c)
           s == ReadLoop(LeavePage(d), n)
<1>1. PICK N, ps, acc, i : Enumerates(heap, b, N, ps, acc) /\ Stands(heap, b, N, ps, acc, d, i, z)
  <2>1. CASE c.stale = TRUE
    <3>1. PICK N, ps, acc : Enumerates(heap, b, N, ps, acc)
      BY DEF Listed
    <3>2. d = AtHead(b) /\ z = 0
      BY <2>1 DEF Knows, Current
    <3> HIDE DEF d
    <3>3. \E i : Stands(heap, b, N, ps, acc, d, i, 0)
      BY <3>1, <3>2, AtHeadStands
    <3> QED BY <3>1, <3>2, <3>3
  <2>2. CASE c.stale = FALSE
    <3>1. d = c /\ At(heap, b, c, z)
      BY <2>2 DEF Knows, Current
    <3> QED BY <3>1 DEF At
  <2>3. c.stale \in BOOLEAN
    BY DEF Knows, ReaderType
  <2> QED BY <2>1, <2>2, <2>3
<1> HIDE DEF d
<1>2. z \in Nat /\ Len(Content(heap, b)) = acc[N]
  <2>1. Len(Content(heap, b)) = acc[N]
    BY <1>1, ContentLen
  <2> QED BY <2>1 DEF Knows
<1>3. PICK k : Reading(heap, b, N, ps, acc, z, n, ReadStart(LeavePage(d), n), k)
  BY <1>1, <1>2, ReadBegins
<1>4. PICK j : Reading(heap, b, N, ps, acc, z, n, s, j) /\ (s.left = 0 \/ j = N + 1)
  BY <1>1, <1>2, <1>3, ReadLoopReads
<1> HIDE DEF s
<1> DEFINE e == ReadSoFar(N, acc, s.pos, j)
<1>e. e = ReadSoFar(N, acc, s.pos, j)
  OBVIOUS
<1> HIDE DEF e
<1>5. /\ \E m : Stands(heap, b, N, ps, acc, StepBack(s.pos), m, e)
      /\ e = Lower(z + n, acc[N]) /\ e \in Nat /\ z <= e /\ e <= acc[N] /\ s.ok = TRUE
      /\ s.dat = SubSeq(Content(heap, b), z + 1, e)
  <2>1. Enumerates(heap, b, N, ps, acc) /\ z \in Nat
    BY <1>1, <1>2
  <2>2. Reading(heap, b, N, ps, acc, z, n, s, j) /\ (s.left = 0 \/ j = N + 1)
    BY <1>4
  <2>3. ReadDone(b, N, ps, acc, z, n, s, e)
    BY <2>1, <2>2, <1>e, ReadEnds
  <2> QED BY <2>3 DEF ReadDone
<1>6. e = t
  BY <1>0, <1>2, <1>5
<1>7. res = [s EXCEPT !.pos = StepBack(@)]
  BY <1>0, <1>5 DEF ReadResult, s, d
<1>8. res.ok = TRUE /\ res.pos = StepBack(s.pos) /\ res.dat = s.dat
  <2>1. s \in RunType
    BY <1>4 DEF Reading
  <2> QED BY <2>1, <1>5, <1>7 DEF RunType
<1>9. At(heap, b, res.pos, t)
  BY <1>1, <1>5, <1>6, <1>8 DEF At
<1>10. ReadIs(b, z, n, res, t)
  BY <1>0, <1>2, <1>5, <1>6, <1>8, <1>9 DEF ReadIs
<1> QED BY <1>10, <1>0

\* A reader goes on where it stopped.
LEMMA GivenGoesOn ==
    ASSUME NEW C \in Seq(Byte), NEW z \in Nat, NEW t \in Nat, z <= t, t <= Len(C)
    PROVE  /\ SubSeq(C, 1, z) \o SubSeq(C, z + 1, t) = SubSeq(C, 1, t)
           /\ SubSeq(C, 1, t) \in Seq(Byte) /\ Len(SubSeq(C, 1, t)) = t
<1>1. 0 \in Nat /\ 0 + 1 = 1 /\ 0 <= z /\ t - 0 = t /\ 0 <= t
  OBVIOUS
<1>2. SubSeq(C, 0 + 1, z) \o SubSeq(C, z + 1, t) = SubSeq(C, 0 + 1, t)
  BY <1>1, Spliced
<1>3. SubSeq(C, 0 + 1, t) \in Seq(Byte) /\ Len(SubSeq(C, 0 + 1, t)) = t - 0
  BY <1>1, PieceOf
<1> QED BY <1>1, <1>2, <1>3

\* consume counts what is behind the reader.
LEMMA BehindCounted ==
    ASSUME HeapOK(heap), NEW b \in Buffers, NEW c, NEW t, At(heap, b, c, t)
    PROVE  BytesBehind(c) = t
<1>1. PICK N, ps, acc, i : Enumerates(heap, b, N, ps, acc) /\ Stands(heap, b, N, ps, acc, c, i, t)
  BY DEF At
<1> DEFINE qs == PagesOf(heap, b)
           top(k) == IF k < i THEN acc[k] ELSE acc[IF i = 0 THEN 0 ELSE i - 1]
           Rule(f) == f = [k \in 0..Len(qs) |->
                              IF k = 0 THEN 0
                              ELSE IF \E j \in 1..k : qs[j] = c.it THEN f[k - 1]
                              ELSE f[k - 1] + NodeLen(heap, qs[k])]
<1>2. N \in Nat /\ acc[0] = 0 /\ i \in 0..N /\ c.buf = b /\ c.it = ps[i]
      /\ \A k \in 1..N : ps[k] \in Mine(heap, b) /\ acc[k] = acc[k - 1] + heap.page[ps[k]].len
  <2>1. N \in Nat /\ acc[0] = 0
        /\ \A k \in 1..N : ps[k] \in Mine(heap, b) /\ acc[k] = acc[k - 1] + heap.page[ps[k]].len
    BY <1>1, SumsGrow
  <2> QED BY <2>1, <1>1 DEF Stands, Spot
<1>3. PagesBehind(c) = (CHOOSE f : Rule(f))[Len(qs)]
  BY <1>2 DEF PagesBehind
<1>4. Len(qs) = N /\ \A k \in 1..N : qs[k] = ps[k]
  <2>1. qs = [k \in 1..N |-> ps[k]]
    BY <1>1, WalkFindsPages
  <2> HIDE DEF qs
  <2> QED BY <2>1, <1>2
<1>5. \A k \in 1..N : (\E j \in 1..k : qs[j] = c.it) <=> (i # 0 /\ i <= k)
  <2> SUFFICES ASSUME NEW k \in 1..N
               PROVE  (\E j \in 1..k : qs[j] = c.it) <=> (i # 0 /\ i <= k)
    OBVIOUS
  <2>1. ASSUME NEW j \in 1..k, qs[j] = c.it PROVE i # 0 /\ i <= k
    <3>1. j \in 1..N /\ j \in 0..N
      BY <1>2
    <3>2. ps[j] = ps[i]
      BY <3>1, <2>1, <1>2, <1>4
    <3>0. i \in 0..N /\ j \in 0..N
      BY <3>1, <1>2
    <3> HIDE DEF qs, top, Rule
    <3>3. j = i
      BY <3>0, <3>2, <1>1, EnumOnce
    <3> QED BY <3>3
  <2>2. ASSUME i # 0, i <= k PROVE \E j \in 1..k : qs[j] = c.it
    <3>1. i \in 1..k /\ i \in 1..N
      BY <2>2, <1>2
    <3> QED BY <3>1, <1>2, <1>4
  <2> QED BY <2>1, <2>2
<1>6. \A k \in 1..N : NodeLen(heap, qs[k]) = heap.page[ps[k]].len
  BY <1>2, <1>4, PageFacts
<1> HIDE DEF qs
<1> DEFINE g == [k \in 0..N |-> top(k)]
<1>7. ASSUME NEW k \in 1..N
      PROVE  top(k) = IF \E j \in 1..k : qs[j] = c.it THEN top(k - 1)
                      ELSE top(k - 1) + NodeLen(heap, qs[k])
  <2>1. CASE i # 0 /\ i <= k
    <3>1. \E j \in 1..k : qs[j] = c.it
      BY <2>1, <1>5
    <3>2. top(k) = acc[i - 1]
      BY <2>1, <1>2
    <3>3. top(k - 1) = acc[i - 1]
      <4>1. CASE k = i
        <5>1. k - 1 < i /\ k - 1 = i - 1
          BY <4>1, <1>2
        <5> QED BY <5>1
      <4>2. CASE k # i
        <5>1. ~(k - 1 < i)
          BY <4>2, <2>1, <1>2
        <5> QED BY <5>1, <2>1
      <4> QED BY <4>1, <4>2
    <3> QED BY <3>1, <3>2, <3>3
  <2>2. CASE ~(i # 0 /\ i <= k)
    <3>1. i # 0
      BY <1>1, <1>2 DEF Stands, Spot
    <3>2. k < i /\ k - 1 < i
      BY <2>2, <3>1, <1>2
    <3>3. ~ \E j \in 1..k : qs[j] = c.it
      BY <2>2, <1>5
    <3>4. top(k) = acc[k] /\ top(k - 1) = acc[k - 1]
      BY <3>2
    <3> HIDE DEF top
    <3> QED BY <3>3, <3>4, <1>2, <1>6
  <2> QED BY <2>1, <2>2
<1>8. top(0) = 0
  <2>1. CASE i = 0
    BY <2>1, <1>2
  <2>2. CASE i # 0
    BY <2>2, <1>2
  <2> QED BY <2>1, <2>2
<1> HIDE DEF top
<1>9. Rule(g)
  <2>1. ASSUME NEW k \in 0..N
        PROVE  g[k] = IF k = 0 THEN 0
                      ELSE IF \E j \in 1..k : qs[j] = c.it THEN g[k - 1]
                      ELSE g[k - 1] + NodeLen(heap, qs[k])
    <3>1. CASE k = 0
      BY <3>1, <1>8
    <3>2. CASE k # 0
      <4>1. k \in 1..N /\ k - 1 \in 0..N
        BY <3>2, <1>2
      <4>2. g[k] = top(k) /\ g[k - 1] = top(k - 1)
        BY <4>1
      <4> QED BY <4>1, <4>2, <3>2, <1>7
    <3> QED BY <3>1, <3>2
  <2>2. g = [k \in 0..N |-> g[k]]
    OBVIOUS
  <2> HIDE DEF g
  <2> QED BY <2>1, <2>2, <1>4
<1>10. PICK f : Rule(f) /\ PagesBehind(c) = f[N]
  <2>1. \E f : Rule(f)
    BY <1>9
  <2> HIDE DEF Rule
  <2> QED BY <2>1, <1>3, <1>4
<1>11. f[N] = top(N)
  <2>1. f[0] = 0 /\ \A k \in 1..N : f[k] = IF \E j \in 1..k : qs[j] = c.it THEN f[k - 1]
                                           ELSE f[k - 1] + NodeLen(heap, qs[k])
    <3>1. 0 \in 0..N /\ \A k \in 1..N : k \in 0..N /\ k # 0
      BY <1>2
    <3> QED BY <3>1, <1>4, <1>10
  <2>2. \A k \in 1..N : k \in 0..N /\ k - 1 \in 0..N
    BY <1>2
  <2>3. g[0] = 0 /\ \A k \in 0..N : g[k] = top(k)
    BY <1>2, <1>8
  <2> HIDE DEF g, Rule
  <2>4. ASSUME NEW k \in 1..N, f[k - 1] = g[k - 1] PROVE f[k] = g[k]
    <3>1. g[k] = top(k) /\ g[k - 1] = top(k - 1)
      BY <2>2, <2>3
    <3> QED BY <3>1, <2>1, <2>4, <1>7
  <2>0. N \in Nat /\ f[0] = g[0] /\ \A k \in 1..N : f[k - 1] = g[k - 1] => f[k] = g[k]
    BY <2>1, <2>3, <2>4, <1>2
  <2>5. \A k \in 0..N : f[k] = g[k]
    BY <2>0, SameRule
  <2> QED BY <2>3, <2>5, <1>2
<1>12. PagesBehind(c) + c.off = t
  <2>1. CASE i = 0
    <3>1. N = 0 /\ c.off = 0 /\ t = 0
      BY <2>1, <1>1 DEF Stands, Spot
    <3> QED BY <3>1, <1>8, <1>10, <1>11
  <2>2. CASE i # 0
    <3>1. top(N) = acc[i - 1]
      BY <2>2, <1>2 DEF top
    <3>2. t = acc[i - 1] + c.off
      BY <2>2, <1>1 DEF Stands, Spot
    <3> HIDE DEF Rule
    <3> QED BY <3>1, <3>2, <1>10, <1>11
  <2> QED BY <2>1, <2>2
<1> QED BY <1>12 DEF BytesBehind

-----------------------------------------------------------------------------
(* What a step of a buffer leaves a reader.                                *)

-----------------------------------------------------------------------------
(* A reader beside the calls.                                              *)

\* d stands at the end of the last page.
Ends(h, d) == EndsAt(h, d.buf, d)

LEMMA KeptReader ==
    ASSUME NEW h, HeapOK(h), NEW g, HeapOK(g), NEW b \in Buffers, ListKept(g, h, b),
           BytesKept(g, h, b), Listed(h, b)
    PROVE  /\ Content(g, b) = Content(h, b)
           /\ \A c, t : At(h, b, c, t) => At(g, b, c, t)
  BY KeptContent, AtIsSpot

LEMMA AppendKeepsReader ==
    ASSUME NEW h, HeapOK(h), NEW g, HeapOK(g), NEW b \in Buffers, Appended(g, h, b),
           NEW c, NEW t, At(h, b, c, t), ~Ends(h, c)
    PROVE  /\ At(g, b, c, t) /\ ~Ends(g, c)
           /\ SubSeq(Content(g, b), 1, t) = SubSeq(Content(h, b), 1, t)
<1>1. c.buf = b /\ SpotAt(h, b, c, t) /\ EndsAt(h, b, c) = Ends(h, c)
  BY AtIsSpot DEF Ends
<1>2. ~EndsAt(h, b, c)
  BY <1>1
<1>3. SpotAt(g, b, c, t) /\ ~EndsAt(g, b, c) /\ FrontStands(g, h, b, t)
  BY <1>1, <1>2, AppendKeepsSpot
<1> QED BY <1>1, <1>3, AtIsSpot DEF Ends, FrontStands

\* c has changed the data of the buffer of reader d and will raise the revision.
Moved(c, d) == Moving(c) /\ c.buf = d.buf

\* The reader stands behind the bytes s, the front of its buffer.
InPlace(h, d, s) ==
    /\ At(h, d.buf, d, Len(s))
    /\ s = SubSeq(Content(h, d.buf), 1, Len(s))

\* c is not about to append where the reader waits.
Spared(h, c, d) == Appending(c) /\ c.buf = d.buf => ~Ends(h, d)

\* What is known of reader d, which has given s, while call c is in progress.
ReaderOK(h, c, d, s) ==
    /\ d \in ReaderType /\ s \in Seq(Byte)
    /\ d.buf # NULL => Exists(h, d.buf)
    /\ d.buf # NULL /\ d.stale = TRUE => s = << >>
    /\ d.buf # NULL /\ d.stale = FALSE => Moved(c, d) \/ (InPlace(h, d, s) /\ Spared(h, c, d))

LEMMA QuietSpares ==
    ASSUME NEW h, NEW c, ~Appending(c), NEW d
    PROVE  Spared(h, c, d)
  BY DEF Spared

\* A reader that is told to start again is well.
LEMMA StaleIsOK ==
    ASSUME NEW h, NEW c, NEW d \in ReaderType, d.buf # NULL => Exists(h, d.buf)
    PROVE  ReaderOK(h, c, [d EXCEPT !.stale = TRUE], << >>)
<1> DEFINE e == [d EXCEPT !.stale = TRUE]
<1>1. e \in ReaderType /\ e.buf = d.buf /\ e.stale = TRUE
  BY DEF ReaderType
<1>2. << >> \in Seq(Byte)
  OBVIOUS
<1> QED BY <1>1, <1>2 DEF ReaderOK

\* Where the list does not change a reader waits at its end or not as before.
LEMMA EndsStill ==
    ASSUME NEW h, NEW g, NEW b \in Buffers, ListKept(g, h, b), NEW d, NEW t, At(h, b, d, t)
    PROVE  Ends(g, d) <=> Ends(h, d)
<1>1. PICK N, ps, acc, i : Enumerates(h, b, N, ps, acc) /\ Stands(h, b, N, ps, acc, d, i, t)
  BY DEF At
<1>2. d.it \in Mine(h, b) \cup {b} /\ d.buf = b
  BY <1>1, EnumNode DEF Stands, Spot
<1>3. g.nxt[d.it] = h.nxt[d.it]
  BY <1>2 DEF ListKept
<1>4. NodeLen(g, d.it) = NodeLen(h, d.it)
  <2>1. CASE d.it \in Mine(h, b)
    <3>1. g.page[d.it].len = h.page[d.it].len
      BY <2>1 DEF ListKept
    <3> QED BY <3>1 DEF NodeLen
  <2>2. CASE d.it = b
    <3>1. d.it \notin PageIds
      BY <2>2, HeapAssumption
    <3> QED BY <3>1 DEF NodeLen
  <2> QED BY <1>2, <2>1, <2>2
<1> QED BY <1>3, <1>4 DEF Ends, EndsAt

\* A reader of a buffer that is left as it was stays where it is.
LEMMA ReaderStays ==
    ASSUME NEW h, HeapOK(h), NEW g, HeapOK(g), NEW c, NEW e, NEW d, NEW s,
           ReaderOK(h, c, d, s), d.buf # NULL, Listed(h, d.buf),
           ListKept(g, h, d.buf), BytesKept(g, h, d.buf), ~Moved(c, d),
           d.stale = FALSE => Spared(h, e, d)
    PROVE  ReaderOK(g, e, d, s)
<1> DEFINE b == d.buf
<1>1. d \in ReaderType /\ s \in Seq(Byte) /\ b \in Buffers
  BY DEF ReaderOK, ReaderType
<1>2. Exists(g, b)
  BY KeptChain DEF ReaderOK
<1>3. CASE d.stale = TRUE
  BY <1>1, <1>2, <1>3 DEF ReaderOK
<1>4. CASE d.stale = FALSE
  <2>1. InPlace(h, d, s) /\ Spared(h, e, d)
    BY <1>4 DEF ReaderOK
  <2>2. At(h, b, d, Len(s)) /\ s = SubSeq(Content(h, b), 1, Len(s))
    BY <2>1 DEF InPlace
  <2>3. Content(g, b) = Content(h, b) /\ At(g, b, d, Len(s))
    BY <1>1, <2>2, KeptReader
  <2>4. Ends(g, d) <=> Ends(h, d)
    BY <1>1, <2>2, EndsStill
  <2>5. InPlace(g, d, s)
    BY <2>2, <2>3 DEF InPlace
  <2>6. Spared(g, e, d)
    BY <2>1, <2>4 DEF Spared
  <2> QED BY <1>1, <1>2, <1>4, <2>5, <2>6 DEF ReaderOK
<1> QED BY <1>1, <1>3, <1>4 DEF ReaderType

\* A reader that does not wait at the end stays where it is when data is appended.
LEMMA AppendSpares ==
    ASSUME NEW h, HeapOK(h), NEW g, HeapOK(g), NEW c, NEW e, NEW d, NEW s,
           ReaderOK(h, c, d, s), d.buf # NULL, Exists(g, d.buf), Appended(g, h, d.buf),
           Appending(c), c.buf = d.buf
    PROVE  ReaderOK(g, e, d, s)
<1> DEFINE b == d.buf
<1>1. d \in ReaderType /\ s \in Seq(Byte) /\ b \in Buffers
  BY DEF ReaderOK, ReaderType
<1>2. ~Moved(c, d)
  BY DEF Moved, Moving, ReturnBumps, Appending, AppendFns
<1>3. CASE d.stale = TRUE
  BY <1>1, <1>3 DEF ReaderOK
<1>4. CASE d.stale = FALSE
  <2>1. InPlace(h, d, s) /\ Spared(h, c, d)
    BY <1>2, <1>4 DEF ReaderOK
  <2>2. At(h, b, d, Len(s)) /\ s = SubSeq(Content(h, b), 1, Len(s))
    BY <2>1 DEF InPlace
  <2>3. ~Ends(h, d)
    BY <2>1 DEF Spared
  <2>4. /\ At(g, b, d, Len(s)) /\ ~Ends(g, d)
        /\ SubSeq(Content(g, b), 1, Len(s)) = SubSeq(Content(h, b), 1, Len(s))
    BY <1>1, <2>2, <2>3, AppendKeepsReader
  <2>5. InPlace(g, d, s)
    BY <2>2, <2>4 DEF InPlace
  <2>6. Spared(g, e, d)
    BY <2>4 DEF Spared
  <2> QED BY <1>1, <1>4, <2>5, <2>6 DEF ReaderOK
<1> QED BY <1>1, <1>3, <1>4 DEF ReaderType

\* A step of a call leaves every reader well whose buffer keeps its revision.
LEMMA LibraryKeepsReader ==
    ASSUME CountSuffices, IInv, IInv', ListInv, FillInv, ClearBumps, Library, ~Return,
           NEW d, NEW s, ReaderOK(heap, call, d, s), d.buf \notin bumped'
    PROVE  ReaderOK(heap', call', d, s)
<1>1. CASE d.buf = NULL
  BY <1>1 DEF ReaderOK
<1>2. CASE d.buf # NULL
  <2>1. CallGoesOn /\ OwnEffect /\ OtherListsKept(heap', heap, call.buf)
    BY LibraryEffect DEF StepEffect
  <2>2. d.buf \in Buffers /\ Exists(heap, d.buf) /\ d \in ReaderType /\ s \in Seq(Byte)
    BY <1>2 DEF ReaderOK, ReaderType
  <2>3. Listed(heap, d.buf) /\ HeapOK(heap) /\ HeapOK(heap')
    BY <2>2, ListedIf DEF IInv
  <2>4. ASSUME d.buf # call.buf PROVE ReaderOK(heap', call', d, s)
    <3>1. ListKept(heap', heap, d.buf)
      BY <2>1, <2>2, <2>4 DEF OtherListsKept
    <3>2. \A p \in Mine(heap, d.buf) :
             /\ heap'.page[p] = heap.page[p]
             /\ PageBytes(heap', p, 0, heap.page[p].len) = PageBytes(heap, p, 0, heap.page[p].len)
      BY <2>4, StepLeavesOthers DEF Next, Mine
    <3>3. BytesKept(heap', heap, d.buf)
      BY <2>2, <2>3, <3>2, BytesKeptWhole
    <3>4. ~Moved(call, d) /\ Spared(heap, call', d)
      BY <2>1, <2>4 DEF Moved, Spared, CallGoesOn
    <3> QED BY <1>2, <2>3, <3>1, <3>3, <3>4, ReaderStays
  <2>5. ASSUME d.buf = call.buf PROVE ReaderOK(heap', call', d, s)
    <3>1. call'.buf = d.buf /\ call'.pc # "idle"
      BY <2>1, <2>5 DEF CallGoesOn
    <3>2. Exists(heap', d.buf)
      BY <3>1 DEF IInv, CallOK, Inside, Linked, Exists
    <3>3. ASSUME Moving(call') PROVE ReaderOK(heap', call', d, s)
      BY <2>2, <3>1, <3>2, <3>3 DEF ReaderOK, Moved
    <3>4. ASSUME heap' = heap, Moving(call) => Moving(call') PROVE ReaderOK(heap', call', d, s)
      <4>1. CASE Moving(call)
        BY <3>3, <3>4, <4>1
      <4>2. CASE ~Moving(call)
        <5>1. Appending(call') => Appending(call)
          BY <2>1 DEF CallGoesOn
        <5> QED BY <3>1, <3>4, <4>2, <5>1, <2>5 DEF ReaderOK, Moved, Spared
      <4> QED BY <4>1, <4>2
    <3>5. ASSUME Appending(call), Appended(heap', heap, call.buf)
          PROVE  ReaderOK(heap', call', d, s)
      BY <1>2, <2>3, <2>5, <3>2, <3>5, AppendSpares
    <3> QED BY <2>1, <2>5, <3>3, <3>4, <3>5 DEF OwnEffect
  <2> QED BY <2>4, <2>5
<1> QED BY <1>1, <1>2

\* Returning raises the revision of a buffer whose data moved.
LEMMA ReturnKeepsReader ==
    ASSUME IInv, ListInv, Return, NEW d, NEW s, ReaderOK(heap, call, d, s),
           d.buf \notin bumped', call.fn = "destroy" => d.buf # call.buf
    PROVE  ReaderOK(heap', call', d, s)
<1>1. CASE d.buf = NULL
  BY <1>1 DEF ReaderOK
<1>2. CASE d.buf # NULL
  <2> DEFINE b == call.buf
  <2>1. /\ call.pc \in {"loop", "ret"} /\ call' = Idle /\ HeapOK(heap) /\ heap \in Heap
        /\ heap' = IF call.fn = "destroy" THEN BufferFree(heap, b) ELSE heap
        /\ b \in Buffers
    BY DEF Return, IInv, HeapOK, CallOK
  <2>2. HeapOK(heap')
    BY ReturnKeeps DEF IInv
  <2>3. d.buf \in Buffers /\ Exists(heap, d.buf) /\ d \in ReaderType /\ s \in Seq(Byte)
    BY <1>2 DEF ReaderOK, ReaderType
  <2>4. Listed(heap, d.buf)
    BY <2>3, ListedIf
  <2>5. ~Moved(call, d)
    BY <2>1 DEF Return, Moved, Moving
  <2>6. heap'.page = heap.page /\ heap'.reg = heap.reg
    BY ReturnIsQuiet
  <2>7. BytesKept(heap', heap, d.buf)
    BY <2>6 DEF BytesKept, ByteAt
  <2>8. \A n \in Mine(heap, d.buf) \cup {d.buf} : heap'.nxt[n] = heap.nxt[n]
    <3>1. CASE call.fn # "destroy"
      BY <3>1, <2>1
    <3>2. CASE call.fn = "destroy"
      <4>1. b \notin Mine(heap, d.buf) \cup {d.buf} /\ Mine(heap, d.buf) \cup {d.buf} \subseteq Nodes
        BY <2>1, <2>3, <3>2, MineFacts, HeapAssumption DEF Nodes
      <4>2. \A n \in Nodes \ {b} : heap'.nxt[n] = heap.nxt[n]
        BY <2>1, <3>2 DEF BufferFree, Heap
      <4> QED BY <4>1, <4>2
    <3> QED BY <3>1, <3>2
  <2>9. ListKept(heap', heap, d.buf)
    BY <2>6, <2>8 DEF ListKept, Mine, LivePages
  <2>10. Spared(heap, call', d)
    BY <2>1 DEF Spared, Appending, Idle
  <2> QED BY <1>2, <2>1, <2>2, <2>4, <2>5, <2>7, <2>9, <2>10, ReaderStays
<1> QED BY <1>1, <1>2

-----------------------------------------------------------------------------
(* The client enters a call.                                               *)

\* A call that begins leaves every reader where it is that does not wait where it
\* appends.
LEMMA ClientKeepsReader ==
    ASSUME IInv, IInv', ListInv, Client, NEW d, NEW s, ReaderOK(heap, call, d, s),
           d.buf # NULL /\ d.stale = FALSE => Spared(heap, call', d)
    PROVE  ReaderOK(heap', call', d, s)
<1>1. CASE d.buf = NULL
  BY <1>1 DEF ReaderOK
<1>2. CASE d.buf # NULL
  <2>1. call.pc = "idle" /\ (Begun \/ Made) /\ HeapOK(heap) /\ HeapOK(heap') /\ heap \in Heap
    BY ClientBegins DEF IInv, HeapOK
  <2>2. d.buf \in Buffers /\ Exists(heap, d.buf)
    BY <1>2 DEF ReaderOK, ReaderType
  <2>3. Listed(heap, d.buf)
    BY <2>2, ListedIf
  <2>4. ~Moved(call, d)
    BY <2>1 DEF Moved, Moving
  <2>5. heap'.page = heap.page /\ heap'.reg = heap.reg
    BY ClientIsQuiet
  <2>6. BytesKept(heap', heap, d.buf)
    BY <2>5 DEF BytesKept, ByteAt
  <2>7. \A n \in Mine(heap, d.buf) \cup {d.buf} : heap'.nxt[n] = heap.nxt[n]
    <3>1. CASE Begun
      BY <3>1 DEF Begun
    <3>2. CASE Made
      <4>1. PICK b \in Buffers : ~Exists(heap, b) /\ heap' = BufferCreate(heap, b)
        BY <3>2 DEF Made
      <4>2. b # d.buf
        BY <2>2, <4>1
      <4>3. b \notin Mine(heap, d.buf) \cup {d.buf} /\ Mine(heap, d.buf) \cup {d.buf} \subseteq Nodes
        BY <2>2, <4>2, MineFacts, HeapAssumption DEF Nodes
      <4>4. \A n \in Nodes \ {b} : heap'.nxt[n] = heap.nxt[n]
        BY <2>1, <4>1 DEF BufferCreate, Heap
      <4> QED BY <4>3, <4>4
    <3> QED BY <2>1, <3>1, <3>2
  <2>8. ListKept(heap', heap, d.buf)
    BY <2>5, <2>7 DEF ListKept, Mine, LivePages
  <2> QED BY <1>2, <2>1, <2>3, <2>4, <2>6, <2>8, ReaderStays
<1> QED BY <1>1, <1>2

-----------------------------------------------------------------------------
(* The functions of a reader.                                              *)

ReadersOK(h, c, R, G) ==
    /\ R \in [Readers -> ReaderType] /\ G \in [Readers -> Seq(Byte)]
    /\ \A r \in Readers : ReaderOK(h, c, R[r], G[r])

\* The inductive invariant of the readers: each stands behind what it has given, is to
\* start again, or stands in a buffer whose call will still tell it so.
ReaderInv ==
    /\ ReadersOK(heap, call, reader, given)
    /\ ClearBumps
    /\ call.pc # "idle" /\ call.fn = "destroy" => \A r \in Readers : reader[r].buf # call.buf

\* One reader is changed, the others are not.
LEMMA OneReader ==
    ASSUME NEW h, NEW c, NEW R, NEW G, ReadersOK(h, c, R, G), NEW r \in Readers,
           NEW d, NEW s, ReaderOK(h, c, d, s),
           NEW R1, R1 = [R EXCEPT ![r] = d], NEW G1, G1 = [G EXCEPT ![r] = s]
    PROVE  ReadersOK(h, c, R1, G1)
<1>1. d \in ReaderType /\ s \in Seq(Byte)
  BY DEF ReaderOK
<1>2. R1 \in [Readers -> ReaderType] /\ G1 \in [Readers -> Seq(Byte)]
  BY <1>1 DEF ReadersOK
<1>3. ASSUME NEW q \in Readers PROVE ReaderOK(h, c, R1[q], G1[q])
  <2>1. CASE q = r
    <3>1. R1[q] = d /\ G1[q] = s
      BY <2>1 DEF ReadersOK
    <3> QED BY <3>1
  <2>2. CASE q # r
    <3>1. R1[q] = R[q] /\ G1[q] = G[q]
      BY <2>2 DEF ReadersOK
    <3> QED BY <3>1 DEF ReadersOK
  <2> QED BY <2>1, <2>2
<1> QED BY <1>2, <1>3 DEF ReadersOK

\* A call that appends nowhere finds the readers as no call left them.
LEMMA AnyCall ==
    ASSUME NEW h, NEW c, NEW e, NEW d, NEW s, ReaderOK(h, c, d, s), c.pc = "idle", ~Appending(e)
    PROVE  ReaderOK(h, e, d, s)
  BY DEF ReaderOK, Moved, Moving, Spared

\* A reader at the head has given nothing.
LEMMA HeadIsOK ==
    ASSUME IInv, ListInv, FillInv, NEW b \in Buffers, Exists(heap, b), NEW c, ~Appending(c),
           NEW d, d = AtHead(b)
    PROVE  ReaderOK(heap, c, d, << >>)
<1>1. HeapOK(heap) /\ Filled(heap) /\ Listed(heap, b)
  BY ListedIf DEF IInv, FillInv
<1>2. PICK N, ps, acc : Enumerates(heap, b, N, ps, acc)
  BY <1>1 DEF Listed
<1>3. At(heap, b, d, 0)
  BY <1>1, <1>2, AtHeadStands DEF At
<1>4. /\ Content(heap, b) \in Seq(Byte) /\ d \in ReaderType /\ d.buf = b /\ d.stale = FALSE
      /\ 0 <= Len(Content(heap, b)) /\ 0 \in Nat
  BY <1>1, <1>3, AtWithin
<1>5. SubSeq(Content(heap, b), 0 + 1, 0) = << >>
  BY <1>4, NoPiece
<1>6. << >> \in Seq(Byte) /\ Len(<< >>) = 0 /\ 0 + 1 = 1
  OBVIOUS
<1>7. InPlace(heap, d, << >>)
  BY <1>3, <1>4, <1>5, <1>6 DEF InPlace
<1>8. Spared(heap, c, d)
  BY DEF Spared
<1> QED BY <1>4, <1>6, <1>7, <1>8 DEF ReaderOK

\* What pb_data_reader_read of n bytes by reader d that has given s comes to: res is
\* where it stands then and what it got, u all it has given.
Gives(d, s, n, res, u) ==
    LET t == Lower(Len(s) + n, Len(Content(heap, d.buf)))
    IN  /\ res.ok = TRUE /\ At(heap, d.buf, res.pos, t)
        /\ u \in Seq(Byte) /\ Len(u) = t /\ u = SubSeq(Content(heap, d.buf), 1, t)

LEMMA ReadGives ==
    ASSUME IInv, ListInv, FillInv, NEW d, NEW s, ReaderOK(heap, call, d, s), call = Idle,
           d.buf # NULL, NEW n \in Nat, NEW res, res = ReadResult(d, n),
           NEW u, u = s \o res.dat
    PROVE  Gives(d, s, n, res, u)
<1> DEFINE b == d.buf
           C == Content(heap, b)
<1>1. d \in ReaderType /\ s \in Seq(Byte)
  BY DEF ReaderOK
<1>2. b \in Buffers /\ Exists(heap, b)
  BY <1>1 DEF ReaderOK, ReaderType
<1>3. HeapOK(heap) /\ Filled(heap) /\ Listed(heap, b)
  BY <1>2, ListedIf DEF IInv, FillInv
<1>4. C \in Seq(Byte)
  BY <1>2, ContentSized
<1>5. ~Moved(call, d)
  BY DEF Moved, Moving, Idle
<1>6. d.stale = FALSE => InPlace(heap, d, s)
  BY <1>1, <1>5 DEF ReaderOK
<1>7. d.stale = TRUE => s = << >>
  BY <1>1 DEF ReaderOK
<1>8. Knows(d, b, Len(s))
  <2>1. Len(s) \in Nat /\ (d.stale = TRUE => Len(s) = 0)
    BY <1>1, <1>7
  <2>2. d.stale = FALSE => At(heap, b, d, Len(s))
    BY <1>6 DEF InPlace
  <2> QED BY <1>1, <2>1, <2>2 DEF Knows
<1>9. s = SubSeq(C, 1, Len(s)) /\ Len(s) \in Nat
  <2>1. CASE d.stale = FALSE
    BY <1>1, <1>6, <2>1 DEF InPlace
  <2>2. CASE d.stale = TRUE
    <3>1. s = << >> /\ Len(s) = 0 /\ 0 + 1 = 1
      BY <1>7, <2>2
    <3>2. SubSeq(C, 0 + 1, 0) = << >>
      <4>1. 0 \in Nat /\ 0 <= Len(C)
        BY <1>4
      <4> HIDE DEF C
      <4> QED BY <1>4, <4>1, NoPiece
    <3> QED BY <3>1, <3>2
  <2> QED BY <1>1, <2>1, <2>2 DEF ReaderType
<1>10. PICK t : ReadIs(b, Len(s), n, res, t)
  BY <1>2, <1>3, <1>8, ReadRight
<1>11. /\ res.ok = TRUE /\ At(heap, b, res.pos, t)
       /\ t \in Nat /\ Len(s) <= t /\ t <= Len(C)
       /\ res.dat = SubSeq(C, Len(s) + 1, t)
       /\ t = Lower(Len(s) + n, Len(C))
  BY <1>10 DEF ReadIs
<1> HIDE DEF C
<1>12. SubSeq(C, 1, Len(s)) \o SubSeq(C, Len(s) + 1, t) = SubSeq(C, 1, t)
       /\ SubSeq(C, 1, t) \in Seq(Byte) /\ Len(SubSeq(C, 1, t)) = t
  BY <1>4, <1>9, <1>11, GivenGoesOn
<1>13. u = SubSeq(C, 1, t)
  BY <1>9, <1>11, <1>12
<1> QED BY <1>11, <1>12, <1>13 DEF Gives, C

\* After the read the reader is well, whatever call that appends nowhere begins.
LEMMA GivesOK ==
    ASSUME IInv, ListInv, NEW d, NEW s, ReaderOK(heap, call, d, s), d.buf # NULL,
           NEW n, NEW res, NEW u, Gives(d, s, n, res, u), NEW c, ~Appending(c)
    PROVE  ReaderOK(heap, c, res.pos, u) /\ res.pos.buf = d.buf
<1> DEFINE b == d.buf
<1>1. b \in Buffers /\ Exists(heap, b)
  BY DEF ReaderOK, ReaderType
<1>2. HeapOK(heap) /\ At(heap, b, res.pos, Len(u)) /\ u \in Seq(Byte)
      /\ u = SubSeq(Content(heap, b), 1, Len(u))
  BY DEF IInv, Gives
<1> HIDE DEF b
<1>3. res.pos \in ReaderType /\ res.pos.buf = b /\ res.pos.stale = FALSE
  BY <1>1, <1>2, AtWithin
<1>4. InPlace(heap, res.pos, u)
  BY <1>2, <1>3 DEF InPlace
<1>5. Spared(heap, c, res.pos)
  BY QuietSpares
<1>6. ReaderOK(heap, c, res.pos, u)
  BY <1>1, <1>2, <1>3, <1>4, <1>5 DEF ReaderOK
<1> QED BY <1>3, <1>6 DEF b

\* What is known of a reader between the calls.
LEMMA LiveReader ==
    ASSUME ReaderInv, call = Idle, NEW r \in Readers, Live(r)
    PROVE  /\ ReaderOK(heap, call, reader[r], given[r]) /\ reader[r].buf # NULL
           /\ reader[r].buf \in Buffers /\ Exists(heap, reader[r].buf)
<1>1. ReaderOK(heap, call, reader[r], given[r]) /\ reader[r].buf # NULL
  BY DEF ReaderInv, ReadersOK, Live
<1> QED BY <1>1 DEF ReaderOK, ReaderType

LEMMA ReaderInvIdle ==
    ASSUME ReadersOK(heap, Idle, reader, given)', call' = Idle
    PROVE  ReaderInv'
<1>1. call'.pc = "idle"
  BY DEF Idle
<1>2. ReadersOK(heap', call', reader', given')
  BY DEF Idle
<1> QED BY <1>1, <1>2 DEF ReaderInv, ClearBumps

LEMMA ForgetKeeps ==
    ASSUME ReaderInv, call = Idle, NEW r \in Readers, NEW d, ReaderOK(heap, call, d, << >>),
           Forget(r, d)
    PROVE  ReaderInv'
<1>1. /\ reader' = [reader EXCEPT ![r] = d] /\ given' = [given EXCEPT ![r] = << >>]
      /\ heap' = heap /\ call' = Idle
  BY DEF Forget
<1>2. ReadersOK(heap, Idle, reader', given')
  BY <1>1, OneReader DEF ReaderInv
<1> QED BY <1>1, <1>2, ReaderInvIdle

\* Where a read leaves the readers, whatever call that appends nowhere begins.
LEMMA GiveKeeps ==
    ASSUME IInv, ListInv, FillInv, ReaderInv, call = Idle, NEW r \in Readers, Live(r),
           NEW n \in Nat, NEW res, res = ReadResult(reader[r], n), Give(r, res),
           NEW c, ~Appending(c)
    PROVE  /\ ReadersOK(heap, c, reader', given')
           /\ Gives(reader[r], given[r], n, res, given'[r])
           /\ reader'[r] = res.pos
           /\ \A q \in Readers : reader'[q].buf = reader[q].buf
<1> DEFINE u == given[r] \o res.dat
<1>1. ReaderOK(heap, call, reader[r], given[r]) /\ reader[r].buf # NULL
  BY LiveReader
<1>2. Gives(reader[r], given[r], n, res, u)
  BY <1>1, ReadGives
<1>3. ReaderOK(heap, c, res.pos, u) /\ res.pos.buf = reader[r].buf
  BY <1>1, <1>2, GivesOK
<1>4. ReadersOK(heap, c, reader, given)
  <2>1. call.pc = "idle"
    BY DEF Idle
  <2> QED BY <2>1, AnyCall DEF ReaderInv, ReadersOK
<1>5. reader' = [reader EXCEPT ![r] = res.pos] /\ given' = [given EXCEPT ![r] = u]
  BY DEF Give
<1> HIDE DEF u
<1>6. ReadersOK(heap, c, reader', given')
  BY <1>3, <1>4, <1>5, OneReader
<1>7. reader \in [Readers -> ReaderType] /\ given \in [Readers -> Seq(Byte)]
  BY DEF ReaderInv, ReadersOK
<1>8. given'[r] = u /\ reader'[r] = res.pos
  BY <1>5, <1>7
<1>9. \A q \in Readers : reader'[q].buf = reader[q].buf
  BY <1>3, <1>5, <1>7
<1> QED BY <1>2, <1>6, <1>8, <1>9

\* Reads never leave a region.
LEMMA ReadsInBounds ==
    ASSUME IInv, ListInv, FillInv, ReaderInv, call = Idle, NEW r \in Readers, Live(r),
           NEW n \in Nat
    PROVE  ReadResult(reader[r], n).ok = TRUE
<1> DEFINE res == ReadResult(reader[r], n)
           u == given[r] \o res.dat
<1>1. ReaderOK(heap, call, reader[r], given[r]) /\ reader[r].buf # NULL
  BY LiveReader
<1>2. Gives(reader[r], given[r], n, res, u)
  BY <1>1, ReadGives
<1> QED BY <1>2 DEF Gives

\* A read that consumes nothing.
OnlyReads(r, n) ==
    /\ call = Idle /\ Live(r) /\ Give(r, ReadResult(reader[r], n))
    /\ UNCHANGED << heap, size, bumped, call, fault, consumer >>

\* A consume that enters seek.
BeginsSeek(r, n) ==
    LET b == reader[r].buf
        m == BytesBehind(ReadResult(reader[r], n).pos)
    IN  /\ call = Idle /\ fault = "none" /\ Live(r) /\ Give(r, ReadResult(reader[r], n))
        /\ Start([Enter("seek", b, m) EXCEPT !.it = heap.nxt[b]])
        /\ consumer' = [by |-> r, rest |->
                          SubSeq(Content(heap, b), Len(given'[r]) + 1, size[b])]

LEMMA ReadOrConsume ==
    ASSUME IInv, ListInv, FillInv, ReaderInv, NEW r \in Readers, NEW n \in Nat,
           Read(r, n) \/ Consume(r, n)
    PROVE  OnlyReads(r, n) \/ (Consume(r, n) /\ BeginsSeek(r, n))
<1>1. call = Idle /\ Live(r) /\ fault = "none"
  BY DEF Read, Consume, BetweenCalls
<1>2. ReadResult(reader[r], n).ok = TRUE
  BY <1>1, ReadsInBounds
<1>3. CASE Read(r, n)
  BY <1>1, <1>2, <1>3 DEF Read, OnlyReads
<1>4. CASE Consume(r, n)
  BY <1>1, <1>2, <1>4 DEF Consume, OnlyReads, BeginsSeek
<1> QED BY <1>3, <1>4

ConsumeBegun(r, n) ==
    /\ IInv' /\ ListInv' /\ FillInv' /\ ReaderInv' /\ UNCHANGED fault
    /\ call'.fn = "seek"
    /\ Taking(heap', call', consumer'.rest)
    /\ consumer' \in [by : Readers, rest : Seq(Byte)]

LEMMA ConsumeBegins ==
    ASSUME IInv, ListInv, FillInv, ReaderInv, NEW r \in Readers, NEW n \in Nat, BeginsSeek(r, n)
    PROVE  ConsumeBegun(r, n)
<1> DEFINE b == reader[r].buf
           res == ReadResult(reader[r], n)
           m == BytesBehind(res.pos)
           C == Content(heap, b)
           c == [Enter("seek", b, m) EXCEPT !.it = heap.nxt[b]]
<1>1. /\ call = Idle /\ fault = "none" /\ Live(r) /\ Give(r, res) /\ Start(c)
      /\ consumer' = [by |-> r, rest |-> SubSeq(C, Len(given'[r]) + 1, size[b])]
  BY DEF BeginsSeek
<1>2. b \in Buffers /\ Exists(heap, b)
  BY <1>1, LiveReader
<1>3. ~Appending(c)
  BY DEF Appending, AppendFns, Enter, Idle
<1>4. res = ReadResult(reader[r], n)
  OBVIOUS
<1> HIDE DEF c, res
<1>5. /\ ReadersOK(heap, c, reader', given') /\ Gives(reader[r], given[r], n, res, given'[r])
      /\ reader'[r] = res.pos
  BY <1>1, <1>3, <1>4, GiveKeeps
<1>6. C \in Seq(Byte) /\ Len(C) = size[b]
  BY <1>1, <1>2, ContentSized
<1>7. /\ At(heap, b, res.pos, Len(given'[r])) /\ given'[r] \in Seq(Byte)
  BY <1>5 DEF Gives
<1>8. m = Len(given'[r]) /\ m \in Nat /\ m <= Len(C)
  <2>1. HeapOK(heap)
    BY DEF IInv
  <2>2. m = Len(given'[r])
    BY <1>2, <1>7, <2>1, BehindCounted
  <2>3. Len(given'[r]) \in Nat /\ Len(given'[r]) <= Len(C)
    BY <1>2, <1>7, <2>1, AtWithin
  <2> QED BY <2>2, <2>3
<1> HIDE DEF m
<1>9. Seeks(c, b, m)
  BY <1>2, <1>8, SeekEntered DEF c
<1>10. /\ c \in CallType /\ CallOK(heap, c) /\ c.fn = "seek" /\ c.buf = b /\ c.len = m
       /\ c.pc = "loop"
  BY <1>9 DEF Seeks
<1>11. call' = c /\ UNCHANGED << heap, size, fault >>
  BY <1>1 DEF Start
<1>12. IInv'
  BY <1>1, <1>10, StartOK
<1>13. ListInv'
  <2>1. Plain(call) /\ Plain(call)'
    BY <1>1, <1>10, <1>11 DEF Plain, Idle
  <2> QED BY <2>1, <1>11, OnlyCall
<1>14. FillInv'
  <2>1. Filled(heap') /\ fault' # "freed_linked" /\ call'.fn \notin Inserting
    BY <1>1, <1>10, <1>11 DEF FillInv, Filled, LivePages, Inserting
  <2> QED BY <2>1, NoInsertFits
<1>15. ReaderInv'
  BY <1>5, <1>10, <1>11 DEF ReaderInv, ClearBumps
<1> DEFINE rest == SubSeq(C, m + 1, Len(C))
<1>16. rest \in Seq(Byte)
  <2>1. Len(C) \in Nat /\ Len(C) <= Len(C)
    BY <1>6
  <2> HIDE DEF C
  <2> QED BY <1>6, <1>8, <2>1, PieceOf
<1>17. consumer' = [by |-> r, rest |-> rest]
  BY <1>1, <1>6, <1>8
<1> HIDE DEF rest
<1>18. consumer'.rest = rest /\ consumer' \in [by : Readers, rest : Seq(Byte)]
  BY <1>16, <1>17
<1>19. Taking(heap', call', rest)
  <2>1. heap' = heap /\ call'.buf = b /\ call'.len = m /\ call'.fn = "seek" /\ call'.pc = "loop"
    BY <1>10, <1>11
  <2>2. Content(heap, b) \in Seq(Byte) /\ m <= Len(Content(heap, b)) /\ m \in Nat
        /\ rest = SubSeq(Content(heap, b), m + 1, Len(Content(heap, b)))
    BY <1>6, <1>8 DEF rest
  <2> HIDE DEF C, b
  <2> QED BY <1>2, <1>16, <2>1, <2>2 DEF Taking
<1> QED BY <1>10, <1>11, <1>12, <1>13, <1>14, <1>15, <1>18, <1>19 DEF ConsumeBegun

\* What every function of a reader leaves, but for the consume in progress.
LEMMA ReaderOpKeeps ==
    ASSUME CountSuffices, NoSplitAtEnd, IInv, ListInv, FillInv, ReaderInv, ReaderOp
    PROVE  \/ /\ IInv' /\ ListInv' /\ FillInv' /\ ReaderInv'
              /\ UNCHANGED << heap, size, bumped, call, fault, consumer >>
           \/ \E r \in Readers, n \in 1..MaxLen : Consume(r, n) /\ ConsumeBegun(r, n)
<1>1. call = Idle /\ call.pc = "idle" /\ ~Appending(call)
  <2>1. call = Idle
    BY DEF ReaderOp, CreateReader, CloneReader, ResetReader, DestroyReader, Read, Consume,
           BetweenCalls
  <2>2. Idle.pc = "idle"
    BY DEF Idle
  <2> QED BY <2>1, <2>2 DEF Appending
<1>2. ASSUME UNCHANGED << heap, size, bumped, call, fault >>, ReaderInv' PROVE IInv' /\ ListInv' /\ FillInv'
  <2>1. UNCHANGED vars /\ [Next]_vars
    BY <1>2 DEF vars
  <2>2. IInv'
    BY <2>1, StutterKeeps
  <2> QED BY <2>1, <2>2, StepKeepsLists, StepKeepsFilled
<1>3. ASSUME NEW r \in Readers, NEW d, ReaderOK(heap, call, d, << >>), Forget(r, d)
      PROVE  ReaderInv' /\ UNCHANGED << heap, size, bumped, call, fault, consumer >>
  BY <1>1, <1>3, ForgetKeeps DEF Forget
<1>4. ASSUME NEW r \in Readers, NEW b \in Buffers, CreateReader(r, b)
      PROVE  ReaderInv' /\ UNCHANGED << heap, size, bumped, call, fault, consumer >>
  <2>1. Exists(heap, b) /\ Forget(r, AtHead(b))
    BY <1>4 DEF CreateReader
  <2>2. ReaderOK(heap, call, AtHead(b), << >>)
    BY <1>1, <2>1, HeadIsOK
  <2> QED BY <1>3, <2>1, <2>2
<1>5. ASSUME NEW r \in Readers, ResetReader(r)
      PROVE  ReaderInv' /\ UNCHANGED << heap, size, bumped, call, fault, consumer >>
  <2>1. Live(r) /\ Forget(r, AtHead(reader[r].buf))
    BY <1>5 DEF ResetReader
  <2>2. ReaderOK(heap, call, AtHead(reader[r].buf), << >>)
    BY <1>1, <2>1, LiveReader, HeadIsOK
  <2> QED BY <1>3, <2>1, <2>2
<1>6. ASSUME NEW r \in Readers, DestroyReader(r)
      PROVE  ReaderInv' /\ UNCHANGED << heap, size, bumped, call, fault, consumer >>
  <2>1. NoReader \in ReaderType /\ NoReader.buf = NULL /\ << >> \in Seq(Byte)
    BY DEF NoReader, ReaderType
  <2>2. ReaderOK(heap, call, NoReader, << >>)
    BY <2>1 DEF ReaderOK
  <2> QED BY <1>3, <1>6, <2>2 DEF DestroyReader
<1>7. ASSUME NEW r \in Readers, NEW s \in Readers, CloneReader(r, s)
      PROVE  ReaderInv' /\ UNCHANGED << heap, size, bumped, call, fault, consumer >>
  <2>1. /\ reader' = [reader EXCEPT ![r] = reader[s]] /\ given' = [given EXCEPT ![r] = given[s]]
        /\ UNCHANGED << heap, size, bumped, call, fault, consumer >>
    BY <1>7 DEF CloneReader
  <2>2. ReadersOK(heap, call, reader, given) /\ ReaderOK(heap, call, reader[s], given[s])
    BY DEF ReaderInv, ReadersOK
  <2>3. ReadersOK(heap, call, reader', given')
    BY <2>1, <2>2, OneReader
  <2> QED BY <1>1, <2>1, <2>3, ReaderInvIdle
<1>8. ASSUME NEW r \in Readers, NEW n \in Nat, OnlyReads(r, n)
      PROVE  ReaderInv' /\ UNCHANGED << heap, size, bumped, call, fault, consumer >>
  <2>1. /\ Live(r) /\ Give(r, ReadResult(reader[r], n))
        /\ UNCHANGED << heap, size, bumped, call, fault, consumer >>
    BY <1>8 DEF OnlyReads
  <2>2. ReadersOK(heap, call, reader', given')
    BY <1>1, <2>1, GiveKeeps
  <2> QED BY <1>1, <2>1, <2>2, ReaderInvIdle
<1>9. PICK r \in Readers :
        \/ \E b \in Buffers : CreateReader(r, b)
        \/ \E s \in Readers : CloneReader(r, s)
        \/ ResetReader(r)
        \/ DestroyReader(r)
        \/ \E n \in 1..MaxLen : Read(r, n) \/ Consume(r, n)
  BY DEF ReaderOp
<1>10. ASSUME NEW n \in 1..MaxLen, Read(r, n) \/ Consume(r, n)
       PROVE  \/ ReaderInv' /\ UNCHANGED << heap, size, bumped, call, fault, consumer >>
              \/ Consume(r, n) /\ ConsumeBegun(r, n)
  <2>1. n \in Nat
    BY <1>10
  <2> QED BY <1>8, <1>10, <2>1, ReadOrConsume, ConsumeBegins
<1>11. \/ ReaderInv' /\ UNCHANGED << heap, size, bumped, call, fault, consumer >>
       \/ \E n \in 1..MaxLen : Consume(r, n) /\ ConsumeBegun(r, n)
  BY <1>4, <1>5, <1>6, <1>7, <1>9, <1>10
<1> QED BY <1>2, <1>11

-----------------------------------------------------------------------------
(* The invariant.                                                          *)

\* Nothing is appended while a reader stands at the end of the data.
NoAppendAtEnd == "append_at_end" \notin ReaderUsage

\* A call that begins does not append where a reader waits.
LEMMA ReadersSpared ==
    ASSUME NoAppendAtEnd, IInv, BufferStep, Client, NEW r \in Readers,
           reader[r].buf # NULL /\ reader[r].stale = FALSE
    PROVE  Spared(heap, call', reader[r])
<1>1. SUFFICES ASSUME Appending(call'), call'.buf = reader[r].buf
               PROVE  ~Ends(heap, reader[r])
  BY DEF Spared
<1>2. call.pc = "idle" /\ call'.pc # "idle" /\ Begun
  <2>1. call.pc = "idle" /\ (Begun \/ Made)
    BY ClientBegins
  <2> QED BY <2>1, <1>1 DEF Begun, Made, Appending
<1>3. Appends
  BY <1>1, <1>2 DEF Appends, Entered, Appending, AppendFns, Begun
<1>4. ~AtEnd(r)
  BY <1>1, <1>3 DEF BufferStep, NoAppendAtEnd
<1> QED BY <1>4 DEF AtEnd, Ends, EndsAt, Live

LEMMA BufferStepKeeps ==
    ASSUME CountSuffices, NoAppendAtEnd, IInv, IInv', ListInv, FillInv, ReaderInv, BufferStep
    PROVE  ReaderInv'
<1>1. Next /\ ClearBumps /\ ReadersOK(heap, call, reader, given)
  BY DEF BufferStep, ReaderInv
<1>2. /\ reader' = [r \in Readers |->
                      IF reader[r].buf \in bumped' THEN [reader[r] EXCEPT !.stale = TRUE]
                      ELSE reader[r]]
      /\ given' = [r \in Readers |->
                      IF reader[r].buf \in bumped' THEN << >> ELSE given[r]]
  BY DEF BufferStep
<1>3. ASSUME NEW r \in Readers
      PROVE  ReaderOK(heap', call', reader'[r], given'[r]) /\ reader'[r].buf = reader[r].buf
  <2> DEFINE d == reader[r]
             s == given[r]
  <2>1. ReaderOK(heap, call, d, s) /\ d \in ReaderType
    BY <1>1 DEF ReadersOK
  <2>2. call.pc # "idle" /\ call.fn = "destroy" => d.buf # call.buf
    BY DEF ReaderInv
  <2>3. CASE d.buf \in bumped'
    <3>1. reader'[r] = [d EXCEPT !.stale = TRUE] /\ given'[r] = << >>
      BY <1>2, <2>3
    <3>2. d.buf # NULL => Exists(heap', d.buf)
      <4>1. d.buf # NULL => d.buf \in Buffers /\ Exists(heap, d.buf)
        BY <2>1 DEF ReaderOK, ReaderType
      <4> QED BY <4>1, <1>1, <2>2, ExistsStill
    <3>3. [d EXCEPT !.stale = TRUE].buf = d.buf
      BY <2>1 DEF ReaderType
    <3> HIDE DEF d
    <3> QED BY <2>1, <3>1, <3>2, <3>3, StaleIsOK DEF d
  <2>4. CASE d.buf \notin bumped'
    <3>1. reader'[r] = d /\ given'[r] = s
      BY <1>2, <2>4
    <3>2. ASSUME Client PROVE ReaderOK(heap', call', d, s)
      <4>1. d.buf # NULL /\ d.stale = FALSE => Spared(heap, call', d)
        BY <3>2, ReadersSpared
      <4> HIDE DEF d, s
      <4> QED BY <2>1, <3>2, <4>1, ClientKeepsReader
    <3>3. ASSUME Return PROVE ReaderOK(heap', call', d, s)
      <4>1. call.fn = "destroy" => d.buf # call.buf
        BY <3>3, <2>2 DEF Return
      <4> HIDE DEF d, s
      <4> QED BY <2>1, <2>4, <3>3, <4>1, ReturnKeepsReader
    <3>4. ASSUME Library, ~Return PROVE ReaderOK(heap', call', d, s)
      <4> HIDE DEF d, s
      <4> QED BY <1>1, <2>1, <2>4, <3>4, LibraryKeepsReader
    <3> QED BY <1>1, <3>1, <3>2, <3>3, <3>4 DEF Next
  <2> QED BY <2>3, <2>4
<1>4. ReadersOK(heap', call', reader', given')
  <2>1. \A r \in Readers : reader'[r] \in ReaderType /\ given'[r] \in Seq(Byte)
    BY <1>3 DEF ReaderOK
  <2>2. reader' \in [Readers -> ReaderType] /\ given' \in [Readers -> Seq(Byte)]
    BY <1>2, <2>1
  <2> QED BY <1>3, <2>2 DEF ReadersOK
<1>5. ClearBumps' /\ (call'.pc # "idle" /\ call'.fn = "destroy"
                         => \A r \in Readers : reader[r].buf # call'.buf)
  <2>1. CASE Client
    <3>1. call.pc = "idle" /\ (Begun \/ Made)
      BY <2>1, ClientBegins
    <3>2. CASE Made
      BY <3>1, <3>2 DEF Made, ClearBumps
    <3>3. CASE Begun
      BY <3>1, <3>3 DEF Begun, ClearBumps, BufferStep, Entered
    <3> QED BY <3>1, <3>2, <3>3
  <2>2. CASE Return
    BY <2>2 DEF Return, Idle, ClearBumps
  <2>3. CASE Library /\ ~Return
    <3>1. CallGoesOn /\ call.pc # "idle"
      BY <1>1, <2>3, LibraryEffect, InLibrary DEF StepEffect
    <3>2. call.fn \in {"clear", "destroy"} => bumped' = bumped
      BY <2>3, ClearingIsClear
    <3> QED BY <3>1, <3>2, <1>1 DEF CallGoesOn, ClearBumps, ReaderInv
  <2> QED BY <1>1, <2>1, <2>2, <2>3 DEF Next
<1> QED BY <1>3, <1>4, <1>5 DEF ReaderInv

\* All that is true of the buffers and the readers between two steps.
AllInv == IInv /\ ListInv /\ FillInv /\ ReaderInv

LEMMA BufferStepKeepsAll ==
    ASSUME CountSuffices, NoSelfSource, NoSplitAtEnd, NoAppendAtEnd, AllInv, BufferStep
    PROVE  AllInv'
<1>1. IInv /\ ListInv /\ FillInv /\ ReaderInv /\ Next /\ [Next]_vars
  BY DEF AllInv, BufferStep
<1>2. IInv'
  BY <1>1, ClientKeeps, LibraryKeeps DEF Next
<1>3. ListInv' /\ FillInv'
  BY <1>1, <1>2, StepKeepsLists, StepKeepsFilled
<1>4. ReaderInv'
  BY <1>1, <1>2, BufferStepKeeps
<1> QED BY <1>2, <1>3, <1>4 DEF AllInv

LEMMA StepKeepsAll ==
    ASSUME CountSuffices, NoSelfSource, NoSplitAtEnd, NoAppendAtEnd, AllInv, [RNext]_rvars
    PROVE  AllInv'
<1>1. CASE ReaderOp
  BY <1>1, ReaderOpKeeps DEF AllInv, ConsumeBegun
<1>2. CASE BufferStep
  BY <1>2, BufferStepKeepsAll
<1>3. CASE UNCHANGED rvars
  <2>1. UNCHANGED vars /\ [Next]_vars
    BY <1>3 DEF rvars, vars
  <2>2. IInv'
    BY <2>1, StutterKeeps DEF AllInv
  <2>3. ListInv' /\ FillInv'
    BY <2>1, <2>2, StepKeepsLists, StepKeepsFilled DEF AllInv
  <2>4. ReaderInv'
    BY <1>3 DEF AllInv, ReaderInv, ClearBumps, rvars
  <2> QED BY <2>2, <2>3, <2>4 DEF AllInv
<1> QED BY <1>1, <1>2, <1>3 DEF RNext

LEMMA NoReaders ==
    ASSUME RInit
    PROVE  ReaderInv
<1>1. /\ reader = [r \in Readers |-> NoReader] /\ given = [r \in Readers |-> << >>]
      /\ call.pc = "idle"
  BY DEF RInit, Init, Idle
<1>2. NoReader \in ReaderType /\ NoReader.buf = NULL /\ << >> \in Seq(Byte)
  BY DEF NoReader, ReaderType
<1>3. ReaderOK(heap, call, NoReader, << >>)
  BY <1>2 DEF ReaderOK
<1>4. reader \in [Readers -> ReaderType] /\ given \in [Readers -> Seq(Byte)]
      /\ \A r \in Readers : reader[r] = NoReader /\ given[r] = << >>
  BY <1>1, <1>2
<1>5. ReadersOK(heap, call, reader, given)
  BY <1>3, <1>4 DEF ReadersOK
<1> QED BY <1>1, <1>5 DEF ReaderInv, ClearBumps

LEMMA InitAll == RInit => AllInv
<1>1. ASSUME RInit PROVE IInv /\ ListInv /\ FillInv
  BY <1>1, InitIInv, InitLists
     DEF RInit, Init, FillInv, Filled, LivePages, EmptyHeap, NoPage, Idle
<1> QED BY <1>1, NoReaders DEF AllInv

\* Whatever the client does with the buffers, every reader stands behind the bytes it has
\* given, or will start again before it looks at a page.
THEOREM ReaderInvariant ==
    ASSUME CountSuffices, NoSelfSource, NoSplitAtEnd, NoAppendAtEnd
    PROVE  RSpec => []AllInv
<1>1. AllInv /\ [RNext]_rvars => AllInv'
  BY StepKeepsAll
<1> QED BY <1>1, InitAll, PTL DEF RSpec

\* What a live reader that is not told to start again knows of its buffer.
LEMMA KnownPlace ==
    ASSUME AllInv, call.pc = "idle", NEW r \in Readers, Live(r), ~reader[r].stale
    PROVE  /\ At(heap, reader[r].buf, reader[r], Len(given[r])) /\ reader[r].buf \in Buffers
           /\ given[r] = SubSeq(Content(heap, reader[r].buf), 1, Len(given[r]))
           /\ Exists(heap, reader[r].buf)
<1>1. ReaderOK(heap, call, reader[r], given[r]) /\ reader[r].buf # NULL
  BY DEF AllInv, ReaderInv, ReadersOK, Live
<1>2. reader[r] \in ReaderType /\ reader[r].stale = FALSE
  BY <1>1 DEF ReaderOK, ReaderType
<1>3. ~Moved(call, reader[r])
  BY DEF Moved, Moving
<1>4. InPlace(heap, reader[r], given[r])
  BY <1>1, <1>2, <1>3 DEF ReaderOK
<1>5. reader[r].buf \in Buffers /\ Exists(heap, reader[r].buf)
  BY <1>1, <1>2 DEF ReaderOK, ReaderType
<1> QED BY <1>4, <1>5 DEF InPlace

\* A reader that will not start again at its next read stands inside a page that is still
\* in the list of its buffer, whatever was inserted, cut, freed or overwritten.
THEOREM ReadersStayInList ==
    ASSUME CountSuffices, NoSelfSource, NoSplitAtEnd, NoAppendAtEnd
    PROVE  RSpec => []ReadersNeverDangle
<1>1. ASSUME AllInv, call = Idle, NEW r \in Readers, Live(r), ~reader[r].stale
      PROVE  /\ Owner(heap, reader[r].it) = reader[r].buf
             /\ reader[r].off <= NodeLen(heap, reader[r].it)
  <2> DEFINE c == reader[r]
             b == reader[r].buf
  <2>1. call.pc = "idle"
    BY <1>1 DEF Idle
  <2>2. At(heap, b, c, Len(given[r])) /\ b \in Buffers /\ HeapOK(heap)
    BY <1>1, <2>1, KnownPlace DEF AllInv, IInv
  <2> HIDE DEF b, c
  <2>3. PICK N, ps, acc, i :
           Enumerates(heap, b, N, ps, acc) /\ Stands(heap, b, N, ps, acc, c, i, Len(given[r]))
    BY <2>2 DEF At
  <2>4. i \in 0..N /\ N \in Nat /\ c.it = ps[i] /\ c.buf = b
    BY <2>3 DEF Stands, Spot, Enumerates
  <2>5. CASE i = 0
    <3>1. c.it = b /\ c.off = 0 /\ b \notin PageIds
      BY <2>2, <2>3, <2>4, <2>5, HeapAssumption DEF Stands, Spot, Enumerates
    <3> QED BY <2>4, <3>1 DEF Owner, NodeLen, b, c
  <2>6. CASE i # 0
    <3>1. c.it \in Mine(heap, b)
      BY <2>3, <2>4, <2>6, EnumNode
    <3>2. c.off <= heap.page[c.it].len
      BY <2>3, <2>4, <2>6 DEF Stands, Spot
    <3>3. c.it \in PageIds /\ heap.page[c.it].own = b /\ NodeLen(heap, c.it) = heap.page[c.it].len
      BY <2>2, <3>1, PageFacts
    <3> QED BY <3>2, <3>3 DEF Owner, b, c
  <2> QED BY <2>5, <2>6
<1>2. AllInv => ReadersNeverDangle
  BY <1>1 DEF ReadersNeverDangle
<1> QED BY <1>2, ReaderInvariant, PTL

\* What a reader has given since it last started at the head is the front of the buffer,
\* every byte once and none out of date, over any number of reads, appends and clones.
THEOREM ReadersGiveTheFront ==
    ASSUME CountSuffices, NoSelfSource, NoSplitAtEnd, NoAppendAtEnd
    PROVE  RSpec => []ReadsAreContiguous
<1>1. ASSUME AllInv, call = Idle, NEW r \in Readers, Live(r), ~reader[r].stale
      PROVE  /\ Len(given[r]) <= size[reader[r].buf]
             /\ given[r] = SubSeq(Content(heap, reader[r].buf), 1, Len(given[r]))
  <2>1. call.pc = "idle"
    BY <1>1 DEF Idle
  <2>2. /\ At(heap, reader[r].buf, reader[r], Len(given[r])) /\ reader[r].buf \in Buffers
        /\ given[r] = SubSeq(Content(heap, reader[r].buf), 1, Len(given[r]))
        /\ Exists(heap, reader[r].buf)
    BY <1>1, <2>1, KnownPlace
  <2>3. HeapOK(heap)
    BY <1>1 DEF AllInv, IInv
  <2>4. Len(given[r]) <= Len(Content(heap, reader[r].buf))
    BY <2>2, <2>3, AtWithin
  <2>5. Len(Content(heap, reader[r].buf)) = size[reader[r].buf]
    BY <1>1, <2>2, ContentSized DEF AllInv
  <2> QED BY <2>2, <2>4, <2>5
<1>2. AllInv => ReadsAreContiguous
  BY <1>1 DEF ReadsAreContiguous
<1> QED BY <1>2, ReaderInvariant, PTL

\* A read gives all that was asked for, or all that is left.
THEOREM ReadersGiveAll ==
    ASSUME CountSuffices, NoSelfSource, NoSplitAtEnd, NoAppendAtEnd
    PROVE  RSpec => ReadsAllThereIs
<1>1. ASSUME AllInv, NEW r \in Readers, NEW n \in 1..MaxLen, Read(r, n)
      PROVE  Len(given'[r]) = Lower(Len(given[r]) + n, size[reader[r].buf])
  <2>1. n \in Nat /\ call = Idle /\ Live(r) /\ IInv /\ ListInv /\ FillInv /\ ReaderInv
    BY <1>1 DEF Read, BetweenCalls, AllInv
  <2>2. ReadResult(reader[r], n).ok = TRUE
    BY <2>1, ReadsInBounds
  <2>3. Give(r, ReadResult(reader[r], n))
    BY <1>1, <2>2 DEF Read
  <2>4. ~Appending(Idle)
    BY DEF Appending, Idle
  <2>5. Gives(reader[r], given[r], n, ReadResult(reader[r], n), given'[r])
    BY <2>1, <2>3, <2>4, GiveKeeps
  <2>6. Len(Content(heap, reader[r].buf)) = size[reader[r].buf]
    BY <2>1, LiveReader, ContentSized
  <2> QED BY <2>5, <2>6 DEF Gives
<1>2. AllInv /\ [RNext]_rvars
        => [\A r \in Readers, n \in 1..MaxLen :
               Read(r, n) => Len(given'[r]) = Lower(Len(given[r]) + n, size[reader[r].buf])]_rvars
  BY <1>1
<1> QED BY <1>2, ReaderInvariant, PTL DEF RSpec, ReadsAllThereIs

\* Nothing undefined is executed by the buffers or the readers: no read leaves a region.
THEOREM ReadersStayDefined ==
    ASSUME CountSuffices, NoSelfSource, NoSplitAtEnd, NoMisaligned, NoAppendAtEnd
    PROVE  RSpec => []NoFault
<1>1. ASSUME AllInv, AllInv', FaultInv, ReaderOp PROVE FaultInv'
  <2>1. IInv /\ ListInv /\ FillInv /\ ReaderInv /\ call = Idle
    <3>1. call = Idle
      BY <1>1 DEF ReaderOp, CreateReader, CloneReader, ResetReader, DestroyReader, Read, Consume,
                  BetweenCalls
    <3> QED BY <1>1, <3>1 DEF AllInv
  <2>2. CASE UNCHANGED << heap, size, bumped, call, fault, consumer >>
    BY <1>1, <2>2 DEF FaultInv, InStep, Twins, CutAlike
  <2>3. ASSUME NEW r, NEW n, ConsumeBegun(r, n) PROVE FaultInv'
    BY <1>1, <2>3, ElsewhereInStep DEF ConsumeBegun, FaultInv
  <2> QED BY <1>1, <2>1, <2>2, <2>3, ReaderOpKeeps
<1>2. ASSUME AllInv, AllInv', FaultInv, BufferStep \/ UNCHANGED rvars PROVE FaultInv'
  <2>1. [Next]_vars
    BY <1>2 DEF BufferStep, rvars, vars
  <2> QED BY <1>2, <2>1, StepInStep DEF AllInv
<1>3. AllInv /\ AllInv' /\ FaultInv /\ [RNext]_rvars => FaultInv'
  BY <1>1, <1>2 DEF RNext
<1>4. RInit => FaultInv
  BY DEF RInit, Init, FaultInv, Idle
<1>5. FaultInv => NoFault
  BY DEF FaultInv, NoFault
<1> QED BY <1>3, <1>4, <1>5, ReaderInvariant, PTL DEF RSpec

-----------------------------------------------------------------------------
(* What the seek inside consume leaves.                                    *)
\* A consume in progress: its seek has still to take what is in front of the rest.
ConsumerInv ==
    consumer # NULL =>
        consumer \in [by : Readers, rest : Seq(Byte)] /\ Taking(heap, call, consumer.rest)

LEMMA ConsumerStep ==
    ASSUME AllInv, AllInv', ConsumerInv, BufferStep
    PROVE  /\ ConsumerInv'
           /\ consumer # NULL /\ Returned => Content(heap', call.buf) = consumer.rest
<1>1. CASE consumer = NULL
  BY <1>1 DEF BufferStep, ConsumerInv
<1>2. CASE consumer # NULL
  <2> DEFINE rest == consumer.rest
  <2>1. /\ Next /\ consumer' = (IF Returned THEN NULL ELSE consumer)
        /\ consumer \in [by : Readers, rest : Seq(Byte)] /\ Taking(heap, call, rest)
    BY <1>2 DEF BufferStep, ConsumerInv
  <2>2. IInv /\ IInv' /\ ListInv /\ FillInv /\ call.pc # "idle"
    BY <2>1 DEF AllInv, Taking
  <2> HIDE DEF rest
  <2>3. CASE SeekStep
    <3>1. Taking(heap', call', rest)
      BY <2>1, <2>2, <2>3, TakingGoesOn
    <3>2. ~Returned
      BY <3>1 DEF Taking, Returned
    <3> QED BY <2>1, <3>1, <3>2 DEF ConsumerInv, rest
  <2>4. CASE Return
    <3>1. Content(heap', call.buf) = rest
      BY <2>1, <2>2, <2>4, TakingEnds
    <3>2. Returned
      BY <2>2, <2>4 DEF Return, Returned, Idle
    <3> QED BY <2>1, <3>1, <3>2 DEF ConsumerInv, rest
  <2> QED BY <2>1, <2>2, <2>3, <2>4, OnlySeeks
<1> QED BY <1>1, <1>2

LEMMA ConsumerOpStep ==
    ASSUME CountSuffices, NoSplitAtEnd, AllInv, ConsumerInv, ReaderOp
    PROVE  /\ ConsumerInv'
           /\ ~(consumer # NULL /\ Returned)
<1>1. call = Idle
  BY DEF ReaderOp, CreateReader, CloneReader, ResetReader, DestroyReader, Read, Consume,
         BetweenCalls
<1>2. ConsumerInv'
  <2>1. CASE UNCHANGED << heap, size, bumped, call, fault, consumer >>
    BY <2>1 DEF ConsumerInv
  <2>2. ASSUME NEW r, NEW n, ConsumeBegun(r, n) PROVE ConsumerInv'
    BY <2>2 DEF ConsumeBegun, ConsumerInv
  <2> QED BY <2>1, <2>2, ReaderOpKeeps DEF AllInv
<1> QED BY <1>1, <1>2 DEF Returned, Idle

LEMMA StepKeepsConsumer ==
    ASSUME CountSuffices, NoSplitAtEnd, AllInv, AllInv', ConsumerInv, [RNext]_rvars
    PROVE  /\ ConsumerInv'
           /\ consumer # NULL /\ Returned => Content(heap', call.buf) = consumer.rest
<1>1. CASE UNCHANGED rvars
  BY <1>1 DEF rvars, ConsumerInv, Returned
<1> QED BY <1>1, ConsumerStep, ConsumerOpStep DEF RNext

\* What a consume still has to take from the buffer is what its reader has given and is
\* not taken yet, through every page the seek frees or shortens.
THEOREM ConsumerInvariant ==
    ASSUME CountSuffices, NoSelfSource, NoSplitAtEnd, NoAppendAtEnd
    PROVE  RSpec => []ConsumerInv
<1>1. AllInv /\ AllInv' /\ ConsumerInv /\ [RNext]_rvars => ConsumerInv'
  BY StepKeepsConsumer
<1>2. RInit => ConsumerInv
  BY DEF RInit, ConsumerInv
<1> QED BY <1>1, <1>2, ReaderInvariant, PTL DEF RSpec

\* Consuming takes from the buffer what its reader has given, and nothing more, however
\* many pages that reaches over and however they were shared.
THEOREM ConsumingTakesWhatWasRead ==
    ASSUME CountSuffices, NoSelfSource, NoSplitAtEnd, NoAppendAtEnd
    PROVE  RSpec => ConsumeTakesWhatWasRead
<1>1. AllInv /\ AllInv' /\ ConsumerInv /\ [RNext]_rvars
        => [consumer # NULL /\ Returned => Content(heap', call.buf) = consumer.rest]_rvars
  BY StepKeepsConsumer
<1> QED BY <1>1, ReaderInvariant, ConsumerInvariant, PTL DEF RSpec, ConsumeTakesWhatWasRead

\* Every variable keeps its type: the readers through their reads, and the rest a consume is
\* to leave.
THEOREM ReaderTypes ==
    ASSUME CountSuffices, NoSelfSource, NoSplitAtEnd, NoAppendAtEnd
    PROVE  RSpec => []RTypeOK
<1>1. AllInv /\ ConsumerInv => RTypeOK
  BY IInvImplies DEF AllInv, ReaderInv, ReadersOK, ConsumerInv, RTypeOK
<1> QED BY <1>1, ReaderInvariant, ConsumerInvariant, PTL

====
