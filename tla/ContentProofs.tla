---------------------------- MODULE ContentProofs ----------------------------
(***************************************************************************)
(* The bytes of a buffer: what the pages of its list show one after the    *)
(* other, where a position in the list is in them, and what each step of   *)
(* the library makes of both.  The modules on the readers and on the       *)
(* contract of TrivialBuffer rest on these lemmas.                         *)
(***************************************************************************)
EXTENDS ListProofs

-----------------------------------------------------------------------------
(* Functions given by a first value and a rule from each to the next.       *)

LEMMA Along ==
    ASSUME NEW N \in Nat, NEW S, NEW f, f[0] \in S[0],
           \A k \in 1..N : f[k - 1] \in S[k - 1] => f[k] \in S[k]
    PROVE  \A k \in 0..N : f[k] \in S[k]
<1> DEFINE T == {k \in 0..N : f[k] \notin S[k]}
<1> SUFFICES ASSUME T # {} PROVE FALSE
  OBVIOUS
<1>0. T \in SUBSET Nat
  OBVIOUS
<1>1. PICK x \in T : \A y \in T : x <= y
  <2> HIDE DEF T
  <2> QED BY <1>0, Least
<1>2. x \in 1..N /\ x - 1 \in 0..N /\ ~(x <= x - 1)
  BY <1>1
<1>3. f[x - 1] \in S[x - 1]
  BY <1>1, <1>2
<1> QED BY <1>1, <1>2, <1>3

\* The function defined by a step from each place to the next.
ByRule(f, a, F, n) == f = [k \in 0..n |-> IF k = 0 THEN a ELSE F[k][f[k - 1]]]

LEMMA RuleExists ==
    ASSUME NEW N \in Nat, NEW a, NEW F
    PROVE  \E f : ByRule(f, a, F, N)
<1> DEFINE T == {n \in 0..N : ~ \E f : ByRule(f, a, F, n)}
<1> SUFFICES ASSUME T # {} PROVE FALSE
  OBVIOUS
<1>0. T \in SUBSET Nat
  OBVIOUS
<1>1. PICK x \in T : \A y \in T : x <= y
  <2> HIDE DEF T
  <2> QED BY <1>0, Least
<1>2. x # 0
  <2> DEFINE f == [k \in 0..0 |-> a]
  <2>1. f = [k \in 0..0 |-> IF k = 0 THEN a ELSE F[k][f[k - 1]]]
    OBVIOUS
  <2>2. \E g : ByRule(g, a, F, 0)
    BY <2>1 DEF ByRule
  <2> QED BY <2>2, <1>1
<1>3. x \in 1..N /\ x - 1 \in 0..N /\ ~(x <= x - 1)
  BY <1>1, <1>2
<1>4. PICK f : ByRule(f, a, F, x - 1)
  BY <1>1, <1>3
<1> DEFINE g == [k \in 0..x |-> IF k = x THEN F[x][f[x - 1]] ELSE f[k]]
<1>5. \A k \in 0..(x - 1) : f[k] = IF k = 0 THEN a ELSE F[k][f[k - 1]]
  BY <1>4 DEF ByRule
<1>6. ASSUME NEW k \in 0..x
      PROVE  g[k] = IF k = 0 THEN a ELSE F[k][g[k - 1]]
  <2>1. CASE k = 0
    BY <2>1, <1>3, <1>5
  <2>2. CASE k # 0
    <3>1. k - 1 \in 0..x /\ k - 1 # x
      BY <2>2, <1>3
    <3>2. g[k - 1] = f[k - 1]
      BY <3>1
    <3>3. CASE k = x
      BY <3>2, <3>3, <1>3
    <3>4. CASE k # x
      <4>1. k \in 0..(x - 1)
        BY <3>4, <1>3
      <4> QED BY <4>1, <3>2, <3>4, <2>2, <1>5
    <3> QED BY <3>3, <3>4
  <2> QED BY <2>1, <2>2
<1>7. g = [k \in 0..x |-> g[k]]
  OBVIOUS
<1> HIDE DEF g
<1>8. ByRule(g, a, F, x)
  BY <1>6, <1>7 DEF ByRule
<1> QED BY <1>8, <1>1

LEMMA RuleSteps ==
    ASSUME NEW N \in Nat, NEW a, NEW F, NEW f, ByRule(f, a, F, N)
    PROVE  f[0] = a /\ \A k \in 1..N : f[k] = F[k][f[k - 1]]
<1>1. 0 \in 0..N /\ \A k \in 1..N : k \in 0..N /\ k # 0
  OBVIOUS
<1> QED BY <1>1 DEF ByRule

\* f goes from a by the steps G, and what it comes to after k of them is in S[k].
Runs(f, a, G, N, S) ==
    /\ f = [k \in 0..N |-> f[k]] /\ f[0] = a
    /\ \A k \in 0..N : f[k] \in S[k]
    /\ \A k \in 1..N : f[k] = G[k][f[k - 1]]

LEMMA RunExists ==
    ASSUME NEW N \in Nat, NEW a, NEW S, NEW G, a \in S[0],
           \A k \in 1..N : \A x \in S[k - 1] : G[k][x] \in S[k]
    PROVE  \E f : Runs(f, a, G, N, S)
<1>1. PICK f : ByRule(f, a, G, N)
  BY RuleExists
<1>2. f[0] = a /\ \A k \in 1..N : f[k] = G[k][f[k - 1]]
  BY <1>1, RuleSteps
<1>3. \A k \in 1..N : f[k - 1] \in S[k - 1] => f[k] \in S[k]
  BY <1>2
<1>4. \A k \in 0..N : f[k] \in S[k]
  BY <1>2, <1>3, Along
<1>5. f = [k \in 0..N |-> f[k]]
  BY <1>1 DEF ByRule
<1> QED BY <1>2, <1>4, <1>5 DEF Runs

\* A sequence after another one.
LEMMA Joined ==
    ASSUME NEW S, NEW s \in Seq(S), NEW u \in Seq(S)
    PROVE  /\ s \o u \in Seq(S) /\ Len(s \o u) = Len(s) + Len(u)
           /\ \A i \in 1..Len(s) : (s \o u)[i] = s[i]
           /\ \A i \in 1..Len(u) : (s \o u)[Len(s) + i] = u[i]
<1>1. s \o u \in Seq(S) /\ Len(s \o u) = Len(s) + Len(u)
  OBVIOUS
<1>2. \A i \in 1..Len(s) : (s \o u)[i] = s[i]
  OBVIOUS
<1>3. \A i \in 1..Len(u) : (s \o u)[Len(s) + i] = u[i]
  OBVIOUS
<1> QED BY <1>1, <1>2, <1>3

LEMMA NothingBefore ==
    ASSUME NEW S, NEW u \in Seq(S)
    PROVE  << >> \o u = u
  OBVIOUS

\* A piece of a sequence.
LEMMA PieceOf ==
    ASSUME NEW S, NEW s \in Seq(S), NEW m \in Nat, NEW n \in Nat, m <= n, n <= Len(s)
    PROVE  /\ SubSeq(s, m + 1, n) \in Seq(S) /\ Len(SubSeq(s, m + 1, n)) = n - m
           /\ \A i \in 1..(n - m) : SubSeq(s, m + 1, n)[i] = s[m + i]
<1>1. SubSeq(s, m + 1, n) \in Seq(S) /\ Len(SubSeq(s, m + 1, n)) = n - m
  OBVIOUS
<1>2. \A i \in 1..(n - m) : SubSeq(s, m + 1, n)[i] = s[m + i]
  OBVIOUS
<1> QED BY <1>1, <1>2

LEMMA PieceAt ==
    ASSUME NEW S, NEW s \in Seq(S), NEW t \in Nat, NEW m \in Nat, t + m <= Len(s)
    PROVE  /\ SubSeq(s, t + 1, t + m) \in Seq(S) /\ Len(SubSeq(s, t + 1, t + m)) = m
           /\ \A i \in 1..m : SubSeq(s, t + 1, t + m)[i] = s[t + i]
<1> DEFINE n == t + m
<1>1. n \in Nat /\ t <= n /\ n <= Len(s) /\ n - t = m
  OBVIOUS
<1> HIDE DEF n
<1>2. /\ SubSeq(s, t + 1, n) \in Seq(S) /\ Len(SubSeq(s, t + 1, n)) = n - t
      /\ \A i \in 1..(n - t) : SubSeq(s, t + 1, n)[i] = s[t + i]
  BY <1>1, PieceOf
<1> QED BY <1>1, <1>2 DEF n

\* Sequences with the same elements are the same.
LEMMA SameElements ==
    ASSUME NEW S, NEW s \in Seq(S), NEW t \in Seq(S), Len(s) = Len(t),
           \A i \in 1..Len(s) : s[i] = t[i]
    PROVE  s = t
  OBVIOUS

-----------------------------------------------------------------------------
(* The bytes of a buffer.                                                  *)

\* The j-th byte that page p shows.
ByteAt(h, p, j) == h.reg[h.page[p].data].mem[h.page[p].base + j]

\* s is what the first k of the pages ps[1], ps[2], ... show.
Shows(h, ps, acc, k, s) ==
    /\ s \in Seq(Byte) /\ Len(s) = acc[k]
    /\ \A i \in 1..k : \A j \in 1..h.page[ps[i]].len : s[acc[i - 1] + j] = ByteAt(h, ps[i], j)

LEMMA PageFacts ==
    ASSUME NEW h, HeapOK(h), NEW b \in Buffers, NEW p \in Mine(h, b)
    PROVE  /\ p \in PageIds /\ p \in LivePages(h) /\ h.page[p].data \in DataIds
           /\ h.page[p].base \in Nat /\ h.page[p].len \in Nat /\ h.page[p].own = b
           /\ NodeLen(h, p) = h.page[p].len /\ p # b
           /\ InBounds(h, p, 0, h.page[p].len)
  BY HeapAssumption DEF Mine, LivePages, HeapOK, Heap, PageRec, Shown, NodeLen

LEMMA PieceBytes ==
    ASSUME NEW h \in Heap, NEW p \in PageIds, h.page[p].data \in DataIds,
           NEW off \in Nat, NEW n \in Nat, InBounds(h, p, off, n)
    PROVE  /\ PageBytes(h, p, off, n) \in Seq(Byte) /\ Len(PageBytes(h, p, off, n)) = n
           /\ \A j \in 1..n : PageBytes(h, p, off, n)[j] = ByteAt(h, p, off + j)
<1> DEFINE m == h.reg[h.page[p].data].mem
           base == h.page[p].base
           at == base + off
<1>1. PageBytes(h, p, off, n) \in Seq(Byte) /\ Len(PageBytes(h, p, off, n)) = n
  BY PageBytesType
<1>2. m \in Seq(Byte) /\ base \in Nat /\ at \in Nat /\ at = base + off
  BY DEF Heap, Region, PageRec
<1>3. PageBytes(h, p, off, n) = SubSeq(m, at + 1, at + n) /\ at + n <= Len(m)
  BY DEF PageBytes, InBounds
<1>4. \A j \in 1..n : ByteAt(h, p, off + j) = m[base + (off + j)]
  BY DEF ByteAt
<1> HIDE DEF m, base, at
<1>5. \A j \in 1..n : SubSeq(m, at + 1, at + n)[j] = m[at + j]
  BY <1>2, <1>3
<1>6. \A j \in 1..n : at + j = base + (off + j)
  BY <1>2
<1> QED BY <1>1, <1>3, <1>4, <1>5, <1>6

LEMMA SumsGrow ==
    ASSUME NEW h, HeapOK(h), NEW b \in Buffers, NEW N, NEW ps, NEW acc,
           Enumerates(h, b, N, ps, acc)
    PROVE  /\ N \in Nat /\ acc[0] = 0 /\ \A i \in 0..N : acc[i] \in Nat
           /\ \A i \in 1..N : /\ ps[i] \in Mine(h, b)
                              /\ acc[i] = acc[i - 1] + h.page[ps[i]].len
                              /\ h.page[ps[i]].len \in Nat
<1>1. N \in Nat /\ acc[0] = 0 /\ acc \in [0..N -> Int] /\ ps[0] = b
  BY DEF Enumerates, Sums
<1>2. ASSUME NEW i \in 1..N
      PROVE  /\ ps[i] \in Mine(h, b) /\ acc[i] = acc[i - 1] + h.page[ps[i]].len
             /\ h.page[ps[i]].len \in Nat
  <2>1. i \in 0..N /\ i # 0
    BY <1>1
  <2>2. ps[i] \in Mine(h, b) /\ acc[i] \in Int /\ acc[i - 1] \in Int
        /\ h.page[ps[i]].len = acc[i] - acc[i - 1]
    BY <2>1, EnumNode, EnumSum
  <2> QED BY <2>2, PageFacts
<1>3. \A i \in 0..N : acc[i] \in Nat
  <2> DEFINE S == [i \in 0..N |-> Nat]
  <2>1. acc[0] \in S[0] /\ \A i \in 1..N : acc[i - 1] \in S[i - 1] => acc[i] \in S[i]
    <3>1. acc[0] \in S[0]
      BY <1>1
    <3>2. ASSUME NEW i \in 1..N, acc[i - 1] \in S[i - 1] PROVE acc[i] \in S[i]
      <4>1. acc[i - 1] \in Nat /\ i - 1 \in 0..N /\ i \in 0..N
        BY <3>2, <1>1
      <4> QED BY <4>1, <1>2
    <3> QED BY <3>1, <3>2
  <2> HIDE DEF S
  <2>2. \A i \in 0..N : acc[i] \in S[i]
    BY <2>1, <1>1, Along
  <2> QED BY <2>2 DEF S
<1> QED BY <1>1, <1>2, <1>3

LEMMA SumsOrdered ==
    ASSUME NEW h, HeapOK(h), NEW b \in Buffers, NEW N, NEW ps, NEW acc,
           Enumerates(h, b, N, ps, acc), NEW i \in 0..N, NEW j \in i..N
    PROVE  acc[i] <= acc[j]
<1>1. /\ N \in Nat /\ \A k \in 0..N : acc[k] \in Nat
      /\ \A k \in 1..N : acc[k] = acc[k - 1] + h.page[ps[k]].len /\ h.page[ps[k]].len \in Nat
  BY SumsGrow
<1> DEFINE S == [k \in 0..N |-> {m \in Nat : k >= i => acc[i] <= m}]
<1>2. acc[0] \in S[0]
  BY <1>1
<1>3. ASSUME NEW k \in 1..N, acc[k - 1] \in S[k - 1] PROVE acc[k] \in S[k]
  <2>1. k - 1 \in 0..N /\ k \in 0..N /\ acc[k - 1] <= acc[k] /\ acc[k] \in Nat /\ acc[k - 1] \in Nat
    BY <1>1
  <2>2. k - 1 >= i => acc[i] <= acc[k - 1]
    BY <2>1, <1>3
  <2>3. k >= i => acc[i] <= acc[k]
    BY <2>1, <2>2, <1>1
  <2> QED BY <2>1, <2>3
<1> HIDE DEF S
<1>4. \A k \in 0..N : acc[k] \in S[k]
  BY <1>1, <1>2, <1>3, Along
<1>5. j \in 0..N /\ j >= i
  BY <1>1
<1> QED BY <1>4, <1>5 DEF S

\* What the pages show is found page by page.
LEMMA ShowsMore ==
    ASSUME NEW h, HeapOK(h), NEW b \in Buffers, NEW N, NEW ps, NEW acc,
           Enumerates(h, b, N, ps, acc), NEW k \in 1..N, NEW s, Shows(h, ps, acc, k - 1, s),
           NEW t, t = s \o PageBytes(h, ps[k], 0, h.page[ps[k]].len)
    PROVE  Shows(h, ps, acc, k, t)
<1> DEFINE p == ps[k]
           l == h.page[p].len
           u == PageBytes(h, p, 0, l)
           a == acc[k - 1]
<1>1. /\ N \in Nat /\ k - 1 \in 0..N /\ a \in Nat /\ acc[k] = a + l /\ p \in Mine(h, b)
      /\ \A i \in 0..N : acc[i] \in Nat
      /\ \A i \in 1..N : acc[i] = acc[i - 1] + h.page[ps[i]].len /\ h.page[ps[i]].len \in Nat
  BY SumsGrow
<1>2. /\ p \in PageIds /\ h.page[p].data \in DataIds /\ l \in Nat /\ h \in Heap
      /\ InBounds(h, p, 0, l)
  BY <1>1, PageFacts DEF HeapOK
<1>3. u \in Seq(Byte) /\ Len(u) = l /\ \A j \in 1..l : u[j] = ByteAt(h, p, 0 + j)
  <2> HIDE DEF p, l
  <2> QED BY <1>2, PieceBytes
<1>4. s \in Seq(Byte) /\ Len(s) = a /\ t = s \o u
  BY DEF Shows
<1> HIDE DEF p, l, u, a
<1>5. /\ t \in Seq(Byte) /\ Len(t) = a + l
      /\ \A j \in 1..a : t[j] = s[j]
      /\ \A j \in 1..l : t[a + j] = u[j]
  <2>1. /\ s \o u \in Seq(Byte) /\ Len(s \o u) = Len(s) + Len(u)
        /\ \A j \in 1..Len(s) : (s \o u)[j] = s[j]
        /\ \A j \in 1..Len(u) : (s \o u)[Len(s) + j] = u[j]
    <3>1. s \in Seq(Byte) /\ u \in Seq(Byte)
      BY <1>3, <1>4
    <3> QED BY <3>1, Joined
  <2> QED BY <2>1, <1>3, <1>4
<1>6. ASSUME NEW i \in 1..k, NEW j \in 1..h.page[ps[i]].len
      PROVE  t[acc[i - 1] + j] = ByteAt(h, ps[i], j)
  <2>1. CASE i = k
    <3>1. j \in 1..l /\ 0 + j = j
      BY <2>1, <1>2 DEF l, p
    <3>2. t[a + j] = u[j] /\ u[j] = ByteAt(h, p, j)
      BY <3>1, <1>3, <1>5
    <3> QED BY <3>2, <2>1 DEF a, p
  <2>2. CASE i # k
    <3>1. i \in 1..(k - 1) /\ i \in 1..N /\ i \in 0..N /\ i - 1 \in 0..N /\ k - 1 \in i..N
      BY <2>2, <1>1
    <3>2. s[acc[i - 1] + j] = ByteAt(h, ps[i], j)
      BY <3>1 DEF Shows
    <3>3. acc[i] <= a
      BY <3>1, SumsOrdered DEF a
    <3>4. acc[i] = acc[i - 1] + h.page[ps[i]].len /\ acc[i - 1] \in Nat /\ acc[i] \in Nat
          /\ h.page[ps[i]].len \in Nat
      BY <3>1, <1>1
    <3>5. acc[i - 1] + j \in 1..a
      <4> DEFINE x == acc[i - 1]
                 y == acc[i]
                 z == h.page[ps[i]].len
      <4>1. x \in Nat /\ y \in Nat /\ z \in Nat /\ a \in Nat /\ y = x + z /\ y <= a /\ j \in 1..z
        BY <3>3, <3>4, <1>1
      <4> HIDE DEF x, y, z
      <4>2. x + j \in 1..a
        BY <4>1
      <4> QED BY <4>2 DEF x
    <3> QED BY <3>2, <3>5, <1>5
  <2> QED BY <2>1, <2>2
<1>7. Len(t) = acc[k]
  BY <1>1, <1>5
<1> QED BY <1>5, <1>6, <1>7 DEF Shows

LEMMA ContentShown ==
    ASSUME NEW h, HeapOK(h), NEW b \in Buffers, NEW N, NEW ps, NEW acc,
           Enumerates(h, b, N, ps, acc)
    PROVE  Shows(h, ps, acc, N, Content(h, b))
<1> DEFINE qs == PagesOf(h, b)
           seqs == [i \in 1..Len(qs) |-> PageBytes(h, qs[i], 0, NodeLen(h, qs[i]))]
           piece(k) == PageBytes(h, ps[k], 0, h.page[ps[k]].len)
<1>1. /\ N \in Nat /\ acc[0] = 0
      /\ \A i \in 1..N : ps[i] \in Mine(h, b)
  BY SumsGrow
<1>2. qs = [i \in 1..N |-> ps[i]] /\ Len(qs) = N
  <2>1. qs = [i \in 1..N |-> ps[i]]
    BY WalkFindsPages
  <2> HIDE DEF qs
  <2> QED BY <2>1, <1>1
<1>3. seqs = [i \in 1..N |-> piece(i)]
  <2>1. \A i \in 1..N : qs[i] = ps[i] /\ NodeLen(h, ps[i]) = h.page[ps[i]].len
    BY <1>1, <1>2, PageFacts
  <2> HIDE DEF qs
  <2> QED BY <2>1, <1>2
<1>4. Len(seqs) = N /\ \A i \in 1..N : seqs[i] = piece(i)
  <2> HIDE DEF seqs, piece
  <2> QED BY <1>1, <1>3
<1>5. Content(h, b) = FlattenSeq(seqs)
  BY DEF Content
<1> HIDE DEF seqs, qs
<1>6. Shows(h, ps, acc, 0, << >>)
  BY <1>1 DEF Shows
<1>7. CASE N = 0
  <2>1. seqs = << >>
    BY <1>3, <1>7
  <2>2. FlattenSeq(seqs) = seqs
    BY <1>4, <1>7 DEF FlattenSeq
  <2> QED BY <2>1, <2>2, <1>5, <1>6, <1>7
<1>8. CASE N # 0
  <2> DEFINE F == [k \in 1..N |-> [s \in Seq(Byte) |-> s \o seqs[k]]]
             Rule(w) == w = [i \in 1..N |-> IF i = 1 THEN seqs[i] ELSE w[i - 1] \o seqs[i]]
  <2>1. Content(h, b) = (CHOOSE w : Rule(w))[N]
    BY <1>4, <1>5, <1>8 DEF FlattenSeq
  <2>2. \A k \in 1..N : seqs[k] \in Seq(Byte)
    <3> SUFFICES ASSUME NEW k \in 1..N PROVE seqs[k] \in Seq(Byte)
      OBVIOUS
    <3>1. /\ ps[k] \in PageIds /\ h.page[ps[k]].data \in DataIds /\ h.page[ps[k]].len \in Nat
          /\ InBounds(h, ps[k], 0, h.page[ps[k]].len) /\ h \in Heap
      BY <1>1, PageFacts DEF HeapOK
    <3>2. piece(k) \in Seq(Byte)
      BY <3>1, PieceBytes
    <3> QED BY <3>2, <1>4
  <2>3. \E w : Rule(w)
    <3>1. PICK f : ByRule(f, << >>, F, N)
      <4> HIDE DEF F
      <4> QED BY <1>1, RuleExists
    <3>2. f[0] = << >> /\ \A k \in 1..N : f[k] = F[k][f[k - 1]]
      <4> HIDE DEF F
      <4> QED BY <3>1, <1>1, RuleSteps
    <3>3. \A k \in 0..N : f[k] \in Seq(Byte)
      <4> DEFINE S == [k \in 0..N |-> Seq(Byte)]
      <4>1. f[0] \in S[0]
        BY <3>2, <1>1
      <4>2. ASSUME NEW k \in 1..N, f[k - 1] \in S[k - 1] PROVE f[k] \in S[k]
        <5>1. f[k - 1] \in Seq(Byte) /\ k \in 0..N
          BY <4>2, <1>1
        <5>2. f[k] = f[k - 1] \o seqs[k]
          BY <5>1, <3>2
        <5> QED BY <5>1, <5>2, <2>2
      <4> HIDE DEF S
      <4>3. \A k \in 0..N : f[k] \in S[k]
        BY <4>1, <4>2, <1>1, Along
      <4> QED BY <4>3 DEF S
    <3>4. \A k \in 1..N : f[k - 1] \in Seq(Byte) /\ f[k] = f[k - 1] \o seqs[k]
      <4> SUFFICES ASSUME NEW k \in 1..N
                   PROVE  f[k - 1] \in Seq(Byte) /\ f[k] = f[k - 1] \o seqs[k]
        OBVIOUS
      <4>1. k - 1 \in 0..N
        BY <1>1
      <4>2. f[k - 1] \in Seq(Byte)
        BY <4>1, <3>3
      <4>3. f[k] = F[k][f[k - 1]]
        BY <3>2
      <4> QED BY <4>2, <4>3
    <3> DEFINE g == [k \in 1..N |-> f[k]]
    <3>5. ASSUME NEW i \in 1..N
          PROVE  g[i] = IF i = 1 THEN seqs[i] ELSE g[i - 1] \o seqs[i]
      <4>1. CASE i = 1
        <5>1. f[1] = << >> \o seqs[1] /\ seqs[1] \in Seq(Byte)
          <6>1. 1 \in 1..N /\ f[1 - 1] = << >>
            BY <4>1, <3>2
          <6> QED BY <6>1, <3>4, <2>2
        <5> HIDE DEF seqs
        <5>2. << >> \o seqs[1] = seqs[1]
          BY <5>1, NothingBefore
        <5> QED BY <4>1, <5>1, <5>2
      <4>2. CASE i # 1
        <5>1. i - 1 \in 1..N
          BY <4>2, <1>1
        <5> QED BY <5>1, <3>4, <4>2
      <4> QED BY <4>1, <4>2
    <3>6. g = [i \in 1..N |-> g[i]]
      OBVIOUS
    <3> HIDE DEF g
    <3>7. Rule(g)
      BY <3>5, <3>6
    <3> QED BY <3>7
  <2>4. PICK w : Rule(w) /\ Content(h, b) = w[N]
    <3> HIDE DEF Rule
    <3> QED BY <2>1, <2>3
  <2>5. \A i \in 1..N : w[i] = IF i = 1 THEN seqs[i] ELSE w[i - 1] \o seqs[i]
    BY <2>4
  <2> HIDE DEF Rule
  <2> DEFINE v == [k \in 0..N |-> IF k = 0 THEN << >> ELSE w[k]]
             S == [k \in 0..N |-> {s \in Seq(Byte) : Shows(h, ps, acc, k, s)}]
  <2>6. v[0] \in S[0]
    BY <1>1, <1>6
  <2>7. ASSUME NEW k \in 1..N, v[k - 1] \in S[k - 1] PROVE v[k] \in S[k]
    <3>1. k - 1 \in 0..N /\ k \in 0..N /\ k # 0
      BY <1>1
    <3>2. v[k - 1] \in Seq(Byte) /\ Shows(h, ps, acc, k - 1, v[k - 1])
      BY <2>7, <3>1
    <3>3. v[k] = v[k - 1] \o seqs[k]
      <4>1. CASE k = 1
        <5>1. v[k] = seqs[k] /\ v[k - 1] = << >>
          BY <4>1, <2>5, <3>1
        <5>2. << >> \o seqs[k] = seqs[k]
          BY <2>2, NothingBefore
        <5> QED BY <5>1, <5>2
      <4>2. CASE k # 1
        <5>1. v[k] = w[k] /\ v[k - 1] = w[k - 1]
          BY <4>2, <3>1
        <5> QED BY <5>1, <4>2, <2>5
      <4> QED BY <4>1, <4>2
    <3> HIDE DEF v
    <3>4. Shows(h, ps, acc, k, v[k])
      BY <3>2, <3>3, <1>4, ShowsMore
    <3>5. v[k] \in Seq(Byte)
      BY <3>4 DEF Shows
    <3> QED BY <3>1, <3>4, <3>5
  <2> HIDE DEF S
  <2>8. \A k \in 0..N : v[k] \in S[k]
    <3> HIDE DEF v
    <3> QED BY <2>6, <2>7, <1>1, Along
  <2>9. v[N] = w[N] /\ N \in 0..N
    BY <1>1, <1>8
  <2> HIDE DEF v
  <2> QED BY <2>4, <2>8, <2>9 DEF S
<1> QED BY <1>7, <1>8

\* Every byte is in the window of some page.
LEMMA Located ==
    ASSUME NEW h, HeapOK(h), NEW b \in Buffers, NEW N, NEW ps, NEW acc,
           Enumerates(h, b, N, ps, acc), NEW x \in 1..acc[N]
    PROVE  \E i \in 1..N : \E j \in 1..h.page[ps[i]].len : x = acc[i - 1] + j
<1> DEFINE T == {k \in 0..N : x <= acc[k]}
<1>1. /\ N \in Nat /\ acc[0] = 0 /\ \A i \in 0..N : acc[i] \in Nat
      /\ \A i \in 1..N : acc[i] = acc[i - 1] + h.page[ps[i]].len /\ h.page[ps[i]].len \in Nat
  BY SumsGrow
<1>2. N \in T /\ T \in SUBSET Nat /\ x \in Nat /\ x > 0
  BY <1>1
<1>3. PICK i \in T : \A y \in T : i <= y
  <2> HIDE DEF T
  <2> QED BY <1>2, Least
<1>4. i \in 1..N /\ i - 1 \in 0..N /\ ~(i <= i - 1)
  BY <1>1, <1>2, <1>3
<1>5. ~(x <= acc[i - 1])
  BY <1>3, <1>4
<1> DEFINE u == acc[i - 1]
           v == acc[i]
           l == h.page[ps[i]].len
<1>6. u \in Nat /\ v \in Nat /\ l \in Nat /\ v = u + l /\ ~(x <= u) /\ x <= v
  BY <1>1, <1>3, <1>4, <1>5
<1> HIDE DEF u, v, l
<1>7. x - u \in 1..l /\ x = u + (x - u)
  BY <1>2, <1>6
<1> QED BY <1>4, <1>7 DEF u, l

\* Two adjoining pieces of a sequence.
LEMMA Spliced ==
    ASSUME NEW S, NEW s \in Seq(S), NEW k \in Nat, NEW m \in Nat, NEW n \in Nat,
           k <= m, m <= n, n <= Len(s)
    PROVE  SubSeq(s, k + 1, m) \o SubSeq(s, m + 1, n) = SubSeq(s, k + 1, n)
<1> DEFINE u == SubSeq(s, k + 1, m)
           v == SubSeq(s, m + 1, n)
           w == SubSeq(s, k + 1, n)
<1>1. u \in Seq(S) /\ Len(u) = m - k /\ \A i \in 1..(m - k) : u[i] = s[k + i]
  <2>1. m <= Len(s)
    OBVIOUS
  <2> QED BY <2>1, PieceOf
<1>2. v \in Seq(S) /\ Len(v) = n - m /\ \A i \in 1..(n - m) : v[i] = s[m + i]
  BY PieceOf
<1>3. w \in Seq(S) /\ Len(w) = n - k /\ \A i \in 1..(n - k) : w[i] = s[k + i]
  <2>1. k <= n
    OBVIOUS
  <2> QED BY <2>1, PieceOf
<1> HIDE DEF u, v, w
<1>4. /\ u \o v \in Seq(S) /\ Len(u \o v) = n - k
      /\ \A i \in 1..Len(u) : (u \o v)[i] = u[i]
      /\ \A i \in 1..Len(v) : (u \o v)[Len(u) + i] = v[i]
  <2>1. u \in Seq(S) /\ v \in Seq(S)
    BY <1>1, <1>2
  <2>2. /\ u \o v \in Seq(S) /\ Len(u \o v) = Len(u) + Len(v)
        /\ \A i \in 1..Len(u) : (u \o v)[i] = u[i]
        /\ \A i \in 1..Len(v) : (u \o v)[Len(u) + i] = v[i]
    BY <2>1, Joined
  <2>3. Len(u) + Len(v) = n - k
    BY <1>1, <1>2
  <2> QED BY <2>2, <2>3
<1>5. ASSUME NEW i \in 1..(n - k) PROVE (u \o v)[i] = w[i]
  <2>1. CASE i <= m - k
    <3>1. i \in 1..(m - k)
      BY <2>1
    <3> QED BY <3>1, <1>1, <1>3, <1>4
  <2>2. CASE ~(i <= m - k)
    <3> DEFINE j == i - (m - k)
    <3>1. j \in 1..(n - m) /\ (m - k) + j = i /\ m + j = k + i
      BY <2>2
    <3> HIDE DEF j
    <3>2. (u \o v)[i] = v[j]
      BY <3>1, <1>1, <1>2, <1>4
    <3> QED BY <3>1, <3>2, <1>2, <1>3
  <2> QED BY <2>1, <2>2
<1>6. u \o v = w
  <2> DEFINE z == u \o v
  <2>1. z \in Seq(S) /\ Len(z) = Len(w) /\ \A i \in 1..Len(z) : z[i] = w[i]
    BY <1>3, <1>4, <1>5
  <2> HIDE DEF z
  <2>2. z = w
    BY <2>1, <1>3, SameElements
  <2> QED BY <2>2 DEF z
<1> QED BY <1>6 DEF u, v, w

\* The m bytes from off on of page ps[i] are those from t on of the buffer.
InPage(h, N, ps, acc, i, off, m, t) ==
    /\ i \in 1..N /\ off \in Nat /\ m \in Nat /\ off + m <= h.page[ps[i]].len
    /\ t = acc[i - 1] + off

\* What page i shows from off on is a piece of the content.
LEMMA PageInContent ==
    ASSUME NEW h, HeapOK(h), NEW b \in Buffers, NEW N, NEW ps, NEW acc,
           Enumerates(h, b, N, ps, acc), NEW i, NEW off, NEW m, NEW t,
           InPage(h, N, ps, acc, i, off, m, t)
    PROVE  /\ Content(h, b) \in Seq(Byte) /\ Len(Content(h, b)) = acc[N] /\ acc[N] \in Nat
           /\ t \in Nat /\ t + m <= acc[i] /\ acc[i] <= acc[N]
           /\ PageBytes(h, ps[i], off, m) = SubSeq(Content(h, b), t + 1, t + m)
<1> DEFINE C == Content(h, b)
           p == ps[i]
           l == h.page[p].len
           a == acc[i - 1]
           w == SubSeq(C, t + 1, t + m)
           u == PageBytes(h, p, off, m)
<1>0. /\ i \in 1..N /\ off \in Nat /\ m \in Nat /\ off + m <= h.page[ps[i]].len
      /\ t = acc[i - 1] + off
  BY DEF InPage
<1>1. /\ N \in Nat /\ a \in Nat /\ acc[i] = a + l /\ acc[i] \in Nat /\ acc[N] \in Nat
      /\ l \in Nat /\ p \in Mine(h, b)
  <2>1. i - 1 \in 0..N /\ i \in 0..N /\ N \in 0..N
    BY <1>0 DEF Enumerates
  <2> QED BY <2>1, <1>0, SumsGrow
<1>2. acc[i] <= acc[N]
  <2>1. i \in 0..N /\ N \in i..N
    BY <1>0, <1>1
  <2> QED BY <2>1, SumsOrdered
<1>3. C \in Seq(Byte) /\ Len(C) = acc[N] /\ \A j \in 1..l : C[a + j] = ByteAt(h, p, j)
  <2>1. Shows(h, ps, acc, N, C)
    BY ContentShown
  <2> HIDE DEF C
  <2> QED BY <2>1, <1>0 DEF Shows
<1>4. p \in PageIds /\ h.page[p].data \in DataIds /\ h \in Heap /\ p \in LivePages(h)
      /\ NodeLen(h, p) = l
  BY <1>1, PageFacts DEF HeapOK
<1>5. InBounds(h, p, off, m)
  BY <1>0, <1>4, WithinPage
<1>6. u \in Seq(Byte) /\ Len(u) = m /\ \A j \in 1..m : u[j] = ByteAt(h, p, off + j)
  <2> HIDE DEF p
  <2> QED BY <1>0, <1>4, <1>5, PieceBytes
<1> HIDE DEF C, p, l, u
<1>7. t \in Nat /\ t + m <= acc[i] /\ t + m <= Len(C)
  <2> DEFINE e == acc[i]
             f == Len(C)
  <2>1. off + m <= l
    BY <1>0 DEF l, p
  <2>2. t = a + off /\ a \in Nat /\ e = a + l /\ e \in Nat /\ l \in Nat /\ f \in Nat /\ e <= f
    BY <1>0, <1>1, <1>2, <1>3
  <2> HIDE DEF a, e, f
  <2>3. t \in Nat /\ t + m <= e /\ t + m <= f
    BY <1>0, <2>1, <2>2
  <2> QED BY <2>3 DEF e, f
<1>8. w \in Seq(Byte) /\ Len(w) = m /\ \A j \in 1..m : w[j] = C[t + j]
  BY <1>0, <1>3, <1>7, PieceAt
<1> HIDE DEF w
<1>9. ASSUME NEW j \in 1..m PROVE u[j] = w[j]
  <2>1. off + j \in 1..l
    <3>1. off + m <= l
      BY <1>0 DEF l, p
    <3> QED BY <3>1, <1>0, <1>1
  <2>2. a + (off + j) = t + j
    <3> HIDE DEF a
    <3>1. t = a + off
      BY <1>0 DEF a
    <3> QED BY <3>1, <1>0, <1>1
  <2>3. C[a + (off + j)] = ByteAt(h, p, off + j)
    BY <2>1, <1>3
  <2> QED BY <2>2, <2>3, <1>6, <1>8
<1>10. u = w
  BY <1>6, <1>8, <1>9, SameElements
<1> QED BY <1>1, <1>2, <1>3, <1>7, <1>10 DEF C, u, w, p

LEMMA NoPiece ==
    ASSUME NEW S, NEW s \in Seq(S), NEW t \in Nat, t <= Len(s)
    PROVE  SubSeq(s, t + 1, t) = << >>
<1> DEFINE u == SubSeq(s, t + 1, t)
<1>1. u \in Seq(S) /\ Len(u) = t - t
  BY PieceOf
<1>2. Len(u) = 0
  BY <1>1
<1> HIDE DEF u
<1>3. u = << >>
  BY <1>1, <1>2
<1> QED BY <1>3 DEF u

LEMMA ContentLen ==
    ASSUME NEW h, HeapOK(h), NEW b \in Buffers, NEW N, NEW ps, NEW acc,
           Enumerates(h, b, N, ps, acc)
    PROVE  Content(h, b) \in Seq(Byte) /\ Len(Content(h, b)) = acc[N] /\ acc[N] \in Nat
<1>1. Shows(h, ps, acc, N, Content(h, b))
  BY ContentShown
<1>2. N \in 0..N /\ acc[N] \in Nat
  BY SumsGrow
<1> QED BY <1>1, <1>2 DEF Shows

\* The list of b is well formed.
Listed(h, b) == \E N, ps, acc : Enumerates(h, b, N, ps, acc)

\* The position c (a page and an offset in it) in buffer b is in page ps[i] and has t
\* bytes in front of it: on the anchor only if there is no page, at the end of a page
\* only of the last one.
Spot(h, N, ps, acc, c, i, t) ==
    /\ i \in 0..N /\ c.it = ps[i] /\ c.off \in Nat
    /\ i = 0 => N = 0 /\ c.off = 0 /\ t = 0
    /\ i # 0 => /\ c.off <= h.page[ps[i]].len /\ t = acc[i - 1] + c.off
                /\ c.off = h.page[ps[i]].len => i = N

SpotAt(h, b, c, t) ==
    \E N, ps, acc, i : Enumerates(h, b, N, ps, acc) /\ Spot(h, N, ps, acc, c, i, t)

LEMMA SpotWithin ==
    ASSUME NEW h, HeapOK(h), NEW b \in Buffers, NEW N, NEW ps, NEW acc,
           Enumerates(h, b, N, ps, acc), NEW c, NEW i, NEW t,
           Spot(h, N, ps, acc, c, i, t)
    PROVE  t \in Nat /\ t <= acc[N] /\ acc[N] \in Nat /\ N \in Nat
<1>1. N \in Nat /\ acc[0] = 0 /\ acc[N] \in Nat /\ i \in 0..N /\ c.off \in Nat
  BY SumsGrow DEF Spot
<1>2. CASE i = 0
  BY <1>1, <1>2 DEF Spot
<1>3. CASE i # 0
  <2> DEFINE o == c.off
             l == h.page[ps[i]].len
             a == acc[i - 1]
             e == acc[i]
             f == acc[N]
  <2>1. i \in 1..N /\ i - 1 \in 0..N /\ i \in 0..N /\ N \in i..N
    BY <1>1, <1>3
  <2>2. a \in Nat /\ l \in Nat /\ e = a + l /\ e \in Nat
    BY <2>1, SumsGrow
  <2>3. e <= f
    BY <2>1, SumsOrdered
  <2>4. o \in Nat /\ o <= l /\ t = a + o /\ f \in Nat
    BY <1>1, <1>3 DEF Spot
  <2> HIDE DEF o, l, a, e, f
  <2>5. t \in Nat /\ t <= f
    BY <2>2, <2>3, <2>4
  <2> QED BY <2>5, <1>1 DEF f
<1> QED BY <1>2, <1>3

LEMMA SpotInContent ==
    ASSUME NEW h, HeapOK(h), NEW b \in Buffers, NEW c, NEW t, SpotAt(h, b, c, t)
    PROVE  Content(h, b) \in Seq(Byte) /\ t \in Nat /\ t <= Len(Content(h, b))
<1>1. PICK N, ps, acc, i : Enumerates(h, b, N, ps, acc) /\ Spot(h, N, ps, acc, c, i, t)
  BY DEF SpotAt
<1>2. t \in Nat /\ t <= acc[N]
  BY <1>1, SpotWithin
<1>3. Content(h, b) \in Seq(Byte) /\ Len(Content(h, b)) = acc[N]
  BY <1>1, ContentLen
<1> QED BY <1>2, <1>3

-----------------------------------------------------------------------------
(* What a step keeps.                                                      *)

\* What the pages of b show is the same in g as in h.
BytesKept(g, h, b) ==
    \A p \in Mine(h, b) : \A j \in 1..h.page[p].len : ByteAt(g, p, j) = ByteAt(h, p, j)

\* One enumeration goes on where the other ends.
GoesOn(N, ps, acc, M, qs, bcc) ==
    /\ M \in Nat /\ N <= M
    /\ \A i \in 0..N : qs[i] = ps[i] /\ bcc[i] = acc[i]

\* What is in front of the new pages is shown as before.
LEMMA FrontKept ==
    ASSUME NEW h, HeapOK(h), NEW g, HeapOK(g), NEW b \in Buffers,
           NEW N, NEW ps, NEW acc, Enumerates(h, b, N, ps, acc),
           NEW M, NEW qs, NEW bcc, Enumerates(g, b, M, qs, bcc),
           GoesOn(N, ps, acc, M, qs, bcc), BytesKept(g, h, b),
           \A p \in Mine(h, b) : g.page[p].len = h.page[p].len
    PROVE  /\ Content(h, b) \in Seq(Byte) /\ Content(g, b) \in Seq(Byte)
           /\ Len(Content(h, b)) <= Len(Content(g, b))
           /\ \A x \in 1..Len(Content(h, b)) : Content(g, b)[x] = Content(h, b)[x]
<1> DEFINE u == Content(h, b)
           v == Content(g, b)
<1>1. Shows(h, ps, acc, N, u) /\ Shows(g, qs, bcc, M, v)
  BY ContentShown
<1>2. u \in Seq(Byte) /\ Len(u) = acc[N] /\ v \in Seq(Byte) /\ Len(v) = bcc[M]
  BY <1>1 DEF Shows
<1>3. N \in Nat /\ M \in Nat /\ N <= M /\ bcc[N] = acc[N] /\ acc[N] \in Nat /\ bcc[M] \in Nat
  <2>1. N \in Nat /\ M \in Nat /\ N <= M
    BY SumsGrow DEF GoesOn
  <2>2. N \in 0..N /\ M \in 0..M
    BY <2>1
  <2>3. acc[N] \in Nat /\ bcc[M] \in Nat
    BY <2>2, SumsGrow
  <2> QED BY <2>1, <2>2, <2>3 DEF GoesOn
<1>4. bcc[N] <= bcc[M]
  <2>1. N \in 0..M /\ M \in N..M
    BY <1>3
  <2> QED BY <2>1, SumsOrdered
<1> HIDE DEF u, v
<1>5. ASSUME NEW x \in 1..Len(u) PROVE v[x] = u[x]
  <2>1. x \in 1..acc[N]
    BY <1>2
  <2>2. PICK i \in 1..N : \E j \in 1..h.page[ps[i]].len : x = acc[i - 1] + j
    BY <2>1, Located
  <2>3. PICK j \in 1..h.page[ps[i]].len : x = acc[i - 1] + j
    BY <2>2
  <2>4. u[x] = ByteAt(h, ps[i], j)
    BY <2>2, <2>3, <1>1 DEF Shows
  <2>5. i \in 1..M /\ i \in 0..N /\ i - 1 \in 0..N
    BY <1>3
  <2>6. qs[i] = ps[i] /\ bcc[i - 1] = acc[i - 1]
    BY <2>5 DEF GoesOn
  <2>7. ps[i] \in Mine(h, b)
    BY SumsGrow
  <2>8. v[x] = ByteAt(g, ps[i], j)
    BY <2>3, <2>5, <2>6, <2>7, <1>1 DEF Shows
  <2> QED BY <2>4, <2>7, <2>8 DEF BytesKept
<1> QED BY <1>2, <1>3, <1>4, <1>5 DEF u, v

LEMMA FrontPiece ==
    ASSUME NEW u \in Seq(Byte), NEW v \in Seq(Byte), Len(u) <= Len(v),
           \A x \in 1..Len(u) : v[x] = u[x], NEW t \in Nat, t <= Len(u)
    PROVE  SubSeq(v, 1, t) = SubSeq(u, 1, t)
<1>1. 0 \in Nat /\ 0 + 1 = 1 /\ 0 <= t /\ t <= Len(v) /\ t - 0 = t /\ Len(u) \in Nat /\ Len(v) \in Nat
  OBVIOUS
<1> DEFINE y == SubSeq(u, 0 + 1, t)
           z == SubSeq(v, 0 + 1, t)
<1>2. y \in Seq(Byte) /\ Len(y) = t - 0 /\ \A i \in 1..(t - 0) : y[i] = u[0 + i]
  BY <1>1, PieceOf
<1>3. z \in Seq(Byte) /\ Len(z) = t - 0 /\ \A i \in 1..(t - 0) : z[i] = v[0 + i]
  BY <1>1, PieceOf
<1> HIDE DEF y, z
<1>4. \A i \in 1..Len(y) : y[i] = z[i]
  <2> TAKE i \in 1..Len(y)
  <2>1. i \in 1..(t - 0) /\ 0 + i = i /\ i \in 1..Len(u)
    BY <1>1, <1>2
  <2> QED BY <2>1, <1>2, <1>3
<1>5. y = z
  BY <1>1, <1>2, <1>3, <1>4, SameElements
<1> QED BY <1>5 DEF y, z

\* A list that is kept, and what it shows, keeps its content and its readers.
LEMMA KeptContent ==
    ASSUME NEW h, HeapOK(h), NEW g, HeapOK(g), NEW b \in Buffers, ListKept(g, h, b),
           BytesKept(g, h, b), Listed(h, b)
    PROVE  /\ Content(g, b) = Content(h, b)
           /\ \A c, t : SpotAt(h, b, c, t) => SpotAt(g, b, c, t)
<1>0. ASSUME NEW N, NEW ps, NEW acc, Enumerates(h, b, N, ps, acc)
      PROVE  Enumerates(g, b, N, ps, acc)
  BY <1>0, EnumSame DEF ListKept
<1>1. PICK N, ps, acc : Enumerates(h, b, N, ps, acc)
  BY DEF Listed
<1>2. Enumerates(g, b, N, ps, acc)
  BY <1>0, <1>1
<1>3. GoesOn(N, ps, acc, N, ps, acc)
  <2>1. N \in Nat /\ N <= N
    BY <1>1 DEF Enumerates
  <2> QED BY <2>1 DEF GoesOn
<1>4. Len(Content(h, b)) = Len(Content(g, b))
  BY <1>1, <1>2, ContentLen
<1>5. \A p \in Mine(h, b) : g.page[p].len = h.page[p].len
  BY DEF ListKept
<1>6. /\ Content(h, b) \in Seq(Byte) /\ Content(g, b) \in Seq(Byte)
      /\ \A x \in 1..Len(Content(h, b)) : Content(g, b)[x] = Content(h, b)[x]
  BY <1>1, <1>2, <1>3, <1>5, FrontKept
<1>7. Content(h, b) = Content(g, b)
  BY <1>4, <1>6, SameElements
<1>8. ASSUME NEW c, NEW t, SpotAt(h, b, c, t) PROVE SpotAt(g, b, c, t)
  <2>1. PICK K, qs, bcc, i : Enumerates(h, b, K, qs, bcc) /\ Spot(h, K, qs, bcc, c, i, t)
    BY <1>8 DEF SpotAt
  <2>2. Enumerates(g, b, K, qs, bcc)
    BY <2>1, <1>0
  <2>3. i \in 0..K /\ (i # 0 => qs[i] \in Mine(h, b))
    <3>1. i \in 0..K /\ K \in Nat
      BY <2>1 DEF Spot, Enumerates
    <3>2. i # 0 => i \in 1..K
      BY <3>1
    <3> QED BY <3>1, <3>2, <2>1, SumsGrow
  <2>4. i # 0 => g.page[qs[i]].len = h.page[qs[i]].len
    BY <2>3, <1>5
  <2>5. Spot(g, K, qs, bcc, c, i, t)
    BY <2>1, <2>4 DEF Spot
  <2> QED BY <2>2, <2>5 DEF SpotAt
<1> QED BY <1>7, <1>8

\* A page that is the same shows the same, as its region is live in both heaps.
LEMMA ByteStays ==
    ASSUME NEW h, HeapOK(h), NEW g, HeapOK(g), KeptBut(g, h, {}), NEW b \in Buffers,
           NEW p \in Mine(h, b), g.page[p] = h.page[p]
    PROVE  \A j : ByteAt(g, p, j) = ByteAt(h, p, j)
<1> DEFINE d == h.page[p].data
<1>1. p \in PageIds /\ p \in LivePages(h) /\ d \in DataIds /\ p \in LivePages(g)
  <2>1. p \in PageIds /\ p \in LivePages(h) /\ d \in DataIds
    BY PageFacts
  <2> QED BY <2>1 DEF LivePages
<1>2. h.reg[d].live /\ g.reg[d].live
  <2>1. p \in Refs(h, d) /\ p \in Refs(g, d)
    BY <1>1 DEF Refs, LivePages
  <2> QED BY <2>1, <1>1 DEF HeapOK, Counted
<1>3. g.reg[d].mem = h.reg[d].mem
  BY <1>1, <1>2 DEF KeptBut
<1> QED BY <1>3 DEF ByteAt

LEMMA BytesKeptIf ==
    ASSUME NEW h, HeapOK(h), NEW g, HeapOK(g), NEW b \in Buffers, KeptBut(g, h, {}),
           \A p \in Mine(h, b) : g.page[p] = h.page[p]
    PROVE  BytesKept(g, h, b)
  BY ByteStays DEF BytesKept

LEMMA BytesKeptWhole ==
    ASSUME NEW h, HeapOK(h), NEW g, HeapOK(g), NEW b \in Buffers,
           \A p \in Mine(h, b) : /\ g.page[p] = h.page[p]
                                 /\ PageBytes(g, p, 0, h.page[p].len) = PageBytes(h, p, 0, h.page[p].len)
    PROVE  BytesKept(g, h, b)
<1> SUFFICES ASSUME NEW p \in Mine(h, b), NEW j \in 1..h.page[p].len
             PROVE  ByteAt(g, p, j) = ByteAt(h, p, j)
  BY DEF BytesKept
<1> DEFINE n == h.page[p].len
<1>1. /\ p \in PageIds /\ h.page[p].data \in DataIds /\ n \in Nat /\ InBounds(h, p, 0, n)
      /\ h.page[p].own = b
  BY PageFacts
<1>2. p \in Mine(g, b) /\ g.page[p] = h.page[p]
  BY <1>1 DEF Mine, LivePages
<1>3. InBounds(g, p, 0, n) /\ g.page[p].data \in DataIds
  BY <1>1, <1>2, PageFacts
<1>4. h \in Heap /\ g \in Heap /\ 0 \in Nat
  BY DEF HeapOK
<1> HIDE DEF n
<1>5. PageBytes(h, p, 0, n)[j] = ByteAt(h, p, 0 + j)
  BY <1>1, <1>4, PieceBytes DEF n
<1>6. PageBytes(g, p, 0, n)[j] = ByteAt(g, p, 0 + j)
  BY <1>1, <1>3, <1>4, PieceBytes DEF n
<1>7. 0 + j = j
  OBVIOUS
<1>8. PageBytes(g, p, 0, n) = PageBytes(h, p, 0, n)
  BY DEF n
<1> QED BY <1>5, <1>6, <1>7, <1>8

\* A page was added behind the last one of the list of b, which was not empty.
Appended(g, h, b) ==
    \E p \in PageIds, w \in Mine(h, b) :
        /\ p \notin Mine(h, b) /\ Mine(g, b) = Mine(h, b) \cup {p} /\ g.page[p].len \in Nat
        /\ h.nxt[w] = b /\ g.nxt[w] = p /\ g.nxt[p] = b
        /\ \A n \in (Mine(h, b) \cup {b}) \ {w} : g.nxt[n] = h.nxt[n]
        /\ \A q \in Mine(h, b) : g.page[q].len = h.page[q].len
        /\ BytesKept(g, h, b)

LEMMA AppendGoesOn ==
    ASSUME NEW h, HeapOK(h), NEW g, NEW b \in Buffers, Appended(g, h, b),
           NEW N, NEW ps, NEW acc, Enumerates(h, b, N, ps, acc)
    PROVE  /\ N # 0
           /\ \E qs, bcc : Enumerates(g, b, N + 1, qs, bcc) /\ GoesOn(N, ps, acc, N + 1, qs, bcc)
<1>1. PICK p \in PageIds, w \in Mine(h, b) :
        /\ p \notin Mine(h, b) /\ Mine(g, b) = Mine(h, b) \cup {p} /\ g.page[p].len \in Nat
        /\ h.nxt[w] = b /\ g.nxt[w] = p /\ g.nxt[p] = b
        /\ \A n \in (Mine(h, b) \cup {b}) \ {w} : g.nxt[n] = h.nxt[n]
        /\ \A q \in Mine(h, b) : g.page[q].len = h.page[q].len
  BY DEF Appended
<1>2. /\ N \in Nat /\ p \in Nodes /\ p # b /\ b \in Nodes /\ b \notin Mine(h, b) /\ w # b
  BY HeapAssumption, MineFacts DEF Enumerates, Nodes
<1>3. /\ \A i \in 0..(N + 1) : ps[i] \in Nodes
      /\ \A i \in 0..N : acc[i] \in Int
      /\ ps[0] = b /\ ps[N + 1] = b /\ acc[0] = 0
  BY DEF Enumerates, Sums
<1>4. ps[N] = w /\ N # 0 /\ \A i \in 0..N : ps[i] = w => i = N
  <2>1. PICK j \in 0..N : ps[j] = w
    BY AtIndex
  <2>2. ps[j + 1] = b
    BY <2>1, <1>1, EnumNext
  <2>3. j = N
    <3>1. CASE j # N
      <4>1. j + 1 \in 0..N /\ j + 1 # 0
        BY <3>1, <1>2
      <4>2. ps[j + 1] \in Mine(h, b)
        BY <4>1, EnumNode
      <4> QED BY <4>2, <2>2, <1>2
    <3> QED BY <3>1
  <2>4. ASSUME NEW i \in 0..N, ps[i] = w PROVE i = N
    BY <2>1, <2>3, <2>4, EnumOnce
  <2> QED BY <2>1, <2>3, <2>4, <1>2, <1>3
<1> DEFINE M == N + 1
           l == g.page[p].len
           qs == [i \in 0..(M + 1) |-> IF i <= N THEN ps[i] ELSE IF i = N + 1 THEN p ELSE b]
           sum == [i \in 0..M |-> IF i <= N THEN acc[i] ELSE acc[N] + l]
<1>5. l \in Int
  BY <1>1
<1> HIDE DEF l
<1>6. M \in Nat /\ qs \in [0..(M + 1) -> Nodes] /\ sum \in [0..M -> Int]
  BY <1>2, <1>3, <1>5
<1>7. qs[0] = b /\ qs[M + 1] = b /\ sum[0] = 0
  BY <1>2, <1>3
<1>8. ASSUME NEW i \in 0..M PROVE g.nxt[qs[i]] = qs[i + 1]
  <2>1. CASE i < N
    <3>1. qs[i] = ps[i] /\ qs[i + 1] = ps[i + 1] /\ i \in 0..N /\ i # N
      BY <2>1, <1>2
    <3>2. ps[i] \in (Mine(h, b) \cup {b}) \ {w} /\ h.nxt[ps[i]] = ps[i + 1]
      BY <3>1, <1>4, EnumNode, EnumNext
    <3> QED BY <3>1, <3>2, <1>1
  <2>2. CASE i = N
    <3>1. qs[i] = w /\ qs[i + 1] = p
      BY <2>2, <1>2, <1>4
    <3> QED BY <3>1, <1>1
  <2>3. CASE i = N + 1
    <3>1. qs[i] = p /\ qs[i + 1] = b
      BY <2>3, <1>2
    <3> QED BY <3>1, <1>1
  <2> QED BY <2>1, <2>2, <2>3, <1>2
<1>9. ASSUME NEW i \in 1..M
      PROVE  qs[i] \in Mine(g, b) /\ g.page[qs[i]].len = sum[i] - sum[i - 1]
  <2>1. CASE i <= N
    <3>1. i \in 0..N /\ i # 0 /\ qs[i] = ps[i] /\ sum[i] = acc[i] /\ sum[i - 1] = acc[i - 1]
      BY <2>1, <1>2
    <3>2. ps[i] \in Mine(h, b) /\ h.page[ps[i]].len = acc[i] - acc[i - 1]
      BY <3>1, EnumNode, EnumSum
    <3> QED BY <3>1, <3>2, <1>1
  <2>2. CASE i = N + 1
    <3>1. qs[i] = p /\ sum[i] = acc[N] + l /\ sum[i - 1] = acc[N] /\ acc[N] \in Int
      BY <2>2, <1>2, <1>3
    <3> QED BY <3>1, <1>1, <1>5 DEF l
  <2> QED BY <2>1, <2>2, <1>2
<1>10. ASSUME NEW i \in 1..M, NEW k \in 1..M, qs[i] = qs[k] PROVE i = k
  <2>1. ASSUME NEW m \in 1..M
        PROVE  \/ m = N + 1 /\ qs[m] = p
               \/ m \in 0..N /\ qs[m] = ps[m] /\ qs[m] # p
    <3>1. CASE m = N + 1
      BY <3>1, <1>2
    <3>2. CASE m # N + 1
      <4>1. m \in 0..N /\ qs[m] = ps[m] /\ m # 0
        BY <3>2, <1>2
      <4>2. ps[m] \in Mine(h, b)
        BY <4>1, EnumNode
      <4> QED BY <4>1, <4>2, <1>1
    <3> QED BY <3>1, <3>2
  <2> HIDE DEF qs
  <2>2. CASE i = N + 1 \/ k = N + 1
    <3>1. qs[i] = p \/ qs[k] = p
      BY <2>1, <2>2, <1>2
    <3>2. i = N + 1 /\ k = N + 1
      BY <2>1, <3>1, <1>10
    <3> QED BY <3>2
  <2>3. CASE i # N + 1 /\ k # N + 1
    <3>1. i \in 0..N /\ k \in 0..N /\ ps[i] = ps[k]
      BY <2>1, <2>3, <1>10
    <3> QED BY <3>1, EnumOnce
  <2> QED BY <2>2, <2>3
<1>11. ASSUME NEW q \in Mine(g, b) PROVE \E i \in 1..M : qs[i] = q
  <2>1. CASE q = p
    <3>1. N + 1 \in 1..M /\ qs[N + 1] = q
      BY <2>1, <1>2
    <3> QED BY <3>1
  <2>2. CASE q # p
    <3>1. q \in Mine(h, b)
      BY <2>2, <1>1
    <3>2. PICK i \in 1..N : ps[i] = q
      BY <3>1 DEF Enumerates
    <3>3. i \in 1..M /\ qs[i] = q
      BY <3>2, <1>2
    <3> QED BY <3>3
  <2> QED BY <2>1, <2>2
<1>12. \A i \in 0..N : qs[i] = ps[i] /\ sum[i] = acc[i]
  BY <1>2
<1> HIDE DEF qs, sum
<1>13. Enumerates(g, b, M, qs, sum)
  BY <1>6, <1>7, <1>8, <1>9, <1>10, <1>11 DEF Enumerates, Follows, Sums
<1>14. GoesOn(N, ps, acc, M, qs, sum)
  BY <1>2, <1>12 DEF GoesOn
<1> QED BY <1>4, <1>13, <1>14

\* The position is behind the last byte.
EndsAt(h, b, c) == c.it # b /\ h.nxt[c.it] = b /\ c.off = NodeLen(h, c.it)

\* The buffer shows the same first t bytes.
FrontStands(g, h, b, t) == SubSeq(Content(g, b), 1, t) = SubSeq(Content(h, b), 1, t)

\* Appending disturbs no position, except one at the end.
LEMMA AppendKeepsSpot ==
    ASSUME NEW h, HeapOK(h), NEW g, HeapOK(g), NEW b \in Buffers, Appended(g, h, b),
           NEW c, NEW t, SpotAt(h, b, c, t), ~EndsAt(h, b, c)
    PROVE  SpotAt(g, b, c, t) /\ ~EndsAt(g, b, c) /\ FrontStands(g, h, b, t)
<1>1. PICK N, ps, acc, i : Enumerates(h, b, N, ps, acc) /\ Spot(h, N, ps, acc, c, i, t)
  BY DEF SpotAt
<1>2. N \in Nat /\ i \in 0..N /\ ps[N + 1] = b
  BY <1>1 DEF Spot, Enumerates
<1>3. PICK qs, bcc : Enumerates(g, b, N + 1, qs, bcc) /\ GoesOn(N, ps, acc, N + 1, qs, bcc)
  BY <1>1, AppendGoesOn
<1>4. i # 0 /\ i \in 1..N /\ N # 0
  <2>1. N # 0
    BY <1>1, AppendGoesOn
  <2> QED BY <2>1, <1>1, <1>2 DEF Spot
<1>5. /\ c.it = ps[i] /\ ps[i] \in Mine(h, b) /\ c.it # b
      /\ NodeLen(h, ps[i]) = h.page[ps[i]].len /\ h.page[ps[i]].len \in Nat
  <2>1. ps[i] \in Mine(h, b)
    BY <1>1, <1>4, SumsGrow
  <2> QED BY <2>1, <1>1, PageFacts DEF Spot
<1>6. BytesKept(g, h, b) /\ g.page[ps[i]].len = h.page[ps[i]].len
      /\ \A p \in Mine(h, b) : g.page[p].len = h.page[p].len /\ p \in Mine(g, b)
  BY <1>5 DEF Appended
<1>7. c.off # h.page[ps[i]].len
  <2>1. CASE c.off = h.page[ps[i]].len
    <3>1. i = N
      BY <2>1, <1>1, <1>4 DEF Spot
    <3>2. h.nxt[ps[i]] = b
      BY <3>1, <1>1, <1>2, EnumNext
    <3> QED BY <2>1, <3>2, <1>5 DEF EndsAt
  <2> QED BY <2>1
<1>8. qs[i] = ps[i] /\ bcc[i - 1] = acc[i - 1] /\ i \in 0..(N + 1)
  <2>1. i \in 0..N /\ i - 1 \in 0..N /\ i \in 0..(N + 1)
    BY <1>4, <1>2
  <2> QED BY <2>1, <1>3 DEF GoesOn
<1>9. Spot(g, N + 1, qs, bcc, c, i, t)
  BY <1>1, <1>4, <1>6, <1>7, <1>8 DEF Spot
<1>10. SpotAt(g, b, c, t)
  BY <1>3, <1>9 DEF SpotAt
<1>11. ~EndsAt(g, b, c)
  <2>1. NodeLen(g, ps[i]) = g.page[ps[i]].len
    BY <1>5, <1>6, PageFacts
  <2> QED BY <2>1, <1>5, <1>6, <1>7 DEF EndsAt
<1>12. /\ Content(h, b) \in Seq(Byte) /\ Content(g, b) \in Seq(Byte)
       /\ Len(Content(h, b)) <= Len(Content(g, b))
       /\ \A x \in 1..Len(Content(h, b)) : Content(g, b)[x] = Content(h, b)[x]
  <2>1. \A p \in Mine(h, b) : g.page[p].len = h.page[p].len
    BY <1>6
  <2> QED BY <2>1, <1>1, <1>3, <1>6, FrontKept
<1>13. t \in Nat /\ t <= Len(Content(h, b))
  BY SpotInContent
<1>14. SubSeq(Content(g, b), 1, t) = SubSeq(Content(h, b), 1, t)
  BY <1>12, <1>13, FrontPiece
<1> QED BY <1>10, <1>11, <1>14 DEF FrontStands

\* A loose page linked in front of the anchor of a list with pages is behind the last.
LEMMA LinkedAtEnd ==
    ASSUME CountSuffices, NEW h, HeapOK(h), NEW p \in FreePages(h), NEW n \in Nat, NEW k,
           Loose(k, h, p, n), NEW b \in Buffers, Linked(h, b), h.nxt[b] # b,
           NEW g, g = LinkBefore(k, p, b), HeapOK(g)
    PROVE  Appended(g, h, b)
<1> DEFINE w == h.prv[b]
<1>1. /\ HeapOK(k) /\ p \in LivePages(k) /\ ~Linked(k, p) /\ k.page[p].len = n
      /\ Linked(k, b) /\ p \notin LivePages(h) /\ b \in Nodes /\ Owner(h, b) = b
      /\ SamePagesBut(k, h, p) /\ k.nxt = h.nxt /\ k.prv = h.prv /\ k \in Heap
      /\ p \in PageIds /\ p \in Nodes /\ p # b /\ Owner(k, b) = b
  <2>1. b \in Nodes /\ b \notin PageIds
    BY HeapAssumption DEF Nodes
  <2>2. Owner(h, b) = b /\ Owner(k, b) = b
    BY <2>1 DEF Owner
  <2>3. /\ HeapOK(k) /\ p \in LivePages(k) /\ ~Linked(k, p) /\ k.page[p].len = n
        /\ Linked(k, b) /\ p \notin LivePages(h)
        /\ SamePagesBut(k, h, p) /\ k.nxt = h.nxt /\ k.prv = h.prv
    BY <2>1, LooseFacts
  <2>4. p \in PageIds /\ p \in Nodes /\ p # b
    BY <2>1 DEF FreePages, Nodes
  <2> QED BY <2>1, <2>2, <2>3, <2>4 DEF HeapOK
<1>2. LinkedIn(g, k, p, b)
  BY <1>1, LinkIsIn
<1>3. w \in Nodes /\ Linked(h, w) /\ Owner(h, w) = b /\ h.nxt[w] = b
  BY <1>1, Neighbours
<1>4. w \in Mine(h, b)
  <2>1. w \in Mine(h, b) \cup {b}
    BY <1>3, InList
  <2>2. w # b
    BY <1>3
  <2> QED BY <2>1, <2>2
<1>5. p \notin Mine(h, b) /\ w # p
  BY <1>1, <1>4 DEF Mine
<1>6. /\ g.nxt[w] = p /\ g.nxt[p] = b
      /\ \A m \in Nodes \ {w, p} : g.nxt[m] = h.nxt[m]
  <2>1. h.nxt \in [Nodes -> Nodes \cup {NULL}] /\ g.nxt = [[h.nxt EXCEPT ![w] = p] EXCEPT ![p] = b]
    BY <1>1, <1>2 DEF LinkedIn, Heap, HeapOK
  <2> HIDE DEF w
  <2> QED BY <2>1, <1>1, <1>3, <1>5
<1>7. /\ g.page[p].live /\ g.page[p].own = b /\ g.page[p].len = n
      /\ \A q \in PageIds \ {p} : g.page[q] = h.page[q]
  BY <1>1, <1>2 DEF LinkedIn, PageIs, SamePagesBut, LivePages
<1>8. Mine(g, b) = Mine(h, b) \cup {p}
  BY <1>1, <1>5, <1>7 DEF Mine, LivePages
<1>9. \A q \in Mine(h, b) : g.page[q] = h.page[q]
  BY <1>5, <1>7, MineFacts
<1>10. \A m \in (Mine(h, b) \cup {b}) \ {w} : g.nxt[m] = h.nxt[m]
  BY <1>1, <1>5, <1>6, MineFacts DEF Nodes
<1>11. KeptBut(g, h, {})
  <2>1. /\ 0 \in Nat /\ 0 <= NodeLen(k, b) /\ b \in Nodes
    BY <1>1, NodeLenType
  <2>2. Placed(g, k, p, b, 0, p)
    BY <2>1 DEF Placed, SplitAt
  <2> QED BY <2>1, <2>2, PlacedKeeps
<1>12. BytesKept(g, h, b)
  BY <1>9, <1>11, BytesKeptIf
<1> HIDE DEF w
<1>13. g.page[p].len \in Nat /\ \A q \in Mine(h, b) : g.page[q].len = h.page[q].len
  BY <1>7, <1>9
<1> QED BY <1>1, <1>3, <1>4, <1>5, <1>6, <1>8, <1>10, <1>12, <1>13 DEF Appended

-----------------------------------------------------------------------------
(* What a step of the library does to the lists.                           *)

AppendFns == {"extend", "insert_data", "insert_data_ref", "insert_buffer"}

\* The call moves or changes data, and will raise the revision when it returns.
Moving(c) == c.pc # "idle" /\ ReturnBumps(c)

\* The call adds pages behind the last one, if there is one.
Appending(c) ==
    c.pc # "idle" /\ c.fn \in AppendFns /\ (c.fn = "extend" \/ c.it = c.buf)

\* A step inside a call.
CallGoesOn ==
    /\ call'.pc # "idle" /\ call'.buf = call.buf /\ call'.fn = call.fn
    /\ Appending(call') => Appending(call)

\* The readers of the buffer of the call find another revision, now or when it
\* returns, or the list is as it was, or longer.
OwnEffect ==
    \/ call.buf \in bumped'
    \/ Moving(call')
    \/ heap' = heap /\ (Moving(call) => Moving(call'))
    \/ Appending(call) /\ Appended(heap', heap, call.buf)

\* The calls of the functions that free everything have raised the revision.
ClearBumps == call.pc # "idle" /\ call.fn \in {"clear", "destroy"} => call.buf \in bumped

StepEffect == CallGoesOn /\ OwnEffect /\ OtherListsKept(heap', heap, call.buf)

LEMMA SameLists ==
    ASSUME NEW h, NEW b
    PROVE  OtherListsKept(h, h, b)
BY DEF OtherListsKept, ListKept

LEMMA AfterInsertKeeps ==
    ASSUME NEW c \in CallType, NEW h, NEW n
    PROVE  /\ AfterInsert(c, h, n).fn = c.fn /\ AfterInsert(c, h, n).buf = c.buf
           /\ AfterInsert(c, h, n).it = c.it /\ AfterInsert(c, h, n).pc = c.pc
<1> DEFINE d == [Progress(c, n) EXCEPT !.off = 0]
<1>1. /\ d.fn = c.fn /\ d.buf = c.buf /\ d.it = c.it /\ d.pc = c.pc
      /\ \A x, y : /\ [d EXCEPT !.sit = x].fn = c.fn /\ [d EXCEPT !.sit = x].buf = c.buf
                   /\ [d EXCEPT !.sit = x].it = c.it /\ [d EXCEPT !.sit = x].pc = c.pc
                   /\ [d EXCEPT !.soff = x].fn = c.fn /\ [d EXCEPT !.soff = x].buf = c.buf
                   /\ [d EXCEPT !.soff = x].it = c.it /\ [d EXCEPT !.soff = x].pc = c.pc
                   /\ [d EXCEPT !.sit = x, !.soff = y].fn = c.fn
                   /\ [d EXCEPT !.sit = x, !.soff = y].buf = c.buf
                   /\ [d EXCEPT !.sit = x, !.soff = y].it = c.it
                   /\ [d EXCEPT !.sit = x, !.soff = y].pc = c.pc
  BY DEF Progress, CallType
<1> HIDE DEF d
<1> QED BY <1>1 DEF AfterInsert, NextSource, d

LEMMA InsertOthers ==
    ASSUME CountSuffices, IInv, ListInv, NEW h, NEW p, NEW n, NEW x, Inserts(h, p, n, x)
    PROVE  OtherListsKept(heap', heap, call.buf)
<1> DEFINE b == call.buf
<1>1. /\ HeapOK(heap) /\ call \in CallType /\ b \in Buffers /\ Homed(heap)
      /\ p \in FreePages(heap) /\ Loose(h, heap, p, n) /\ Fresh(h, heap, p, n)
      /\ x \in Nodes /\ Linked(heap, x) /\ Owner(heap, x) = b /\ n \in Nat
  BY DEF IInv, CallOK, Inserts, Inside, Loose, ListInv
<1>2. CASE heap' = PageDestroy(h, p)
  <2>1. HeapOK(h) /\ p \in LivePages(h) /\ ~Linked(h, p) /\ ~heap.page[p].live
    BY <1>1 DEF Fresh, FreePages
  <2>2. Freed(heap', h, p) /\ heap'.nxt = h.nxt
    BY <2>1, <1>2, LooseDestroyed
  <2>3. /\ heap'.nxt = heap.nxt /\ LivePages(heap') = LivePages(heap)
        /\ \A r \in LivePages(heap) : heap'.page[r] = heap.page[r]
    BY <2>1, <2>2, <1>1 DEF Freed, Fresh, LivePages, SamePagesBut
  <2>4. /\ \A c \in Buffers : Mine(heap', c) = Mine(heap, c)
        /\ \A c \in Buffers : \A r \in Mine(heap, c) : heap'.page[r].len = heap.page[r].len
    BY <2>3 DEF Mine
  <2>5. ListsKept(heap', heap)
    BY <2>3, <2>4, ListsKeptIf
  <2> QED BY <2>5 DEF ListsKept, OtherListsKept
<1>3. ASSUME NEW q, NEW off, Placed(heap', h, p, x, off, q)
      PROVE  OtherListsKept(heap', heap, b)
  BY <1>1, <1>3, PlacedLists
<1> HIDE DEF b
<1> QED BY <1>2, <1>3, InsertedPage DEF b

\* An insert anywhere but behind the last page raises the revision.
LEMMA InsertEffect ==
    ASSUME CountSuffices, IInv, IInv', ListInv, NEW h, NEW p, NEW n, NEW x, Inserts(h, p, n, x)
    PROVE  StepEffect
<1> DEFINE b == call.buf
<1>1. /\ HeapOK(heap) /\ call \in CallType /\ b \in Buffers /\ Linked(heap, b)
      /\ p \in FreePages(heap) /\ Loose(h, heap, p, n) /\ n \in Nat
      /\ call.pc = "loop" /\ call.fn \in Inserting /\ HeapOK(heap')
      /\ InsertPage(h, p, x) /\ call.off \in Nat
      /\ x = IF call.fn = "extend" THEN call.buf
             ELSE IF call.fn = "rewind" THEN heap.nxt[call.buf] ELSE call.it
  BY DEF IInv, CallOK, Inserts, Inside, CallType
<1>2. call'.fn = call.fn /\ call'.buf = b /\ call'.it = call.it /\ call'.pc # "idle"
  <2>1. \/ call' = [call EXCEPT !.pc = "ret"]
        \/ \E m : call' = AfterInsert(call, heap', m)
    BY InsertedPage
  <2>2. CASE call' = [call EXCEPT !.pc = "ret"]
    BY <2>2, <1>1 DEF CallType
  <2>3. CASE \E m : call' = AfterInsert(call, heap', m)
    BY <2>3, <1>1, AfterInsertKeeps
  <2> QED BY <2>1, <2>2, <2>3
<1>3. CallGoesOn
  BY <1>1, <1>2 DEF CallGoesOn, Appending
<1>4. InsertBumps(b, x) => OwnEffect
  BY <1>1 DEF InsertPage, OwnEffect
<1>5. ASSUME ~InsertBumps(b, x) PROVE OwnEffect
  <2>1. x = b /\ size[b] # 0
    BY <1>5 DEF InsertBumps
  <2>2. heap.nxt[b] # b
    <3>1. call.fn \notin {"clear", "destroy"} /\ Exists(heap, b)
      BY <1>1 DEF Inserting, Linked, Exists
    <3>2. PICK t : Chain(heap, b, t) /\ t = size[b]
      BY <3>1, <1>1 DEF ListInv, SizesMatch, Emptying
    <3> QED BY <3>2, <2>1, <1>1, ChainAtEnd
  <2>3. Appending(call)
    BY <2>1, <2>2, <1>1 DEF Appending, AppendFns, Inserting
  <2>4. Lower(call.off, NodeLen(h, x)) = 0
    <3>1. NodeLen(h, x) = 0
      BY <2>1, <1>1, HeapAssumption DEF NodeLen
    <3> QED BY <3>1, <1>1 DEF Lower
  <2>5. heap' = LinkBefore(h, p, b)
    BY <2>1, <2>4, <1>1 DEF InsertPage
  <2>6. Appended(heap', heap, b)
    BY <2>2, <2>5, <1>1, LinkedAtEnd
  <2> QED BY <2>3, <2>6 DEF OwnEffect
<1>6. OtherListsKept(heap', heap, b)
  BY InsertOthers
<1> QED BY <1>3, <1>4, <1>5, <1>6 DEF StepEffect

LEMMA SeekOrTrimMoves ==
    ASSUME NEW c, c.pc # "idle", c.done > 0,
           c.fn \in {"seek", "trim", "overwrite_data", "overwrite_buffer"}
    PROVE  Moving(c) /\ ~Appending(c)
BY DEF Moving, ReturnBumps, Appending, AppendFns

LEMMA CutOthers ==
    ASSUME IInv, ListInv, NEW g, NEW n, Cuts(g, n)
    PROVE  OtherListsKept(heap', heap, call.buf)
<1> DEFINE p == call.it
           b == call.buf
<1>1. /\ p \in LivePages(heap) /\ p \in PageIds /\ heap.page[p].own = b
      /\ PageCut(g, heap, p) /\ g.page[p].len = heap.page[p].len - n
      /\ n = Lower(heap.page[p].len, call.len) /\ call.len \in Nat
      /\ heap' = IF NodeLen(g, p) = 0 THEN UnlinkDestroy(g, p) ELSE g
      /\ call.pc = "loop"
  BY DEF Cuts, LivePages
<1>2. HeapOK(heap) /\ heap \in Heap /\ AllLinked(heap) /\ b \in Buffers /\ Homed(heap)
  BY <1>1 DEF IInv, HeapOK, CallOK, ListInv
<1>3. n \in Nat
  BY <1>1, <1>2, LowerType DEF Heap, PageRec
<1>4. OtherListsKept(g, heap, b) /\ Homed(g)
  <2> HIDE DEF p, b
  <2> QED BY <1>1, <1>2, <1>3, CutLists
<1>5. /\ HeapOK(g) /\ LivePages(g) = LivePages(heap) /\ g.nxt = heap.nxt
      /\ g.page[p].own = b
  BY <1>1, <1>2, NarrowedPage DEF PageCut, OnlyPage
<1>6. CASE NodeLen(g, p) = 0
  <2>1. Linked(g, p) /\ heap' = UnlinkDestroy(g, p) /\ p \in LivePages(g)
    BY <1>1, <1>2, <1>5, <1>6 DEF AllLinked, Linked
  <2> HIDE DEF p, b
  <2>2. OtherListsKept(heap', g, b)
    BY <2>1, <1>2, <1>4, <1>5, RemovedLists
  <2> QED BY <2>2, <1>4, KeptTwice DEF OtherListsKept, b
<1>7. CASE NodeLen(g, p) # 0
  BY <1>1, <1>4, <1>7
<1> QED BY <1>6, <1>7

\* A seek or a trim that goes on has moved something.
LEMMA CutEffect ==
    ASSUME IInv, ListInv, FillInv, NEW g, NEW n, Cuts(g, n)
    PROVE  StepEffect
<1> DEFINE p == call.it
           nx == IF call.fn = "seek" THEN heap.nxt[p] ELSE heap.prv[p]
           e == IF NodeLen(g, p) = 0 THEN [call EXCEPT !.it = nx] ELSE call
<1>1. /\ p \in LivePages(heap) /\ p \in PageIds
      /\ n = Lower(heap.page[p].len, call.len) /\ call.len \in Nat /\ call.len > 0
      /\ call' = IF n = 0 THEN [e EXCEPT !.pc = "ret"] ELSE Progress(e, n)
      /\ call.fn \in {"seek", "trim"} /\ call.pc = "loop"
  BY DEF Cuts, LivePages
<1>2. call \in CallType /\ heap.page[p].len \in Nat /\ heap.page[p].len > 0 /\ call.done \in Nat
  BY <1>1 DEF IInv, HeapOK, Heap, PageRec, FillInv, Filled, CallType
<1>3. n \in Nat /\ n > 0
  BY <1>1, <1>2 DEF Lower
<1>4. call' = Progress(e, n) /\ e \in {call, [call EXCEPT !.it = nx]}
  BY <1>1, <1>3
<1> HIDE DEF nx, e, p
<1>5. call'.fn = call.fn /\ call'.buf = call.buf /\ call'.pc = call.pc /\ call'.done = call.done + n
  <2>1. CASE e = call
    <3>1. call' = Progress(call, n)
      BY <2>1, <1>4
    <3> QED BY <3>1, <1>2 DEF Progress, CallType
  <2>2. CASE e = [call EXCEPT !.it = nx]
    <3>1. call' = Progress([call EXCEPT !.it = nx], n)
      BY <2>2, <1>4
    <3> QED BY <3>1, <1>2 DEF Progress, CallType
  <2> QED BY <2>1, <2>2, <1>4
<1>6. call'.done > 0 /\ call'.pc # "idle"
  BY <1>1, <1>2, <1>3, <1>5
<1>7. Moving(call') /\ ~Appending(call')
  BY <1>1, <1>5, <1>6, SeekOrTrimMoves
<1> QED BY <1>5, <1>6, <1>7, CutOthers DEF StepEffect, CallGoesOn, OwnEffect

LEMMA ClearEffect ==
    ASSUME IInv, ListInv, ClearBumps, ClearStep
    PROVE  StepEffect
<1>1. PICK fn \in {"clear", "destroy"} : In(fn)
  BY DEF ClearStep
<1>2. /\ HeapOK(heap) /\ AllLinked(heap) /\ call.buf \in Buffers /\ call.fn = fn
      /\ call \in CallType /\ Inside(heap, call.it, call.buf) /\ call.it # call.buf
      /\ Homed(heap) /\ call.pc = "loop"
  BY <1>1, InLoop DEF In, LoopGoesOn, ListInv
<1>3. call.it \in LivePages(heap) /\ heap.page[call.it].own = call.buf /\ Linked(heap, call.it)
  BY <1>2, InsideIsPage DEF Inside
<1>4. OtherListsKept(heap', heap, call.buf)
  <2>1. heap' = UnlinkDestroy(heap, call.it)
    BY DEF ClearStep
  <2> QED BY <2>1, <1>2, <1>3, RemovedLists
<1>5. call.buf \in bumped'
  BY <1>2 DEF ClearBumps, ClearStep
<1>6. CallGoesOn
  <2>1. call'.fn = call.fn /\ call'.buf = call.buf /\ call'.pc = "loop"
    BY <1>2 DEF ClearStep, CallType
  <2> QED BY <2>1, <1>2 DEF CallGoesOn, Appending, AppendFns
<1> QED BY <1>4, <1>5, <1>6 DEF StepEffect, OwnEffect

\* Nothing but the locals changes.
LEMMA LeaveEffect ==
    ASSUME IInv, call.pc = "loop", LeaveLoop \/ Fault("oob")
    PROVE  StepEffect
<1>1. heap' = heap /\ call \in CallType
  BY DEF LeaveLoop, Fault, IInv
<1>2. /\ call'.fn = call.fn /\ call'.buf = call.buf /\ call'.it = call.it
      /\ call'.done = call.done /\ call'.pc # "idle"
  <2>1. CASE LeaveLoop
    BY <2>1, <1>1 DEF LeaveLoop, CallType
  <2>2. CASE Fault("oob")
    BY <2>2 DEF Fault
  <2> QED BY <2>1, <2>2
<1>3. Appending(call') => Appending(call)
  BY <1>2 DEF Appending
<1>4. Moving(call) => Moving(call')
  BY <1>2 DEF Moving, ReturnBumps
<1> QED BY <1>1, <1>2, <1>3, <1>4, SameLists DEF StepEffect, CallGoesOn, OwnEffect

LEMMA ReadDataEffect ==
    ASSUME IInv, ReadDataStep
    PROVE  StepEffect
<1>1. /\ heap' = heap /\ call.fn = "read_data" /\ call.pc = "loop" /\ call \in CallType
  BY InLoop DEF ReadDataStep, In
<1>2. PICK n, s, it : call' = [Progress(call, n) EXCEPT !.dat = s, !.it = it]
  BY DEF ReadDataStep
<1>3. call'.fn = call.fn /\ call'.buf = call.buf /\ call'.pc = "loop"
  BY <1>1, <1>2 DEF Progress, CallType
<1>4. ~Appending(call') /\ ~Moving(call)
  BY <1>1, <1>3 DEF Appending, AppendFns, Moving, ReturnBumps
<1> QED BY <1>1, <1>3, <1>4, SameLists DEF StepEffect, CallGoesOn, OwnEffect

LEMMA PatchedOthers ==
    ASSUME NEW h, NEW g, g = h \/ Patched(g, h), NEW b
    PROVE  OtherListsKept(g, h, b)
<1>1. CASE g = h
  BY <1>1, SameLists
<1>2. CASE Patched(g, h)
  <2>1. /\ \A c \in Buffers : Mine(g, c) = Mine(h, c)
        /\ \A c \in Buffers : \A r \in Mine(h, c) : g.page[r].len = h.page[r].len
    BY <1>2 DEF Mine, LivePages, Patched
  <2>2. ListsKept(g, h)
    BY <2>1, <1>2, ListsKeptIf DEF Patched
  <2> QED BY <2>2 DEF ListsKept, OtherListsKept
<1> QED BY <1>1, <1>2

\* An overwrite that goes on has written something.
LEMMA WrittenEffect ==
    ASSUME heap' = heap \/ Patched(heap', heap), NEW n \in Nat, n > 0, call \in CallType,
           call.pc = "loop", call.fn \in {"overwrite_data", "overwrite_buffer"},
           call'.fn = call.fn, call'.buf = call.buf, call'.pc = call.pc,
           call'.done = call.done + n
    PROVE  StepEffect
<1>1. call'.done > 0 /\ call'.pc # "idle"
  BY DEF CallType
<1>2. Moving(call') /\ ~Appending(call')
  BY <1>1, SeekOrTrimMoves
<1> QED BY <1>1, <1>2, PatchedOthers DEF StepEffect, CallGoesOn, OwnEffect

LEMMA OverwriteDataEffect ==
    ASSUME IInv, FillInv, OverwriteDataStep
    PROVE  StepEffect
<1> DEFINE p == call.it
           h == Writable(p)
           n == Lower(NodeLen(h, p), call.len)
           nx == h.nxt[p]
<1>1. In("overwrite_data")
  BY DEF OverwriteDataStep
<1>2. /\ call.fn = "overwrite_data" /\ call.pc = "loop" /\ HeapOK(heap) /\ call.buf \in Buffers
      /\ call \in CallType /\ Inside(heap, p, call.buf) /\ call.len \in Nat /\ p # call.buf
      /\ call.len > 0
  BY <1>1, InLoop DEF In, LoopGoesOn
<1>3. p \in LivePages(heap) /\ p \in PageIds
  <2>1. p \in LivePages(heap)
    BY <1>2, InsideIsPage
  <2> QED BY <2>1 DEF LivePages
<1>4. CASE LeaveLoop
  BY <1>2, <1>4, LeaveEffect
<1>5. CASE /\ CanWrite(p)
           /\ call' = IF n = 0 THEN [call EXCEPT !.pc = "ret"]
                      ELSE [Progress(call, n) EXCEPT !.it = nx]
  <2>1. Duplicated(h, heap, p)
    BY <1>3, <1>5, WritableOK
  <2>2. NodeLen(h, p) = heap.page[p].len /\ heap.page[p].len > 0 /\ heap.page[p].len \in Nat
    BY <2>1, <1>2, <1>3 DEF Duplicated, NodeLen, FillInv, Filled, HeapOK, Heap, PageRec
  <2> HIDE DEF h
  <2>3. n \in Nat /\ n > 0
    BY <2>2, <1>2 DEF Lower
  <2>4. call' = [Progress(call, n) EXCEPT !.it = nx]
    BY <2>3, <1>5
  <2> HIDE DEF n, nx
  <2>5. /\ call'.fn = call.fn /\ call'.buf = call.buf /\ call'.pc = call.pc
        /\ call'.done = call.done + n
    BY <2>4, <1>2 DEF Progress, CallType
  <2>6. heap' = heap \/ Patched(heap', heap)
    BY OverwriteDataPatches
  <2> HIDE DEF p
  <2> QED BY <2>3, <2>5, <2>6, <1>2, WrittenEffect
<1> QED BY <1>4, <1>5 DEF OverwriteDataStep

LEMMA AfterOverwriteKeeps ==
    ASSUME NEW c \in CallType, NEW h, NEW n
    PROVE  /\ AfterOverwrite(c, h, n).fn = c.fn /\ AfterOverwrite(c, h, n).buf = c.buf
           /\ AfterOverwrite(c, h, n).pc = c.pc /\ AfterOverwrite(c, h, n).done = c.done + n
<1> DEFINE d == IF c.off + n = NodeLen(h, c.it) THEN [c EXCEPT !.it = h.nxt[@], !.off = 0]
                ELSE [c EXCEPT !.off = @ + n]
           e == IF c.soff + n = NodeLen(h, c.sit) THEN [d EXCEPT !.sit = h.nxt[@], !.soff = 0]
                ELSE [d EXCEPT !.soff = @ + n]
           Same(x) == /\ DOMAIN x = DOMAIN c
                      /\ x.fn = c.fn /\ x.buf = c.buf /\ x.pc = c.pc /\ x.done = c.done
<1>0. /\ DOMAIN c = {"fn", "buf", "src", "it", "off", "sit", "soff", "dat", "len", "done", "pc"}
  BY DEF CallType
<1>1. Same(d)
  <2>1. Same([c EXCEPT !.it = h.nxt[@], !.off = 0]) /\ Same([c EXCEPT !.off = @ + n])
    BY <1>0
  <2> QED BY <2>1
<1> HIDE DEF d
<1>2. Same(e)
  <2>1. Same([d EXCEPT !.sit = h.nxt[@], !.soff = 0]) /\ Same([d EXCEPT !.soff = @ + n])
    BY <1>0, <1>1
  <2> QED BY <2>1
<1>3. AfterOverwrite(c, h, n) = Progress(e, n)
  BY DEF AfterOverwrite, d
<1> HIDE DEF e
<1>4. /\ Progress(e, n).fn = e.fn /\ Progress(e, n).buf = e.buf
      /\ Progress(e, n).pc = e.pc /\ Progress(e, n).done = e.done + n
  BY <1>0, <1>2 DEF Progress
<1> QED BY <1>2, <1>3, <1>4

LEMMA OverwriteBufferEffect ==
    ASSUME IInv, FillInv, OverwriteBufferStep
    PROVE  StepEffect
<1> DEFINE p == call.it
           src == call.sit
           h == Writable(p)
           n == Lower(Lower(NodeLen(h, p), call.len), NodeLen(h, src))
<1>1. In("overwrite_buffer")
  BY DEF OverwriteBufferStep
<1>2. /\ call.fn = "overwrite_buffer" /\ HeapOK(heap) /\ call \in CallType
      /\ call.buf \in Buffers
      /\ Inside(heap, p, call.buf) /\ call.len \in Nat /\ p # call.buf
      /\ src # call.src /\ call.len > 0 /\ call.pc = "loop"
  BY <1>1, InLoop DEF In, LoopGoesOn
<1>3. p \in LivePages(heap) /\ p \in PageIds
  <2>1. p \in LivePages(heap)
    BY <1>2, InsideIsPage
  <2> QED BY <2>1 DEF LivePages
<1>4. CASE LeaveLoop
  BY <1>2, <1>4, LeaveEffect
<1>5. CASE Fault("oob")
  BY <1>2, <1>5, LeaveEffect
<1>6. CASE /\ CanWrite(p)
           /\ call' = IF n = 0 THEN [call EXCEPT !.pc = "ret"] ELSE AfterOverwrite(call, h, n)
  <2>1. Duplicated(h, heap, p)
    BY <1>3, <1>6, WritableOK
  <2>2. src \in LivePages(heap) /\ src \in PageIds
    BY <1>1, <1>2, AtSourcePage DEF In
  <2>3. \A q \in LivePages(heap) : /\ NodeLen(h, q) = heap.page[q].len
                                  /\ heap.page[q].len > 0 /\ heap.page[q].len \in Nat
    BY <2>1, <1>2, <1>3 DEF Duplicated, SamePagesBut, LivePages, NodeLen, FillInv, Filled,
                           HeapOK, Heap, PageRec
  <2> DEFINE l == NodeLen(h, p)
             m == NodeLen(h, src)
  <2>4. l \in Nat /\ l > 0 /\ m \in Nat /\ m > 0
    BY <2>2, <2>3, <1>3
  <2> HIDE DEF l, m
  <2>5. n = Lower(Lower(l, call.len), m)
    BY DEF l, m
  <2> HIDE DEF h, n
  <2>6. n \in Nat /\ n > 0
    BY <2>4, <2>5, <1>2 DEF Lower
  <2>7. call' = AfterOverwrite(call, h, n)
    BY <2>6, <1>6
  <2>8. /\ call'.fn = call.fn /\ call'.buf = call.buf /\ call'.pc = call.pc
        /\ call'.done = call.done + n
    BY <2>7, <1>2, AfterOverwriteKeeps
  <2>9. heap' = heap \/ Patched(heap', heap)
    BY OverwriteBufferPatches
  <2> HIDE DEF p, src
  <2> QED BY <2>6, <2>8, <2>9, <1>2, WrittenEffect
<1> QED BY <1>4, <1>5, <1>6 DEF OverwriteBufferStep

LEMMA LibraryEffect ==
    ASSUME CountSuffices, IInv, IInv', ListInv, FillInv, ClearBumps, Library, ~Return
    PROVE  StepEffect
<1>1. CASE ExtendStep \/ RewindStep \/ InsertDataStep \/ InsertBufferStep
  <2>1. call.pc = "loop"
    BY <1>1 DEF ExtendStep, RewindStep, InsertDataStep, InsertBufferStep, In
  <2>2. LeaveLoop \/ Fault("oob") \/ \E h, p, n, x : Inserts(h, p, n, x)
    BY <1>1, InsertingStep
  <2> QED BY <2>1, <2>2, LeaveEffect, InsertEffect
<1>2. CASE SeekStep \/ TrimStep
  <2>1. PICK g, n : Cuts(g, n)
    BY <1>2, CuttingStep
  <2> QED BY <2>1, CutEffect
<1> QED
  BY <1>1, <1>2, OverwriteDataEffect, OverwriteBufferEffect, ReadDataEffect, ClearEffect DEF Library

-----------------------------------------------------------------------------
(* Calls that begin, and buffers that stay.                                *)

\* Every buffer that exists has a list.
LEMMA ListedIf ==
    ASSUME ListInv, NEW b \in Buffers, Exists(heap, b)
    PROVE  Listed(heap, b)
<1>1. PICK t : Chain(heap, b, t)
  BY DEF ListInv, SizesMatch
<1> QED BY <1>1 DEF Chain, Listed

\* Between the calls the size of a buffer is the length of its contents.
LEMMA ContentSized ==
    ASSUME IInv, ListInv, call = Idle, NEW b \in Buffers, Exists(heap, b)
    PROVE  Content(heap, b) \in Seq(Byte) /\ Len(Content(heap, b)) = size[b]
<1>1. PICK t : Chain(heap, b, t) /\ (Emptying(call, b) \/ t = size[b])
  BY DEF ListInv, SizesMatch
<1>2. ~Emptying(call, b)
  BY DEF Emptying, Idle
<1>3. PICK N, ps, acc : Enumerates(heap, b, N, ps, acc) /\ size[b] = acc[N]
  BY <1>1, <1>2 DEF Chain
<1>4. HeapOK(heap)
  BY DEF IInv
<1> QED BY <1>3, <1>4, ContentLen

\* What the client may have begun: a call that has done nothing yet, with data
\* appended at the end iterator only, or nothing but a buffer.
Begun ==
    /\ call'.pc = "loop" /\ call'.done = 0 /\ heap' = heap
    /\ call'.fn = "extend" => call'.it = call'.buf
    /\ call'.fn \in {"clear", "destroy"} => call'.buf \in bumped'

Made == call' = call /\ \E b \in Buffers : ~Exists(heap, b) /\ heap' = BufferCreate(heap, b)

LEMMA ClientBegins ==
    ASSUME IInv, Client
    PROVE  call.pc = "idle" /\ (Begun \/ Made)
<1>1. ASSUME NEW c, Start(c), c.pc = "loop", c.done = 0, c.fn \notin {"clear", "destroy"},
             c.fn = "extend" => c.it = c.buf
      PROVE  Begun
  BY <1>1 DEF Start, Begun
<1>2. ASSUME NEW b, NEW n, Extend(b, n) \/ Reserve(b, n) \/ Rewind(b, n)
      PROVE  call.pc = "idle" /\ Begun
  BY <1>2, <1>1 DEF Extend, Reserve, Rewind, Ready, Enter, Idle
<1>3. ASSUME NEW b, NEW n, Seek(b, n) \/ Trim(b, n) \/ ReadData(b, n)
      PROVE  call.pc = "idle" /\ Begun
  BY <1>3, <1>1 DEF Seek, Trim, ReadData, Ready, Enter, Idle
<1>4. ASSUME NEW b, NEW src, NEW n, WriteBuffer(b, src, n) \/ OverwriteBuffer(b, src, n)
      PROVE  call.pc = "idle" /\ Begun
  BY <1>4, <1>1 DEF WriteBuffer, OverwriteBuffer, Ready, Enter, Idle
<1>5. ASSUME NEW b, NEW fn, NEW s, OverwriteData(b, s) \/ WriteData(b, fn, s)
      PROVE  call.pc = "idle" /\ Begun
  <2>1. CASE OverwriteData(b, s)
    BY <1>1, <2>1 DEF OverwriteData, Ready, Enter, Idle
  <2>2. CASE WriteData(b, fn, s)
    BY <1>1, <2>2 DEF WriteData, Ready, Enter, Idle
  <2> QED BY <1>5, <2>1, <2>2
<1>6. ASSUME NEW b, NEW x, NEW off, NEW src, NEW n, InsertBuffer(b, x, off, src, n)
      PROVE  call.pc = "idle" /\ Begun
  BY <1>6, <1>1 DEF InsertBuffer, Ready, Enter, Idle
<1>7. ASSUME NEW b, NEW x, NEW off, NEW fn \in {"insert_data", "insert_data_ref"}, NEW s,
             InsertData(b, x, off, fn, s)
      PROVE  call.pc = "idle" /\ Begun
  BY <1>7, <1>1 DEF InsertData, Ready, Enter, Idle
<1>8. ASSUME NEW b, NEW fn \in {"clear", "destroy"}, Clear(b, fn)
      PROVE  call.pc = "idle" /\ Begun
  BY <1>8 DEF Clear, Ready, Enter, Idle, Begun
<1>9. ASSUME NEW b \in Buffers, Create(b) PROVE call.pc = "idle" /\ Made
  BY <1>9 DEF Create, Made, Idle
<1>10. PICK b \in Buffers :
          \/ Create(b)
          \/ \E n \in 1..MaxLen :
                \/ Extend(b, n) \/ Reserve(b, n) \/ Rewind(b, n)
                \/ Seek(b, n) \/ Trim(b, n) \/ ReadData(b, n)
                \/ \E src \in Buffers :
                      \/ WriteBuffer(b, src, n)
                      \/ OverwriteBuffer(b, src, n)
                      \/ \E x \in PageIds \cup {b}, off \in 0..MaxSize :
                            InsertBuffer(b, x, off, src, n)
          \/ \E s \in Inputs :
                \/ OverwriteData(b, s)
                \/ \E fn \in {"write_data", "write_data_ref"} : WriteData(b, fn, s)
                \/ \E x \in PageIds \cup {b}, off \in 0..MaxSize,
                      fn \in {"insert_data", "insert_data_ref"} :
                      InsertData(b, x, off, fn, s)
          \/ \E fn \in {"clear", "destroy"} : Clear(b, fn)
  BY DEF Client
<1> QED BY <1>2, <1>3, <1>4, <1>5, <1>6, <1>7, <1>8, <1>9, <1>10

\* A buffer that is not being destroyed stays.
LEMMA ExistsStill ==
    ASSUME CountSuffices, IInv, IInv', ListInv, FillInv, ClearBumps, Next,
           NEW b \in Buffers, Exists(heap, b),
           call.pc # "idle" /\ call.fn = "destroy" => b # call.buf
    PROVE  Exists(heap', b)
<1>1. heap \in Heap
  BY DEF IInv, HeapOK
<1>2. ASSUME NEW a \in Buffers, a # b, heap' = BufferFree(heap, a) \/ heap' = BufferCreate(heap, a)
      PROVE  Exists(heap', b)
  <2>1. heap'.nxt[b] = heap.nxt[b]
    BY <1>1, <1>2 DEF BufferFree, BufferCreate, Heap, Nodes
  <2> QED BY <2>1 DEF Exists
<1>3. CASE Client
  <2>1. CASE Begun
    BY <2>1 DEF Begun
  <2>2. CASE Made
    BY <2>2, <1>2 DEF Made
  <2> QED BY <1>3, <2>1, <2>2, ClientBegins
<1>4. CASE Return
  <2>1. /\ call.pc # "idle" /\ call.buf \in Buffers
        /\ heap' = IF call.fn = "destroy" THEN BufferFree(heap, call.buf) ELSE heap
    BY <1>4 DEF Return, IInv, CallOK
  <2> QED BY <1>2, <2>1
<1>5. CASE Library /\ ~Return
  <2>1. CallGoesOn /\ OtherListsKept(heap', heap, call.buf)
    BY <1>5, LibraryEffect DEF StepEffect
  <2>2. CASE b = call.buf
    BY <2>1, <2>2 DEF CallGoesOn, IInv, CallOK, Inside, Linked, Exists
  <2>3. CASE b # call.buf
    BY <2>1, <2>3, KeptChain DEF OtherListsKept
  <2> QED BY <2>2, <2>3
<1> QED BY <1>3, <1>4, <1>5 DEF Next

LEMMA ClearingIsClear ==
    ASSUME Library, ~Return, call.fn \in {"clear", "destroy"}
    PROVE  bumped' = bumped
<1>1. ClearStep
  BY DEF Library, ExtendStep, RewindStep, SeekStep, TrimStep, InsertDataStep, InsertBufferStep,
         OverwriteDataStep, OverwriteBufferStep, ReadDataStep, In
<1> QED BY <1>1 DEF ClearStep

LEMMA InLibrary ==
    ASSUME IInv, Library
    PROVE  call.pc # "idle"
  BY DEF Library, ExtendStep, RewindStep, SeekStep, TrimStep, InsertDataStep, InsertBufferStep,
         OverwriteDataStep, OverwriteBufferStep, ReadDataStep, ClearStep, Return, In

-----------------------------------------------------------------------------
(* The front of a buffer is taken.                                         *)


\* In g the list of b is that of h without its first n bytes: page i shows the end of the
\* page i + k of h, and the pages end at the same bytes.
Beheaded(g, h, n, k, N, ps, acc, M, qs, bcc) ==
    \A i \in 1..M :
        LET p == ps[i + k]
            q == qs[i]
        IN  /\ i + k \in 1..N /\ acc[i + k] = n + bcc[i]
            /\ g.page[q].len <= h.page[p].len
            /\ \A j \in 1..g.page[q].len :
                  ByteAt(g, q, j) = ByteAt(h, p, j + (h.page[p].len - g.page[q].len))

LEMMA PageSum ==
    ASSUME NEW h, HeapOK(h), NEW b \in Buffers, NEW N, NEW ps, NEW acc,
           Enumerates(h, b, N, ps, acc), NEW i \in 1..N
    PROVE  /\ ps[i] \in Mine(h, b) /\ h.page[ps[i]].len \in Nat
           /\ acc[i] = acc[i - 1] + h.page[ps[i]].len /\ acc[i - 1] \in Nat /\ acc[i] \in Nat
<1>1. N \in Nat
  BY DEF Enumerates
<1>2. i \in 0..N /\ i - 1 \in 0..N
  BY <1>1
<1> QED BY <1>2, SumsGrow

\* Page i shows what acc counts for it.
Summed(h, ps, acc, i) ==
    /\ h.page[ps[i]].len \in Nat /\ acc[i - 1] \in Nat
    /\ acc[i] = acc[i - 1] + h.page[ps[i]].len

LEMMA AllSummed ==
    ASSUME NEW h, HeapOK(h), NEW b \in Buffers, NEW N, NEW ps, NEW acc,
           Enumerates(h, b, N, ps, acc), NEW i \in 1..N
    PROVE  Summed(h, ps, acc, i)
  BY PageSum DEF Summed

\* The byte j of the last l of m.
LEMMA TailPlace ==
    ASSUME NEW m \in Nat, NEW l \in Nat, l <= m, NEW j \in 1..l, NEW a \in Nat, NEW c \in Nat,
           NEW n \in Nat, a + m = n + (c + l)
    PROVE  j + (m - l) \in 1..m /\ a + (j + (m - l)) = n + (c + j)
  OBVIOUS

LEMMA FrontTaken ==
    ASSUME NEW h, HeapOK(h), NEW g, HeapOK(g), NEW b \in Buffers,
           NEW N, NEW ps, NEW acc, Enumerates(h, b, N, ps, acc),
           NEW M, NEW qs, NEW bcc, Enumerates(g, b, M, qs, bcc),
           NEW n \in Nat, n <= acc[N], bcc[M] = acc[N] - n,
           NEW k, Beheaded(g, h, n, k, N, ps, acc, M, qs, bcc)
    PROVE  Content(g, b) = SubSeq(Content(h, b), n + 1, Len(Content(h, b)))
<1> DEFINE u == Content(h, b)
           v == Content(g, b)
           w == SubSeq(u, n + 1, Len(u))
<1>1. Shows(h, ps, acc, N, u) /\ Shows(g, qs, bcc, M, v)
  BY ContentShown
<1>2. u \in Seq(Byte) /\ Len(u) = acc[N] /\ v \in Seq(Byte) /\ Len(v) = bcc[M] /\ acc[N] \in Nat
  <2>1. acc[N] \in Nat
    BY ContentLen
  <2> QED BY <1>1, <2>1 DEF Shows
<1> HIDE DEF u, v
<1>3. w \in Seq(Byte) /\ Len(w) = Len(u) - n /\ \A x \in 1..(Len(u) - n) : w[x] = u[n + x]
  BY <1>2, PieceOf
<1> HIDE DEF w
<1>4. ASSUME NEW x \in 1..Len(v) PROVE v[x] = w[x]
  <2>1. x \in 1..bcc[M]
    BY <1>2
  <2>2. PICK i \in 1..M : \E j \in 1..g.page[qs[i]].len : x = bcc[i - 1] + j
    BY <2>1, Located
  <2>3. PICK j \in 1..g.page[qs[i]].len : x = bcc[i - 1] + j
    BY <2>2
  <2> DEFINE r == i + k
             q == qs[i]
             l == g.page[q].len
             m == h.page[ps[r]].len
             y == j + (m - l)
  <2>4. v[x] = ByteAt(g, q, j)
    BY <2>2, <2>3, <1>1 DEF Shows
  <2>5. /\ r \in 1..N /\ acc[r] = n + bcc[i] /\ l <= m
        /\ ByteAt(g, q, j) = ByteAt(h, ps[r], y)
    BY <2>3 DEF Beheaded
  <2> HIDE DEF r
  <2>6. l \in Nat /\ bcc[i] = bcc[i - 1] + l /\ bcc[i - 1] \in Nat
    <3>1. Summed(g, qs, bcc, i)
      BY AllSummed
    <3> QED BY <3>1 DEF Summed
  <2>7. m \in Nat /\ acc[r] = acc[r - 1] + m /\ acc[r - 1] \in Nat
    <3>1. Summed(h, ps, acc, r)
      BY <2>5, AllSummed
    <3> QED BY <3>1 DEF Summed
  <2>8. j \in 1..l
    BY <2>3
  <2> HIDE DEF l, m, q
  <2>9. y \in 1..m /\ acc[r - 1] + y = n + (bcc[i - 1] + j)
    <3> DEFINE a == acc[r - 1]
               c == bcc[i - 1]
    <3>1. a + m = n + (c + l) /\ a \in Nat /\ c \in Nat /\ m \in Nat /\ l \in Nat /\ l <= m
      BY <2>5, <2>6, <2>7
    <3> HIDE DEF a, c
    <3>2. j + (m - l) \in 1..m /\ a + (j + (m - l)) = n + (c + j)
      BY <2>8, <3>1, TailPlace
    <3> QED BY <3>2 DEF a, c
  <2>10. u[acc[r - 1] + y] = ByteAt(h, ps[r], y)
    <3> HIDE DEF y
    <3> QED BY <2>5, <2>9, <1>1 DEF Shows, m
  <2>11. acc[r - 1] + y = n + x
    BY <2>3, <2>9
  <2>12. x \in 1..(Len(u) - n)
    BY <1>2
  <2>13. w[x] = u[n + x]
    BY <2>12, <1>3
  <2> QED BY <2>4, <2>5, <2>10, <2>11, <2>13
<1>5. v = w
  BY <1>2, <1>3, <1>4, SameElements
<1> QED BY <1>5 DEF u, v, w

\* The page p begins n bytes later in g.
CutTo(g, h, p, n) ==
    /\ OnlyPage(g, h, p)
    /\ PageIs(g.page[p], h.page[p].live, h.page[p].data, h.page[p].base + n,
              h.page[p].len - n, h.page[p].own)

LEMMA FirstPage ==
    ASSUME NEW h, HeapOK(h), NEW b \in Buffers, NEW N, NEW ps, NEW acc,
           Enumerates(h, b, N, ps, acc), h.nxt[b] # b
    PROVE  /\ N \in Nat /\ N > 0 /\ ps[1] = h.nxt[b] /\ h.nxt[b] \in Mine(h, b)
           /\ acc[1] = h.page[h.nxt[b]].len
           /\ \A i \in 1..N : i # 1 => ps[i] # h.nxt[b]
<1>1. N \in Nat /\ ps[0] = b /\ ps[N + 1] = b /\ acc[0] = 0
  BY DEF Enumerates, Sums
<1>2. ps[0 + 1] = h.nxt[b]
  <2>1. 0 \in 0..N
    BY <1>1
  <2> QED BY <2>1, <1>1, EnumNext
<1>3. N # 0 /\ ps[1] = h.nxt[b]
  BY <1>1, <1>2
<1>4. 1 \in 1..N /\ 1 - 1 = 0
  BY <1>1, <1>3
<1>5. ps[1] \in Mine(h, b) /\ acc[1] = acc[1 - 1] + h.page[ps[1]].len /\ h.page[ps[1]].len \in Nat
  BY <1>4, PageSum
<1>6. acc[1] = h.page[ps[1]].len
  BY <1>1, <1>4, <1>5
<1>7. \A i \in 1..N : ps[i] = ps[1] => i = 1
  BY <1>4 DEF Enumerates
<1> QED BY <1>1, <1>3, <1>5, <1>6, <1>7

\* Bytes cut off the front of the first page.
LEMMA CutFrontContent ==
    ASSUME NEW h, HeapOK(h), NEW g, HeapOK(g), NEW b \in Buffers, Listed(h, b),
           NEW p, h.nxt[b] = p, p # b, NEW n \in Nat, n <= h.page[p].len, CutTo(g, h, p, n)
    PROVE  Content(g, b) = SubSeq(Content(h, b), n + 1, Len(Content(h, b)))
<1>1. PICK N, ps, acc : Enumerates(h, b, N, ps, acc)
  BY DEF Listed
<1>2. /\ N \in Nat /\ N > 0 /\ ps[1] = p /\ p \in Mine(h, b) /\ acc[1] = h.page[p].len
      /\ \A i \in 1..N : i # 1 => ps[i] # p
  BY <1>1, FirstPage
<1>3. /\ SamePagesBut(g, h, p) /\ g.nxt = h.nxt /\ g.reg = h.reg
      /\ g.page[p].live = h.page[p].live /\ g.page[p].data = h.page[p].data
      /\ g.page[p].base = h.page[p].base + n /\ g.page[p].len = h.page[p].len - n
      /\ g.page[p].own = h.page[p].own
  BY DEF CutTo, OnlyPage, PageIs, SamePagesBut
<1>4. Mine(g, b) = Mine(h, b)
  BY <1>3 DEF LivePages, Mine, SamePagesBut
<1>5. \A q \in Mine(h, b) \ {p} : g.page[q] = h.page[q]
  BY <1>3, MineFacts DEF SamePagesBut
<1> DEFINE bcc == [i \in 0..N |-> IF i = 0 THEN 0 ELSE acc[i] - n]
<1>6. \A i \in 0..N : acc[i] \in Nat
  BY <1>1, SumsGrow
<1>7. bcc \in [0..N -> Int] /\ bcc[0] = 0 /\ \A i \in 1..N : bcc[i] = acc[i] - n
  <2>1. 0 \in 0..N /\ \A i \in 1..N : i \in 0..N /\ i # 0
    BY <1>2
  <2>2. \A i \in 0..N : (IF i = 0 THEN 0 ELSE acc[i] - n) \in Int
    BY <1>6
  <2> QED BY <2>1, <2>2
<1> HIDE DEF bcc
<1>8. ASSUME NEW i \in 1..N
      PROVE  /\ g.page[ps[i]].len = bcc[i] - bcc[i - 1]
             /\ i + 0 \in 1..N /\ acc[i + 0] = n + bcc[i]
             /\ g.page[ps[i]].len <= h.page[ps[i]].len
             /\ \A j \in 1..g.page[ps[i]].len :
                   ByteAt(g, ps[i], j)
                      = ByteAt(h, ps[i], j + (h.page[ps[i]].len - g.page[ps[i]].len))
  <2>1. /\ ps[i] \in Mine(h, b) /\ h.page[ps[i]].len \in Nat /\ acc[i - 1] \in Nat
        /\ acc[i] = acc[i - 1] + h.page[ps[i]].len /\ acc[i] \in Nat
    BY <1>1, PageSum
  <2>2. i + 0 = i /\ bcc[i] = acc[i] - n
    BY <1>7
  <2>3. CASE i = 1
    <3>1. i - 1 = 0
      BY <2>3
    <3>2. ps[i] = p /\ acc[i] = h.page[p].len /\ bcc[i - 1] = 0
      BY <2>3, <3>1, <1>2, <1>7
    <3> DEFINE m == h.page[p].len
    <3>3. m \in Nat /\ g.page[p].len = m - n
      BY <2>1, <3>2, <1>3
    <3>4. h.page[p].base \in Nat
      BY <1>2, PageFacts
    <3> HIDE DEF m
    <3>5. m - (m - n) = n /\ m - n <= m
      BY <3>3
    <3>6. ASSUME NEW j \in 1..(m - n) PROVE ByteAt(g, p, j) = ByteAt(h, p, j + (m - (m - n)))
      <4>1. (h.page[p].base + n) + j = h.page[p].base + (j + n)
        BY <3>3, <3>4
      <4> QED BY <4>1, <3>5, <1>3 DEF ByteAt
    <3>7. g.page[p].len = bcc[i] - bcc[i - 1]
      BY <2>1, <2>2, <3>2, <3>3 DEF m
    <3>8. acc[i + 0] = n + bcc[i]
      BY <2>1, <2>2
    <3> QED BY <2>2, <3>2, <3>3, <3>5, <3>6, <3>7, <3>8 DEF m
  <2>4. CASE i # 1
    <3>1. ps[i] # p /\ i - 1 \in 1..N
      BY <2>4, <1>2
    <3>2. g.page[ps[i]] = h.page[ps[i]] /\ bcc[i - 1] = acc[i - 1] - n
      BY <2>1, <3>1, <1>5, <1>7
    <3> DEFINE m == h.page[ps[i]].len
    <3>3. m \in Nat /\ acc[i] = acc[i - 1] + m
      BY <2>1
    <3> HIDE DEF m
    <3>4. m = bcc[i] - bcc[i - 1] /\ acc[i + 0] = n + bcc[i] /\ m <= m
      BY <2>1, <2>2, <3>2, <3>3
    <3>5. ASSUME NEW j \in 1..m PROVE ByteAt(g, ps[i], j) = ByteAt(h, ps[i], j + (m - m))
      <4>1. j + (m - m) = j
        BY <3>3
      <4> QED BY <4>1, <3>2, <1>3 DEF ByteAt
    <3> QED BY <2>2, <3>2, <3>4, <3>5 DEF m
  <2> QED BY <2>3, <2>4
<1>9. Enumerates(g, b, N, ps, bcc)
  <2>1. Follows(g, N, ps)
    BY <1>1, <1>3 DEF Enumerates, Follows
  <2>2. Sums(g, N, ps, bcc)
    BY <1>7, <1>8 DEF Sums
  <2> QED BY <1>1, <1>4, <1>7, <2>1, <2>2 DEF Enumerates
<1>10. Beheaded(g, h, n, 0, N, ps, acc, N, ps, bcc)
  <2> SUFFICES ASSUME NEW i \in 1..N
               PROVE  /\ i + 0 \in 1..N /\ acc[i + 0] = n + bcc[i]
                      /\ g.page[ps[i]].len <= h.page[ps[i + 0]].len
                      /\ \A j \in 1..g.page[ps[i]].len :
                            ByteAt(g, ps[i], j)
                               = ByteAt(h, ps[i + 0], j + (h.page[ps[i + 0]].len - g.page[ps[i]].len))
    BY DEF Beheaded
  <2>1. i + 0 = i
    OBVIOUS
  <2> QED BY <2>1, <1>8
<1>11. n <= acc[N] /\ bcc[N] = acc[N] - n
  <2>1. 1 \in 0..N /\ N \in 1..N
    BY <1>2
  <2>2. acc[1] <= acc[N]
    BY <2>1, <1>1, SumsOrdered
  <2>3. acc[1] \in Nat /\ acc[N] \in Nat
    BY <1>2, <1>6
  <2> QED BY <2>1, <2>2, <2>3, <1>2, <1>7
<1> QED BY <1>1, <1>9, <1>10, <1>11, FrontTaken

\* The first page taken out of the list.
FirstRemoved(g, h, b, p) ==
    /\ Mine(g, b) = Mine(h, b) \ {p}
    /\ g.nxt[b] = h.nxt[p]
    /\ \A q \in Mine(g, b) : g.nxt[q] = h.nxt[q] /\ g.page[q] = h.page[q]
    /\ KeptBut(g, h, {})

LEMMA FirstRemovedContent ==
    ASSUME NEW h, HeapOK(h), NEW g, HeapOK(g), NEW b \in Buffers, Listed(h, b),
           NEW p, h.nxt[b] = p, p # b, FirstRemoved(g, h, b, p),
           NEW n, n = h.page[p].len
    PROVE  Content(g, b) = SubSeq(Content(h, b), n + 1, Len(Content(h, b)))
<1>1. PICK N, ps, acc : Enumerates(h, b, N, ps, acc)
  BY DEF Listed
<1>2. /\ N \in Nat /\ N > 0 /\ ps[1] = p /\ p \in Mine(h, b) /\ acc[1] = n
      /\ \A i \in 1..N : i # 1 => ps[i] # p
  BY <1>1, FirstPage
<1> DEFINE M == N - 1
           qs == [i \in 0..(M + 1) |-> IF i = 0 THEN b ELSE ps[i + 1]]
           bcc == [i \in 0..M |-> acc[i + 1] - n]
<1>3. n \in Nat /\ M \in Nat /\ M + 1 = N /\ b \in Nodes
  BY <1>2, PageFacts DEF Nodes
<1>4. /\ ps[0] = b /\ ps[N + 1] = b /\ \A i \in 0..(N + 1) : ps[i] \in Nodes
  BY <1>1 DEF Enumerates
<1>5. \A i \in 0..N : acc[i] \in Nat
  BY <1>1, SumsGrow
<1>6. /\ qs \in [0..(M + 1) -> Nodes] /\ qs[0] = b /\ qs[M + 1] = b
      /\ \A i \in 1..M : qs[i] = ps[i + 1]
  <2>1. \A i \in 0..(M + 1) : i # 0 => i + 1 \in 0..(N + 1)
    BY <1>2
  <2>2. (M + 1) + 1 = N + 1 /\ M + 1 # 0 /\ M + 1 \in 0..(M + 1) /\ 0 \in 0..(M + 1)
    BY <1>2
  <2>3. \A i \in 1..M : i \in 0..(M + 1) /\ i # 0
    BY <1>2
  <2> HIDE DEF M
  <2> QED BY <2>1, <2>2, <2>3, <1>3, <1>4
<1>7. bcc \in [0..M -> Int] /\ bcc[0] = 0 /\ \A i \in 0..M : bcc[i] = acc[i + 1] - n
  <2>1. \A i \in 0..M : i + 1 \in 0..N
    BY <1>2
  <2>2. \A i \in 0..M : acc[i + 1] - n \in Int
    BY <2>1, <1>3, <1>5
  <2>3. 0 \in 0..M /\ 0 + 1 = 1 /\ n - n = 0
    BY <1>3
  <2> HIDE DEF M
  <2> QED BY <2>2, <2>3, <1>2
<1> HIDE DEF qs, bcc, M
<1>8. ASSUME NEW i \in 1..M
      PROVE  /\ i + 1 \in 1..N /\ qs[i] = ps[i + 1] /\ qs[i] \in Mine(h, b) /\ qs[i] \in Mine(g, b)
             /\ g.page[qs[i]] = h.page[qs[i]] /\ h.page[qs[i]].len \in Nat
             /\ g.page[qs[i]].len = bcc[i] - bcc[i - 1] /\ acc[i + 1] = n + bcc[i]
  <2> DEFINE r == i + 1
  <2>1. r \in 1..N /\ r # 1 /\ r - 1 = i /\ i \in 0..M /\ i - 1 \in 0..M /\ (i - 1) + 1 = i
    BY <1>3
  <2>2. qs[i] = ps[r] /\ bcc[i] = acc[r] - n /\ bcc[i - 1] = acc[i] - n
    BY <2>1, <1>6, <1>7
  <2> HIDE DEF r
  <2>3. /\ ps[r] \in Mine(h, b) /\ h.page[ps[r]].len \in Nat /\ acc[r] \in Nat /\ acc[i] \in Nat
        /\ acc[r] = acc[i] + h.page[ps[r]].len
    <3>1. /\ ps[r] \in Mine(h, b) /\ h.page[ps[r]].len \in Nat /\ acc[r] \in Nat
          /\ acc[r - 1] \in Nat /\ acc[r] = acc[r - 1] + h.page[ps[r]].len
      BY <2>1, <1>1, PageSum
    <3> QED BY <3>1, <2>1
  <2>4. ps[r] \in Mine(g, b) /\ g.page[ps[r]] = h.page[ps[r]]
    BY <2>1, <2>3, <1>2 DEF FirstRemoved
  <2>5. h.page[ps[r]].len = bcc[i] - bcc[i - 1] /\ acc[r] = n + bcc[i]
    <3> DEFINE l == h.page[ps[r]].len
    <3>1. l \in Nat /\ acc[r] = acc[i] + l
      BY <2>3
    <3> HIDE DEF l
    <3>2. l = bcc[i] - bcc[i - 1] /\ acc[r] = n + bcc[i]
      BY <3>1, <2>2, <2>3, <1>3
    <3> QED BY <3>2 DEF l
  <2> QED BY <2>1, <2>2, <2>3, <2>4, <2>5 DEF r
<1>9. Follows(g, M, qs)
  <2> SUFFICES ASSUME NEW i \in 0..M PROVE g.nxt[qs[i]] = qs[i + 1]
    BY DEF Follows
  <2>1. h.nxt[ps[i + 1]] = ps[(i + 1) + 1]
    <3>1. i + 1 \in 0..N
      BY <1>3
    <3> QED BY <3>1, <1>1, EnumNext
  <2>2. qs[i + 1] = ps[(i + 1) + 1]
    <3>1. CASE i = M
      BY <3>1, <1>3, <1>4, <1>6
    <3>2. CASE i # M
      <4>1. i + 1 \in 1..M
        BY <3>2, <1>3
      <4> QED BY <4>1, <1>6
    <3> QED BY <3>1, <3>2
  <2>3. CASE i = 0
    <3>1. g.nxt[qs[i]] = h.nxt[p]
      BY <2>3, <1>6 DEF FirstRemoved
    <3>2. ps[i + 1] = p
      BY <2>3, <1>2
    <3> QED BY <3>1, <3>2, <2>1, <2>2
  <2>4. CASE i # 0
    <3>1. i \in 1..M
      BY <2>4, <1>3
    <3>2. qs[i] \in Mine(g, b) /\ qs[i] = ps[i + 1]
      BY <3>1, <1>8
    <3>3. g.nxt[qs[i]] = h.nxt[qs[i]]
      BY <3>2 DEF FirstRemoved
    <3> QED BY <3>2, <3>3, <2>1, <2>2
  <2> QED BY <2>3, <2>4
<1>10. \A i \in 1..M, j \in 1..M : qs[i] = qs[j] => i = j
  <2> SUFFICES ASSUME NEW i \in 1..M, NEW j \in 1..M, qs[i] = qs[j] PROVE i = j
    OBVIOUS
  <2>1. i + 1 \in 1..N /\ j + 1 \in 1..N /\ ps[i + 1] = ps[j + 1]
    BY <1>8
  <2>2. i + 1 = j + 1
    BY <2>1, <1>1 DEF Enumerates
  <2> QED BY <2>2
<1>11. \A q \in Mine(g, b) : \E i \in 1..M : qs[i] = q
  <2> SUFFICES ASSUME NEW q \in Mine(g, b) PROVE \E i \in 1..M : qs[i] = q
    OBVIOUS
  <2>1. q \in Mine(h, b) /\ q # p
    BY DEF FirstRemoved
  <2>2. PICK j \in 1..N : ps[j] = q
    BY <2>1, <1>1 DEF Enumerates
  <2>3. j # 1
    BY <2>1, <2>2, <1>2
  <2>4. j - 1 \in 1..M /\ (j - 1) + 1 = j
    BY <2>3, <1>3
  <2> QED BY <2>2, <2>4, <1>6
<1>12. Enumerates(g, b, M, qs, bcc)
  <2>1. Sums(g, M, qs, bcc)
    BY <1>7, <1>8 DEF Sums
  <2>2. \A i \in 1..M : qs[i] \in Mine(g, b)
    BY <1>8
  <2> QED BY <2>1, <2>2, <1>3, <1>6, <1>7, <1>9, <1>10, <1>11 DEF Enumerates
<1>13. Beheaded(g, h, n, 1, N, ps, acc, M, qs, bcc)
  <2> SUFFICES ASSUME NEW i \in 1..M
               PROVE  /\ i + 1 \in 1..N /\ acc[i + 1] = n + bcc[i]
                      /\ g.page[qs[i]].len <= h.page[ps[i + 1]].len
                      /\ \A j \in 1..g.page[qs[i]].len :
                            ByteAt(g, qs[i], j)
                               = ByteAt(h, ps[i + 1], j + (h.page[ps[i + 1]].len - g.page[qs[i]].len))
    BY DEF Beheaded
  <2> DEFINE q == ps[i + 1]
             m == h.page[q].len
  <2>1. /\ i + 1 \in 1..N /\ acc[i + 1] = n + bcc[i] /\ qs[i] = q /\ q \in Mine(h, b)
        /\ g.page[q] = h.page[q] /\ m \in Nat
    BY <1>8
  <2>2. \A j : ByteAt(g, q, j) = ByteAt(h, q, j)
    BY <2>1, ByteStays DEF FirstRemoved
  <2>3. g.page[q].len = m
    BY <2>1
  <2> HIDE DEF m, q
  <2>4. \A j \in 1..m : j + (m - m) = j
    BY <2>1
  <2>5. m <= m
    BY <2>1
  <2>6. \A j \in 1..m : ByteAt(g, q, j) = ByteAt(h, q, j + (m - m))
    BY <2>2, <2>4
  <2> QED BY <2>1, <2>3, <2>5, <2>6 DEF m, q
<1>14. n <= acc[N] /\ bcc[M] = acc[N] - n
  <2>1. 1 \in 0..N /\ N \in 1..N /\ M \in 0..M
    BY <1>2, <1>3
  <2>2. acc[1] <= acc[N]
    BY <2>1, <1>1, SumsOrdered
  <2> QED BY <2>1, <2>2, <1>2, <1>3, <1>7
<1> QED BY <1>1, <1>3, <1>12, <1>13, <1>14, FrontTaken

\* n bytes are taken from the front of the buffer of the call, and from what it has to take.
FrontGone(n) ==
    LET C == Content(heap, call.buf)
    IN  /\ Content(heap', call.buf) = SubSeq(C, n + 1, Len(C))
        /\ call'.len = call.len - n
        /\ call'.fn = call.fn /\ call'.buf = call.buf /\ call'.pc = call.pc

LEMMA SeekTakesFront ==
    ASSUME IInv, IInv', ListInv, FillInv, SeekStep
    PROVE  \E n \in Nat : n <= call.len /\ FrontGone(n)
<1> DEFINE p == call.it
           b == call.buf
           r == heap.page[p]
           n == Lower(NodeLen(heap, p), call.len)
           w == CutFront(r, n)
           g == DropFront(heap, p, n)
           c == IF NodeLen(g, p) = 0 THEN [call EXCEPT !.it = heap.nxt[p]] ELSE call
<1>1. In("seek")
  BY DEF SeekStep
<1>2. /\ call \in CallType /\ HeapOK(heap) /\ heap \in Heap /\ AllLinked(heap) /\ b \in Buffers
      /\ Inside(heap, b, b) /\ Inside(heap, p, b) /\ p # b
      /\ call.len \in Nat /\ call.len > 0 /\ call.fn = "seek" /\ call.pc = "loop"
  BY <1>1, InLoop DEF In, LoopGoesOn
<1>3. heap.nxt[b] = p
  BY <1>2 DEF IInv, CallOK, CursorOK
<1>4. /\ p \in PageIds /\ p \in LivePages(heap) /\ r.own = b /\ NodeLen(heap, p) = r.len
      /\ r \in PageRec /\ r.len \in Nat
  BY <1>2, InsideIsPage DEF Heap, PageRec
<1>5. r.len > 0 /\ n = Lower(r.len, call.len)
  BY <1>4 DEF FillInv, Filled
<1>6. n \in Nat /\ n <= r.len /\ n <= call.len /\ n > 0
  <2>1. Lower(r.len, call.len) > 0
    BY <1>2, <1>4, <1>5, LowerPositive
  <2> QED BY <2>1, <1>2, <1>4, <1>5, LowerType
<1>7. /\ heap' = IF NodeLen(g, p) = 0 THEN UnlinkDestroy(g, p) ELSE g
      /\ call' = IF n = 0 THEN [c EXCEPT !.pc = "ret"] ELSE Progress(c, n)
  BY DEF SeekStep
<1>8. g = [heap EXCEPT !.page[p] = w]
  BY DEF DropFront
<1> HIDE DEF n
<1>9. PageIs(w, r.live, r.data, r.base + n, r.len - n, r.own) /\ w \in PageRec
  <2> HIDE DEF r
  <2> QED BY <1>4, <1>6, CutFrontOK
<1> HIDE DEF w, g
<1>10. PageCut(g, heap, p)
  BY <1>2, <1>4, <1>6, <1>8, <1>9, PageCutForm
<1>11. CutTo(g, heap, p, n)
  <2>1. g.page[p] = w /\ OnlyPage(g, heap, p)
    BY <1>2, <1>4, <1>8, <1>9, PageAt
  <2> QED BY <2>1, <1>9 DEF CutTo
<1>12. HeapOK(g) /\ LinksKept(g, heap) /\ LivePages(g) = LivePages(heap)
  BY <1>2, <1>4, <1>10, NarrowedPage DEF PageCut
<1>13. g.page[p].len = r.len - n /\ NodeLen(g, p) = r.len - n
  BY <1>4, <1>11 DEF CutTo, PageIs, NodeLen
<1>14. Listed(heap, b)
  BY <1>2, ListedIf DEF Inside, Exists, Linked
<1>15. Content(heap', b) = SubSeq(Content(heap, b), n + 1, Len(Content(heap, b)))
  <2>1. CASE NodeLen(g, p) # 0
    <3>1. heap' = g
      BY <2>1, <1>7
    <3>2. Content(g, b) = SubSeq(Content(heap, b), n + 1, Len(Content(heap, b)))
      BY <1>2, <1>3, <1>6, <1>11, <1>12, <1>14, CutFrontContent
    <3> QED BY <3>1, <3>2
  <2>2. CASE NodeLen(g, p) = 0
    <3>1. heap' = UnlinkDestroy(g, p) /\ n = r.len
      BY <2>2, <1>4, <1>6, <1>7, <1>13
    <3>2. p \in LivePages(g) /\ Linked(g, p)
      BY <1>2, <1>4, <1>12 DEF LinksKept, Inside
    <3>3. /\ g.nxt = heap.nxt /\ g.prv = heap.prv /\ g.reg = heap.reg
          /\ SamePagesBut(g, heap, p)
      BY <1>11 DEF CutTo, OnlyPage, SamePagesBut
    <3>4. g.prv[p] = b
      <4>1. heap.prv[heap.nxt[b]] = b
        BY <1>2, Neighbours DEF Inside
      <4> QED BY <4>1, <1>3, <3>3
    <3>5. /\ Freed(heap', g, p) /\ heap'.nxt[b] = heap.nxt[p]
          /\ \A m \in Nodes \ {p, b} : heap'.nxt[m] = heap.nxt[m]
      BY <3>1, <3>2, <3>3, <3>4, <1>2, <1>12, UnlinkDestroyed
    <3>6. KeptBut(heap', heap, {})
      <4>1. KeptBut(heap', g, {})
        BY <3>1, <3>2, <1>12, UnlinkDestroyKeeps
      <4> QED BY <4>1, <3>3 DEF KeptBut
    <3>7. LivePages(heap') = LivePages(heap) \ {p}
      BY <3>5, <1>12 DEF Freed
    <3>8. \A q \in LivePages(heap) \ {p} : heap'.page[q] = heap.page[q]
      BY <3>3, <3>5 DEF Freed, SamePagesBut, LivePages
    <3>9. Mine(heap', b) = Mine(heap, b) \ {p}
      BY <3>7, <3>8 DEF Mine
    <3>10. \A q \in Mine(heap', b) : heap'.nxt[q] = heap.nxt[q] /\ heap'.page[q] = heap.page[q]
      <4> SUFFICES ASSUME NEW q \in Mine(heap', b)
                   PROVE  heap'.nxt[q] = heap.nxt[q] /\ heap'.page[q] = heap.page[q]
        OBVIOUS
      <4>1. q \in LivePages(heap) \ {p} /\ q \in Mine(heap, b)
        BY <3>9 DEF Mine
      <4>2. q \in Nodes \ {p, b}
        BY <4>1, <1>2, MineFacts
      <4> QED BY <4>1, <4>2, <3>5, <3>8
    <3>11. FirstRemoved(heap', heap, b, p)
      BY <3>5, <3>6, <3>9, <3>10 DEF FirstRemoved
    <3>12. HeapOK(heap')
      BY DEF IInv
    <3> QED BY <3>1, <3>11, <3>12, <1>2, <1>3, <1>14, FirstRemovedContent
  <2> QED BY <2>1, <2>2
<1>16. call'.len = call.len - n /\ call'.fn = call.fn /\ call'.buf = b /\ call'.pc = call.pc
  <2>1. call' = Progress(c, n)
    BY <1>6, <1>7
  <2>2. CASE c = call
    BY <2>1, <2>2, <1>2 DEF Progress, CallType
  <2>3. CASE c = [call EXCEPT !.it = heap.nxt[p]]
    <3>1. call' = Progress([call EXCEPT !.it = heap.nxt[p]], n)
      BY <2>1, <2>3
    <3> QED BY <3>1, <1>2 DEF Progress, CallType
  <2> QED BY <2>2, <2>3
<1> QED BY <1>6, <1>15, <1>16 DEF FrontGone

LEMMA TailOf ==
    ASSUME NEW S, NEW s \in Seq(S), NEW n \in Nat, n <= Len(s)
    PROVE  /\ SubSeq(s, n + 1, Len(s)) \in Seq(S) /\ Len(SubSeq(s, n + 1, Len(s))) = Len(s) - n
           /\ \A i \in 1..(Len(s) - n) : SubSeq(s, n + 1, Len(s))[i] = s[n + i]
<1>1. Len(s) \in Nat /\ Len(s) <= Len(s)
  BY LenProperties
<1> QED BY <1>1, PieceOf

\* v is s without its first n elements.
IsTail(v, S, s, n) ==
    v \in Seq(S) /\ Len(v) = Len(s) - n /\ \A i \in 1..(Len(s) - n) : v[i] = s[n + i]

LEMMA TailIs ==
    ASSUME NEW S, NEW s \in Seq(S), NEW n \in Nat, n <= Len(s)
    PROVE  IsTail(SubSeq(s, n + 1, Len(s)), S, s, n)
BY TailOf DEF IsTail

\* The tail of a tail is a tail.
LEMMA TailsCompose ==
    ASSUME NEW S, NEW s \in Seq(S), NEW n \in Nat, NEW l \in Nat, n + l <= Len(s),
           NEW u, IsTail(u, S, s, n), NEW v, IsTail(v, S, u, l),
           NEW w, IsTail(w, S, s, n + l)
    PROVE  v = w
<1>1. Len(s) \in Nat
  BY LenProperties
<1>2. u \in Seq(S) /\ Len(u) = Len(s) - n /\ \A i \in 1..(Len(s) - n) : u[i] = s[n + i]
  BY DEF IsTail
<1>3. v \in Seq(S) /\ Len(v) = Len(u) - l /\ \A i \in 1..(Len(u) - l) : v[i] = u[l + i]
  BY DEF IsTail
<1>4. /\ w \in Seq(S) /\ Len(w) = Len(s) - (n + l)
      /\ \A i \in 1..(Len(s) - (n + l)) : w[i] = s[(n + l) + i]
  BY DEF IsTail
<1>5. Len(u) - l = Len(s) - (n + l)
  BY <1>1, <1>2
<1>6. ASSUME NEW i \in 1..Len(v) PROVE v[i] = w[i]
  <2>1. i \in 1..(Len(u) - l) /\ i \in 1..(Len(s) - (n + l))
    BY <1>3, <1>5
  <2>2. l + i \in 1..(Len(s) - n) /\ n + (l + i) = (n + l) + i
    BY <2>1, <1>1
  <2>3. v[i] = u[l + i]
    BY <2>1, <1>3
  <2>4. u[l + i] = s[n + (l + i)]
    BY <2>2, <1>2
  <2>5. w[i] = s[(n + l) + i]
    BY <2>1, <1>4
  <2> QED BY <2>2, <2>3, <2>4, <2>5
<1>7. v \in Seq(S) /\ w \in Seq(S) /\ Len(v) = Len(w)
  BY <1>3, <1>4, <1>5
<1> QED BY <1>6, <1>7, SameElements

\* Taking the front twice.
LEMMA RestOfRest ==
    ASSUME NEW S, NEW s \in Seq(S), NEW n \in Nat, NEW m \in Nat, n <= m, m <= Len(s),
           NEW u, IsTail(u, S, s, n)
    PROVE  /\ u \in Seq(S) /\ m - n \in Nat /\ m - n <= Len(u)
           /\ SubSeq(u, (m - n) + 1, Len(u)) = SubSeq(s, m + 1, Len(s))
<1>1. Len(s) \in Nat
  BY LenProperties
<1>2. u \in Seq(S) /\ Len(u) = Len(s) - n
  BY DEF IsTail
<1> DEFINE l == m - n
<1>3. l \in Nat /\ l <= Len(u) /\ n + l = m /\ n + l <= Len(s)
  BY <1>1, <1>2
<1> HIDE DEF l
<1> DEFINE v == SubSeq(u, l + 1, Len(u))
           w == SubSeq(s, m + 1, Len(s))
<1>4. IsTail(v, S, u, l)
  BY <1>2, <1>3, TailIs
<1>5. IsTail(w, S, s, m)
  BY TailIs
<1> HIDE DEF v, w
<1>6. IsTail(w, S, s, n + l)
  BY <1>3, <1>5
<1>7. v = w
  BY <1>3, <1>4, <1>6, TailsCompose
<1> QED BY <1>2, <1>3, <1>7 DEF l, v, w

\* The seek inside consume takes what its reader has given.
Seeks(c, b, n) ==
    /\ c \in CallType /\ CallOK(heap, c)
    /\ c.fn = "seek" /\ c.buf = b /\ c.len = n /\ c.pc = "loop" /\ c.it = heap.nxt[b]

LEMMA SeekEntered ==
    ASSUME IInv, NEW b \in Buffers, Exists(heap, b), NEW n \in Nat,
           NEW c, c = [Enter("seek", b, n) EXCEPT !.it = heap.nxt[b]]
    PROVE  Seeks(c, b, n)
<1>1. Inside(heap, b, b) /\ Inside(heap, heap.nxt[b], b)
  BY ExistingBuffer
<1>2. c \in CallType /\ CallOK(heap, c)
  BY <1>1, EntryAtOK
<1>3. c.fn = "seek" /\ c.buf = b /\ c.len = n /\ c.pc = "loop" /\ c.it = heap.nxt[b]
  BY DEF Enter, Idle
<1> QED BY <1>2, <1>3 DEF Seeks

\* A consume that is running: the seek has begun, and when it is done the rest is left.
Taking(h, c, rest) ==
    LET C == Content(h, c.buf)
    IN  /\ c.fn = "seek" /\ c.pc = "loop" /\ c.buf \in Buffers /\ c.len \in Nat
        /\ C \in Seq(Byte) /\ c.len <= Len(C)
        /\ rest \in Seq(Byte) /\ rest = SubSeq(C, c.len + 1, Len(C))

LEMMA TakingGoesOn ==
    ASSUME IInv, IInv', ListInv, FillInv, SeekStep, NEW rest, Taking(heap, call, rest)
    PROVE  Taking(heap', call', rest)
<1> DEFINE C == Content(heap, call.buf)
           D == Content(heap', call.buf)
<1>1. PICK n \in Nat : n <= call.len /\ FrontGone(n)
  BY SeekTakesFront
<1>2. /\ call.fn = "seek" /\ call.pc = "loop" /\ call.buf \in Buffers /\ call.len \in Nat
      /\ C \in Seq(Byte) /\ call.len <= Len(C)
      /\ rest \in Seq(Byte) /\ rest = SubSeq(C, call.len + 1, Len(C))
  BY DEF Taking
<1>3. /\ D = SubSeq(C, n + 1, Len(C)) /\ call'.len = call.len - n
      /\ call'.fn = call.fn /\ call'.buf = call.buf /\ call'.pc = call.pc
  BY <1>1 DEF FrontGone
<1> HIDE DEF C, D
<1> DEFINE m == call.len
<1>4. m \in Nat /\ n <= m /\ m <= Len(C) /\ n <= Len(C)
  BY <1>1, <1>2, LenProperties
<1> HIDE DEF m
<1>6. IsTail(D, Byte, C, n)
  BY <1>2, <1>3, <1>4, TailIs
<1>5. /\ D \in Seq(Byte) /\ m - n \in Nat /\ m - n <= Len(D)
      /\ SubSeq(D, (m - n) + 1, Len(D)) = SubSeq(C, m + 1, Len(C))
  BY <1>2, <1>4, <1>6, RestOfRest
<1> QED BY <1>2, <1>3, <1>5 DEF Taking, m, D

LEMMA NothingListed ==
    ASSUME NEW h, HeapOK(h), NEW b \in Buffers, Listed(h, b), h.nxt[b] = b
    PROVE  Content(h, b) \in Seq(Byte) /\ Len(Content(h, b)) = 0
<1>1. PICK N, ps, acc : Enumerates(h, b, N, ps, acc)
  BY DEF Listed
<1>2. N \in Nat /\ ps[0] = b /\ acc[0] = 0
  BY <1>1 DEF Enumerates, Sums
<1>3. N = 0
  <2> SUFFICES ASSUME N # 0 PROVE FALSE
    OBVIOUS
  <2>1. 0 \in 0..N /\ 0 + 1 \in 1..N /\ 0 + 1 \in 0..N
    BY <1>2
  <2>2. ps[0 + 1] = b /\ ps[0 + 1] \in Mine(h, b)
    BY <2>1, <1>1, <1>2, EnumNext, EnumNode
  <2> QED BY <2>2, MineFacts
<1> QED BY <1>1, <1>2, <1>3, ContentLen

LEMMA TakingEnds ==
    ASSUME IInv, ListInv, Return, NEW rest, Taking(heap, call, rest)
    PROVE  Content(heap', call.buf) = rest
<1> DEFINE C == Content(heap, call.buf)
<1>1. /\ call.fn = "seek" /\ call.pc = "loop" /\ call.buf \in Buffers /\ call.len \in Nat
      /\ C \in Seq(Byte) /\ call.len <= Len(C)
      /\ rest = SubSeq(C, call.len + 1, Len(C))
  BY DEF Taking
<1>2. ~LoopGoesOn(call) /\ heap' = heap
  BY <1>1 DEF Return
<1>3. call.len = 0
  <2>1. CASE call.it # call.buf
    BY <2>1, <1>1, <1>2 DEF LoopGoesOn
  <2>2. CASE call.it = call.buf
    <3>1. heap.nxt[call.buf] = call.buf /\ HeapOK(heap) /\ Inside(heap, call.buf, call.buf)
      BY <2>2, <1>1 DEF IInv, CallOK, CursorOK
    <3>2. Listed(heap, call.buf)
      BY <3>1, <1>1, ListedIf DEF Inside, Linked, Exists
    <3>3. Len(C) = 0
      BY <3>1, <3>2, <1>1, NothingListed
    <3> QED BY <3>3, <1>1
  <2> QED BY <2>1, <2>2
<1> HIDE DEF C
<1>4. rest = SubSeq(C, 0 + 1, Len(C)) /\ 0 \in Nat /\ 0 <= Len(C)
  BY <1>1, <1>3
<1>5. Len(C) \in Nat
  BY <1>1, LenProperties
<1>6. rest \in Seq(Byte) /\ Len(rest) = Len(C) - 0 /\ \A i \in 1..(Len(C) - 0) : rest[i] = C[0 + i]
  BY <1>1, <1>4, TailOf
<1>7. Len(rest) = Len(C) /\ \A i \in 1..Len(rest) : rest[i] = C[i]
  BY <1>5, <1>6
<1>8. rest = C
  BY <1>1, <1>6, <1>7, SameElements
<1> QED BY <1>2, <1>8 DEF C

\* While a consume takes bytes, nothing else runs.
LEMMA OnlySeeks ==
    ASSUME IInv, Next, NEW rest, Taking(heap, call, rest)
    PROVE  SeekStep \/ Return
<1>1. call.fn = "seek" /\ call.pc = "loop"
  BY DEF Taking
<1>2. ~Client
  BY <1>1, ClientBegins
<1>3. ASSUME NEW fn, In(fn) PROVE fn = "seek"
  BY <1>1, <1>3 DEF In
<1> QED BY <1>2, <1>3 DEF Next, Library, ExtendStep, RewindStep, TrimStep, InsertDataStep,
           InsertBufferStep, OverwriteDataStep, OverwriteBufferStep, ReadDataStep, ClearStep

-----------------------------------------------------------------------------
(* What any step does to a buffer whose revision it does not raise.        *)

\* The pages of b are those they were, with their bytes.
Unmoved(g, h, b) == ListKept(g, h, b) /\ BytesKept(g, h, b)

\* The call in progress has moved data of b, and raises its revision when it returns.
Owes(c, b) == Moving(c) /\ c.buf = b

LEMMA LibraryOnBuffer ==
    ASSUME CountSuffices, IInv, IInv', ListInv, FillInv, ClearBumps, Library, ~Return,
           NEW b \in Buffers, Exists(heap, b), b \notin bumped'
    PROVE  Owes(call', b) \/ (~Owes(call, b) /\ (Unmoved(heap', heap, b) \/ Appended(heap', heap, b)))
<1>1. CallGoesOn /\ OwnEffect /\ OtherListsKept(heap', heap, call.buf)
  BY LibraryEffect DEF StepEffect
<1>2. HeapOK(heap) /\ HeapOK(heap')
  BY DEF IInv
<1>3. CASE b # call.buf
  <2>1. ListKept(heap', heap, b)
    BY <1>1, <1>3 DEF OtherListsKept
  <2>2. \A p \in Mine(heap, b) :
           /\ heap'.page[p] = heap.page[p]
           /\ PageBytes(heap', p, 0, heap.page[p].len) = PageBytes(heap, p, 0, heap.page[p].len)
    BY <1>3, StepLeavesOthers DEF Next, Mine
  <2>3. BytesKept(heap', heap, b)
    BY <1>2, <2>2, BytesKeptWhole
  <2> QED BY <1>3, <2>1, <2>3 DEF Owes, Unmoved
<1>4. CASE b = call.buf
  <2>1. CASE Moving(call')
    BY <1>1, <1>4, <2>1 DEF Owes, CallGoesOn
  <2>2. CASE heap' = heap /\ ~Moving(call)
    BY <2>2 DEF Owes, Unmoved, ListKept, BytesKept
  <2>3. CASE Appending(call) /\ Appended(heap', heap, call.buf)
    BY <1>4, <2>3 DEF Owes, Moving, ReturnBumps, Appending, AppendFns
  <2> QED BY <1>1, <1>4, <2>1, <2>2, <2>3 DEF OwnEffect
<1> QED BY <1>3, <1>4

LEMMA QuietOnBuffer ==
    ASSUME NEW h, HeapOK(h), NEW g, g.page = h.page, g.reg = h.reg, NEW b \in Buffers,
           Exists(h, b), NEW a \in Buffers, \A n \in Nodes \ {a} : g.nxt[n] = h.nxt[n],
           b = a => g.nxt = h.nxt
    PROVE  Unmoved(g, h, b)
<1>1. BytesKept(g, h, b)
  BY DEF BytesKept, ByteAt
<1>2. \A n \in Mine(h, b) \cup {b} : g.nxt[n] = h.nxt[n]
  <2>1. CASE b = a
    BY <2>1
  <2>2. CASE b # a
    BY <2>2, MineFacts, HeapAssumption DEF Nodes
  <2> QED BY <2>1, <2>2
<1> QED BY <1>1, <1>2 DEF Unmoved, ListKept, Mine, LivePages

LEMMA StepOnBuffer ==
    ASSUME CountSuffices, IInv, IInv', ListInv, FillInv, ClearBumps, Next,
           NEW b \in Buffers, Exists(heap, b), b \notin bumped',
           call.pc # "idle" /\ call.fn = "destroy" => b # call.buf
    PROVE  /\ Exists(heap', b)
           /\ \/ Owes(call', b)
              \/ ~Owes(call, b) /\ (Unmoved(heap', heap, b) \/ Appended(heap', heap, b))
<1>1. Exists(heap', b)
  BY ExistsStill
<1>2. HeapOK(heap) /\ heap \in Heap
  BY DEF IInv, HeapOK
<1>3. CASE Client
  <2>1. call.pc = "idle" /\ (Begun \/ Made) /\ heap'.page = heap.page /\ heap'.reg = heap.reg
    BY <1>3, ClientBegins, ClientIsQuiet
  <2>2. ~Owes(call, b)
    BY <2>1 DEF Owes, Moving
  <2>3. CASE Begun
    BY <2>2, <2>3, <1>1 DEF Begun, Unmoved, ListKept, BytesKept
  <2>4. CASE Made
    <3>1. PICK a \in Buffers : ~Exists(heap, a) /\ heap' = BufferCreate(heap, a)
      BY <2>4 DEF Made
    <3>2. a # b /\ \A n \in Nodes \ {a} : heap'.nxt[n] = heap.nxt[n]
      BY <1>2, <3>1 DEF BufferCreate, Heap
    <3> QED BY <1>1, <1>2, <2>1, <2>2, <3>2, QuietOnBuffer
  <2> QED BY <2>1, <2>3, <2>4
<1>4. CASE Return
  <2>1. /\ call.pc # "idle" /\ call.buf \in Buffers
        /\ heap' = IF call.fn = "destroy" THEN BufferFree(heap, call.buf) ELSE heap
        /\ heap'.page = heap.page /\ heap'.reg = heap.reg
    BY <1>4, ReturnIsQuiet DEF Return, IInv, CallOK
  <2>2. ~Owes(call, b)
    BY <1>4 DEF Return, Owes, Moving
  <2>3. \A n \in Nodes \ {call.buf} : heap'.nxt[n] = heap.nxt[n]
    BY <1>2, <2>1 DEF BufferFree, Heap
  <2>4. b = call.buf => heap'.nxt = heap.nxt
    BY <2>1
  <2> QED BY <1>1, <1>2, <2>1, <2>2, <2>3, <2>4, QuietOnBuffer
<1>5. CASE Library /\ ~Return
  BY <1>1, <1>5, LibraryOnBuffer
<1> QED BY <1>3, <1>4, <1>5 DEF Next

LEMMA AppendKeepsFront ==
    ASSUME NEW h, HeapOK(h), NEW g, HeapOK(g), NEW b \in Buffers, Appended(g, h, b), Listed(h, b)
    PROVE  /\ Content(h, b) \in Seq(Byte) /\ Content(g, b) \in Seq(Byte)
           /\ Len(Content(h, b)) <= Len(Content(g, b))
           /\ \A x \in 1..Len(Content(h, b)) : Content(g, b)[x] = Content(h, b)[x]
<1>1. PICK N, ps, acc : Enumerates(h, b, N, ps, acc)
  BY DEF Listed
<1>2. PICK qs, bcc : Enumerates(g, b, N + 1, qs, bcc) /\ GoesOn(N, ps, acc, N + 1, qs, bcc)
  BY <1>1, AppendGoesOn
<1>3. BytesKept(g, h, b) /\ \A p \in Mine(h, b) : g.page[p].len = h.page[p].len
  BY DEF Appended
<1> QED BY <1>1, <1>2, <1>3, FrontKept

-----------------------------------------------------------------------------
(* Positions.                                                              *)

\* Node x and the offset off into it are the place behind the first t bytes of the list:
\* in front of a byte, or at the end iterator.
PosIn(h, N, ps, acc, k, x, off, t) ==
    /\ k \in 1..(N + 1) /\ x = ps[k] /\ off \in Nat /\ t = acc[k - 1] + off
    /\ k = N + 1 => off = 0
    /\ k # N + 1 => off < h.page[ps[k]].len

Pos(h, b, x, off, t) ==
    \E N, ps, acc, k : Enumerates(h, b, N, ps, acc) /\ PosIn(h, N, ps, acc, k, x, off, t)

\* Where a position is in the list and in the content.
PosFacts(h, b, N, ps, acc, k, x, off, t) ==
    /\ N \in Nat /\ k \in 1..(N + 1) /\ off \in Nat /\ t = acc[k - 1] + off /\ x = ps[k]
    /\ acc[k - 1] \in Nat /\ acc[N] \in Nat /\ Len(Content(h, b)) = acc[N]
    /\ Content(h, b) \in Seq(Byte)
    /\ k = N + 1 => x = b /\ off = 0 /\ t = acc[N]
    /\ k # N + 1 => /\ k \in 1..N /\ x \in Mine(h, b) /\ x # b /\ x \in PageIds
                    /\ h.page[x].len \in Nat /\ off < h.page[x].len
                    /\ acc[k] = acc[k - 1] + h.page[x].len

LEMMA PosInFacts ==
    ASSUME NEW h, HeapOK(h), NEW b \in Buffers, NEW N, NEW ps, NEW acc,
           Enumerates(h, b, N, ps, acc), NEW k, NEW x, NEW off, NEW t,
           PosIn(h, N, ps, acc, k, x, off, t)
    PROVE  PosFacts(h, b, N, ps, acc, k, x, off, t)
<1>0. ps[N + 1] = b
  BY DEF Enumerates
<1>1. /\ N \in Nat /\ acc[0] = 0 /\ \A i \in 0..N : acc[i] \in Nat
      /\ \A i \in 1..N : /\ ps[i] \in Mine(h, b) /\ h.page[ps[i]].len \in Nat
                         /\ acc[i] = acc[i - 1] + h.page[ps[i]].len
  BY SumsGrow
<1>2. Content(h, b) \in Seq(Byte) /\ Len(Content(h, b)) = acc[N]
  BY ContentLen
<1>3. /\ k \in 1..(N + 1) /\ x = ps[k] /\ off \in Nat /\ t = acc[k - 1] + off
      /\ k = N + 1 => off = 0
      /\ k # N + 1 => off < h.page[ps[k]].len
  BY DEF PosIn
<1>4. k - 1 \in 0..N /\ N \in 0..N /\ (k # N + 1 => k \in 1..N)
  BY <1>1, <1>3
<1>5. Mine(h, b) \subseteq PageIds /\ b \notin Mine(h, b)
  BY MineFacts
<1>6. k = N + 1 => x = b /\ off = 0 /\ t = acc[N]
  <2>1. k = N + 1 => k - 1 = N
    BY <1>1
  <2> QED BY <2>1, <1>0, <1>1, <1>3, <1>4
<1>7. k # N + 1 => /\ k \in 1..N /\ x \in Mine(h, b) /\ x # b /\ x \in PageIds
                   /\ h.page[x].len \in Nat /\ off < h.page[x].len
                   /\ acc[k] = acc[k - 1] + h.page[x].len
  BY <1>1, <1>3, <1>4, <1>5
<1> QED BY <1>1, <1>2, <1>3, <1>4, <1>6, <1>7 DEF PosFacts

LEMMA PosWithin ==
    ASSUME NEW h, HeapOK(h), NEW b \in Buffers, NEW x, NEW off, NEW t, Pos(h, b, x, off, t)
    PROVE  /\ t \in Nat /\ off \in Nat
           /\ Content(h, b) \in Seq(Byte) /\ t <= Len(Content(h, b))
           /\ x = b => t = Len(Content(h, b)) /\ off = 0
           /\ x # b => /\ x \in Mine(h, b) /\ x \in PageIds /\ off < h.page[x].len
                       /\ h.page[x].len \in Nat /\ NodeLen(h, x) = h.page[x].len
                       /\ t + (h.page[x].len - off) <= Len(Content(h, b))
<1>1. PICK N, ps, acc, k : Enumerates(h, b, N, ps, acc) /\ PosIn(h, N, ps, acc, k, x, off, t)
  BY DEF Pos
<1>2. PosFacts(h, b, N, ps, acc, k, x, off, t)
  BY <1>1, PosInFacts
<1>3. k # N + 1 => acc[k] <= acc[N]
  <2>1. k # N + 1 => k \in 0..N /\ N \in k..N
    BY <1>2 DEF PosFacts
  <2> QED BY <2>1, <1>1, SumsOrdered
<1>4. CASE k = N + 1
  BY <1>2, <1>4 DEF PosFacts
<1>5. CASE k # N + 1
  <2>1. NodeLen(h, x) = h.page[x].len
    BY <1>2, <1>5 DEF NodeLen, PosFacts
  <2>2. /\ off \in Nat /\ t = acc[k - 1] + off /\ acc[k - 1] \in Nat /\ acc[N] \in Nat
        /\ Len(Content(h, b)) = acc[N] /\ h.page[x].len \in Nat /\ off < h.page[x].len
        /\ acc[k] = acc[k - 1] + h.page[x].len /\ acc[k] <= acc[N]
    BY <1>2, <1>3, <1>5 DEF PosFacts
  <2>3. t + (h.page[x].len - off) <= Len(Content(h, b)) /\ t \in Nat /\ t <= Len(Content(h, b))
    BY <2>2
  <2> QED BY <1>2, <1>5, <2>1, <2>3 DEF PosFacts
<1> QED BY <1>4, <1>5

\* The bytes of a page from a position on are those of the content.
LEMMA PosBytes ==
    ASSUME NEW h, HeapOK(h), NEW b \in Buffers, NEW x, NEW off, NEW t, Pos(h, b, x, off, t),
           x # b, NEW n \in Nat, off + n <= h.page[x].len
    PROVE  /\ PageBytes(h, x, off, n) = SubSeq(Content(h, b), t + 1, t + n)
           /\ t + n <= Len(Content(h, b))
           /\ \A j \in 1..n : PageBytes(h, x, off, n)[j] = Content(h, b)[t + j]
<1>1. PICK N, ps, acc, k : Enumerates(h, b, N, ps, acc) /\ PosIn(h, N, ps, acc, k, x, off, t)
  BY DEF Pos
<1>0. PosFacts(h, b, N, ps, acc, k, x, off, t)
  BY <1>1, PosInFacts
<1>2. k \in 1..N /\ x = ps[k] /\ off \in Nat /\ t = acc[k - 1] + off
  BY <1>0 DEF PosFacts
<1>3. InPage(h, N, ps, acc, k, off, n, t)
  BY <1>2 DEF InPage
<1>4. /\ Content(h, b) \in Seq(Byte) /\ t \in Nat /\ t + n <= Len(Content(h, b))
      /\ PageBytes(h, x, off, n) = SubSeq(Content(h, b), t + 1, t + n)
  <2>1. /\ Content(h, b) \in Seq(Byte) /\ Len(Content(h, b)) = acc[N] /\ acc[N] \in Nat
        /\ t \in Nat /\ t + n <= acc[k] /\ acc[k] <= acc[N]
        /\ PageBytes(h, ps[k], off, n) = SubSeq(Content(h, b), t + 1, t + n)
    BY <1>1, <1>3, PageInContent
  <2>2. acc[k] \in Nat
    BY <1>1, <1>2, PageSum
  <2>3. t + n <= Len(Content(h, b))
    BY <2>1, <2>2
  <2> QED BY <2>1, <2>3, <1>2
<1>5. \A j \in 1..n : SubSeq(Content(h, b), t + 1, t + n)[j] = Content(h, b)[t + j]
  BY <1>4, PieceAt
<1> QED BY <1>4, <1>5

LEMMA PosStep ==
    ASSUME NEW h, HeapOK(h), NEW b \in Buffers, NEW x, NEW off, NEW t, Pos(h, b, x, off, t),
           x # b, NEW n \in Nat, off + n < h.page[x].len
    PROVE  Pos(h, b, x, off + n, t + n)
<1>1. PICK N, ps, acc, k : Enumerates(h, b, N, ps, acc) /\ PosIn(h, N, ps, acc, k, x, off, t)
  BY DEF Pos
<1>0. PosFacts(h, b, N, ps, acc, k, x, off, t)
  BY <1>1, PosInFacts
<1>2. k # N + 1 /\ k \in 1..N /\ off \in Nat /\ acc[k - 1] \in Nat /\ N \in Nat
  BY <1>0 DEF PosFacts
<1>3. PosIn(h, N, ps, acc, k, x, off + n, t + n)
  BY <1>1, <1>2 DEF PosIn
<1> QED BY <1>1, <1>3 DEF Pos

\* The page i of a list in which no page is empty, or its end, is a position.
LEMMA PosAtPage ==
    ASSUME NEW h, HeapOK(h), Filled(h), NEW b \in Buffers, NEW N, NEW ps, NEW acc,
           Enumerates(h, b, N, ps, acc), NEW k \in 1..(N + 1)
    PROVE  Pos(h, b, ps[k], 0, acc[k - 1])
<1>1. N \in Nat /\ \A i \in 0..N : acc[i] \in Nat
  BY SumsGrow
<1>2. acc[k - 1] \in Nat /\ acc[k - 1] = acc[k - 1] + 0
  <2>1. k - 1 \in 0..N
    BY <1>1
  <2> QED BY <2>1, <1>1
<1>3. k # N + 1 => 0 < h.page[ps[k]].len
  <2>1. k # N + 1 => k \in 1..N
    BY <1>1
  <2>2. k # N + 1 => ps[k] \in Mine(h, b) /\ h.page[ps[k]].len \in Nat
    BY <2>1, SumsGrow
  <2> QED BY <2>2 DEF Filled, Mine
<1>4. PosIn(h, N, ps, acc, k, ps[k], 0, acc[k - 1])
  BY <1>2, <1>3 DEF PosIn
<1> QED BY <1>4 DEF Pos

LEMMA PosFirst ==
    ASSUME NEW h, HeapOK(h), Filled(h), NEW b \in Buffers, Listed(h, b)
    PROVE  Pos(h, b, h.nxt[b], 0, 0)
<1>1. PICK N, ps, acc : Enumerates(h, b, N, ps, acc)
  BY DEF Listed
<1>2. N \in Nat /\ 0 \in 0..N /\ 1 \in 1..(N + 1) /\ ps[0] = b /\ acc[0] = 0 /\ 1 - 1 = 0 /\ 0 + 1 = 1
  BY <1>1 DEF Enumerates, Sums
<1>3. h.nxt[b] = ps[1]
  BY <1>1, <1>2, EnumNext
<1>4. Pos(h, b, ps[1], 0, acc[1 - 1])
  BY <1>1, <1>2, PosAtPage
<1> QED BY <1>2, <1>3, <1>4

LEMMA PosEnd ==
    ASSUME NEW h, HeapOK(h), NEW b \in Buffers, Listed(h, b)
    PROVE  Pos(h, b, b, 0, Len(Content(h, b)))
<1>1. PICK N, ps, acc : Enumerates(h, b, N, ps, acc)
  BY DEF Listed
<1>0. Len(Content(h, b)) = acc[N] /\ acc[N] \in Nat
  BY <1>1, ContentLen
<1>2. /\ N \in Nat /\ N + 1 \in 1..(N + 1) /\ ps[N + 1] = b /\ (N + 1) - 1 = N
      /\ Len(Content(h, b)) = acc[N] /\ acc[N] \in Nat
  BY <1>0, <1>1 DEF Enumerates
<1>3. PosIn(h, N, ps, acc, N + 1, b, 0, Len(Content(h, b)))
  BY <1>2 DEF PosIn
<1> QED BY <1>1, <1>3 DEF Pos

\* Behind the last byte of a page comes the next page, or the end.
LEMMA PosNext ==
    ASSUME NEW h, HeapOK(h), Filled(h), NEW b \in Buffers, NEW x, NEW off, NEW t,
           Pos(h, b, x, off, t), x # b
    PROVE  Pos(h, b, h.nxt[x], 0, t + (h.page[x].len - off))
<1>1. PICK N, ps, acc, k : Enumerates(h, b, N, ps, acc) /\ PosIn(h, N, ps, acc, k, x, off, t)
  BY DEF Pos
<1>2. /\ k \in 1..N /\ N \in Nat /\ off \in Nat /\ acc[k - 1] \in Nat /\ t = acc[k - 1] + off
      /\ acc[k] = acc[k - 1] + h.page[x].len /\ h.page[x].len \in Nat /\ x = ps[k]
  <2>1. PosFacts(h, b, N, ps, acc, k, x, off, t)
    BY <1>1, PosInFacts
  <2> QED BY <2>1 DEF PosFacts
<1>3. k \in 0..N /\ k + 1 \in 1..(N + 1) /\ (k + 1) - 1 = k
  BY <1>2
<1>4. h.nxt[x] = ps[k + 1]
  BY <1>1, <1>2, <1>3, EnumNext
<1>5. Pos(h, b, ps[k + 1], 0, acc[(k + 1) - 1])
  BY <1>1, <1>3, PosAtPage
<1>6. acc[k] = t + (h.page[x].len - off)
  BY <1>2
<1> QED BY <1>3, <1>4, <1>5, <1>6

LEMMA EnumPrev ==
    ASSUME NEW h, HeapOK(h), NEW b \in Buffers, NEW N, NEW ps, NEW acc,
           Enumerates(h, b, N, ps, acc), NEW i \in 0..N
    PROVE  h.prv[ps[i + 1]] = ps[i]
<1>1. N \in Nat /\ ps[i] \in Nodes /\ h.nxt[ps[i]] = ps[i + 1]
  BY EnumNode, EnumNext
<1>2. i + 1 \in 0..(N + 1)
  BY <1>1
<1>3. ps[i + 1] \in Nodes
  BY <1>2 DEF Enumerates
<1>4. Linked(h, ps[i])
  BY <1>1, <1>3, HeapAssumption DEF Linked, Nodes
<1> QED BY <1>1, <1>4 DEF HeapOK, Threaded

\* In front of the first byte of a page, or of the end, comes the last byte of the page
\* before.
LEMMA PosPrev ==
    ASSUME NEW h, HeapOK(h), Filled(h), NEW b \in Buffers, NEW x, NEW t, Pos(h, b, x, 0, t),
           NEW y, y = h.prv[x]
    PROVE  /\ y \in PageIds <=> t # 0
           /\ y \notin PageIds => y = b
           /\ t # 0 => /\ Pos(h, b, y, NodeLen(h, y) - 1, t - 1) /\ y # b
                       /\ NodeLen(h, y) = h.page[y].len /\ NodeLen(h, y) \in Nat
                       /\ NodeLen(h, y) > 0
<1>1. PICK N, ps, acc, k : Enumerates(h, b, N, ps, acc) /\ PosIn(h, N, ps, acc, k, x, 0, t)
  BY DEF Pos
<1>2. k \in 1..(N + 1) /\ N \in Nat /\ t = acc[k - 1] /\ acc[k - 1] \in Nat /\ x = ps[k]
  <2>1. PosFacts(h, b, N, ps, acc, k, x, 0, t)
    BY <1>1, PosInFacts
  <2> QED BY <2>1 DEF PosFacts
<1>3. y = ps[k - 1]
  <2>1. k - 1 \in 0..N /\ (k - 1) + 1 = k
    BY <1>2
  <2> QED BY <2>1, <1>1, <1>2, EnumPrev
<1>4. CASE k = 1
  <2>1. y = b /\ t = 0
    BY <1>1, <1>2, <1>3, <1>4 DEF Enumerates, Sums
  <2> QED BY <2>1, HeapAssumption
<1>5. CASE k # 1
  <2> DEFINE i == k - 1
  <2>1. i \in 1..N /\ i - 1 \in 0..N
    BY <1>2, <1>5
  <2>2. y = ps[i] /\ t = acc[i]
    BY <1>2, <1>3
  <2> HIDE DEF i
  <2>3. /\ ps[i] \in Mine(h, b) /\ h.page[ps[i]].len \in Nat
        /\ acc[i] = acc[i - 1] + h.page[ps[i]].len /\ acc[i - 1] \in Nat
    BY <1>1, <2>1, PageSum
  <2>4. y \in PageIds /\ y # b /\ NodeLen(h, y) = h.page[y].len
    BY <2>2, <2>3, MineFacts DEF NodeLen
  <2>5. h.page[y].len > 0
    BY <2>2, <2>3 DEF Filled, Mine
  <2>6. t # 0 /\ t - 1 = acc[i - 1] + (h.page[y].len - 1) /\ h.page[y].len - 1 \in Nat
        /\ h.page[y].len - 1 < h.page[y].len
    BY <2>2, <2>3, <2>5
  <2>7. i \in 1..(N + 1) /\ i # N + 1
    BY <1>2, <2>1
  <2>8. PosIn(h, N, ps, acc, i, y, h.page[y].len - 1, t - 1)
    BY <2>2, <2>6, <2>7 DEF PosIn
  <2>9. Pos(h, b, y, NodeLen(h, y) - 1, t - 1)
    BY <1>1, <2>4, <2>8 DEF Pos
  <2> QED BY <2>2, <2>3, <2>4, <2>5, <2>6, <2>9
<1> QED BY <1>4, <1>5

\* A position stays in a list whose pages stay.
LEMMA PosUnmoved ==
    ASSUME NEW h, HeapOK(h), NEW g, NEW b \in Buffers, ListKept(g, h, b),
           NEW x, NEW off, NEW t, Pos(h, b, x, off, t)
    PROVE  Pos(g, b, x, off, t)
<1>1. PICK N, ps, acc, k : Enumerates(h, b, N, ps, acc) /\ PosIn(h, N, ps, acc, k, x, off, t)
  BY DEF Pos
<1>2. Enumerates(g, b, N, ps, acc)
  BY <1>1, EnumSame DEF ListKept
<1>3. PosFacts(h, b, N, ps, acc, k, x, off, t)
  BY <1>1, PosInFacts
<1>4. k # N + 1 => g.page[ps[k]].len = h.page[ps[k]].len
  BY <1>3 DEF ListKept, PosFacts
<1>5. PosIn(g, N, ps, acc, k, x, off, t)
  BY <1>1, <1>4 DEF PosIn
<1> QED BY <1>2, <1>5 DEF Pos

\* A position in a page stays when a page is appended.
LEMMA PosAppended ==
    ASSUME NEW h, HeapOK(h), NEW g, NEW b \in Buffers, Appended(g, h, b),
           NEW x, NEW off, NEW t, Pos(h, b, x, off, t), x # b
    PROVE  Pos(g, b, x, off, t)
<1>1. PICK N, ps, acc, k : Enumerates(h, b, N, ps, acc) /\ PosIn(h, N, ps, acc, k, x, off, t)
  BY DEF Pos
<1>2. PICK qs, bcc : Enumerates(g, b, N + 1, qs, bcc) /\ GoesOn(N, ps, acc, N + 1, qs, bcc)
  BY <1>1, AppendGoesOn
<1>3. PosFacts(h, b, N, ps, acc, k, x, off, t)
  BY <1>1, PosInFacts
<1>4. k # N + 1 /\ k \in 1..N /\ N \in Nat /\ x \in Mine(h, b)
  BY <1>3 DEF PosFacts
<1>5. k \in 0..N /\ k - 1 \in 0..N /\ k \in 1..((N + 1) + 1) /\ k # (N + 1) + 1
  BY <1>4
<1>6. qs[k] = ps[k] /\ bcc[k - 1] = acc[k - 1]
  BY <1>2, <1>5 DEF GoesOn
<1>7. x = ps[k] /\ off \in Nat /\ t = acc[k - 1] + off /\ off < h.page[ps[k]].len
  BY <1>1, <1>4 DEF PosIn
<1>8. g.page[ps[k]].len = h.page[ps[k]].len
  BY <1>4, <1>7 DEF Appended
<1>9. PosIn(g, N + 1, qs, bcc, k, x, off, t)
  BY <1>5, <1>6, <1>7, <1>8 DEF PosIn
<1> QED BY <1>2, <1>9 DEF Pos

\* A list to which a page is appended was not empty.
LEMMA AppendToSome ==
    ASSUME NEW h, HeapOK(h), Filled(h), NEW g, NEW b \in Buffers, Appended(g, h, b), Listed(h, b)
    PROVE  Content(h, b) \in Seq(Byte) /\ Len(Content(h, b)) > 0
<1>1. PICK N, ps, acc : Enumerates(h, b, N, ps, acc)
  BY DEF Listed
<1>2. N # 0
  BY <1>1, AppendGoesOn
<1>3. N \in Nat
  BY <1>1 DEF Enumerates
<1>4. N \in 1..N
  BY <1>2, <1>3
<1>5. ps[N] \in Mine(h, b) /\ h.page[ps[N]].len \in Nat /\ acc[N - 1] \in Nat
      /\ acc[N] = acc[N - 1] + h.page[ps[N]].len
  BY <1>1, <1>4, PageSum
<1>6. h.page[ps[N]].len > 0
  BY <1>5 DEF Filled, Mine
<1>7. Content(h, b) \in Seq(Byte) /\ Len(Content(h, b)) = acc[N]
  BY <1>1, ContentLen
<1> QED BY <1>5, <1>6, <1>7

\* The sum of BytesBefore over the first m pages of qs.
Summing(h, qs, m, w) ==
    w = [i \in 0..m |-> IF i = 0 THEN 0 ELSE w[i - 1] + NodeLen(h, qs[i])]

LEMMA SumIs ==
    ASSUME NEW h, HeapOK(h), NEW b \in Buffers, NEW N, NEW ps, NEW acc,
           Enumerates(h, b, N, ps, acc), NEW qs, \A i \in 1..N : qs[i] = ps[i],
           NEW m \in 0..N, NEW w, Summing(h, qs, m, w)
    PROVE  w[m] = acc[m]
<1>1. N \in Nat /\ acc[0] = 0 /\ m \in Nat
  BY SumsGrow
<1>2. \A i \in 1..m : acc[i] = acc[i - 1] + NodeLen(h, qs[i])
  <2> SUFFICES ASSUME NEW i \in 1..m PROVE acc[i] = acc[i - 1] + NodeLen(h, qs[i])
    OBVIOUS
  <2>1. i \in 1..N
    BY <1>1
  <2>2. ps[i] \in Mine(h, b) /\ acc[i] = acc[i - 1] + h.page[ps[i]].len
    BY <2>1, PageSum
  <2>3. NodeLen(h, ps[i]) = h.page[ps[i]].len
    BY <2>2, MineFacts DEF NodeLen
  <2> QED BY <2>1, <2>2, <2>3
<1>3. w[0] = 0 /\ \A i \in 1..m : w[i] = w[i - 1] + NodeLen(h, qs[i])
  <2>1. w[0] = 0
    BY <1>1 DEF Summing
  <2>2. ASSUME NEW i \in 1..m PROVE w[i] = w[i - 1] + NodeLen(h, qs[i])
    <3>1. i \in 0..m /\ i # 0
      BY <1>1
    <3> QED BY <3>1 DEF Summing
  <2> QED BY <2>1, <2>2
<1>4. ASSUME NEW v, NEW u, NEW D \in Nat, w = v, acc = u, m = D
      PROVE  \A i \in 0..D : v[i] = u[i]
  <2>1. v[0] = u[0] /\ \A k \in 1..D : v[k - 1] = u[k - 1] => v[k] = u[k]
    BY <1>1, <1>2, <1>3, <1>4
  <2> QED BY <2>1, SameRule
<1>5. \A i \in 0..m : w[i] = acc[i]
  BY <1>1, <1>4
<1> QED BY <1>1, <1>5

LEMMA SumExists ==
    ASSUME NEW h, HeapOK(h), NEW b \in Buffers, NEW N, NEW ps, NEW acc,
           Enumerates(h, b, N, ps, acc), NEW qs, \A i \in 1..N : qs[i] = ps[i],
           NEW m \in 0..N
    PROVE  \E w : Summing(h, qs, m, w)
<1> DEFINE w == [i \in 0..m |-> acc[i]]
<1>1. N \in Nat /\ acc[0] = 0 /\ m \in Nat
  BY SumsGrow
<1>2. ASSUME NEW i \in 0..m
      PROVE  w[i] = IF i = 0 THEN 0 ELSE w[i - 1] + NodeLen(h, qs[i])
  <2>1. CASE i = 0
    BY <1>1, <2>1
  <2>2. CASE i # 0
    <3>1. i \in 1..N /\ i - 1 \in 0..m
      BY <1>1, <2>2
    <3>2. ps[i] \in Mine(h, b) /\ acc[i] = acc[i - 1] + h.page[ps[i]].len
      BY <3>1, PageSum
    <3>3. NodeLen(h, ps[i]) = h.page[ps[i]].len
      BY <3>2, MineFacts DEF NodeLen
    <3>4. qs[i] = ps[i]
      BY <3>1
    <3> QED BY <2>2, <3>1, <3>2, <3>3, <3>4
  <2> QED BY <2>1, <2>2
<1>3. w = [i \in 0..m |-> w[i]]
  OBVIOUS
<1> HIDE DEF w
<1>4. w = [i \in 0..m |-> IF i = 0 THEN 0 ELSE w[i - 1] + NodeLen(h, qs[i])]
  BY <1>2, <1>3
<1> QED BY <1>4 DEF Summing

\* BytesBefore counts the bytes in front of a position's node.
LEMMA PosBefore ==
    ASSUME NEW h, HeapOK(h), NEW b \in Buffers, NEW x, NEW off, NEW t, Pos(h, b, x, off, t)
    PROVE  BytesBefore(h, b, x) \in Nat /\ BytesBefore(h, b, x) + off = t
<1>1. PICK N, ps, acc, k : Enumerates(h, b, N, ps, acc) /\ PosIn(h, N, ps, acc, k, x, off, t)
  BY DEF Pos
<1>2. PosFacts(h, b, N, ps, acc, k, x, off, t)
  BY <1>1, PosInFacts
<1>3. N \in Nat /\ k \in 1..(N + 1) /\ x = ps[k] /\ t = acc[k - 1] + off /\ acc[k - 1] \in Nat
      /\ off \in Nat /\ (k = N + 1 => x = b) /\ (k # N + 1 => x # b)
  BY <1>2 DEF PosFacts
<1> DEFINE qs == PagesOf(h, b)
<1>4. qs = [i \in 1..N |-> ps[i]]
  BY <1>1, WalkFindsPages
<1>5. Len(qs) = N /\ \A i \in 1..N : qs[i] = ps[i]
  <2> HIDE DEF qs
  <2> QED BY <1>3, <1>4
<1> DEFINE IsAt(i) == (IF i < N THEN qs[i + 1] ELSE b) = x
<1>6. k - 1 \in 0..N /\ IsAt(k - 1)
  <2>1. k - 1 \in 0..N /\ (k - 1) + 1 = k
    BY <1>3
  <2>2. CASE k = N + 1
    BY <1>3, <2>1, <2>2
  <2>3. CASE k # N + 1
    <3>1. k - 1 < N /\ k \in 1..N
      BY <1>3, <2>3
    <3> HIDE DEF qs
    <3> QED BY <1>3, <1>5, <2>1, <3>1
  <2> QED BY <2>2, <2>3
<1>7. ASSUME NEW i \in 0..N, IsAt(i) PROVE i = k - 1
  <2> HIDE DEF qs
  <2>1. CASE i < N
    <3>1. i + 1 \in 1..N /\ i + 1 \in 0..N
      BY <1>3, <2>1
    <3>2. ps[i + 1] = x
      BY <1>5, <1>7, <2>1, <3>1
    <3>3. ps[i + 1] \in Mine(h, b)
      BY <1>1, <3>1, PageSum
    <3>4. x # b
      BY <3>2, <3>3, MineFacts
    <3>5. k \in 0..N
      BY <1>3, <3>4
    <3>6. i + 1 = k
      BY <1>1, <1>3, <3>1, <3>2, <3>5, EnumOnce
    <3> QED BY <3>6, <1>3
  <2>2. CASE ~(i < N)
    <3>1. x = b /\ i = N
      BY <1>3, <1>7, <2>2
    <3>2. k = N + 1
      BY <1>3, <3>1
    <3> QED BY <1>3, <3>1, <3>2
  <2> QED BY <2>1, <2>2
<1>8. (CHOOSE i \in 0..N : IsAt(i)) = k - 1
  <2> HIDE DEF IsAt
  <2> QED BY <1>6, <1>7
<1> DEFINE m == k - 1
<1>9. BytesBefore(h, b, x) = (CHOOSE w : Summing(h, qs, m, w))[m]
  BY <1>5, <1>8 DEF BytesBefore, Summing
<1>10. m \in 0..N /\ t = acc[m] + off /\ acc[m] \in Nat
  BY <1>3, <1>6
<1> HIDE DEF qs, m
<1>11. \E w : Summing(h, qs, m, w)
  BY <1>1, <1>5, <1>10, SumExists
<1>12. ASSUME NEW w, Summing(h, qs, m, w) PROVE w[m] = acc[m]
  BY <1>1, <1>5, <1>10, <1>12, SumIs
<1>13. (CHOOSE w : Summing(h, qs, m, w))[m] = acc[m]
  BY <1>11, <1>12
<1> QED BY <1>9, <1>10, <1>13

====
