------------------------------ MODULE ListProofs ------------------------------
(***************************************************************************)
(* The page lists and the size of a buffer.                                *)
(*                                                                         *)
(* What PagesOf and PagesLen compute is recursive, so the invariant does   *)
(* not speak of it: it says that there is an enumeration of the pages of a *)
(* buffer along next, with the partial sums of their lengths, and each     *)
(* list operation is shown to turn one enumeration into another.  At the   *)
(* end the walk along next is shown to find just that enumeration.         *)
(***************************************************************************)
EXTENDS TrivialBufferProofs, WellFoundedInduction

\* The pages in the list of b.
Mine(h, b) == {p \in LivePages(h) : h.page[p].own = b}

\* ps follows next.
Follows(h, N, ps) == \A i \in 0..N : h.nxt[ps[i]] = ps[i + 1]

\* acc[i] is the length of the first i of the pages ps[1] to ps[N].
Sums(h, N, ps, acc) ==
    acc[0] = 0 /\ \A i \in 1..N : h.page[ps[i]].len = acc[i] - acc[i - 1]

\* ps[1] to ps[N] are the pages of b in the order of next, between the two ends of
\* the closed list, and acc their lengths summed up.
Enumerates(h, b, N, ps, acc) ==
    /\ N \in Nat /\ ps \in [0..(N + 1) -> Nodes] /\ acc \in [0..N -> Int]
    /\ ps[0] = b /\ ps[N + 1] = b
    /\ Follows(h, N, ps) /\ Sums(h, N, ps, acc)
    /\ \A i \in 1..N : ps[i] \in Mine(h, b)
    /\ \A i \in 1..N, j \in 1..N : ps[i] = ps[j] => i = j
    /\ \A p \in Mine(h, b) : \E i \in 1..N : ps[i] = p

\* The list of b is well formed and its pages show t bytes.
Chain(h, b, t) == \E N, ps, acc : Enumerates(h, b, N, ps, acc) /\ t = acc[N]

LEMMA ChainTotal ==
    ASSUME NEW h, NEW b, NEW t, Chain(h, b, t)
    PROVE  t \in Int
  BY DEF Chain, Enumerates

\* The anchor is no page.
LEMMA MineFacts ==
    ASSUME NEW h, NEW b \in Buffers
    PROVE  Mine(h, b) \subseteq PageIds /\ b \notin Mine(h, b) /\ Mine(h, b) \subseteq Nodes
  BY HeapAssumption DEF Mine, LivePages, Nodes

-----------------------------------------------------------------------------
(* From one enumeration to another.                                        *)

LEMMA EnumNode ==
    ASSUME NEW h, NEW b, NEW N, NEW ps, NEW acc, Enumerates(h, b, N, ps, acc),
           NEW i \in 0..N
    PROVE  /\ N \in Nat /\ ps[i] \in Nodes /\ acc[i] \in Int
           /\ ps[i] \in Mine(h, b) \cup {b}
           /\ i # 0 => ps[i] \in Mine(h, b)
<1>1. N \in Nat /\ 0..N \subseteq 0..(N + 1)
  BY DEF Enumerates
<1>2. ps[i] \in Nodes /\ acc[i] \in Int
  BY <1>1 DEF Enumerates
<1>3. i # 0 => i \in 1..N
  BY <1>1
<1> QED BY <1>1, <1>2, <1>3 DEF Enumerates

LEMMA EnumNext ==
    ASSUME NEW h, NEW b, NEW N, NEW ps, NEW acc, Enumerates(h, b, N, ps, acc),
           NEW i \in 0..N
    PROVE  h.nxt[ps[i]] = ps[i + 1]
  BY DEF Enumerates, Follows

LEMMA EnumSum ==
    ASSUME NEW h, NEW b, NEW N, NEW ps, NEW acc, Enumerates(h, b, N, ps, acc),
           NEW i \in 0..N, i # 0
    PROVE  acc[i] \in Int /\ acc[i - 1] \in Int /\ h.page[ps[i]].len = acc[i] - acc[i - 1]
<1>1. N \in Nat /\ i \in 1..N /\ i - 1 \in 0..N
  BY DEF Enumerates
<1> QED BY <1>1 DEF Enumerates, Sums

LEMMA EnumSame ==
    ASSUME NEW h, NEW g, NEW b, NEW N, NEW ps, NEW acc, Enumerates(h, b, N, ps, acc),
           Mine(g, b) = Mine(h, b),
           \A p \in Mine(h, b) : g.page[p].len = h.page[p].len,
           \A n \in Mine(h, b) \cup {b} : g.nxt[n] = h.nxt[n]
    PROVE  Enumerates(g, b, N, ps, acc)
<1>1. Follows(g, N, ps)
  <2> SUFFICES ASSUME NEW i \in 0..N PROVE g.nxt[ps[i]] = ps[i + 1]
    BY DEF Follows
  <2> QED BY EnumNode, EnumNext
<1>2. Sums(g, N, ps, acc)
  BY DEF Enumerates, Sums
<1> QED BY <1>1, <1>2 DEF Enumerates

LEMMA ChainSame ==
    ASSUME NEW h, NEW g, NEW b, NEW t, Chain(h, b, t), Mine(g, b) = Mine(h, b),
           \A p \in Mine(h, b) : g.page[p].len = h.page[p].len,
           \A n \in Mine(h, b) \cup {b} : g.nxt[n] = h.nxt[n]
    PROVE  Chain(g, b, t)
<1>1. PICK N, ps, acc : Enumerates(h, b, N, ps, acc) /\ t = acc[N]
  BY DEF Chain
<1>2. Enumerates(g, b, N, ps, acc)
  BY <1>1, EnumSame
<1> QED BY <1>1, <1>2 DEF Chain

LEMMA ChainEmpty ==
    ASSUME NEW h, NEW b \in Buffers, h.nxt[b] = b, Mine(h, b) = {}
    PROVE  Chain(h, b, 0)
<1> DEFINE ps == [i \in 0..1 |-> b]
           acc == [i \in 0..0 |-> 0]
<1>1. Follows(h, 0, ps) /\ Sums(h, 0, ps, acc)
  BY DEF Follows, Sums
<1>2. Enumerates(h, b, 0, ps, acc)
  BY <1>1 DEF Enumerates, Nodes
<1> QED BY <1>2 DEF Chain

\* A node is met once.
LEMMA EnumOnce ==
    ASSUME NEW h, NEW b \in Buffers, NEW N, NEW ps, NEW acc, Enumerates(h, b, N, ps, acc),
           NEW i \in 0..N, NEW j \in 0..N, ps[i] = ps[j]
    PROVE  i = j
<1>1. b \notin Mine(h, b)
  BY MineFacts
<1>2. /\ i = 0 => ps[i] = b
      /\ i # 0 => ps[i] \in Mine(h, b) /\ i \in 1..N
      /\ j = 0 => ps[j] = b
      /\ j # 0 => ps[j] \in Mine(h, b) /\ j \in 1..N
  <2>1. N \in Nat /\ ps[0] = b
    BY DEF Enumerates
  <2> QED BY <2>1, EnumNode
<1>3. CASE i = 0 \/ j = 0
  BY <1>1, <1>2, <1>3
<1>4. CASE i # 0 /\ j # 0
  BY <1>2, <1>4 DEF Enumerates
<1> QED BY <1>3, <1>4

\* Where a node of the list is in the enumeration.
LEMMA AtIndex ==
    ASSUME NEW h, NEW b, NEW N, NEW ps, NEW acc, Enumerates(h, b, N, ps, acc),
           NEW w \in Mine(h, b) \cup {b}
    PROVE  \E j \in 0..N : ps[j] = w
  BY DEF Enumerates

\* A list whose anchor leads back to it is empty.
LEMMA ChainAtEnd ==
    ASSUME NEW h, NEW b \in Buffers, NEW t, Chain(h, b, t), h.nxt[b] = b
    PROVE  t = 0 /\ Mine(h, b) = {}
<1>1. PICK N, ps, acc : Enumerates(h, b, N, ps, acc) /\ t = acc[N]
  BY DEF Chain
<1>2. N \in Nat /\ ps[0] = b /\ 0 \in 0..N
  BY <1>1 DEF Enumerates
<1>3. N = 0
  <2>1. CASE N # 0
    <3>1. 1 \in 0..N /\ 0 + 1 = 1
      BY <2>1, <1>2
    <3>2. ps[1] \in Mine(h, b)
      BY <3>1, <1>1, EnumNode
    <3>3. h.nxt[ps[0]] = ps[0 + 1]
      BY <1>1, <1>2, EnumNext
    <3> QED BY <3>1, <3>2, <3>3, <1>2, MineFacts
  <2> QED BY <2>1
<1> QED BY <1>1, <1>3 DEF Enumerates, Sums

\* A page p of n bytes is linked behind the node w.
PutAfter(N, ps, acc, j, p, l, qs, sum) ==
    /\ \A i \in 0..j : qs[i] = ps[i] /\ sum[i] = acc[i]
    /\ qs[j + 1] = p /\ sum[j + 1] = acc[j] + l
    /\ \A i \in (j + 1)..N : qs[i + 1] = ps[i] /\ sum[i + 1] = acc[i] + l

LEMMA EnumInsert ==
    ASSUME NEW h, NEW g, NEW b \in Buffers, NEW N, NEW ps, NEW acc,
           Enumerates(h, b, N, ps, acc), NEW p \in PageIds,
           p \notin Mine(h, b), Mine(g, b) = Mine(h, b) \cup {p}, g.page[p].len \in Int,
           \A q \in Mine(h, b) : g.page[q].len = h.page[q].len,
           NEW j \in 0..N, NEW w, w = ps[j], g.nxt[w] = p, g.nxt[p] = h.nxt[w],
           \A n \in (Mine(h, b) \cup {b}) \ {w} : g.nxt[n] = h.nxt[n]
    PROVE  \E qs, sum : /\ Enumerates(g, b, N + 1, qs, sum)
                        /\ PutAfter(N, ps, acc, j, p, g.page[p].len, qs, sum)
<1>1. Enumerates(h, b, N, ps, acc)
  OBVIOUS
<1>2. ps[j] = w /\ \A i \in 0..N : ps[i] = w => i = j
  <2>1. ASSUME NEW i \in 0..N, ps[i] = w PROVE i = j
    BY <2>1, EnumOnce
  <2> QED BY <2>1
<1> DEFINE M == N + 1
           l == g.page[p].len
           qs == [i \in 0..(M + 1) |-> IF i <= j THEN ps[i] ELSE IF i = j + 1 THEN p ELSE ps[i - 1]]
           sum == [i \in 0..M |-> IF i <= j THEN acc[i] ELSE acc[i - 1] + l]
<1>3. /\ N \in Nat /\ j \in Nat /\ j <= N /\ p \in Nodes /\ l \in Int /\ p # b
      /\ b \notin Mine(h, b)
  BY <1>1, HeapAssumption, MineFacts DEF Enumerates, Nodes
<1>4. /\ \A i \in 0..(N + 1) : ps[i] \in Nodes
      /\ \A i \in 0..N : acc[i] \in Int
      /\ ps[0] = b /\ ps[N + 1] = b /\ acc[0] = 0
  BY <1>1 DEF Enumerates, Sums
<1> HIDE DEF l
<1>5. M \in Nat /\ qs \in [0..(M + 1) -> Nodes] /\ sum \in [0..M -> Int]
  BY <1>3, <1>4
<1>6. qs[0] = b /\ qs[M + 1] = b /\ sum[0] = 0
  BY <1>3, <1>4
<1>7. ASSUME NEW i \in 0..M PROVE g.nxt[qs[i]] = qs[i + 1]
  <2>1. CASE i < j
    <3>1. qs[i] = ps[i] /\ qs[i + 1] = ps[i + 1] /\ i \in 0..N /\ i # j
      BY <2>1, <1>3
    <3>2. ps[i] \in (Mine(h, b) \cup {b}) \ {w} /\ h.nxt[ps[i]] = ps[i + 1]
      BY <3>1, <1>1, <1>2, EnumNode, EnumNext
    <3> QED BY <3>1, <3>2
  <2>2. CASE i = j
    <3>1. qs[i] = w /\ qs[i + 1] = p
      BY <2>2, <1>2, <1>3
    <3> QED BY <3>1
  <2>3. CASE i = j + 1
    <3>1. qs[i] = p /\ qs[i + 1] = ps[j + 1]
      BY <2>3, <1>3
    <3>2. h.nxt[w] = ps[j + 1]
      BY <1>1, <1>2, EnumNext
    <3> QED BY <3>1, <3>2
  <2>4. CASE i > j + 1
    <3> DEFINE k == i - 1
    <3>1. k \in 0..N /\ qs[i] = ps[k] /\ qs[i + 1] = ps[k + 1] /\ k # j
      BY <2>4, <1>3
    <3> HIDE DEF k
    <3>2. ps[k] \in (Mine(h, b) \cup {b}) \ {w} /\ h.nxt[ps[k]] = ps[k + 1]
      BY <3>1, <1>1, <1>2, EnumNode, EnumNext
    <3> QED BY <3>1, <3>2
  <2> QED BY <2>1, <2>2, <2>3, <2>4, <1>3
<1>8. ASSUME NEW i \in 1..M
      PROVE  qs[i] \in Mine(g, b) /\ g.page[qs[i]].len = sum[i] - sum[i - 1]
  <2>1. CASE i <= j
    <3>1. i \in 0..N /\ i # 0 /\ qs[i] = ps[i] /\ sum[i] = acc[i] /\ sum[i - 1] = acc[i - 1]
      BY <2>1, <1>3
    <3>2. ps[i] \in Mine(h, b) /\ h.page[ps[i]].len = acc[i] - acc[i - 1]
      BY <3>1, <1>1, EnumNode, EnumSum
    <3> QED BY <3>1, <3>2
  <2>2. CASE i = j + 1
    <3>1. qs[i] = p /\ sum[i] = acc[j] + l /\ sum[i - 1] = acc[j] /\ acc[j] \in Int
      BY <2>2, <1>3, <1>4
    <3> QED BY <3>1, <1>3 DEF l
  <2>3. CASE i > j + 1
    <3> DEFINE k == i - 1
    <3>1. /\ k \in 0..N /\ k # 0 /\ qs[i] = ps[k]
          /\ sum[i] = acc[k] + l /\ sum[i - 1] = acc[k - 1] + l
      BY <2>3, <1>3
    <3> HIDE DEF k
    <3>2. /\ ps[k] \in Mine(h, b) /\ h.page[ps[k]].len = acc[k] - acc[k - 1]
          /\ acc[k] \in Int /\ acc[k - 1] \in Int
      BY <3>1, <1>1, EnumNode, EnumSum
    <3> HIDE DEF qs, sum
    <3> QED BY <3>1, <3>2, <1>3
  <2> QED BY <2>1, <2>2, <2>3, <1>3
<1>9. ASSUME NEW i \in 1..M, NEW k \in 1..M, qs[i] = qs[k] PROVE i = k
  <2>1. ASSUME NEW m \in 1..M
        PROVE  \/ m = j + 1 /\ qs[m] = p
               \/ m # j + 1 /\ qs[m] # p /\ \E u \in 0..N :
                     qs[m] = ps[u] /\ m = IF u <= j THEN u ELSE u + 1
    <3>1. CASE m = j + 1
      BY <3>1, <1>3
    <3>2. CASE m # j + 1
      <4> DEFINE u == IF m <= j THEN m ELSE m - 1
      <4>1. u \in 0..N /\ qs[m] = ps[u] /\ u # 0 /\ m = IF u <= j THEN u ELSE u + 1
        BY <3>2, <1>3
      <4> HIDE DEF u
      <4>2. ps[u] \in Mine(h, b)
        BY <4>1, <1>1, EnumNode
      <4> QED BY <3>2, <4>1, <4>2
    <3> QED BY <3>1, <3>2
  <2> HIDE DEF qs
  <2>2. CASE i = j + 1 \/ k = j + 1
    BY <2>1, <2>2, <1>9
  <2>3. CASE i # j + 1 /\ k # j + 1
    <3>1. PICK u \in 0..N : qs[i] = ps[u] /\ i = IF u <= j THEN u ELSE u + 1
      BY <2>1, <2>3
    <3>2. PICK v \in 0..N : qs[k] = ps[v] /\ k = IF v <= j THEN v ELSE v + 1
      BY <2>1, <2>3
    <3>3. u = v
      BY <3>1, <3>2, <1>1, <1>9, EnumOnce
    <3> QED BY <3>1, <3>2, <3>3
  <2> QED BY <2>2, <2>3
<1>10. ASSUME NEW q \in Mine(g, b) PROVE \E i \in 1..M : qs[i] = q
  <2>1. CASE q = p
    <3>1. j + 1 \in 1..M /\ qs[j + 1] = q
      BY <2>1, <1>3
    <3> QED BY <3>1
  <2>2. CASE q \in Mine(h, b)
    <3>1. PICK i \in 1..N : ps[i] = q
      BY <2>2, <1>1 DEF Enumerates
    <3>2. CASE i <= j
      BY <3>1, <3>2, <1>3
    <3>3. CASE i > j
      <4>1. i + 1 \in 1..M /\ qs[i + 1] = q
        BY <3>1, <3>3, <1>3
      <4> QED BY <4>1
    <3>4. i <= j \/ i > j
      BY <1>3
    <3> QED BY <3>2, <3>3, <3>4
  <2> QED BY <2>1, <2>2
<1>11. PutAfter(N, ps, acc, j, p, l, qs, sum)
  <2>1. \A i \in 0..j : i \in 0..(M + 1) /\ i \in 0..M /\ i <= j
    BY <1>3
  <2>2. j + 1 \in 0..(M + 1) /\ j + 1 \in 0..M /\ ~(j + 1 <= j) /\ (j + 1) - 1 = j
    BY <1>3
  <2>3. \A i \in (j + 1)..N : /\ i + 1 \in 0..(M + 1) /\ i + 1 \in 0..M /\ ~(i + 1 <= j)
                              /\ i + 1 # j + 1 /\ (i + 1) - 1 = i
    BY <1>3
  <2> HIDE DEF M
  <2> QED BY <2>1, <2>2, <2>3 DEF PutAfter
<1> HIDE DEF qs, sum
<1>12. Enumerates(g, b, M, qs, sum)
  <2> HIDE DEF M
  <2> QED BY <1>5, <1>6, <1>7, <1>8, <1>9, <1>10 DEF Enumerates, Follows, Sums
<1> QED BY <1>11, <1>12 DEF l

LEMMA ChainInsert ==
    ASSUME NEW h, NEW g, NEW b \in Buffers, NEW t, Chain(h, b, t), NEW p \in PageIds,
           p \notin Mine(h, b), Mine(g, b) = Mine(h, b) \cup {p}, g.page[p].len \in Int,
           \A q \in Mine(h, b) : g.page[q].len = h.page[q].len,
           NEW w \in Mine(h, b) \cup {b}, g.nxt[w] = p, g.nxt[p] = h.nxt[w],
           \A n \in (Mine(h, b) \cup {b}) \ {w} : g.nxt[n] = h.nxt[n]
    PROVE  Chain(g, b, t + g.page[p].len)
<1>1. PICK N, ps, acc : Enumerates(h, b, N, ps, acc) /\ t = acc[N]
  BY DEF Chain
<1>2. PICK j \in 0..N : ps[j] = w
  BY <1>1, AtIndex
<1>3. PICK qs, sum : /\ Enumerates(g, b, N + 1, qs, sum)
                     /\ PutAfter(N, ps, acc, j, p, g.page[p].len, qs, sum)
  BY <1>1, <1>2, EnumInsert
<1>4. sum[N + 1] = t + g.page[p].len
  <2>1. N \in Nat
    BY <1>1 DEF Enumerates
  <2>2. CASE j = N
    BY <2>1, <2>2, <1>1, <1>3 DEF PutAfter
  <2>3. CASE j # N
    <3>1. N \in (j + 1)..N
      BY <2>1, <2>3
    <3> QED BY <3>1, <1>1, <1>3 DEF PutAfter
  <2> QED BY <2>2, <2>3
<1> QED BY <1>3, <1>4 DEF Chain

\* The page p, which follows the node w, leaves the list.
LEMMA EnumRemove ==
    ASSUME NEW h, NEW g, NEW b \in Buffers, NEW N, NEW ps, NEW acc,
           Enumerates(h, b, N, ps, acc), NEW p \in Mine(h, b),
           Mine(g, b) = Mine(h, b) \ {p},
           \A q \in Mine(g, b) : g.page[q].len = h.page[q].len,
           NEW j \in 0..N, NEW w, w = ps[j], h.nxt[w] = p, g.nxt[w] = h.nxt[p],
           \A n \in (Mine(g, b) \cup {b}) \ {w} : g.nxt[n] = h.nxt[n]
    PROVE  /\ j < N
           /\ \E qs, sum :
                 /\ Enumerates(g, b, N - 1, qs, sum) /\ sum[N - 1] = acc[N] - h.page[p].len
                 /\ \A i \in 0..j : qs[i] = ps[i] /\ sum[i] = acc[i]
<1>1. Enumerates(h, b, N, ps, acc)
  OBVIOUS
<1>2. ps[j] = w
  OBVIOUS
<1>0. \A i \in 0..N, k \in 0..N : ps[i] = ps[k] => i = k
  BY <1>1, EnumOnce
<1> DEFINE M == N - 1
           l == h.page[p].len
           qs == [i \in 0..(M + 1) |-> IF i <= j THEN ps[i] ELSE ps[i + 1]]
           sum == [i \in 0..M |-> IF i <= j THEN acc[i] ELSE acc[i + 1] - l]
<1>3. /\ N \in Nat /\ j \in Nat /\ j < N /\ ps[j + 1] = p /\ p # b
      /\ \A i \in 0..N : ps[i] = p => i = j + 1
  <2>1. N \in Nat /\ ps[N + 1] = b
    BY <1>1 DEF Enumerates
  <2>2. ps[j + 1] = p
    BY <1>1, <1>2, EnumNext
  <2>3. p # b
    BY MineFacts
  <2>4. j # N
    BY <2>1, <2>2, <2>3
  <2>5. j + 1 \in 0..N
    BY <2>1, <2>4
  <2>6. ASSUME NEW i \in 0..N, ps[i] = p PROVE i = j + 1
    BY <2>2, <2>5, <2>6, <1>0
  <2> QED BY <2>1, <2>2, <2>3, <2>4, <2>6
<1>4. l = acc[j + 1] - acc[j] /\ acc[j] \in Int /\ acc[j + 1] \in Int /\ l \in Int
  <2>1. j + 1 \in 0..N /\ j + 1 # 0 /\ (j + 1) - 1 = j
    BY <1>3
  <2>2. /\ acc[j + 1] \in Int /\ acc[(j + 1) - 1] \in Int
        /\ h.page[ps[j + 1]].len = acc[j + 1] - acc[(j + 1) - 1]
    BY <2>1, <1>1, EnumSum
  <2> QED BY <2>1, <2>2, <1>3
<1>5. /\ \A i \in 0..(N + 1) : ps[i] \in Nodes
      /\ \A i \in 0..N : acc[i] \in Int
      /\ ps[0] = b /\ ps[N + 1] = b /\ acc[0] = 0
  BY <1>1 DEF Enumerates, Sums
<1> HIDE DEF l
<1>6. M \in Nat /\ qs \in [0..(M + 1) -> Nodes] /\ sum \in [0..M -> Int]
  BY <1>3, <1>4, <1>5
<1>7. qs[0] = b /\ qs[M + 1] = b /\ sum[0] = 0
  BY <1>3, <1>5
<1>8. ASSUME NEW i \in 0..M PROVE g.nxt[qs[i]] = qs[i + 1]
  <2>1. CASE i < j
    <3>1. /\ qs[i] = ps[i] /\ qs[i + 1] = ps[i + 1] /\ i \in 0..N /\ i # j /\ i # j + 1
      BY <2>1, <1>3
    <3>2. ps[i] # w
      BY <3>1, <1>2, <1>0
    <3>3. ps[i] \in (Mine(g, b) \cup {b}) \ {w} /\ h.nxt[ps[i]] = ps[i + 1]
      BY <3>1, <3>2, <1>1, <1>3, EnumNode, EnumNext
    <3> QED BY <3>1, <3>3
  <2>2. CASE i = j
    <3>1. qs[i] = w /\ qs[i + 1] = ps[(j + 1) + 1] /\ j + 1 \in 0..N
      BY <2>2, <1>2, <1>3
    <3>2. h.nxt[p] = ps[(j + 1) + 1]
      BY <3>1, <1>1, <1>3, EnumNext
    <3> QED BY <3>1, <3>2
  <2>3. CASE i > j
    <3> DEFINE k == i + 1
    <3>1. k \in 0..N /\ qs[i] = ps[k] /\ qs[i + 1] = ps[k + 1] /\ k # j /\ k # j + 1
      BY <2>3, <1>3
    <3> HIDE DEF k, qs
    <3>2. ps[k] # w
      BY <3>1, <1>2, <1>0
    <3>3. ps[k] \in (Mine(g, b) \cup {b}) \ {w} /\ h.nxt[ps[k]] = ps[k + 1]
      BY <3>1, <3>2, <1>1, <1>3, EnumNode, EnumNext
    <3> QED BY <3>1, <3>3
  <2> QED BY <2>1, <2>2, <2>3, <1>3
<1>9. ASSUME NEW i \in 1..M
      PROVE  qs[i] \in Mine(g, b) /\ g.page[qs[i]].len = sum[i] - sum[i - 1]
  <2>1. CASE i <= j
    <3>1. /\ i \in 0..N /\ i # 0 /\ i # j + 1 /\ qs[i] = ps[i] /\ sum[i] = acc[i]
          /\ sum[i - 1] = acc[i - 1]
      BY <2>1, <1>3
    <3>2. ps[i] \in Mine(g, b) /\ h.page[ps[i]].len = acc[i] - acc[i - 1]
      BY <3>1, <1>1, <1>3, EnumNode, EnumSum
    <3> QED BY <3>1, <3>2
  <2>2. CASE i > j
    <3> DEFINE k == i + 1
    <3>1. /\ k \in 0..N /\ k # 0 /\ k # j + 1 /\ qs[i] = ps[k] /\ sum[i] = acc[k] - l
          /\ sum[i - 1] = IF i = j + 1 THEN acc[j] ELSE acc[k - 1] - l
          /\ i = j + 1 => k - 1 = j + 1
      BY <2>2, <1>3
    <3> HIDE DEF k, qs, sum
    <3>2. /\ ps[k] \in Mine(g, b) /\ h.page[ps[k]].len = acc[k] - acc[k - 1]
          /\ acc[k] \in Int /\ acc[k - 1] \in Int
      BY <3>1, <1>1, <1>3, EnumNode, EnumSum
    <3> QED BY <3>1, <3>2, <1>3, <1>4
  <2> QED BY <2>1, <2>2, <1>3
<1>10. ASSUME NEW i \in 1..M, NEW k \in 1..M, qs[i] = qs[k] PROVE i = k
  <2>1. ASSUME NEW m \in 1..M
        PROVE  \E u \in 0..N : qs[m] = ps[u] /\ u = IF m <= j THEN m ELSE m + 1
    <3> DEFINE u == IF m <= j THEN m ELSE m + 1
    <3>1. u \in 0..N /\ qs[m] = ps[u]
      BY <1>3
    <3> QED BY <3>1
  <2> HIDE DEF qs
  <2>2. PICK u \in 0..N : qs[i] = ps[u] /\ u = IF i <= j THEN i ELSE i + 1
    BY <2>1
  <2>3. PICK v \in 0..N : qs[k] = ps[v] /\ v = IF k <= j THEN k ELSE k + 1
    BY <2>1
  <2>4. u = v
    BY <2>2, <2>3, <1>10, <1>0
  <2> QED BY <2>2, <2>3, <2>4
<1>11. ASSUME NEW q \in Mine(g, b) PROVE \E i \in 1..M : qs[i] = q
  <2>1. PICK i \in 1..N : ps[i] = q
    BY <1>1 DEF Enumerates
  <2>2. i # j + 1
    BY <2>1, <1>3
  <2>3. CASE i <= j
    BY <2>1, <2>3, <1>3
  <2>4. CASE i > j
    <3>1. i - 1 \in 1..M /\ qs[i - 1] = q
      BY <2>1, <2>2, <2>4, <1>3
    <3> QED BY <3>1
  <2>5. i <= j \/ i > j
    BY <2>1, <1>3
  <2> QED BY <2>3, <2>4, <2>5
<1>12. sum[M] = acc[N] - l
  <2>1. CASE j = M
    BY <2>1, <1>1, <1>3, <1>4
  <2>2. CASE j # M
    BY <2>2, <1>1, <1>3
  <2> QED BY <2>1, <2>2
<1>13. \A i \in 0..j : qs[i] = ps[i] /\ sum[i] = acc[i]
  <2>1. \A i \in 0..j : i \in 0..(M + 1) /\ i \in 0..M /\ i <= j
    BY <1>3
  <2> HIDE DEF M
  <2> QED BY <2>1
<1> HIDE DEF qs, sum
<1>14. Enumerates(g, b, M, qs, sum)
  <2> HIDE DEF M
  <2> QED BY <1>6, <1>7, <1>8, <1>9, <1>10, <1>11 DEF Enumerates, Follows, Sums
<1> QED BY <1>3, <1>12, <1>13, <1>14 DEF l

LEMMA ChainRemove ==
    ASSUME NEW h, NEW g, NEW b \in Buffers, NEW t, Chain(h, b, t), NEW p \in Mine(h, b),
           Mine(g, b) = Mine(h, b) \ {p},
           \A q \in Mine(g, b) : g.page[q].len = h.page[q].len,
           NEW w \in Mine(h, b) \cup {b}, h.nxt[w] = p, g.nxt[w] = h.nxt[p],
           \A n \in (Mine(g, b) \cup {b}) \ {w} : g.nxt[n] = h.nxt[n]
    PROVE  Chain(g, b, t - h.page[p].len)
<1>1. PICK N, ps, acc : Enumerates(h, b, N, ps, acc) /\ t = acc[N]
  BY DEF Chain
<1>2. PICK j \in 0..N : ps[j] = w
  BY <1>1, AtIndex
<1>3. PICK qs, sum : Enumerates(g, b, N - 1, qs, sum) /\ sum[N - 1] = acc[N] - h.page[p].len
  BY <1>1, <1>2, EnumRemove
<1> QED BY <1>1, <1>3 DEF Chain

\* The page p shows n bytes less.
LEMMA EnumCut ==
    ASSUME NEW h, NEW g, NEW b \in Buffers, NEW N, NEW ps, NEW acc,
           Enumerates(h, b, N, ps, acc), NEW p, NEW j \in 1..N, p = ps[j],
           NEW n \in Int, Mine(g, b) = Mine(h, b), g.page[p].len = h.page[p].len - n,
           \A q \in Mine(h, b) \ {p} : g.page[q].len = h.page[q].len,
           \A m \in Mine(h, b) \cup {b} : g.nxt[m] = h.nxt[m]
    PROVE  \E sum :
              /\ Enumerates(g, b, N, ps, sum) /\ sum[N] = acc[N] - n
              /\ \A i \in 0..N : sum[i] = IF i < j THEN acc[i] ELSE acc[i] - n
<1>1. Enumerates(h, b, N, ps, acc)
  OBVIOUS
<1>2. N \in Nat /\ acc[0] = 0 /\ \A i \in 0..N : acc[i] \in Int
  BY <1>1 DEF Enumerates, Sums
<1>3. ps[j] = p
  OBVIOUS
<1> DEFINE sum == [i \in 0..N |-> IF i < j THEN acc[i] ELSE acc[i] - n]
<1>4. sum \in [0..N -> Int] /\ sum[0] = 0 /\ sum[N] = acc[N] - n
  BY <1>1, <1>2, <1>3
<1>5. ASSUME NEW i \in 1..N PROVE g.page[ps[i]].len = sum[i] - sum[i - 1]
  <2>1. i \in 0..N /\ i # 0 /\ j \in 0..N /\ i - 1 \in 0..N
    BY <1>2
  <2>2. /\ ps[i] \in Mine(h, b) /\ h.page[ps[i]].len = acc[i] - acc[i - 1]
        /\ acc[i] \in Int /\ acc[i - 1] \in Int
    BY <2>1, <1>1, EnumNode, EnumSum
  <2>3. CASE i = j
    <3>1. sum[i] = acc[i] - n /\ sum[i - 1] = acc[i - 1]
      BY <2>3, <2>1, <1>2
    <3> HIDE DEF sum
    <3> QED BY <3>1, <2>2, <2>3, <1>3
  <2>4. CASE i # j
    <3>1. ps[i] # p
      BY <2>1, <2>4, <1>1, <1>3, EnumOnce
    <3>2. g.page[ps[i]].len = acc[i] - acc[i - 1]
      BY <3>1, <2>2
    <3>3. sum[i] - sum[i - 1] = acc[i] - acc[i - 1]
      BY <2>1, <2>2, <2>4, <1>2
    <3> QED BY <3>2, <3>3
  <2> QED BY <2>3, <2>4
<1>8. \A i \in 0..N : sum[i] = IF i < j THEN acc[i] ELSE acc[i] - n
  OBVIOUS
<1> HIDE DEF sum
<1>6. Follows(g, N, ps)
  <2> SUFFICES ASSUME NEW i \in 0..N PROVE g.nxt[ps[i]] = ps[i + 1]
    BY DEF Follows
  <2> QED BY <1>1, EnumNode, EnumNext
<1>7. Enumerates(g, b, N, ps, sum)
  BY <1>1, <1>4, <1>5, <1>6 DEF Enumerates, Sums
<1> QED BY <1>4, <1>7, <1>8

LEMMA ChainCut ==
    ASSUME NEW h, NEW g, NEW b \in Buffers, NEW t, Chain(h, b, t), NEW p \in Mine(h, b),
           NEW n \in Int, Mine(g, b) = Mine(h, b), g.page[p].len = h.page[p].len - n,
           \A q \in Mine(h, b) \ {p} : g.page[q].len = h.page[q].len,
           \A m \in Mine(h, b) \cup {b} : g.nxt[m] = h.nxt[m]
    PROVE  Chain(g, b, t - n)
<1>1. PICK N, ps, acc : Enumerates(h, b, N, ps, acc) /\ t = acc[N]
  BY DEF Chain
<1>2. PICK j \in 1..N : ps[j] = p
  BY <1>1 DEF Enumerates
<1>3. PICK sum : Enumerates(g, b, N, ps, sum) /\ sum[N] = acc[N] - n
  BY <1>1, <1>2, EnumCut
<1> QED BY <1>1, <1>3 DEF Chain

-----------------------------------------------------------------------------
(* The list operations.                                                    *)

\* The nodes of a list are its pages and its anchor.
LEMMA InList ==
    ASSUME NEW h, HeapOK(h), NEW n \in Nodes, Linked(h, n), NEW b \in Buffers, Owner(h, n) = b
    PROVE  n \in Mine(h, b) \cup {b}
<1>1. CASE n \in PageIds
  BY <1>1 DEF HeapOK, Threaded, Owner, Mine, LivePages
<1>2. CASE n \notin PageIds
  BY <1>2 DEF Owner
<1> QED BY <1>1, <1>2

\* The list of c is in g as it is in h.
ListKept(g, h, c) ==
    /\ Mine(g, c) = Mine(h, c)
    /\ \A p \in Mine(h, c) : g.page[p].len = h.page[p].len
    /\ \A n \in Mine(h, c) \cup {c} : g.nxt[n] = h.nxt[n]

LEMMA KeptChain ==
    ASSUME NEW h, NEW g, NEW c, ListKept(g, h, c)
    PROVE  /\ Exists(g, c) <=> Exists(h, c)
           /\ \A t : Chain(h, c, t) => Chain(g, c, t)
<1>1. ASSUME NEW t, Chain(h, c, t) PROVE Chain(g, c, t)
  BY <1>1, ChainSame DEF ListKept
<1> QED BY <1>1 DEF ListKept, Exists

LEMMA KeptTwice ==
    ASSUME NEW h, NEW k, NEW g, NEW c, ListKept(k, h, c), ListKept(g, k, c)
    PROVE  ListKept(g, h, c)
  BY DEF ListKept

\* The lists of the buffers other than b are in g as they are in h.
OtherListsKept(g, h, b) == \A c \in Buffers \ {b} : ListKept(g, h, c)

\* The list of b exists in g if it does in h, and shows n bytes more.
ListGrows(g, h, b, n) ==
    /\ Exists(g, b) <=> Exists(h, b)
    /\ \A t : Chain(h, b, t) => Chain(g, b, t + n)

LEMMA LinkedChains ==
    ASSUME NEW h, HeapOK(h), NEW p \in LivePages(h), ~Linked(h, p), h.page[p].own = NULL,
           NEW x \in Nodes, Linked(h, x), NEW b \in Buffers, Owner(h, x) = b,
           NEW g, LinkedIn(g, h, p, x)
    PROVE  ListGrows(g, h, b, h.page[p].len) /\ OtherListsKept(g, h, b)
<1> DEFINE w == h.prv[x]
<1>1. /\ w \in Nodes /\ Linked(h, w) /\ Owner(h, w) = b /\ h.nxt[w] = x
  BY Neighbours
<1>2. w \in Mine(h, b) \cup {b} /\ w # p
  BY <1>1, InList
<1>3. /\ h \in Heap /\ p \in PageIds /\ p \in Nodes /\ h.page[p].live /\ h.page[p].len \in Int
      /\ p \notin Buffers
  BY HeapAssumption DEF HeapOK, LivePages, Nodes, Heap, PageRec
<1>4. /\ g.nxt[w] = p /\ g.nxt[p] = x
      /\ \A n \in Nodes \ {w, p} : g.nxt[n] = h.nxt[n]
  <2>1. h.nxt \in [Nodes -> Nodes \cup {NULL}] /\ g.nxt = [[h.nxt EXCEPT ![w] = p] EXCEPT ![p] = x]
    BY <1>3 DEF LinkedIn, Heap
  <2> HIDE DEF w
  <2> QED BY <2>1, <1>1, <1>2, <1>3
<1>5. /\ g.page[p].live /\ g.page[p].own = b /\ g.page[p].len = h.page[p].len
      /\ \A q \in PageIds \ {p} : g.page[q] = h.page[q]
  BY <1>3 DEF LinkedIn, PageIs, SamePagesBut
<1>6. p # NULL
  BY <1>3, HeapAssumption
<1>7. p \notin Mine(h, b) /\ Mine(g, b) = Mine(h, b) \cup {p}
  BY <1>3, <1>5, HeapAssumption DEF Mine, LivePages
<1> HIDE DEF w
<1>8. ListGrows(g, h, b, h.page[p].len)
  <2>1. Exists(g, b) <=> Exists(h, b)
    BY <1>1, <1>3, <1>4, <1>6 DEF Exists, Linked, Nodes
  <2>2. /\ \A q \in Mine(h, b) : g.page[q].len = h.page[q].len
        /\ \A n \in (Mine(h, b) \cup {b}) \ {w} : g.nxt[n] = h.nxt[n]
    BY <1>3, <1>4, <1>5, <1>7, MineFacts DEF Nodes
  <2>3. ASSUME NEW t, Chain(h, b, t) PROVE Chain(g, b, t + h.page[p].len)
    <3>1. Chain(g, b, t + g.page[p].len)
      BY <1>1, <1>2, <1>3, <1>4, <1>5, <1>7, <2>2, <2>3, ChainInsert
    <3> QED BY <3>1, <1>5
  <2> QED BY <2>1, <2>3 DEF ListGrows
<1>9. ASSUME NEW c \in Buffers \ {b}
      PROVE  ListKept(g, h, c)
  <2>1. w \notin Mine(h, c) \cup {c} /\ p \notin Mine(h, c) \cup {c}
    BY <1>1, <1>2, <1>3, <1>9, HeapAssumption DEF Mine, LivePages
  <2>2. Mine(h, c) \cup {c} \subseteq Nodes \ {w, p}
    BY <2>1, MineFacts DEF Nodes
  <2>3. Mine(g, c) = Mine(h, c)
    BY <1>3, <1>5, <1>9, HeapAssumption DEF Mine, LivePages
  <2>4. \A q \in Mine(h, c) : g.page[q].len = h.page[q].len
    BY <2>1, <1>5, MineFacts
  <2>5. \A n \in Mine(h, c) \cup {c} : g.nxt[n] = h.nxt[n]
    BY <2>2, <1>4
  <2> QED BY <2>3, <2>4, <2>5 DEF ListKept
<1> QED BY <1>8, <1>9 DEF OtherListsKept

\* A split changes no total.
LEMMA SplitChains ==
    ASSUME NEW h, HeapOK(h), NEW x \in LivePages(h), Linked(h, x), NEW off \in Nat,
           NEW q \in FreePages(h), NEW b \in Buffers, h.page[x].own = b,
           NEW g, SplitInto(g, h, x, off, q)
    PROVE  ListGrows(g, h, b, 0) /\ OtherListsKept(g, h, b)
<1> DEFINE w == h.prv[x]
           y == [h EXCEPT !.page[x].len = h.page[x].len - off]
<1>1. /\ h \in Heap /\ x \in PageIds /\ x \in Nodes /\ q \in PageIds /\ q \in Nodes
      /\ h.page[x].live /\ ~h.page[q].live /\ q # x /\ Owner(h, x) = b
      /\ q \notin Buffers /\ x \notin Buffers /\ q # NULL
  BY HeapAssumption DEF HeapOK, LivePages, FreePages, Nodes, Owner
<1>2. w \in Nodes /\ Linked(h, w) /\ Owner(h, w) = b /\ h.nxt[w] = x
  BY <1>1, Neighbours
<1>3. w \in Mine(h, b) \cup {b} /\ x \in Mine(h, b)
  BY <1>2, InList DEF Mine
<1>4. w # q
  BY <1>1, <1>3 DEF Mine, LivePages
<1>5. /\ g.nxt[w] = q /\ g.nxt[q] = x
      /\ \A n \in Nodes \ {w, q} : g.nxt[n] = h.nxt[n]
  <2>1. h.nxt \in [Nodes -> Nodes \cup {NULL}] /\ g.nxt = [[h.nxt EXCEPT ![w] = q] EXCEPT ![q] = x]
    BY <1>1 DEF SplitInto, Heap
  <2> HIDE DEF w
  <2> QED BY <2>1, <1>1, <1>2, <1>4
<1>6. /\ g.page[q].live /\ g.page[q].own = b /\ g.page[q].len = off
      /\ g.page[x].live /\ g.page[x].own = b /\ g.page[x].len = h.page[x].len - off
      /\ \A r \in PageIds \ {x, q} : g.page[r] = h.page[r]
  BY <1>1 DEF SplitInto, PageIs
<1>7. /\ y.nxt = h.nxt
      /\ y.page[x].live /\ y.page[x].own = b /\ y.page[x].len = h.page[x].len - off
      /\ \A r \in PageIds \ {x} : y.page[r] = h.page[r]
  <2> DEFINE l == h.page[x].len - off
  <2>1. h.page[x] \in PageRec
    BY <1>1 DEF Heap
  <2>2. y = [h EXCEPT !.page = [h.page EXCEPT ![x] = [h.page[x] EXCEPT !.len = l]]]
    BY <1>1 DEF Heap
  <2> HIDE DEF l, y
  <2>3. y.nxt = h.nxt /\ y.page = [h.page EXCEPT ![x] = [h.page[x] EXCEPT !.len = l]]
    BY <2>2, <1>1 DEF Heap
  <2>4. y.page[x] = [h.page[x] EXCEPT !.len = l] /\ \A r \in PageIds \ {x} : y.page[r] = h.page[r]
    BY <2>3, <1>1 DEF Heap
  <2> QED BY <2>1, <2>3, <2>4, <1>1 DEF PageRec, l
<1> HIDE DEF y, w
<1>8. Mine(y, b) = Mine(h, b)
  BY <1>1, <1>7 DEF Mine, LivePages
<1>9. q \notin Mine(y, b) /\ Mine(g, b) = Mine(y, b) \cup {q}
  BY <1>1, <1>6, <1>7 DEF Mine, LivePages
<1>10. ListGrows(g, h, b, 0)
  <2>1. Exists(g, b) <=> Exists(h, b)
    BY <1>1, <1>2, <1>5 DEF Exists, Linked, Nodes
  <2>2. ASSUME NEW t, Chain(h, b, t) PROVE Chain(g, b, t)
    <3>1. Chain(y, b, t - off)
      <4>1. \A r \in Mine(h, b) \ {x} : y.page[r].len = h.page[r].len
        BY <1>7, MineFacts
      <4> QED BY <2>2, <4>1, <1>3, <1>7, <1>8, ChainCut
    <3>2. \A r \in Mine(y, b) : g.page[r].len = y.page[r].len
      BY <1>6, <1>7, <1>9, MineFacts
    <3>3. \A n \in (Mine(y, b) \cup {b}) \ {w} : g.nxt[n] = y.nxt[n]
      BY <1>1, <1>5, <1>7, <1>9, MineFacts DEF Nodes
    <3>4. Chain(g, b, (t - off) + g.page[q].len)
      BY <3>1, <3>2, <3>3, <1>1, <1>2, <1>3, <1>5, <1>6, <1>7, <1>8, <1>9, ChainInsert
    <3>5. t \in Int
      BY <2>2, ChainTotal
    <3>6. (t - off) + g.page[q].len = t
      BY <3>5, <1>6
    <3> QED BY <3>4, <3>6
  <2>3. ASSUME NEW t, Chain(h, b, t) PROVE Chain(g, b, t + 0)
    BY <2>2, <2>3, ChainTotal
  <2> QED BY <2>1, <2>3 DEF ListGrows
<1>11. ASSUME NEW c \in Buffers \ {b}
       PROVE  ListKept(g, h, c)
  <2>1. w \notin Mine(h, c) \cup {c} /\ q \notin Mine(h, c) \cup {c} /\ x \notin Mine(h, c)
    BY <1>1, <1>2, <1>3, <1>11, HeapAssumption DEF Mine, LivePages
  <2>2. Mine(h, c) \cup {c} \subseteq Nodes \ {w, q}
    BY <2>1, MineFacts DEF Nodes
  <2>3. Mine(g, c) = Mine(h, c)
    BY <1>1, <1>6, <1>11 DEF Mine, LivePages
  <2>4. \A r \in Mine(h, c) : g.page[r].len = h.page[r].len
    BY <2>1, <1>6, MineFacts
  <2>5. \A n \in Mine(h, c) \cup {c} : g.nxt[n] = h.nxt[n]
    BY <2>2, <1>5
  <2> QED BY <2>3, <2>4, <2>5 DEF ListKept
<1> QED BY <1>10, <1>11 DEF OtherListsKept

\* Every page that is not freed is in the list of a buffer that exists.
Homed(h) ==
    \A p \in LivePages(h) : h.page[p].own \in Buffers /\ Exists(h, h.page[p].own)

\* The page p leaves its list.
LEMMA RemovedLists ==
    ASSUME NEW h, HeapOK(h), Homed(h), NEW p \in LivePages(h), Linked(h, p), NEW b \in Buffers,
           h.page[p].own = b, NEW g, g = UnlinkDestroy(h, p)
    PROVE  ListGrows(g, h, b, -h.page[p].len) /\ OtherListsKept(g, h, b) /\ Homed(g)
<1> DEFINE w == h.prv[p]
<1>1. /\ h \in Heap /\ p \in PageIds /\ p \in Nodes /\ p \notin Buffers /\ Owner(h, p) = b
      /\ p \in Mine(h, b)
  BY HeapAssumption DEF HeapOK, LivePages, Nodes, Owner, Mine
<1>2. /\ w \in Nodes /\ Linked(h, w) /\ Owner(h, w) = b /\ h.nxt[w] = p /\ h.nxt[p] # NULL
  BY <1>1, Neighbours DEF Linked
<1>3. w \in Mine(h, b) \cup {b}
  BY <1>2, InList
<1>4. /\ LivePages(g) = LivePages(h) \ {p} /\ SamePagesBut(g, h, p)
      /\ w # p => g.nxt[w] = h.nxt[p]
      /\ \A n \in Nodes \ {p, w} : g.nxt[n] = h.nxt[n]
  BY UnlinkDestroyed DEF Freed
<1> HIDE DEF w
<1>5. Mine(g, b) = Mine(h, b) \ {p} /\ \A q \in Mine(g, b) : g.page[q].len = h.page[q].len
  BY <1>4 DEF Mine, SamePagesBut, LivePages
<1>6. Exists(h, b)
  BY <1>1 DEF Homed
<1>7. ASSUME NEW t, Chain(h, b, t) PROVE Chain(g, b, t + (-h.page[p].len)) /\ w # p
  <2>1. w # p
    <3>1. PICK N, ps, acc : Enumerates(h, b, N, ps, acc)
      BY <1>7 DEF Chain
    <3>2. N \in Nat /\ ps[N + 1] = b
      BY <3>1 DEF Enumerates
    <3>3. PICK j \in 0..N : ps[j] = p
      BY <3>1, <1>1, AtIndex
    <3>4. ASSUME w = p PROVE FALSE
      <4>1. ps[j + 1] = p
        BY <3>1, <3>3, <3>4, <1>2, EnumNext
      <4>2. j + 1 \in 0..N
        <5>1. j # N
          BY <4>1, <3>2, <1>1
        <5> QED BY <5>1, <3>2
      <4>3. j = j + 1
        BY <4>1, <4>2, <3>1, <3>3, EnumOnce
      <4> QED BY <4>3, <3>2
    <3> QED BY <3>4
  <2>2. \A n \in (Mine(g, b) \cup {b}) \ {w} : g.nxt[n] = h.nxt[n]
    BY <1>1, <1>4, <1>5, MineFacts DEF Nodes
  <2>3. Chain(g, b, t - h.page[p].len)
    BY <2>1, <2>2, <1>1, <1>2, <1>3, <1>4, <1>5, <1>7, ChainRemove
  <2>4. t \in Int /\ h.page[p].len \in Int
    BY <1>1, <1>7, ChainTotal DEF Heap, PageRec
  <2>5. t - h.page[p].len = t + (-h.page[p].len)
    BY <2>4
  <2> QED BY <2>1, <2>3, <2>5
<1>8. Exists(g, b)
  <2>1. CASE b = w
    BY <2>1, <1>1, <1>2, <1>4 DEF Exists
  <2>2. CASE b # w
    BY <2>2, <1>1, <1>4, <1>6 DEF Exists, Nodes
  <2> QED BY <2>1, <2>2
<1>9. ASSUME NEW c \in Buffers \ {b}
      PROVE  ListKept(g, h, c)
  <2>1. w \notin Mine(h, c) \cup {c} /\ p \notin Mine(h, c) \cup {c}
    BY <1>1, <1>2, <1>3, <1>9, HeapAssumption DEF Mine, LivePages
  <2>2. Mine(h, c) \cup {c} \subseteq Nodes \ {w, p}
    BY <2>1, MineFacts DEF Nodes
  <2>3. Mine(g, c) = Mine(h, c)
    BY <2>1, <1>4 DEF Mine, SamePagesBut, LivePages
  <2>4. \A q \in Mine(h, c) : g.page[q].len = h.page[q].len
    BY <2>1, <1>4, MineFacts DEF SamePagesBut
  <2>5. \A n \in Mine(h, c) \cup {c} : g.nxt[n] = h.nxt[n]
    BY <2>2, <1>4
  <2> QED BY <2>3, <2>4, <2>5 DEF ListKept
<1>10. Homed(g)
  <2> SUFFICES ASSUME NEW q \in LivePages(g)
               PROVE  g.page[q].own \in Buffers /\ Exists(g, g.page[q].own)
    BY DEF Homed
  <2>1. q \in LivePages(h) /\ g.page[q] = h.page[q]
    BY <1>4 DEF LivePages, SamePagesBut
  <2> QED BY <2>1, <1>8, <1>9, KeptChain DEF Homed
<1> QED BY <1>6, <1>7, <1>8, <1>9, <1>10 DEF ListGrows, OtherListsKept

\* The page p shows n bytes less.
LEMMA CutLists ==
    ASSUME NEW h, HeapOK(h), Homed(h), NEW p \in LivePages(h), NEW b \in Buffers,
           h.page[p].own = b, NEW n \in Nat, NEW g, PageCut(g, h, p),
           g.page[p].len = h.page[p].len - n
    PROVE  ListGrows(g, h, b, -n) /\ OtherListsKept(g, h, b) /\ Homed(g)
<1>1. /\ SamePagesBut(g, h, p) /\ g.nxt = h.nxt /\ g.page[p].live = h.page[p].live
      /\ g.page[p].own = h.page[p].own
  BY DEF PageCut, OnlyPage, Narrower, SamePagesBut
<1>2. LivePages(g) = LivePages(h) /\ \A c : Mine(g, c) = Mine(h, c)
  BY <1>1 DEF LivePages, Mine, SamePagesBut
<1>3. p \in Mine(h, b) /\ \A q \in Mine(h, b) \ {p} : g.page[q].len = h.page[q].len
  BY <1>1, MineFacts DEF Mine, SamePagesBut
<1>4. ASSUME NEW t, Chain(h, b, t) PROVE Chain(g, b, t + (-n))
  <2>1. Chain(g, b, t - n)
    BY <1>1, <1>2, <1>3, <1>4, ChainCut
  <2>2. t - n = t + (-n)
    BY <1>4, ChainTotal
  <2> QED BY <2>1, <2>2
<1>5. ASSUME NEW c \in Buffers \ {b} PROVE ListKept(g, h, c)
  <2>1. p \notin Mine(h, c)
    BY <1>5 DEF Mine
  <2>2. \A q \in Mine(h, c) : g.page[q].len = h.page[q].len
    BY <2>1, <1>1, MineFacts DEF SamePagesBut
  <2> QED BY <2>2, <1>1, <1>2 DEF ListKept
<1>6. Homed(g)
  <2> SUFFICES ASSUME NEW q \in LivePages(g)
               PROVE  g.page[q].own \in Buffers /\ Exists(g, g.page[q].own)
    BY DEF Homed
  <2>1. q \in LivePages(h) /\ g.page[q].own = h.page[q].own
    BY <1>1, <1>2 DEF LivePages, SamePagesBut
  <2> QED BY <2>1, <1>1 DEF Homed, Exists
<1> QED BY <1>1, <1>4, <1>5, <1>6 DEF ListGrows, OtherListsKept, Exists

\* Every list is in g as it is in h.
ListsKept(g, h) == \A c \in Buffers : ListKept(g, h, c)

LEMMA ListsKeptIf ==
    ASSUME NEW h, NEW g, g.nxt = h.nxt, \A c \in Buffers : Mine(g, c) = Mine(h, c),
           \A c \in Buffers : \A q \in Mine(h, c) : g.page[q].len = h.page[q].len
    PROVE  ListsKept(g, h)
  BY DEF ListsKept, ListKept

LEMMA GrowsTwice ==
    ASSUME NEW h, NEW k, NEW g, NEW b \in Buffers, NEW m \in Int, NEW n \in Int,
           ListGrows(k, h, b, m), ListGrows(g, k, b, n),
           OtherListsKept(k, h, b), OtherListsKept(g, k, b)
    PROVE  ListGrows(g, h, b, m + n) /\ OtherListsKept(g, h, b)
<1>1. ASSUME NEW t, Chain(h, b, t) PROVE Chain(g, b, t + (m + n))
  <2>1. Chain(g, b, (t + m) + n) /\ t \in Int
    BY <1>1, ChainTotal DEF ListGrows
  <2>2. (t + m) + n = t + (m + n)
    BY <2>1
  <2> QED BY <2>1, <2>2
<1> QED BY <1>1, KeptTwice DEF ListGrows, OtherListsKept

LEMMA KeptGrows ==
    ASSUME NEW h, NEW k, ListsKept(k, h), NEW b \in Buffers
    PROVE  ListGrows(k, h, b, 0) /\ OtherListsKept(k, h, b)
<1>1. ASSUME NEW t, Chain(h, b, t) PROVE Chain(k, b, t + 0)
  <2>1. t + 0 = t
    BY <1>1, ChainTotal
  <2> QED BY <2>1, <1>1, KeptChain DEF ListsKept
<1> QED BY <1>1, KeptChain DEF ListsKept, ListGrows, OtherListsKept

\* An insertion: the list of b grows by n bytes.
LEMMA PlacedLists ==
    ASSUME CountSuffices, NEW h, HeapOK(h), Homed(h), NEW p \in FreePages(h), NEW n, NEW k,
           Loose(k, h, p, n), NEW x \in Nodes, Linked(h, x), NEW b \in Buffers,
           Owner(h, x) = b, NEW off, NEW q, NEW g, Placed(g, k, p, x, off, q)
    PROVE  ListGrows(g, h, b, n) /\ OtherListsKept(g, h, b) /\ Homed(g)
<1> DEFINE s == SplitAt(k, x, off, q)
<1>1. /\ HeapOK(k) /\ p \in LivePages(k) /\ ~Linked(k, p) /\ k.page[p].len = n
      /\ k.page[p].own = NULL /\ Linked(k, x) /\ Owner(k, x) = b /\ x # p
      /\ LivePages(k) = LivePages(h) \cup {p} /\ SamePagesBut(k, h, p) /\ k.nxt = h.nxt
      /\ p \notin LivePages(h)
  BY LooseFacts
<1>2. /\ HeapOK(s) /\ p \in LivePages(s) /\ ~Linked(s, p) /\ Linked(s, x)
      /\ s.page[p] = k.page[p] /\ Owner(s, x) = b
      /\ off # 0 => /\ x \in LivePages(k) /\ q # p /\ q # x
                    /\ Split(s, k, x, q) /\ SplitInto(s, k, x, off, q)
      /\ off = 0 => s = k
  BY <1>1, SplitAtOK DEF Placed
<1>3. LinkedIn(g, s, p, x)
  <2>1. g = LinkBefore(s, p, x)
    BY DEF Placed
  <2> HIDE DEF s
  <2> QED BY <2>1, <1>2, LinkIsIn
<1> HIDE DEF s
<1>4. n \in Int /\ b # NULL
  BY <1>1, HeapAssumption DEF HeapOK, Heap, LivePages, PageRec
<1>5. ListsKept(k, h)
  <2>1. ASSUME NEW c \in Buffers
        PROVE  Mine(k, c) = Mine(h, c) /\ \A r \in Mine(h, c) : k.page[r].len = h.page[r].len
    <3>1. c # NULL
      BY HeapAssumption
    <3> QED BY <3>1, <1>1 DEF Mine, LivePages, SamePagesBut
  <2> QED BY <2>1, <1>1, ListsKeptIf
<1>6. ListGrows(k, h, b, 0) /\ OtherListsKept(k, h, b)
  BY <1>5, KeptGrows
<1>7. ListGrows(s, k, b, 0) /\ OtherListsKept(s, k, b)
  <2>1. CASE off = 0
    <3>1. ListsKept(s, k)
      BY <2>1, <1>2 DEF ListsKept, ListKept
    <3> QED BY <3>1, KeptGrows
  <2>2. CASE off # 0
    <3>1. q \in FreePages(k) /\ off \in Nat
      BY <2>2 DEF Placed
    <3>2. k.page[x].own = b
      BY <2>2, <1>1, <1>2 DEF Owner, LivePages
    <3> QED BY <2>2, <3>1, <3>2, <1>1, <1>2, SplitChains
  <2> QED BY <2>1, <2>2
<1>8. ListGrows(g, s, b, n) /\ OtherListsKept(g, s, b)
  BY <1>1, <1>2, <1>3, LinkedChains
<1>9. ListGrows(s, h, b, 0) /\ OtherListsKept(s, h, b)
  <2>1. ListGrows(s, h, b, 0 + 0) /\ OtherListsKept(s, h, b)
    BY <1>6, <1>7, GrowsTwice
  <2> QED BY <2>1
<1>10. ListGrows(g, h, b, n) /\ OtherListsKept(g, h, b)
  <2>1. ListGrows(g, h, b, 0 + n) /\ OtherListsKept(g, h, b)
    BY <1>4, <1>8, <1>9, GrowsTwice
  <2>2. 0 + n = n
    BY <1>4
  <2> QED BY <2>1, <2>2
<1>11. Exists(h, b)
  <2>1. x \in Mine(h, b) \cup {b}
    BY InList
  <2>2. CASE x = b
    BY <2>2 DEF Exists, Linked
  <2>3. CASE x \in Mine(h, b)
    BY <2>3 DEF Homed, Mine
  <2> QED BY <2>1, <2>2, <2>3
<1>12. \A c \in Buffers : Exists(h, c) => Exists(g, c)
  BY <1>10, KeptChain DEF ListGrows, OtherListsKept
<1>13. Homed(g)
  <2> SUFFICES ASSUME NEW r \in LivePages(g)
               PROVE  g.page[r].own \in Buffers /\ Exists(g, g.page[r].own)
    BY DEF Homed
  <2>1. r \in PageIds /\ g.page[p].own = b /\ (r # p => s.page[r] = g.page[r])
    BY <1>2, <1>3 DEF LivePages, LinkedIn, PageIs, SamePagesBut
  <2>2. CASE r = p
    BY <2>1, <2>2, <1>11, <1>12
  <2>3. CASE r # p /\ off = 0
    <3>1. r \in LivePages(h) /\ g.page[r] = h.page[r]
      BY <2>1, <2>3, <1>1, <1>2 DEF LivePages, SamePagesBut
    <3> QED BY <3>1, <1>12 DEF Homed
  <2>4. CASE r # p /\ off # 0
    <3>1. x \in LivePages(h) /\ k.page[x] = h.page[x] /\ h.page[x].own = b
      BY <2>4, <1>1, <1>2 DEF Owner, LivePages, SamePagesBut
    <3>2. CASE r = q \/ r = x
      BY <2>1, <2>4, <3>1, <3>2, <1>2, <1>11, <1>12 DEF SplitInto, PageIs
    <3>3. CASE r # q /\ r # x
      <4>1. r \in LivePages(h) /\ g.page[r] = h.page[r]
        BY <2>1, <2>4, <3>3, <1>1, <1>2 DEF LivePages, SamePagesBut, SplitInto
      <4> QED BY <4>1, <1>12 DEF Homed
    <3> QED BY <3>2, <3>3
  <2> QED BY <2>2, <2>3, <2>4
<1> QED BY <1>10, <1>13

-----------------------------------------------------------------------------
(* The invariant: every list is well formed and as long as size says.      *)

\* clear and destroy set the size to 0 before they free the first page.
Emptying(c, b) == c.fn \in {"clear", "destroy"} /\ c.buf = b

Plain(c) == c.fn \notin {"clear", "destroy"}

SizesMatch(h, s, c) ==
    \A b \in Buffers :
        /\ Exists(h, b) => \E t : Chain(h, b, t) /\ (Emptying(c, b) \/ t = s[b])
        /\ Emptying(c, b) => s[b] = 0

ListInv ==
    /\ Homed(heap)
    /\ SizesMatch(heap, size, call)
    /\ call.pc = "idle" => Plain(call)

\* The list of b changed by n bytes and so did its size.
LEMMA GrowsWithSize ==
    ASSUME IInv, ListInv, NEW b \in Buffers, NEW n \in Int, ListGrows(heap', heap, b, n),
           OtherListsKept(heap', heap, b), Homed(heap)', Plain(call), Plain(call)',
           size' = [size EXCEPT ![b] = @ + n]
    PROVE  ListInv'
<1>1. size'[b] = size[b] + n /\ \A c \in Buffers \ {b} : size'[c] = size[c]
  BY DEF IInv
<1>2. ASSUME NEW c \in Buffers, Exists(heap, c)'
      PROVE  \E t : Chain(heap', c, t) /\ t = size'[c]
  <2>1. Exists(heap, c)
    BY <1>2, KeptChain DEF ListGrows, OtherListsKept, Exists
  <2>2. Chain(heap, c, size[c])
    BY <2>1 DEF ListInv, SizesMatch, Plain, Emptying
  <2>3. Chain(heap', c, size'[c])
    BY <2>2, <1>1, KeptChain DEF ListGrows, OtherListsKept
  <2> QED BY <2>3
<1> QED BY <1>2 DEF ListInv, SizesMatch, Plain, Emptying

\* No list and no size changed.
LEMMA StaysWithSize ==
    ASSUME ListInv, ListsKept(heap', heap), Homed(heap)', size' = size,
           Plain(call), Plain(call)'
    PROVE  ListInv'
<1>1. ASSUME NEW c \in Buffers, Exists(heap, c)'
      PROVE  \E t : Chain(heap', c, t) /\ t = size'[c]
  <2>1. Exists(heap, c)
    BY <1>1, KeptChain DEF ListsKept, Exists
  <2>2. Chain(heap, c, size[c])
    BY <2>1 DEF ListInv, SizesMatch, Plain, Emptying
  <2> QED BY <2>2, KeptChain DEF ListsKept
<1> QED BY <1>1 DEF ListInv, SizesMatch, Plain, Emptying

\* Nothing but the locals of the call changed.
LEMMA OnlyCall ==
    ASSUME ListInv, UNCHANGED << heap, size >>, Plain(call), Plain(call)'
    PROVE  ListInv'
<1>1. ListsKept(heap', heap) /\ Homed(heap)'
  BY DEF ListsKept, ListKept, ListInv, Homed
<1> QED BY <1>1, StaysWithSize

LEMMA InsertingIsPlain ==
    ASSUME NEW c, c.fn \in Inserting
    PROVE  Plain(c)
  BY DEF Inserting, Plain

LEMMA ReturnedFn ==
    ASSUME NEW c \in CallType
    PROVE  [c EXCEPT !.pc = "ret"].fn = c.fn
  BY DEF CallType

LEMMA ProgressFn ==
    ASSUME NEW c \in CallType, NEW n
    PROVE  Progress(c, n).fn = c.fn
  BY DEF CallType, Progress

LEMMA AfterInsertFn ==
    ASSUME NEW c \in CallType, NEW h, NEW n
    PROVE  AfterInsert(c, h, n).fn = c.fn
  BY DEF CallType, Progress, AfterInsert, NextSource

LEMMA InsertKeepsLists ==
    ASSUME CountSuffices, IInv, ListInv, NEW h, NEW p, NEW n, NEW x, Inserts(h, p, n, x)
    PROVE  ListInv'
<1> DEFINE b == call.buf
<1>1. /\ HeapOK(heap) /\ call \in CallType /\ b \in Buffers
      /\ p \in FreePages(heap) /\ Loose(h, heap, p, n) /\ Fresh(h, heap, p, n)
      /\ x \in Nodes /\ Linked(heap, x) /\ Owner(heap, x) = b /\ n \in Nat
  BY DEF IInv, CallOK, Inserts, Inside, Loose
<1>2. Plain(call) /\ Homed(heap)
  BY InsertingIsPlain DEF Inserts, ListInv
<1>3. CASE /\ heap' = PageDestroy(h, p) /\ call' = [call EXCEPT !.pc = "ret"]
           /\ UNCHANGED << size, fault >>
  <2>1. HeapOK(h) /\ p \in LivePages(h) /\ ~Linked(h, p) /\ ~heap.page[p].live
    BY <1>1 DEF Fresh, FreePages
  <2>2. Freed(heap', h, p) /\ heap'.nxt = h.nxt
    BY <2>1, <1>3, LooseDestroyed
  <2>3. /\ heap'.nxt = heap.nxt /\ LivePages(heap') = LivePages(heap)
        /\ \A r \in LivePages(heap) : heap'.page[r] = heap.page[r]
    BY <2>1, <2>2, <1>1 DEF Freed, Fresh, LivePages, SamePagesBut
  <2>4. ListsKept(heap', heap)
    <3>1. /\ \A c \in Buffers : Mine(heap', c) = Mine(heap, c)
          /\ \A c \in Buffers : \A r \in Mine(heap, c) : heap'.page[r].len = heap.page[r].len
      BY <2>3 DEF Mine
    <3> QED BY <3>1, <2>3, ListsKeptIf
  <2>5. Homed(heap)'
    BY <2>3, <1>2 DEF Homed, Exists
  <2>6. Plain(call)'
    BY <1>1, <1>2, <1>3, ReturnedFn DEF Plain
  <2> QED BY <2>4, <2>5, <2>6, <1>2, <1>3, StaysWithSize
<1>4. ASSUME NEW q, Placed(heap', h, p, x, Lower(call.off, NodeLen(h, x)), q),
             size' = [size EXCEPT ![call.buf] = @ + n],
             call' = IF n = 0 THEN [call EXCEPT !.pc = "ret"] ELSE AfterInsert(call, heap', n)
      PROVE  ListInv'
  <2> DEFINE off == Lower(call.off, NodeLen(h, x))
  <2>1. Placed(heap', h, p, x, off, q)
    BY <1>4
  <2> HIDE DEF off
  <2>2. ListGrows(heap', heap, b, n) /\ OtherListsKept(heap', heap, b) /\ Homed(heap)'
    BY <2>1, <1>1, <1>2, PlacedLists DEF Homed
  <2>3. Plain(call)'
    BY <1>1, <1>2, <1>4, ReturnedFn, AfterInsertFn DEF Plain
  <2>4. n \in Int /\ size' = [size EXCEPT ![b] = @ + n] /\ b \in Buffers
    BY <1>1, <1>4
  <2> HIDE DEF b
  <2> QED BY <2>2, <2>3, <2>4, <1>2, GrowsWithSize
<1> QED BY <1>3, <1>4, InsertedPage

LEMMA CutFn ==
    ASSUME NEW c \in CallType, NEW it, NEW n
    PROVE  /\ [c EXCEPT !.pc = "ret"].fn = c.fn /\ Progress(c, n).fn = c.fn
           /\ [[c EXCEPT !.it = it] EXCEPT !.pc = "ret"].fn = c.fn
           /\ Progress([c EXCEPT !.it = it], n).fn = c.fn
  BY DEF CallType, Progress

LEMMA CutKeepsLists ==
    ASSUME IInv, ListInv, NEW g, NEW n, Cuts(g, n)
    PROVE  ListInv'
<1> DEFINE p == call.it
           b == call.buf
           nx == IF call.fn = "seek" THEN heap.nxt[p] ELSE heap.prv[p]
           e == IF NodeLen(g, p) = 0 THEN [call EXCEPT !.it = nx] ELSE call
<1>1. /\ p \in LivePages(heap) /\ p \in PageIds /\ heap.page[p].own = b
      /\ PageCut(g, heap, p) /\ g.page[p].len = heap.page[p].len - n
      /\ n = Lower(heap.page[p].len, call.len) /\ call.len \in Nat
      /\ heap' = IF NodeLen(g, p) = 0 THEN UnlinkDestroy(g, p) ELSE g
      /\ call' = IF n = 0 THEN [e EXCEPT !.pc = "ret"] ELSE Progress(e, n)
      /\ size' = [size EXCEPT ![b] = @ - n]
      /\ call.fn \in {"seek", "trim"} /\ call.pc = "loop"
  BY DEF Cuts, LivePages
<1>2. /\ HeapOK(heap) /\ heap \in Heap /\ AllLinked(heap) /\ call \in CallType /\ b \in Buffers
      /\ size \in [Buffers -> Int] /\ Homed(heap)
  BY <1>1 DEF IInv, HeapOK, CallOK, ListInv
<1>3. n \in Nat
  BY <1>1, <1>2, LowerType DEF Heap, PageRec
<1>4. Plain(call) /\ Plain(call)'
  <2>1. call'.fn = call.fn
    <3> HIDE DEF nx, p
    <3> QED BY <1>1, <1>2, CutFn
  <2> QED BY <2>1, <1>1 DEF Plain
<1>5. ListGrows(g, heap, b, -n) /\ OtherListsKept(g, heap, b) /\ Homed(g)
  <2> HIDE DEF p, b
  <2> QED BY <1>1, <1>2, <1>3, CutLists
<1>6. /\ HeapOK(g) /\ LivePages(g) = LivePages(heap) /\ g.nxt = heap.nxt
      /\ g.page[p].own = b
  BY <1>1, <1>2, NarrowedPage DEF PageCut, OnlyPage
<1> DEFINE m == -n
<1>7. m \in Int /\ size' = [size EXCEPT ![b] = @ + m]
  <2>1. m \in Int /\ size[b] - n = size[b] + m
    BY <1>2, <1>3
  <2> HIDE DEF m
  <2> QED BY <2>1, <1>1
<1>8. ListGrows(heap', heap, b, m) /\ OtherListsKept(heap', heap, b) /\ Homed(heap)'
  <2>1. CASE NodeLen(g, p) = 0
    <3>1. g.page[p].len = 0 /\ Linked(g, p) /\ heap' = UnlinkDestroy(g, p) /\ p \in LivePages(g)
      BY <2>1, <1>1, <1>2, <1>6 DEF NodeLen, AllLinked, Linked
    <3> DEFINE k == g.page[p].len
               l == -k
    <3>2. k \in Int /\ k = 0
      BY <3>1
    <3> HIDE DEF p, b, m, k
    <3>3. l \in Int /\ m + l = m
      BY <3>2, <1>7
    <3>4. ListGrows(heap', g, b, l) /\ OtherListsKept(heap', g, b) /\ Homed(heap')
      BY <3>1, <1>2, <1>5, <1>6, RemovedLists DEF k
    <3> HIDE DEF l
    <3>5. ListGrows(heap', heap, b, m + l) /\ OtherListsKept(heap', heap, b)
      BY <3>3, <3>4, <1>2, <1>5, <1>7, GrowsTwice DEF m
    <3> QED BY <3>3, <3>4, <3>5 DEF Homed
  <2>2. CASE NodeLen(g, p) # 0
    BY <2>2, <1>1, <1>5 DEF Homed
  <2> QED BY <2>1, <2>2
<1> HIDE DEF b, m
<1> QED BY <1>2, <1>4, <1>7, <1>8, GrowsWithSize

LEMMA ClearKeepsLists ==
    ASSUME IInv, ListInv, ClearStep
    PROVE  ListInv'
<1> DEFINE p == call.it
           b == call.buf
<1>1. PICK fn \in {"clear", "destroy"} : In(fn)
  BY DEF ClearStep
<1>2. /\ HeapOK(heap) /\ AllLinked(heap) /\ b \in Buffers /\ call.fn = fn /\ call \in CallType
      /\ Inside(heap, p, b) /\ p # b /\ Homed(heap) /\ call.pc = "loop"
  BY <1>1, InLoop DEF In, LoopGoesOn, ListInv
<1>3. p \in LivePages(heap) /\ heap.page[p].own = b /\ Linked(heap, p)
  BY <1>2, InsideIsPage DEF Inside
<1>4. heap' = UnlinkDestroy(heap, p) /\ size' = size
  BY DEF ClearStep
<1>5. call'.fn = call.fn /\ call'.buf = b /\ call'.pc = "loop"
  BY <1>2 DEF ClearStep, CallType
<1> HIDE DEF b, p
<1>6. ListGrows(heap', heap, b, -heap.page[p].len) /\ OtherListsKept(heap', heap, b) /\ Homed(heap')
  BY <1>2, <1>3, <1>4, RemovedLists
<1>7. \A c \in Buffers : (Emptying(call, c) <=> c = b) /\ (Emptying(call', c) <=> c = b)
  BY <1>2, <1>5 DEF Emptying, b
<1>8. ASSUME NEW c \in Buffers, Exists(heap', c)
      PROVE  \E t : Chain(heap', c, t) /\ (Emptying(call', c) \/ t = size'[c])
  <2>1. Exists(heap, c)
    BY <1>6, <1>8, KeptChain DEF ListGrows, OtherListsKept
  <2>2. PICK t : Chain(heap, c, t) /\ (Emptying(call, c) \/ t = size[c])
    BY <2>1 DEF ListInv, SizesMatch
  <2>3. CASE c = b
    BY <2>2, <2>3, <1>6, <1>7 DEF ListGrows
  <2>4. CASE c # b
    BY <2>2, <2>4, <1>4, <1>6, <1>7, KeptChain DEF OtherListsKept
  <2> QED BY <2>3, <2>4
<1>9. \A c \in Buffers : Emptying(call', c) => size'[c] = 0
  BY <1>4, <1>7 DEF ListInv, SizesMatch
<1>10. SizesMatch(heap', size', call')
  BY <1>8, <1>9 DEF SizesMatch
<1> QED BY <1>5, <1>6, <1>10 DEF ListInv, Homed, SizesMatch, Emptying

\* Overwriting changes what the pages show, not how much.
LEMMA PatchKeepsLists ==
    ASSUME ListInv, Patched(heap', heap), size' = size, Plain(call), Plain(call)'
    PROVE  ListInv'
<1>1. /\ \A c \in Buffers : Mine(heap', c) = Mine(heap, c)
      /\ \A c \in Buffers : \A r \in Mine(heap, c) : heap'.page[r].len = heap.page[r].len
  BY DEF Mine, LivePages, Patched
<1>2. ListsKept(heap', heap)
  BY <1>1, ListsKeptIf DEF Patched
<1>3. Homed(heap)'
  BY DEF ListInv, Homed, Patched, LivePages, Exists
<1> QED BY <1>2, <1>3, StaysWithSize

LEMMA OverwriteDataPatches ==
    ASSUME IInv, OverwriteDataStep
    PROVE  /\ size' = size /\ Plain(call) /\ Plain(call)'
           /\ UNCHANGED heap \/ Patched(heap', heap)
<1> DEFINE p == call.it
           h == Writable(p)
           n == Lower(NodeLen(h, p), call.len)
           s == FromCaller(n)
<1>1. In("overwrite_data")
  BY DEF OverwriteDataStep
<1>2. /\ call.fn = "overwrite_data" /\ call.pc = "loop" /\ HeapOK(heap)
      /\ call.buf \in Buffers /\ call \in CallType
      /\ Inside(heap, p, call.buf) /\ call.len \in Nat /\ p # call.buf
  BY <1>1, InLoop DEF In, LoopGoesOn
<1>3. p \in LivePages(heap)
  BY <1>2, InsideIsPage
<1>4. CASE LeaveLoop
  BY <1>2, <1>4, ReturnedFn DEF LeaveLoop, Plain
<1>5. CASE /\ CanWrite(p) /\ heap' = PageWrite(h, p, 0, s) /\ size' = size
           /\ call' = IF n = 0 THEN [call EXCEPT !.pc = "ret"]
                      ELSE [Progress(call, n) EXCEPT !.it = h.nxt[p]]
  <2>1. HeapOK(h) /\ Duplicated(h, heap, p)
    BY <1>3, <1>5, WritableOK DEF Duplicated
  <2>2. n \in Nat /\ n <= call.len
    <3> HIDE DEF h
    <3> QED BY <2>1, <1>2, LowerType, NodeLenType
  <2>3. s \in Seq(Byte)
    <3> HIDE DEF n
    <3> QED BY <2>2, <1>2, FromCallerType
  <2> HIDE DEF h, n
  <2>4. call'.fn = call.fn
    BY <1>2, <1>5 DEF CallType, Progress
  <2> HIDE DEF s, p
  <2>5. Patched(heap', heap)
    BY <2>1, <2>3, <1>3, <1>5, WrittenOK
  <2> QED BY <2>4, <2>5, <1>2, <1>5 DEF Plain
<1> QED BY <1>4, <1>5 DEF OverwriteDataStep

LEMMA AfterOverwriteFn ==
    ASSUME NEW c \in CallType, NEW h, NEW n
    PROVE  AfterOverwrite(c, h, n).fn = c.fn
  BY DEF CallType, Progress, AfterOverwrite

LEMMA OverwriteBufferPatches ==
    ASSUME IInv, OverwriteBufferStep
    PROVE  /\ size' = size /\ Plain(call) /\ Plain(call)'
           /\ UNCHANGED heap \/ Patched(heap', heap)
<1> DEFINE p == call.it
           src == call.sit
           h == Writable(p)
           n == Lower(Lower(NodeLen(h, p), call.len), NodeLen(h, src))
           s == PageBytes(h, src, call.soff, n)
           off == call.off
<1>1. In("overwrite_buffer")
  BY DEF OverwriteBufferStep
<1>2. /\ call.fn = "overwrite_buffer" /\ HeapOK(heap) /\ call.buf \in Buffers /\ call \in CallType
      /\ Inside(heap, p, call.buf) /\ call.len \in Nat /\ p # call.buf
      /\ off \in Nat /\ call.soff \in Nat /\ src # call.src
  BY <1>1, InLoop DEF In, LoopGoesOn
<1>3. p \in LivePages(heap)
  BY <1>2, InsideIsPage
<1>4. CASE LeaveLoop
  BY <1>2, <1>4, ReturnedFn DEF LeaveLoop, Plain
<1>5. CASE Fault("oob")
  BY <1>2, <1>5 DEF Fault, Plain
<1>6. CASE /\ CanWrite(p) /\ InBounds(h, src, call.soff, n)
           /\ heap' = PageWrite(h, p, off, s) /\ size' = size
           /\ call' = IF n = 0 THEN [call EXCEPT !.pc = "ret"] ELSE AfterOverwrite(call, h, n)
  <2>1. HeapOK(h) /\ Duplicated(h, heap, p)
    BY <1>3, <1>6, WritableOK DEF Duplicated
  <2>2. src \in LivePages(heap) /\ src \in PageIds
    BY <1>1, <1>2, AtSourcePage DEF In
  <2>3. h.page[src].data \in DataIds /\ h \in Heap
    <3>1. h.page[src].live
      BY <2>1, <2>2, <1>3 DEF Duplicated, SamePagesBut, LivePages
    <3> QED BY <2>1, <2>2, <3>1 DEF HeapOK, Shown, LivePages
  <2> HIDE DEF h
  <2>4. n \in Nat
    <3> DEFINE l == Lower(NodeLen(h, p), call.len)
    <3>1. l \in Nat /\ NodeLen(h, src) \in Nat
      BY <2>1, <1>2, LowerType, NodeLenType
    <3> HIDE DEF l
    <3>2. Lower(l, NodeLen(h, src)) \in Nat
      BY <3>1, LowerType
    <3> QED BY <3>2 DEF l
  <2>5. s \in Seq(Byte)
    <3> HIDE DEF n
    <3> QED BY <2>2, <2>3, <2>4, <1>2, <1>6, PageBytesType
  <2> HIDE DEF s, n
  <2>6. call'.fn = call.fn
    BY <1>2, <1>6, ReturnedFn, AfterOverwriteFn
  <2> HIDE DEF p, off
  <2>7. Patched(heap', heap)
    BY <2>1, <2>5, <1>2, <1>3, <1>6, WrittenOK
  <2> QED BY <2>6, <2>7, <1>2, <1>6 DEF Plain
<1> QED BY <1>4, <1>5, <1>6 DEF OverwriteBufferStep

LEMMA CreateKeepsLists ==
    ASSUME IInv, ListInv, NEW b \in Buffers, Create(b)
    PROVE  ListInv'
<1>1. /\ HeapOK(heap) /\ ~Linked(heap, b) /\ heap' = BufferCreate(heap, b) /\ heap \in Heap
      /\ size' = [size EXCEPT ![b] = 0] /\ call' = call /\ size \in [Buffers -> Int]
      /\ call.pc = "idle"
  BY DEF IInv, Create, Linked, Exists, HeapOK, Idle
<1>2. Reanchored(heap', heap, b)
  BY <1>1, BufferCreateOK
<1>3. heap'.nxt[b] = b /\ b # NULL
  BY <1>1, HeapAssumption DEF BufferCreate, Heap, Nodes
<1>4. Plain(call) /\ Homed(heap)
  BY <1>1 DEF ListInv
<1>5. \A c : Mine(heap', c) = Mine(heap, c)
  BY <1>2 DEF Reanchored, Mine, LivePages
<1>6. Mine(heap', b) = {}
  <2>1. ASSUME NEW q \in Mine(heap, b) PROVE FALSE
    <3>1. q \in LivePages(heap) /\ heap.page[q].own = b
      BY DEF Mine
    <3> QED BY <3>1, <1>1, <1>4 DEF Homed, Exists, Linked
  <2> QED BY <2>1, <1>5
<1>7. Chain(heap', b, 0)
  BY <1>3, <1>6, ChainEmpty
<1>8. ASSUME NEW c \in Buffers, Exists(heap', c), c # b
      PROVE  Chain(heap', c, size'[c])
  <2>1. b \notin Mine(heap, c) \cup {c} /\ Mine(heap, c) \cup {c} \subseteq Nodes
    BY <1>8, MineFacts, HeapAssumption DEF Nodes
  <2>2. \A m \in Mine(heap, c) \cup {c} : heap'.nxt[m] = heap.nxt[m]
    BY <2>1, <1>2 DEF Reanchored
  <2>3. Exists(heap, c)
    BY <2>2, <1>8 DEF Exists
  <2>4. Chain(heap, c, size[c])
    BY <2>3, <1>4 DEF ListInv, SizesMatch, Plain, Emptying
  <2>5. Chain(heap', c, size[c])
    BY <2>2, <2>4, <1>2, <1>5, ChainSame DEF Reanchored
  <2> QED BY <2>5, <1>1, <1>8
<1>9. Homed(heap')
  <2> SUFFICES ASSUME NEW q \in LivePages(heap')
               PROVE  heap'.page[q].own \in Buffers /\ Exists(heap', heap'.page[q].own)
    BY DEF Homed
  <2>1. q \in LivePages(heap) /\ heap'.page[q] = heap.page[q]
    BY <1>2 DEF Reanchored, LivePages
  <2>2. heap.page[q].own \in Buffers /\ Exists(heap, heap.page[q].own) /\ heap.page[q].own # b
    BY <2>1, <1>1, <1>4 DEF Homed, Exists, Linked
  <2> QED BY <2>1, <2>2, <1>2 DEF Reanchored, Exists, Nodes
<1>10. SizesMatch(heap', size', call')
  <2>1. size'[b] = 0
    BY <1>1
  <2> QED BY <2>1, <1>1, <1>4, <1>7, <1>8 DEF SizesMatch, Plain, Emptying
<1> QED BY <1>1, <1>4, <1>9, <1>10 DEF ListInv, Homed, SizesMatch, Emptying

LEMMA ClearStartsLists ==
    ASSUME IInv, ListInv, NEW b \in Buffers, NEW fn \in {"clear", "destroy"}, Clear(b, fn)
    PROVE  ListInv'
<1>1. /\ heap' = heap /\ size' = [size EXCEPT ![b] = 0] /\ size \in [Buffers -> Int]
      /\ Plain(call) /\ Homed(heap)
  BY DEF IInv, ListInv, Clear, Ready
<1>2. call'.fn = fn /\ call'.buf = b /\ call'.pc = "loop"
  BY DEF Clear, Enter, Idle
<1>3. \A c \in Buffers : Emptying(call', c) <=> c = b
  BY <1>2 DEF Emptying
<1>4. ASSUME NEW c \in Buffers, Exists(heap, c) PROVE Chain(heap, c, size[c])
  BY <1>1, <1>4 DEF ListInv, SizesMatch, Plain, Emptying
<1>5. SizesMatch(heap', size', call')
  BY <1>1, <1>3, <1>4 DEF SizesMatch
<1> QED BY <1>1, <1>2, <1>5 DEF ListInv, Homed, SizesMatch, Emptying

LEMMA ClientKeepsLists ==
    ASSUME IInv, ListInv, Client
    PROVE  ListInv'
<1>1. CASE \E b \in Buffers : Create(b)
  BY <1>1, CreateKeepsLists
<1>2. CASE \E b \in Buffers, fn \in {"clear", "destroy"} : Clear(b, fn)
  BY <1>2, ClearStartsLists
<1>3. CASE /\ \A b \in Buffers : ~Create(b)
           /\ \A b \in Buffers, fn \in {"clear", "destroy"} : ~Clear(b, fn)
  <2> DEFINE Begun == UNCHANGED << heap, size >> /\ Plain(call)' /\ call.pc = "idle"
  <2>1. ASSUME NEW b, NEW n, NEW fn \in Loops \ {"clear", "destroy"}, NEW c, c = Enter(fn, b, n)
        PROVE  /\ \A it : Plain([c EXCEPT !.it = it])
               /\ \A it, dat : Plain([c EXCEPT !.it = it, !.dat = dat])
               /\ \A it, off, dat : Plain([c EXCEPT !.it = it, !.off = off, !.dat = dat])
               /\ \A it, src, sit : Plain([c EXCEPT !.it = it, !.src = src, !.sit = sit])
               /\ \A it, off, src, sit :
                     Plain([c EXCEPT !.it = it, !.off = off, !.src = src, !.sit = sit])
    BY <2>1 DEF Enter, Idle, Plain
  <2>0. {"extend", "rewind", "seek", "trim", "insert_data", "insert_data_ref", "insert_buffer",
         "overwrite_data", "overwrite_buffer", "read_data"} \subseteq Loops \ {"clear", "destroy"}
    BY DEF Loops
  <2>10. ASSUME NEW b, NEW n, Extend(b, n) \/ Reserve(b, n) \/ Rewind(b, n) PROVE Begun
    <3>1. CASE Extend(b, n)
      BY <2>0, <2>1, <3>1 DEF Start, Ready, Extend
    <3>2. CASE Reserve(b, n)
      BY <2>0, <2>1, <3>2 DEF Start, Ready, Reserve
    <3>3. CASE Rewind(b, n)
      BY <2>0, <2>1, <3>3 DEF Start, Ready, Rewind
    <3> QED BY <2>10, <3>1, <3>2, <3>3
  <2>11. ASSUME NEW b, NEW n, Seek(b, n) \/ Trim(b, n) \/ ReadData(b, n) PROVE Begun
    <3>1. CASE Seek(b, n)
      BY <2>0, <2>1, <3>1 DEF Start, Ready, Seek
    <3>2. CASE Trim(b, n)
      BY <2>0, <2>1, <3>2 DEF Start, Ready, Trim
    <3>3. CASE ReadData(b, n)
      BY <2>0, <2>1, <3>3 DEF Start, Ready, ReadData
    <3> QED BY <2>11, <3>1, <3>2, <3>3
  <2>12. ASSUME NEW b, NEW src, NEW n, WriteBuffer(b, src, n) PROVE Begun
    BY <2>0, <2>1, <2>12 DEF Start, Ready, WriteBuffer
  <2>13. ASSUME NEW b, NEW src, NEW n, OverwriteBuffer(b, src, n) PROVE Begun
    BY <2>0, <2>1, <2>13 DEF Start, Ready, OverwriteBuffer
  <2>14. ASSUME NEW b, NEW x, NEW off, NEW src, NEW n, InsertBuffer(b, x, off, src, n) PROVE Begun
    BY <2>0, <2>1, <2>14 DEF Start, Ready, InsertBuffer
  <2>15. ASSUME NEW b, NEW s, OverwriteData(b, s) PROVE Begun
    BY <2>0, <2>1, <2>15 DEF Start, Ready, OverwriteData
  <2>16. ASSUME NEW b, NEW fn, NEW s, WriteData(b, fn, s) PROVE Begun
    <3> DEFINE f == IF fn = "write_data" THEN "insert_data" ELSE "insert_data_ref"
    <3>1. f \in Loops \ {"clear", "destroy"}
      BY <2>0
    <3>2. /\ Start([Enter(f, b, Len(s)) EXCEPT !.it = b, !.dat = s]) /\ call.pc = "idle"
      BY <2>16 DEF WriteData, Ready
    <3> HIDE DEF f
    <3> QED BY <3>1, <3>2, <2>1 DEF Start
  <2>2. ASSUME NEW b, NEW x, NEW off, NEW fn \in {"insert_data", "insert_data_ref"}, NEW s,
               InsertData(b, x, off, fn, s)
        PROVE  Begun
    BY <2>0, <2>1, <2>2 DEF Start, Ready, InsertData
  <2>3. Begun
    <3> HIDE DEF Begun
    <3>1. PICK b \in Buffers :
             \/ \E n \in 1..MaxLen :
                   \/ Extend(b, n) \/ Reserve(b, n) \/ Rewind(b, n)
                   \/ Seek(b, n) \/ Trim(b, n) \/ ReadData(b, n)
                   \/ \E src \in Buffers :
                         \/ WriteBuffer(b, src, n)
                         \/ OverwriteBuffer(b, src, n)
                         \/ \E x \in PageIds \cup {b}, off \in 0..MaxSize :
                               InsertBuffer(b, x, off, src, n)
             \/ \E s \in Inputs :
                   \/ OverwriteData(b, s)
                   \/ \E fn \in {"write_data", "write_data_ref"} : WriteData(b, fn, s)
                   \/ \E x \in PageIds \cup {b}, off \in 0..MaxSize,
                         fn \in {"insert_data", "insert_data_ref"} :
                         InsertData(b, x, off, fn, s)
      BY <1>3 DEF Client
    <3> QED BY <3>1, <2>2, <2>10, <2>11, <2>12, <2>13, <2>14, <2>15, <2>16
  <2> QED BY <2>3, OnlyCall DEF ListInv
<1> QED BY <1>1, <1>2, <1>3

LEMMA ReturnKeepsLists ==
    ASSUME IInv, ListInv, Return
    PROVE  ListInv'
<1> DEFINE b == call.buf
<1>1. /\ call.pc \in {"loop", "ret"} /\ call' = Idle /\ size' = size
      /\ heap' = IF call.fn = "destroy" THEN BufferFree(heap, b) ELSE heap
  BY DEF Return
<1>2. /\ HeapOK(heap) /\ heap \in Heap /\ CallOK(heap, call) /\ b \in Buffers /\ Homed(heap)
      /\ Plain(call)' /\ call'.pc = "idle"
  BY <1>1 DEF IInv, CallOK, HeapOK, ListInv, Plain, Idle
<1>3. CASE Plain(call)
  <2>1. heap' = heap
    BY <1>1, <1>3 DEF Plain
  <2> QED BY <2>1, <1>1, <1>2, <1>3, OnlyCall
<1>4. CASE ~Plain(call)
  <2>1. heap.nxt[b] = b
    <3>1. call.it = heap.nxt[b] /\ call.pc # "ret"
      BY <1>1, <1>2, <1>4 DEF CallOK, CursorOK, Plain
    <3>2. ~LoopGoesOn(call)
      BY <3>1 DEF Return
    <3> QED BY <3>1, <3>2, <1>4 DEF LoopGoesOn, Plain
  <2>2. Emptying(call, b) /\ size[b] = 0 /\ \A c \in Buffers \ {b} : ~Emptying(call, c)
    BY <1>2, <1>4 DEF Emptying, Plain, ListInv, SizesMatch
  <2> HIDE DEF b
  <2>3. ASSUME NEW c \in Buffers, Exists(heap, c) PROVE Chain(heap, c, size[c])
    <3>1. PICK t : Chain(heap, c, t) /\ (Emptying(call, c) \/ t = size[c])
      BY <2>3 DEF ListInv, SizesMatch
    <3>2. CASE c = b
      BY <3>1, <3>2, <2>1, <2>2, ChainAtEnd
    <3>3. CASE c # b
      BY <3>1, <3>3, <2>2
    <3> QED BY <3>2, <3>3
  <2>4. CASE call.fn # "destroy"
    BY <2>3, <2>4, <1>1, <1>2 DEF ListInv, SizesMatch, Homed, Plain, Emptying
  <2>5. CASE call.fn = "destroy"
    <3>1. b # NULL /\ heap' = BufferFree(heap, b) /\ b \in Nodes
      BY <2>5, <1>1, <1>2, HeapAssumption DEF Nodes
    <3>2. Reanchored(heap', heap, b)
      BY <3>1, <2>1, <1>2, BufferFreeOK
    <3>3. heap'.nxt[b] = NULL
      BY <3>1, <1>2 DEF BufferFree, Heap
    <3>4. Mine(heap, b) = {}
      <4>1. Exists(heap, b)
        BY <3>1, <2>1 DEF Exists
      <4> QED BY <4>1, <2>1, <2>3, <1>2, ChainAtEnd
    <3>5. ASSUME NEW c \in Buffers, Exists(heap', c)
          PROVE  Chain(heap', c, size'[c])
      <4>1. c # b
        BY <3>3, <3>5 DEF Exists
      <4>2. b \notin Mine(heap, c) \cup {c} /\ Mine(heap, c) \cup {c} \subseteq Nodes
        BY <4>1, <1>2, MineFacts, HeapAssumption DEF Nodes
      <4>3. \A m \in Mine(heap, c) \cup {c} : heap'.nxt[m] = heap.nxt[m]
        BY <4>2, <3>2 DEF Reanchored
      <4>4. Exists(heap, c) /\ Mine(heap', c) = Mine(heap, c)
        BY <4>3, <3>2, <3>5 DEF Exists, Reanchored, Mine, LivePages
      <4>5. Chain(heap, c, size[c])
        BY <4>4, <2>3
      <4> QED BY <4>3, <4>4, <4>5, <3>2, <1>1, ChainSame DEF Reanchored
    <3>6. Homed(heap')
      <4> SUFFICES ASSUME NEW q \in LivePages(heap')
                   PROVE  heap'.page[q].own \in Buffers /\ Exists(heap', heap'.page[q].own)
        BY DEF Homed
      <4>1. q \in LivePages(heap) /\ heap'.page[q] = heap.page[q]
        BY <3>2 DEF Reanchored, LivePages
      <4>2. heap.page[q].own \in Buffers /\ Exists(heap, heap.page[q].own) /\ heap.page[q].own # b
        BY <4>1, <3>4, <1>2 DEF Homed, Mine
      <4> QED BY <4>1, <4>2, <3>2 DEF Reanchored, Exists, Nodes
    <3> QED BY <3>5, <3>6, <1>1, <1>2 DEF ListInv, SizesMatch, Homed, Plain, Emptying
  <2> QED BY <2>4, <2>5
<1> QED BY <1>3, <1>4

LEMMA StepKeepsLists ==
    ASSUME CountSuffices, IInv, ListInv, [Next]_vars
    PROVE  ListInv'
<1>1. CASE Client
  BY <1>1, ClientKeepsLists
<1>2. CASE Return
  BY <1>2, ReturnKeepsLists
<1>3. CASE UNCHANGED vars
  BY <1>3 DEF vars, ListInv, Homed, SizesMatch, Plain, Emptying
<1>4. CASE ReadDataStep
  <2>1. call \in CallType /\ call.fn = "read_data" /\ UNCHANGED << heap, size >>
    BY <1>4, InLoop DEF ReadDataStep
  <2>2. call'.fn = call.fn
    BY <2>1, <1>4 DEF ReadDataStep, Progress, CallType
  <2> QED BY <2>1, <2>2, OnlyCall DEF Plain
<1>5. CASE ExtendStep \/ RewindStep \/ InsertDataStep \/ InsertBufferStep
  <2>1. Plain(call) /\ call \in CallType
    BY <1>5 DEF ExtendStep, RewindStep, InsertDataStep, InsertBufferStep, In, Plain, IInv
  <2>2. CASE LeaveLoop \/ Fault("oob")
    <3>1. UNCHANGED << heap, size >> /\ Plain(call)'
      BY <2>1, <2>2, ReturnedFn DEF LeaveLoop, Fault, Plain
    <3> QED BY <2>1, <3>1, OnlyCall
  <2>3. ASSUME NEW h, NEW p, NEW n, NEW x, Inserts(h, p, n, x)
        PROVE  ListInv'
    BY <2>3, InsertKeepsLists
  <2> QED BY <2>2, <2>3, <1>5, InsertingStep
<1>6. CASE SeekStep \/ TrimStep
  BY <1>6, CuttingStep, CutKeepsLists
<1>7. CASE ClearStep
  BY <1>7, ClearKeepsLists
<1>8. CASE OverwriteDataStep \/ OverwriteBufferStep
  BY <1>8, OverwriteDataPatches, OverwriteBufferPatches, PatchKeepsLists, OnlyCall
<1> QED BY <1>1, <1>2, <1>3, <1>4, <1>5, <1>6, <1>7, <1>8 DEF Next, Library

LEMMA InitLists == Init => ListInv
  BY HeapAssumption
  DEF Init, ListInv, Homed, SizesMatch, EmptyHeap, LivePages, NoPage, Exists, Nodes, Plain,
      Idle, Emptying

\* ListInv is inductive together with IInv.
THEOREM ListsInvariant ==
    ASSUME CountSuffices, NoSelfSource
    PROVE  Spec => []ListInv
<1>1. IInv /\ ListInv /\ [Next]_vars => ListInv'
  BY StepKeepsLists
<1> QED BY <1>1, InitLists, InductiveInvariant, PTL DEF Spec

-----------------------------------------------------------------------------
(* The walk along next finds the enumeration.                              *)

\* Induction over the naturals, from the least element of a set of them.
LEMMA Least ==
    ASSUME NEW T \in SUBSET Nat, T # {}
    PROVE  \E x \in T : \A y \in T : x <= y
<1>1. PICK x \in T : \A y \in T : ~(<< y, x >> \in OpToRel(<, Nat))
  BY NatLessThanWellFounded, WFMin
<1>2. \A y \in T : ~(y < x)
  BY <1>1 DEF OpToRel
<1>3. x \in Nat /\ \A y \in T : y \in Nat
  OBVIOUS
<1>4. ASSUME NEW y \in T PROVE x <= y
  <2>1. x \in Nat /\ y \in Nat /\ ~(y < x)
    BY <1>2, <1>3
  <2> QED BY <2>1
<1> QED BY <1>4

\* Two functions that obey the same recursive rule are equal.
LEMMA SameRule ==
    ASSUME NEW C \in Nat, NEW f, NEW g, f[0] = g[0],
           \A k \in 1..C : f[k - 1] = g[k - 1] => f[k] = g[k]
    PROVE  \A k \in 0..C : f[k] = g[k]
<1> DEFINE T == {k \in 0..C : f[k] # g[k]}
<1> SUFFICES ASSUME T # {} PROVE FALSE
  OBVIOUS
<1>0. T \in SUBSET Nat
  OBVIOUS
<1>1. PICK x \in T : \A y \in T : x <= y
  <2> HIDE DEF T
  <2> QED BY <1>0, Least
<1>2. x \in 1..C /\ x - 1 \in 0..C /\ ~(x <= x - 1)
  BY <1>1
<1>3. f[x - 1] = g[x - 1]
  BY <1>1, <1>2
<1> QED BY <1>1, <1>2, <1>3

\* There are no more pages in a list than there are pages.
LEMMA EnumBounded ==
    ASSUME NEW h, NEW b \in Buffers, NEW N, NEW ps, NEW acc, Enumerates(h, b, N, ps, acc)
    PROVE  Cardinality(PageIds) \in Nat /\ N <= Cardinality(PageIds)
<1> DEFINE f == [i \in 1..N |-> ps[i]]
<1>1. N \in Nat /\ Mine(h, b) \subseteq PageIds
  BY MineFacts DEF Enumerates
<1>2. f \in Injection(1..N, PageIds)
  <2>1. f \in [1..N -> PageIds]
    BY <1>1 DEF Enumerates
  <2>2. \A i, j \in 1..N : f[i] = f[j] => i = j
    BY DEF Enumerates
  <2> QED BY <2>1, <2>2 DEF Injection, IsInjective
<1>3. Cardinality(1..N) = N
  BY <1>1, FS_Interval
<1> HIDE DEF f
<1> QED BY <1>1, <1>2, <1>3, FS_Injection, FS_CardinalityType, HeapAssumption

\* The walk along next meets the pages of the list in their order.
LEMMA WalkFindsPages ==
    ASSUME NEW h, NEW b \in Buffers, NEW N, NEW ps, NEW acc, Enumerates(h, b, N, ps, acc)
    PROVE  PagesOf(h, b) = [i \in 1..N |-> ps[i]]
<1> DEFINE C == Cardinality(PageIds)
           P(m) == [i \in 1..m |-> ps[i]]
           Low(k) == IF k < N THEN k ELSE N
           Step(s) == LET x == IF s = << >> THEN h.nxt[b] ELSE h.nxt[s[Len(s)]]
                      IN  IF x \in {b, NULL} THEN s ELSE Append(s, x)
           further == [s \in Seq(Nodes) |-> Step(s)]
           sol == [k \in 0..C |-> P(Low(k))]
<1>1. /\ N \in Nat /\ C \in Nat /\ N <= C /\ ps[0] = b /\ ps[N + 1] = b
      /\ Mine(h, b) \subseteq Nodes /\ b \notin Mine(h, b) /\ NULL \notin Nodes
  BY EnumBounded, MineFacts, HeapAssumption DEF Enumerates, Nodes
<1>2. \A m \in 0..N : Len(P(m)) = m /\ (P(m) = << >> <=> m = 0)
  BY <1>1
<1>3. ASSUME NEW m \in 0..N
      PROVE  Step(P(m)) = IF m = N THEN P(m) ELSE P(m + 1)
  <2> DEFINE x == IF P(m) = << >> THEN h.nxt[b] ELSE h.nxt[P(m)[Len(P(m))]]
  <2>1. x = h.nxt[ps[m]]
    <3>1. CASE m = 0
      BY <3>1, <1>1, <1>2
    <3>2. CASE m # 0
      BY <3>2, <1>1, <1>2
    <3> QED BY <3>1, <3>2
  <2>2. x = ps[m + 1]
    BY <2>1, EnumNext
  <2>3. Step(P(m)) = IF x \in {b, NULL} THEN P(m) ELSE Append(P(m), x)
    OBVIOUS
  <2>4. CASE m = N
    <3> HIDE DEF x
    <3> QED BY <2>2, <2>3, <2>4, <1>1
  <2>5. CASE m # N
    <3>1. m + 1 \in 0..N /\ m + 1 # 0
      BY <2>5, <1>1
    <3>2. ps[m + 1] \in Mine(h, b)
      BY <3>1, EnumNode
    <3>3. Step(P(m)) = Append(P(m), ps[m + 1])
      <4> HIDE DEF x, Step, P
      <4> QED BY <2>2, <2>3, <3>2, <1>1
    <3>4. Append(P(m), ps[m + 1]) = P(m + 1)
      BY <3>1, <1>2
    <3> QED BY <3>3, <3>4, <2>5
  <2> QED BY <2>4, <2>5
<1>b. ASSUME NEW m \in 0..N
      PROVE  further[P(m)] = IF m = N THEN P(m) ELSE P(m + 1)
  <2>1. \A i \in 1..m : ps[i] \in Nodes
    BY <1>1 DEF Enumerates
  <2>2. P(m) \in Seq(Nodes)
    BY <2>1
  <2> HIDE DEF P, Step
  <2> QED BY <2>2, <1>3
<1> HIDE DEF further
<1>4. ASSUME NEW w, w = [k \in 0..C |-> IF k = 0 THEN << >> ELSE further[w[k - 1]]]
      PROVE  w[C] = P(N)
  <2>1. w[0] = << >> /\ \A k \in 1..C : w[k] = further[w[k - 1]]
    <3> HIDE DEF further, C
    <3> QED BY <1>4, <1>1
  <2>2. \A k \in 1..C : w[k - 1] = sol[k - 1] => w[k] = sol[k]
    <3> SUFFICES ASSUME NEW k \in 1..C, w[k - 1] = sol[k - 1] PROVE w[k] = sol[k]
      OBVIOUS
    <3>1. Low(k - 1) \in 0..N /\ Low(k) = IF Low(k - 1) = N THEN N ELSE Low(k - 1) + 1
      BY <1>1
    <3>2. w[k - 1] = P(Low(k - 1)) /\ sol[k] = P(Low(k))
      <4> HIDE DEF P, Low
      <4> QED BY <1>1
    <3> HIDE DEF P, Low, sol
    <3> QED BY <2>1, <3>1, <3>2, <1>b
  <2>3. sol[0] = << >>
    BY <1>1
  <2> HIDE DEF sol, P, Low, C
  <2>4. \A k \in 0..C : w[k] = sol[k]
    <3>1. C \in Nat /\ w[0] = sol[0]
      BY <2>1, <2>3, <1>1
    <3>2. ASSUME NEW D \in Nat, NEW v, w[0] = v[0],
                 \A k \in 1..D : w[k - 1] = v[k - 1] => w[k] = v[k]
          PROVE  \A k \in 0..D : w[k] = v[k]
      BY <3>2, SameRule
    <3> QED BY <2>2, <3>1, <3>2
  <2>5. sol[C] = P(N)
    BY <1>1 DEF sol, Low
  <2> QED BY <2>4, <2>5, <1>1
<1>5. \E w : w = [k \in 0..C |-> IF k = 0 THEN << >> ELSE further[w[k - 1]]]
  <2>1. ASSUME NEW k \in 0..C
        PROVE  sol[k] = IF k = 0 THEN << >> ELSE further[sol[k - 1]]
    <3>1. CASE k = 0
      BY <3>1, <1>1
    <3>2. CASE k # 0
      <4>1. Low(k - 1) \in 0..N /\ Low(k) = IF Low(k - 1) = N THEN N ELSE Low(k - 1) + 1
        BY <1>1, <3>2
      <4>2. sol[k - 1] = P(Low(k - 1)) /\ sol[k] = P(Low(k))
        <5> HIDE DEF P, Low
        <5> QED BY <1>1, <3>2
      <4> HIDE DEF P, Low, sol
      <4> QED BY <4>1, <4>2, <1>b, <3>2
    <3> QED BY <3>1, <3>2
  <2>2. sol = [k \in 0..C |-> IF k = 0 THEN << >> ELSE further[sol[k - 1]]]
    <3> HIDE DEF further, P, Low
    <3>1. sol = [k \in 0..C |-> sol[k]]
      OBVIOUS
    <3> HIDE DEF sol
    <3> QED BY <2>1, <3>1
  <2> QED BY <2>2
<1>6. PagesOf(h, b) = (CHOOSE w : w = [k \in 0..C |-> IF k = 0 THEN << >> ELSE further[w[k - 1]]])[C]
  BY DEF PagesOf, PagesFrom, further
<1> HIDE DEF C, P, Low, sol
<1> QED BY <1>4, <1>5, <1>6 DEF P

\* The lengths of the pages met add up to the total of the chain.
LEMMA WalkAddsUp ==
    ASSUME HeapOK(heap),
           NEW b \in Buffers, NEW N, NEW ps, NEW acc, Enumerates(heap, b, N, ps, acc)
    PROVE  PagesLen(b) = acc[N]
<1> DEFINE qs == PagesOf(heap, b)
<1>1. /\ N \in Nat /\ acc \in [0..N -> Int] /\ acc[0] = 0
      /\ qs = [i \in 1..N |-> ps[i]] /\ Mine(heap, b) \subseteq PageIds
  <2>1. N \in Nat /\ acc \in [0..N -> Int] /\ acc[0] = 0
    BY DEF Enumerates, Sums
  <2> QED BY <2>1, WalkFindsPages, MineFacts
<1>2. Len(qs) = N
  <2> HIDE DEF qs
  <2> QED BY <1>1
<1>3. \A i \in 1..N : acc[i] = acc[i - 1] + NodeLen(heap, qs[i])
  <2> SUFFICES ASSUME NEW i \in 1..N PROVE acc[i] = acc[i - 1] + NodeLen(heap, qs[i])
    OBVIOUS
  <2>1. i \in 0..N /\ i # 0
    BY <1>1
  <2>2. ps[i] \in PageIds
    BY <2>1, <1>1, EnumNode
  <2>3. acc[i] \in Int /\ acc[i - 1] \in Int /\ heap.page[ps[i]].len = acc[i] - acc[i - 1]
    BY <2>1, EnumSum
  <2>4. qs[i] = ps[i]
    BY <1>1
  <2> HIDE DEF qs
  <2> QED BY <2>2, <2>3, <2>4 DEF NodeLen
<1>4. acc = [i \in 0..N |-> IF i = 0 THEN 0 ELSE acc[i - 1] + NodeLen(heap, qs[i])]
  <2> HIDE DEF qs
  <2>1. acc = [i \in 0..N |-> acc[i]]
    BY <1>1
  <2>2. ASSUME NEW i \in 0..N
        PROVE  acc[i] = IF i = 0 THEN 0 ELSE acc[i - 1] + NodeLen(heap, qs[i])
    <3>1. i # 0 => i \in 1..N
      BY <1>1
    <3> QED BY <3>1, <1>1, <1>3
  <2> QED BY <2>1, <2>2
<1>5. ASSUME NEW w, w = [i \in 0..N |-> IF i = 0 THEN 0 ELSE w[i - 1] + NodeLen(heap, qs[i])]
      PROVE  w[N] = acc[N]
  <2> HIDE DEF qs
  <2>1. w[0] = acc[0] /\ \A i \in 1..N : w[i - 1] = acc[i - 1] => w[i] = acc[i]
    <3>1. w[0] = 0
      BY <1>5, <1>1
    <3>2. ASSUME NEW i \in 1..N PROVE w[i] = w[i - 1] + NodeLen(heap, qs[i])
      <4>1. i \in 0..N /\ i # 0
        BY <1>1
      <4> QED BY <4>1, <1>5
    <3> QED BY <3>1, <3>2, <1>1, <1>3
  <2>2. \A i \in 0..N : w[i] = acc[i]
    <3>1. ASSUME NEW v, NEW u, NEW D \in Nat, w = v, acc = u, N = D
          PROVE  \A i \in 0..D : v[i] = u[i]
      <4>1. v[0] = u[0] /\ \A k \in 1..D : v[k - 1] = u[k - 1] => v[k] = u[k]
        BY <3>1, <2>1
      <4> QED BY <4>1, SameRule
    <3> QED BY <3>1, <1>1
  <2> QED BY <2>2, <1>1
<1>6. PagesLen(b) = (CHOOSE w : w = [i \in 0..Len(qs) |-> IF i = 0 THEN 0
                                        ELSE w[i - 1] + NodeLen(heap, qs[i])])[Len(qs)]
  BY DEF PagesLen
<1> HIDE DEF qs
<1> QED BY <1>2, <1>4, <1>5, <1>6

\* What an enumeration says of the walk along next, and of prev.
LEMMA WalkIntact ==
    ASSUME HeapOK(heap),
           NEW b \in Buffers, NEW N, NEW ps, NEW acc, Enumerates(heap, b, N, ps, acc),
           Exists(heap, b), NEW qs, qs = PagesOf(heap, b)
    PROVE  /\ \A i \in 1..Len(qs) :
                /\ qs[i] \in LivePages(heap) /\ heap.page[qs[i]].own = b
                /\ heap.prv[qs[i]] = IF i = 1 THEN b ELSE qs[i - 1]
           /\ heap.prv[b] = IF qs = << >> THEN b ELSE qs[Len(qs)]
           /\ {qs[i] : i \in 1..Len(qs)} = {p \in LivePages(heap) : heap.page[p].own = b}
<1>1. /\ N \in Nat /\ qs = [i \in 1..N |-> ps[i]] /\ Len(qs) = N
      /\ (qs = << >> <=> N = 0) /\ ps[0] = b /\ ps[N + 1] = b
  <2>1. N \in Nat /\ ps[0] = b /\ ps[N + 1] = b
    BY DEF Enumerates
  <2>2. qs = [i \in 1..N |-> ps[i]]
    BY WalkFindsPages
  <2> QED BY <2>1, <2>2
<1>2. \A i \in 1..N : qs[i] = ps[i] /\ ps[i] \in LivePages(heap) /\ heap.page[ps[i]].own = b
  BY <1>1 DEF Enumerates, Mine
<1>3. \A i \in 0..N : heap.prv[ps[i + 1]] = ps[i]
  <2> SUFFICES ASSUME NEW i \in 0..N PROVE heap.prv[ps[i + 1]] = ps[i]
    OBVIOUS
  <2>1. ps[i] \in Nodes /\ heap.nxt[ps[i]] = ps[i + 1]
    BY EnumNode, EnumNext
  <2>2. i + 1 \in 0..(N + 1)
    BY <1>1
  <2>3. ps[i + 1] \in Nodes
    BY <2>2 DEF Enumerates
  <2>4. Linked(heap, ps[i])
    BY <2>1, <2>3, HeapAssumption DEF Linked, Nodes
  <2> QED BY <2>1, <2>4 DEF HeapOK, Threaded
<1>4. \A i \in 1..N : heap.prv[qs[i]] = IF i = 1 THEN b ELSE qs[i - 1]
  <2> SUFFICES ASSUME NEW i \in 1..N PROVE heap.prv[qs[i]] = IF i = 1 THEN b ELSE qs[i - 1]
    OBVIOUS
  <2>1. i - 1 \in 0..N /\ (i - 1) + 1 = i /\ (i # 1 => i - 1 \in 1..N)
    BY <1>1
  <2>2. heap.prv[ps[i]] = ps[i - 1]
    BY <2>1, <1>3
  <2> QED BY <2>1, <2>2, <1>1, <1>2
<1>5. heap.prv[b] = IF qs = << >> THEN b ELSE qs[Len(qs)]
  <2>1. heap.prv[b] = ps[N]
    BY <1>1, <1>3
  <2> QED BY <2>1, <1>1, <1>2
<1>6. {qs[i] : i \in 1..Len(qs)} = Mine(heap, b)
  <2>1. \A p \in Mine(heap, b) : \E i \in 1..N : ps[i] = p
    BY DEF Enumerates
  <2> QED BY <2>1, <1>1, <1>2 DEF Mine
<1> QED BY <1>1, <1>2, <1>4, <1>5, <1>6 DEF Mine

LEMMA ListInvImplies == IInv /\ ListInv => ListsIntact /\ SizeMatchesPages
<1> SUFFICES ASSUME IInv, ListInv PROVE ListsIntact /\ SizeMatchesPages
  OBVIOUS
<1>1. HeapOK(heap) /\ Homed(heap)
  BY DEF IInv, ListInv
<1>2. ASSUME NEW b \in Buffers, Exists(heap, b)
      PROVE  \E N, ps, acc : /\ Enumerates(heap, b, N, ps, acc)
                             /\ Emptying(call, b) \/ size[b] = acc[N]
  BY <1>2 DEF ListInv, SizesMatch, Chain
<1>3. ListsIntact
  <2>1. ASSUME NEW b \in Buffers, Exists(heap, b), NEW qs, qs = PagesOf(heap, b)
        PROVE  /\ \A i \in 1..Len(qs) :
                    /\ qs[i] \in LivePages(heap) /\ heap.page[qs[i]].own = b
                    /\ heap.prv[qs[i]] = IF i = 1 THEN b ELSE qs[i - 1]
               /\ heap.prv[b] = IF qs = << >> THEN b ELSE qs[Len(qs)]
               /\ {qs[i] : i \in 1..Len(qs)} = {p \in LivePages(heap) : heap.page[p].own = b}
    <3>1. PICK N, ps, acc : Enumerates(heap, b, N, ps, acc)
      BY <1>2, <2>1
    <3> QED BY <3>1, <2>1, <1>1, WalkIntact
  <2>2. \A p \in LivePages(heap) :
           heap.page[p].own \in Buffers /\ Exists(heap, heap.page[p].own)
    BY <1>1 DEF Homed
  <2> QED BY <2>1, <2>2 DEF ListsIntact
<1>4. SizeMatchesPages
  <2>1. ASSUME NEW b \in Buffers, Exists(heap, b), ~Emptying(call, b)
        PROVE  size[b] = PagesLen(b)
    <3>1. PICK N, ps, acc : Enumerates(heap, b, N, ps, acc) /\ size[b] = acc[N]
      BY <1>2, <2>1
    <3> QED BY <3>1, <1>1, WalkAddsUp
  <2> QED BY <2>1 DEF SizeMatchesPages, Emptying
<1> QED BY <1>3, <1>4

\* The two directions of every list agree, the lists are disjoint and hold all the
\* pages there are.
THEOREM ListsStayIntact ==
    ASSUME CountSuffices, NoSelfSource
    PROVE  Spec => []ListsIntact
  BY ListsInvariant, InductiveInvariant, ListInvImplies, PTL

\* data_size is what the pages of the buffer show, at every step of every call.
THEOREM SizesAreRight ==
    ASSUME CountSuffices, NoSelfSource
    PROVE  Spec => []SizeMatchesPages
  BY ListsInvariant, InductiveInvariant, ListInvImplies, PTL

-----------------------------------------------------------------------------
(***************************************************************************)
(* Nothing undefined is executed, and no page of length zero is left in a  *)
(* list, as long as the client does not call in one of the unusual ways.   *)
(*                                                                         *)
(* Whether a loop makes progress and stays inside the memory it names      *)
(* depends on where its iterators are, so the invariants add that an       *)
(* insert goes to the head of a page or inside it, that the source offset  *)
(* is inside the source page, and that overwrite_buffer goes through two   *)
(* lists that are cut at the same places from its iterators on.            *)
(***************************************************************************)

Filled(h) == \A p \in LivePages(h) : h.page[p].len > 0

\* The insert leaves bytes on both sides of its offset, or is at a page's head.
InsertFits(h, c) ==
    c.fn \in Inserting =>
        c.off = 0 \/ (c.fn \notin {"extend", "rewind"} /\ c.off < NodeLen(h, c.it))

\* There are bytes left in the source page.
SourceFits(h, c) ==
    c.fn = "insert_buffer" =>
        \/ c.len = 0 \/ c.sit = c.src
        \/ IF Strategy[c.buf].fragment_as_target THEN c.soff < NodeLen(h, c.sit)
           ELSE c.soff = 0

FillInv ==
    /\ Filled(heap)
    /\ fault # "freed_linked"
    /\ call.pc = "loop" => InsertFits(heap, call) /\ SourceFits(heap, call)

NoSplitAtEnd == "split_at_end" \notin Usage

-----------------------------------------------------------------------------
LEMMA LowerPositive ==
    ASSUME NEW m \in Nat, NEW n \in Nat, m > 0, n > 0
    PROVE  Lower(m, n) > 0
  BY DEF Lower

LEMMA ChunkPositive ==
    ASSUME NEW b \in Buffers, NEW n \in Nat, n > 0
    PROVE  Chunk(b, n) > 0
<1>1. Strategy[b].page_size \in Nat
  BY StrategyAssumption DEF StrategyType
<1> QED BY <1>1 DEF Chunk, Lower

\* Every page of g is a page of h of the same length.
LEMMA FilledStill ==
    ASSUME NEW h, NEW g, Filled(h), \A p \in LivePages(g) : p \in LivePages(h)
                                        /\ g.page[p].len = h.page[p].len
    PROVE  Filled(g)
  BY DEF Filled

\* A source iterator at the head of a page.
LEMMA HeadFits ==
    ASSUME NEW h, HeapOK(h), Filled(h), NEW c, CallOK(h, c), c.pc = "loop", c.soff = 0
    PROVE  SourceFits(h, c)
<1> SUFFICES ASSUME c.fn = "insert_buffer", c.sit # c.src,
                    Strategy[c.buf].fragment_as_target
             PROVE  c.soff < NodeLen(h, c.sit)
  BY DEF SourceFits
<1>1. c.src \in Buffers /\ Inside(h, c.sit, c.src)
  BY DEF CallOK, SourceOK
<1>2. c.sit \in LivePages(h) /\ NodeLen(h, c.sit) = h.page[c.sit].len
  BY <1>1, InsideIsPage
<1> QED BY <1>2 DEF Filled

\* What one iteration of insert_buffer takes is something and is there.
LEMMA InsertLenFits ==
    ASSUME IInv, FillInv, In("insert_buffer")
    PROVE  /\ InsertLen(call) \in Nat /\ InsertLen(call) > 0 /\ InsertLen(call) <= call.len
           /\ call.soff + InsertLen(call) <= NodeLen(heap, call.sit)
           /\ ~Strategy[call.buf].fragment_as_target =>
                 call.soff = 0 /\ (InsertLen(call) = NodeLen(heap, call.sit)
                                      \/ InsertLen(call) = call.len)
<1> DEFINE plen == NodeLen(heap, call.sit)
<1>1. /\ call.fn = "insert_buffer" /\ call.pc = "loop" /\ call.len \in Nat /\ call.len > 0
      /\ call.soff \in Nat /\ call.buf \in Buffers /\ HeapOK(heap) /\ call.sit # call.src
  BY InLoop DEF In, LoopGoesOn
<1>2. plen \in Nat /\ plen > 0
  <2>1. call.sit \in LivePages(heap) /\ plen = heap.page[call.sit].len
    BY <1>1, AtSourcePage
  <2> QED BY <2>1, <1>1, NodeLenType DEF FillInv, Filled
<1> HIDE DEF plen
<1>3. CASE Strategy[call.buf].fragment_as_target
  <2> DEFINE l == Lower(plen - call.soff, call.len)
  <2>1. call.soff < plen
    BY <1>1, <1>3 DEF FillInv, SourceFits, plen
  <2>2. plen - call.soff \in Nat /\ plen - call.soff > 0
    BY <2>1, <1>1, <1>2
  <2>3. l \in Nat /\ l > 0 /\ l <= call.len /\ l <= plen - call.soff
    BY <2>2, <1>1, LowerType, LowerPositive
  <2>4. InsertLen(call) = Chunk(call.buf, l)
    BY <2>1, <1>1, <1>2, <1>3 DEF InsertLen, plen
  <2> HIDE DEF l
  <2>5. Chunk(call.buf, l) \in Nat /\ Chunk(call.buf, l) <= l /\ Chunk(call.buf, l) > 0
    BY <2>3, <1>1, ChunkType, ChunkPositive
  <2> HIDE DEF plen
  <2>6. \A k \in Nat : k <= l => k <= call.len /\ call.soff + k <= plen
    BY <2>3, <1>1, <1>2
  <2> QED BY <2>4, <2>5, <2>6, <1>3 DEF plen
<1>4. CASE ~Strategy[call.buf].fragment_as_target
  <2>1. call.soff = 0
    BY <1>1, <1>4 DEF FillInv, SourceFits
  <2>2. InsertLen(call) = Lower(plen, call.len)
    BY <1>4 DEF InsertLen, plen
  <2>3. Lower(plen, call.len) \in {plen, call.len}
    BY DEF Lower
  <2>4. Lower(plen, call.len) \in Nat /\ Lower(plen, call.len) > 0
        /\ Lower(plen, call.len) <= call.len /\ Lower(plen, call.len) <= plen
    BY <1>1, <1>2, LowerType, LowerPositive
  <2> QED BY <2>1, <2>2, <2>3, <2>4, <1>1, <1>2 DEF plen
<1> QED BY <1>3, <1>4

\* What is inside the window of a page is inside its region.
LEMMA WithinPage ==
    ASSUME NEW h, HeapOK(h), NEW p \in LivePages(h), NEW off \in Nat, NEW n \in Nat,
           off + n <= NodeLen(h, p)
    PROVE  InBounds(h, p, off, n)
<1>1. /\ h \in Heap /\ p \in PageIds /\ NodeLen(h, p) = h.page[p].len
      /\ InBounds(h, p, 0, h.page[p].len) /\ h.page[p].data \in DataIds
  BY DEF HeapOK, Shown, LivePages, NodeLen
<1>2. /\ h.page[p].base \in Nat /\ h.page[p].len \in Nat
      /\ Len(h.reg[h.page[p].data].mem) \in Nat
  <2>1. h.page[p] \in PageRec /\ h.reg[h.page[p].data] \in Region
    BY <1>1 DEF Heap
  <2>2. \A r \in Region : Len(r.mem) \in Nat
    BY DEF Region
  <2> QED BY <2>1, <2>2 DEF PageRec
<1>3. \A base, len, l, o, m \in Nat :
         base + 0 + len <= l /\ o + m <= len => base + o + m <= l
  OBVIOUS
<1>4. h.page[p].base + 0 + h.page[p].len <= Len(h.reg[h.page[p].data].mem)
  BY <1>1 DEF InBounds
<1> QED BY <1>1, <1>2, <1>3, <1>4 DEF InBounds

\* insert_buffer never copies from outside its source page.
LEMMA CopiesInBounds ==
    ASSUME IInv, FillInv, In("insert_buffer")
    PROVE  InBounds(heap, call.sit, call.soff, InsertLen(call))
<1>1. /\ call.fn = "insert_buffer" /\ call.pc = "loop" /\ call.soff \in Nat
      /\ HeapOK(heap) /\ call.sit # call.src
  BY InLoop DEF In, LoopGoesOn
<1>2. call.sit \in LivePages(heap)
  BY <1>1, AtSourcePage
<1>3. InsertLen(call) \in Nat /\ call.soff + InsertLen(call) <= NodeLen(heap, call.sit)
  BY InsertLenFits
<1> QED BY <1>1, <1>2, <1>3, WithinPage

-----------------------------------------------------------------------------
(* Insertions.                                                             *)

\* A page that is not empty goes in at an end of a page or inside.
LEMMA PlacedFilled ==
    ASSUME CountSuffices, NEW h, HeapOK(h), Filled(h), NEW p \in FreePages(h),
           NEW n \in Nat, n > 0, NEW k, Loose(k, h, p, n), NEW x \in Nodes, Linked(h, x),
           NEW off, NEW q, NEW g, Placed(g, k, p, x, off, q), off = 0 \/ off < NodeLen(h, x)
    PROVE  Filled(g)
<1> DEFINE s == SplitAt(k, x, off, q)
<1>1. /\ HeapOK(k) /\ p \in LivePages(k) /\ ~Linked(k, p) /\ k.page[p].len = n
      /\ Linked(k, x) /\ x # p /\ NodeLen(k, x) = NodeLen(h, x)
      /\ LivePages(k) = LivePages(h) \cup {p} /\ SamePagesBut(k, h, p)
  BY LooseFacts
<1>2. /\ HeapOK(s) /\ p \in LivePages(s) /\ ~Linked(s, p) /\ Linked(s, x)
      /\ off # 0 => /\ x \in LivePages(k) /\ off <= k.page[x].len
                    /\ Split(s, k, x, q) /\ SplitInto(s, k, x, off, q)
      /\ off = 0 => s = k
  BY <1>1, SplitAtOK DEF Placed
<1>3. LinkedIn(g, s, p, x)
  <2>1. g = LinkBefore(s, p, x)
    BY DEF Placed
  <2> HIDE DEF s
  <2> QED BY <2>1, <1>2, LinkIsIn
<1> HIDE DEF s
<1>4. Filled(k)
  BY <1>1 DEF Filled, SamePagesBut, LivePages
<1>5. Filled(s)
  <2>1. CASE off # 0
    <3> SUFFICES ASSUME NEW r \in LivePages(s) PROVE s.page[r].len > 0
      BY DEF Filled
    <3>1. x \in PageIds /\ k.page[x].len \in Nat /\ off \in Nat /\ off < k.page[x].len
      BY <1>1, <1>2, <2>1 DEF LivePages, HeapOK, Heap, PageRec, Placed, NodeLen
    <3>2. CASE r = q \/ r = x
      <4>1. s.page[r].len \in {off, k.page[x].len - off}
        BY <1>2, <2>1, <3>2 DEF SplitInto, PageIs
      <4> QED BY <4>1, <3>1, <2>1
    <3>3. CASE r # q /\ r # x
      BY <1>2, <1>4, <2>1, <3>3 DEF Split, Filled, LivePages
    <3> QED BY <3>2, <3>3
  <2> QED BY <2>1, <1>2, <1>4
<1>6. \A r \in LivePages(g) : r \in LivePages(s) /\ g.page[r].len = s.page[r].len
  BY <1>2, <1>3 DEF LinkedIn, PageIs, SamePagesBut, LivePages
<1> QED BY <1>5, <1>6, FilledStill

LEMMA AfterInsertFields ==
    ASSUME NEW c \in CallType, NEW h, NEW n \in Nat, NEW d, d = AfterInsert(c, h, n)
    PROVE  /\ d.fn = c.fn /\ d.buf = c.buf /\ d.src = c.src /\ d.off = 0
           /\ d.len = c.len - n /\ d.pc = c.pc
           /\ c.fn = "insert_buffer" =>
                 IF ~Strategy[c.buf].clone_on_write /\ ~Strategy[c.buf].fragment_as_target
                 THEN d.soff = c.soff
                 ELSE IF c.soff + n = h.page[c.sit].len THEN d.soff = 0
                 ELSE d.sit = c.sit /\ d.soff = c.soff + n
  BY DEF CallType, AfterInsert, NextSource, Progress

\* The source iterator after an insertion.
LEMMA SourceGoesOn ==
    ASSUME IInv, FillInv, In("insert_buffer"), NEW g, HeapOK(g), Filled(g),
           NEW n, n = InsertLen(call), NEW c, c = AfterInsert(call, g, n), CallOK(g, c),
           g.page[call.sit] = heap.page[call.sit]
    PROVE  SourceFits(g, c)
<1>1. /\ call.fn = "insert_buffer" /\ call.pc = "loop" /\ call.soff \in Nat /\ call \in CallType
      /\ HeapOK(heap) /\ call.sit # call.src /\ call.len \in Nat
  BY InLoop DEF In, LoopGoesOn
<1>2. /\ n \in Nat /\ n <= call.len /\ call.soff + n <= NodeLen(heap, call.sit)
      /\ ~Strategy[call.buf].fragment_as_target =>
            call.soff = 0 /\ (n = NodeLen(heap, call.sit) \/ n = call.len)
  BY InsertLenFits
<1>3. /\ call.sit \in PageIds /\ NodeLen(heap, call.sit) = heap.page[call.sit].len
      /\ NodeLen(g, call.sit) = heap.page[call.sit].len /\ NodeLen(heap, call.sit) \in Nat
  BY <1>1, AtSourcePage, NodeLenType DEF NodeLen
<1>4. /\ c.fn = call.fn /\ c.buf = call.buf /\ c.src = call.src /\ c.pc = call.pc
      /\ c.len = call.len - n
      /\ IF ~Strategy[c.buf].clone_on_write /\ ~Strategy[c.buf].fragment_as_target
         THEN c.soff = call.soff
         ELSE IF call.soff + n = g.page[call.sit].len THEN c.soff = 0
         ELSE c.sit = call.sit /\ c.soff = call.soff + n
  BY <1>1, <1>2, AfterInsertFields
<1>5. CASE c.soff = 0
  BY <1>1, <1>4, <1>5, HeadFits
<1>6. CASE c.soff # 0
  <2>1. /\ c.sit = call.sit /\ c.soff = call.soff + n
        /\ call.soff + n # heap.page[call.sit].len
    BY <1>2, <1>4, <1>6
  <2>2. CASE Strategy[c.buf].fragment_as_target
    BY <2>1, <2>2, <1>1, <1>2, <1>3 DEF SourceFits
  <2>3. CASE ~Strategy[c.buf].fragment_as_target
    <3>1. n = call.len
      BY <2>1, <2>3, <1>2, <1>3, <1>4
    <3> QED BY <3>1, <1>1, <1>4 DEF SourceFits
  <2> QED BY <2>2, <2>3
<1> QED BY <1>5, <1>6

\* The page that could not be inserted is gone, the others are as they were.
LEMMA AbandonedFilled ==
    ASSUME IInv, Filled(heap), NEW h, NEW p, NEW n, NEW x, Inserts(h, p, n, x),
           NEW g, g = PageDestroy(h, p)
    PROVE  Filled(g)
<1>1. /\ p \in FreePages(heap) /\ Fresh(h, heap, p, n) /\ HeapOK(heap)
  BY DEF Inserts, Loose, IInv
<1>2. Freed(g, h, p)
  BY <1>1, LooseDestroyed DEF Fresh
<1>3. ASSUME NEW r \in LivePages(g)
      PROVE  r \in LivePages(heap) /\ g.page[r].len = heap.page[r].len
  <2>1. r \in LivePages(h) /\ r # p /\ r \in PageIds
    BY <1>2 DEF Freed, LivePages
  <2>2. g.page[r] = heap.page[r]
    BY <2>1, <1>1, <1>2 DEF Freed, SamePagesBut, Fresh
  <2>3. r \in LivePages(heap)
    BY <2>1, <1>1 DEF Fresh, LivePages
  <2> QED BY <2>2, <2>3
<1> QED BY <1>3, FilledStill

LEMMA InsertKeepsFilled ==
    ASSUME CountSuffices, IInv, IInv', FillInv, NEW h, NEW p, NEW n, NEW x,
           Inserts(h, p, n, x), fault = "none"
    PROVE  FillInv'
<1>1. /\ HeapOK(heap) /\ AllLinked(heap) /\ call \in CallType /\ call.buf \in Buffers
      /\ p \in FreePages(heap) /\ Loose(h, heap, p, n)
      /\ x \in Nodes /\ Linked(heap, x) /\ call.fn \in Inserting
      /\ call.pc = "loop" /\ n \in Nat /\ call.len \in Nat /\ call.off \in Nat
      /\ call.fn = "insert_buffer" => In("insert_buffer")
  BY DEF IInv, CallOK, CallType, Inserts, Inside, In
<1>2. n > 0
  <2>1. CASE call.fn = "insert_buffer"
    BY <2>1, <1>1, InsertLenFits DEF Inserts
  <2>2. CASE call.fn # "insert_buffer"
    <3>1. call.len > 0 /\ n = Chunk(call.buf, call.len)
      BY <2>2, <1>1 DEF Inserts, LoopGoesOn, Inserting
    <3> QED BY <3>1, <1>1, ChunkPositive
  <2> QED BY <2>1, <2>2
<1>3. CASE /\ heap' = PageDestroy(h, p) /\ call' = [call EXCEPT !.pc = "ret"]
           /\ UNCHANGED << size, fault >>
  <2>1. Filled(heap')
    BY <1>3, AbandonedFilled DEF FillInv
  <2>2. call'.pc = "ret"
    BY <1>1, <1>3 DEF CallType
  <2> QED BY <2>1, <2>2, <1>3 DEF FillInv, Filled
<1>4. ASSUME NEW q, Placed(heap', h, p, x, Lower(call.off, NodeLen(h, x)), q),
             call' = AfterInsert(call, heap', n), fault' = fault
      PROVE  FillInv'
  <2> DEFINE off == Lower(call.off, NodeLen(h, x))
  <2>1. off = 0 \/ off < NodeLen(heap, x)
    <3>1. NodeLen(h, x) = NodeLen(heap, x) /\ NodeLen(heap, x) \in Nat
      BY <1>1, LooseFacts, NodeLenType
    <3>2. call.off = 0 \/ call.off < NodeLen(heap, x)
      BY <1>1 DEF FillInv, InsertFits, Inserts
    <3> QED BY <3>1, <3>2, <1>1 DEF Lower
  <2>2. Placed(heap', h, p, x, off, q)
    BY <1>4
  <2> HIDE DEF off
  <2>3. Filled(heap')
    <3>1. Filled(heap)
      BY DEF FillInv
    <3> QED BY <2>1, <2>2, <3>1, <1>1, <1>2, PlacedFilled
  <2>4. call'.fn = call.fn /\ call'.off = 0
    BY <1>1, <1>4, AfterInsertFields
  <2>5. InsertFits(heap', call')
    BY <2>4 DEF InsertFits
  <2>6. SourceFits(heap', call')
    <3>1. CASE call.fn = "insert_buffer"
      <4>1. In("insert_buffer") /\ n = InsertLen(call)
        BY <3>1, <1>1 DEF Inserts
      <4>2. /\ call.sit \in LivePages(heap) /\ heap.page[call.sit].own # call.buf
        <5>1. call.sit # call.src
          BY <4>1 DEF In, LoopGoesOn
        <5> QED BY <5>1, <3>1, <1>1, AtSourcePage
      <4>3. heap'.page[call.sit] = heap.page[call.sit]
        BY <4>2, InsertIsolates DEF Isolated, PagesKept
      <4>4. HeapOK(heap') /\ CallOK(heap', call')
        BY DEF IInv
      <4> QED BY <4>1, <4>3, <4>4, <2>3, <1>4, SourceGoesOn
    <3>2. CASE call.fn # "insert_buffer"
      BY <3>2, <2>4 DEF SourceFits
    <3> QED BY <3>1, <3>2
  <2> QED BY <2>3, <2>5, <2>6, <1>4 DEF FillInv, Filled, InsertFits, SourceFits
<1> QED BY <1>2, <1>3, <1>4, InsertedPage

-----------------------------------------------------------------------------
(* The other steps.                                                        *)

\* A step of a function that inserts nothing.
LEMMA NoInsertFits ==
    ASSUME Filled(heap'), fault' # "freed_linked", call'.fn \notin Inserting
    PROVE  FillInv'
  BY DEF FillInv, Filled, InsertFits, SourceFits, Inserting

LEMMA CutKeepsFilled ==
    ASSUME IInv, FillInv, NEW g, NEW n, Cuts(g, n)
    PROVE  FillInv'
<1> DEFINE p == call.it
<1>1. /\ p \in LivePages(heap) /\ p \in PageIds /\ PageCut(g, heap, p)
      /\ heap' = IF NodeLen(g, p) = 0 THEN UnlinkDestroy(g, p) ELSE g
      /\ call.fn \in {"seek", "trim"} /\ fault' = fault /\ call \in CallType
  BY DEF Cuts, LivePages, IInv
<1>2. HeapOK(heap) /\ AllLinked(heap)
  BY DEF IInv
<1>3. OnlyPage(g, heap, p)
  BY <1>1 DEF PageCut
<1>4. HeapOK(g) /\ LivePages(g) = LivePages(heap)
  BY <1>1, <1>2, <1>3, NarrowedPage DEF PageCut
<1>5. SamePagesBut(g, heap, p) /\ g.nxt = heap.nxt
  BY <1>3 DEF OnlyPage, SamePagesBut
<1>6. call'.fn = call.fn
  BY <1>1 DEF Cuts, CallType, Progress
<1>7. ASSUME NEW q \in LivePages(g), q # p
      PROVE  q \in LivePages(heap) /\ g.page[q].len = heap.page[q].len
  BY <1>4, <1>5, <1>7 DEF SamePagesBut, LivePages
<1>8. Filled(heap')
  <2>1. CASE NodeLen(g, p) = 0
    <3>1. Linked(g, p) /\ p \in LivePages(g) /\ heap' = UnlinkDestroy(g, p)
      BY <2>1, <1>1, <1>2, <1>4, <1>5 DEF AllLinked, Linked
    <3> HIDE DEF p
    <3>2. Freed(heap', g, p)
      BY <3>1, <1>4, UnlinkDestroyed
    <3>3. ASSUME NEW q \in LivePages(heap')
          PROVE  q \in LivePages(heap) /\ heap'.page[q].len = heap.page[q].len
      <4>1. q \in LivePages(g) /\ q # p /\ q \in PageIds
        BY <3>2 DEF Freed, LivePages
      <4>2. heap'.page[q] = g.page[q]
        BY <4>1, <3>2 DEF Freed, SamePagesBut
      <4> QED BY <4>1, <4>2, <1>7
    <3> QED BY <3>3, FilledStill DEF FillInv
  <2>2. CASE NodeLen(g, p) # 0
    <3>1. NodeLen(g, p) = g.page[p].len /\ NodeLen(g, p) \in Nat
      BY <1>1, <1>4, NodeLenType DEF NodeLen
    <3>2. heap' = g /\ g.page[p].len > 0
      BY <3>1, <2>2, <1>1
    <3> HIDE DEF p
    <3> QED BY <3>2, <1>7 DEF Filled, FillInv
  <2> QED BY <2>1, <2>2
<1> QED BY <1>1, <1>6, <1>8, NoInsertFits DEF FillInv, Inserting

LEMMA ClearKeepsFilled ==
    ASSUME IInv, FillInv, ClearStep
    PROVE  FillInv'
<1> DEFINE p == call.it
<1>1. PICK fn \in {"clear", "destroy"} : In(fn)
  BY DEF ClearStep
<1>2. /\ call.fn = fn /\ HeapOK(heap) /\ AllLinked(heap) /\ call \in CallType
      /\ call.buf \in Buffers /\ Inside(heap, p, call.buf) /\ p # call.buf
      /\ fault' = fault /\ heap' = UnlinkDestroy(heap, p)
      /\ call' = [call EXCEPT !.it = heap.nxt[call.it]]
  BY <1>1, InLoop DEF In, LoopGoesOn, ClearStep
<1>3. p \in LivePages(heap) /\ Linked(heap, p)
  BY <1>2, InsideIsPage DEF Inside
<1>4. call'.fn = fn
  BY <1>2 DEF CallType
<1> HIDE DEF p
<1>5. Freed(heap', heap, p)
  BY <1>2, <1>3, UnlinkDestroyed
<1>6. ASSUME NEW q \in LivePages(heap')
      PROVE  q \in LivePages(heap) /\ heap'.page[q].len = heap.page[q].len
  <2>1. q \in LivePages(heap) /\ q # p /\ q \in PageIds
    BY <1>5 DEF Freed, LivePages
  <2> QED BY <2>1, <1>5 DEF Freed, SamePagesBut
<1>7. Filled(heap')
  BY <1>6, FilledStill DEF FillInv
<1> QED BY <1>2, <1>4, <1>7, NoInsertFits DEF FillInv, Inserting

LEMMA OverwriteKeepsFilled ==
    ASSUME IInv, FillInv, OverwriteDataStep \/ OverwriteBufferStep
    PROVE  FillInv'
<1>1. UNCHANGED heap \/ Patched(heap', heap)
  BY OverwriteDataPatches, OverwriteBufferPatches
<1>2. Filled(heap')
  <2>1. CASE UNCHANGED heap
    BY <2>1 DEF FillInv
  <2>2. CASE Patched(heap', heap)
    <3>1. \A q \in LivePages(heap') : q \in LivePages(heap)
                                        /\ heap'.page[q].len = heap.page[q].len
      BY <2>2 DEF Patched, LivePages
    <3> QED BY <3>1, FilledStill DEF FillInv
  <2> QED BY <1>1, <2>1, <2>2
<1>3. call \in CallType /\ fault = "none" /\ call.fn \in {"overwrite_data", "overwrite_buffer"}
  BY InLoop DEF OverwriteDataStep, OverwriteBufferStep
<1>4. call'.fn = call.fn /\ fault' # "freed_linked"
  <2>1. CASE LeaveLoop
    BY <2>1, <1>3, ReturnedFn DEF LeaveLoop
  <2>2. CASE Fault("oob")
    BY <2>2 DEF Fault
  <2>3. CASE OverwriteDataStep /\ ~LeaveLoop
    <3>1. fault' = fault /\ \E n, y : \/ call' = [call EXCEPT !.pc = "ret"]
                                      \/ call' = [Progress(call, n) EXCEPT !.it = y]
      BY <2>3 DEF OverwriteDataStep
    <3> QED BY <3>1, <1>3 DEF CallType, Progress
  <2>4. CASE OverwriteBufferStep /\ ~LeaveLoop /\ ~Fault("oob")
    <3>1. PICK h, n : /\ fault' = fault
                      /\ \/ call' = [call EXCEPT !.pc = "ret"]
                         \/ call' = AfterOverwrite(call, h, n)
      BY <2>4 DEF OverwriteBufferStep
    <3>2. AfterOverwrite(call, h, n).fn = call.fn /\ [call EXCEPT !.pc = "ret"].fn = call.fn
      BY <1>3, ReturnedFn, AfterOverwriteFn
    <3> QED BY <3>1, <3>2, <1>3
  <2> QED BY <2>1, <2>2, <2>3, <2>4
<1> QED BY <1>2, <1>3, <1>4, NoInsertFits DEF Inserting

\* The pages, and whether there is a fault, are as they were, and an insertion that
\* goes on or begins fits.
LEMMA QuietFits ==
    ASSUME FillInv, heap'.page = heap.page, fault' = fault,
           call'.pc = "loop" => InsertFits(heap, call)' /\ SourceFits(heap, call)'
    PROVE  FillInv'
  BY DEF FillInv, Filled, LivePages

\* A call is entered at the head of a page, or at an offset the client may give.
LEMMA EnteredFits ==
    ASSUME IInv, IInv', FillInv, heap'.page = heap.page, fault' = fault, call'.soff = 0,
           call'.fn \in Inserting =>
              \/ call'.off = 0
              \/ /\ call'.fn \notin {"extend", "rewind"} /\ UNCHANGED heap
                 /\ \E b \in Buffers : Position(b, call'.it, call'.off) /\ NoSplitAtEnd
    PROVE  FillInv'
<1>1. Filled(heap') /\ HeapOK(heap') /\ CallOK(heap', call') /\ call' \in CallType
  BY DEF FillInv, Filled, LivePages, IInv
<1>2. call'.pc = "loop" => SourceFits(heap', call')
  BY <1>1, HeadFits
<1>3. InsertFits(heap', call')
  <2>1. ASSUME NEW b \in Buffers, NEW x, NEW off \in Nat, Position(b, x, off), NoSplitAtEnd
        PROVE  off = 0 \/ off < NodeLen(heap, x)
    <3>1. NodeLen(heap, x) \in Nat
      BY NodeLenType DEF IInv
    <3> QED BY <2>1, <3>1 DEF Position, NoSplitAtEnd
  <2>2. call'.off \in Nat
    BY <1>1 DEF CallType
  <2> QED BY <2>1, <2>2 DEF InsertFits
<1> QED BY <1>2, <1>3, QuietFits DEF InsertFits, SourceFits

NoOffsets(c) == c.off = 0 /\ c.soff = 0

LEMMA ClientKeepsFilled ==
    ASSUME IInv, IInv', FillInv, Client, NoSplitAtEnd
    PROVE  FillInv'
<1>1. heap'.page = heap.page
  BY ClientIsQuiet
<1>2. ASSUME NEW c, NoOffsets(c), Start(c)
      PROVE  FillInv'
  BY <1>1, <1>2, EnteredFits DEF Start, NoOffsets
<1>3. ASSUME NEW b, NEW n, NEW fn
      PROVE  /\ \A it : NoOffsets([Enter(fn, b, n) EXCEPT !.it = it])
             /\ \A it, dat : NoOffsets([Enter(fn, b, n) EXCEPT !.it = it, !.dat = dat])
             /\ \A it, src, sit :
                   NoOffsets([Enter(fn, b, n) EXCEPT !.it = it, !.src = src, !.sit = sit])
  BY DEF Enter, Idle, NoOffsets
<1>4. ASSUME NEW b, NEW n, Extend(b, n) \/ Reserve(b, n) \/ Rewind(b, n) PROVE FillInv'
  BY <1>2, <1>3, <1>4 DEF Extend, Reserve, Rewind
<1>5. ASSUME NEW b, NEW n, Seek(b, n) \/ Trim(b, n) \/ ReadData(b, n) PROVE FillInv'
  BY <1>2, <1>3, <1>5 DEF Seek, Trim, ReadData
<1>6. ASSUME NEW b, NEW src, NEW n, WriteBuffer(b, src, n) \/ OverwriteBuffer(b, src, n)
      PROVE  FillInv'
  BY <1>2, <1>3, <1>6 DEF WriteBuffer, OverwriteBuffer
<1>7. ASSUME NEW b, NEW fn, NEW s, OverwriteData(b, s) \/ WriteData(b, fn, s) PROVE FillInv'
  <2>1. CASE OverwriteData(b, s)
    BY <1>2, <1>3, <2>1 DEF OverwriteData
  <2>2. CASE WriteData(b, fn, s)
    BY <1>2, <1>3, <2>2 DEF WriteData
  <2> QED BY <1>7, <2>1, <2>2
<1>8. ASSUME NEW b \in Buffers, NEW x, NEW off, NEW src, NEW n, InsertBuffer(b, x, off, src, n)
      PROVE  FillInv'
  <2>1. /\ call'.fn = "insert_buffer" /\ call'.it = x /\ call'.off = off /\ call'.soff = 0
        /\ Position(b, x, off) /\ UNCHANGED << heap, fault >>
    BY <1>8 DEF InsertBuffer, Start, Enter, Idle
  <2> QED BY <2>1, <1>1, EnteredFits
<1>9. ASSUME NEW b \in Buffers, NEW x, NEW off, NEW fn \in {"insert_data", "insert_data_ref"},
             NEW s, InsertData(b, x, off, fn, s)
      PROVE  FillInv'
  <2>1. /\ call'.fn = fn /\ call'.it = x /\ call'.off = off /\ call'.soff = 0
        /\ Position(b, x, off) /\ UNCHANGED << heap, fault >>
    BY <1>9 DEF InsertData, Start, Enter, Idle
  <2> QED BY <2>1, <1>1, EnteredFits
<1>10. ASSUME NEW b, NEW fn \in {"clear", "destroy"}, Clear(b, fn) PROVE FillInv'
  <2>1. /\ call'.fn = fn /\ call'.soff = 0 /\ fault' = fault
    BY <1>10 DEF Clear, Enter, Idle
  <2> QED BY <2>1, <1>1, EnteredFits DEF Inserting
<1>11. ASSUME NEW b, Create(b) PROVE FillInv'
  <2>1. call' = Idle /\ fault' = fault
    BY <1>11 DEF Create
  <2> QED BY <2>1, <1>1, EnteredFits DEF Inserting, Idle
<1>12. PICK b \in Buffers :
          \/ Create(b)
          \/ \E n \in 1..MaxLen :
                \/ Extend(b, n) \/ Reserve(b, n) \/ Rewind(b, n)
                \/ Seek(b, n) \/ Trim(b, n) \/ ReadData(b, n)
                \/ \E src \in Buffers :
                      \/ WriteBuffer(b, src, n)
                      \/ OverwriteBuffer(b, src, n)
                      \/ \E x \in PageIds \cup {b}, off \in 0..MaxSize :
                            InsertBuffer(b, x, off, src, n)
          \/ \E s \in Inputs :
                \/ OverwriteData(b, s)
                \/ \E fn \in {"write_data", "write_data_ref"} : WriteData(b, fn, s)
                \/ \E x \in PageIds \cup {b}, off \in 0..MaxSize,
                      fn \in {"insert_data", "insert_data_ref"} :
                      InsertData(b, x, off, fn, s)
          \/ \E fn \in {"clear", "destroy"} : Clear(b, fn)
  BY DEF Client
<1> QED BY <1>4, <1>5, <1>6, <1>7, <1>8, <1>9, <1>10, <1>11, <1>12

LEMMA StepKeepsFilled ==
    ASSUME CountSuffices, IInv, IInv', FillInv, NoSplitAtEnd, [Next]_vars
    PROVE  FillInv'
<1>1. CASE Client
  BY <1>1, ClientKeepsFilled
<1>2. CASE Return
  <2>1. call' = Idle /\ fault' = fault
    BY <1>2 DEF Return
  <2> QED BY <2>1, <1>2, ReturnIsQuiet, QuietFits DEF Idle
<1>3. CASE UNCHANGED vars
  BY <1>3 DEF vars, FillInv, Filled, InsertFits, SourceFits
<1>4. CASE ReadDataStep
  <2>1. call \in CallType /\ call.fn = "read_data" /\ UNCHANGED << heap, fault >>
    BY <1>4, InLoop DEF ReadDataStep
  <2>2. call'.fn = call.fn
    BY <2>1, <1>4 DEF ReadDataStep, Progress, CallType
  <2> QED BY <2>1, <2>2, NoInsertFits DEF FillInv, Inserting
<1>5. CASE ExtendStep \/ RewindStep \/ InsertDataStep \/ InsertBufferStep
  <2>1. CASE LeaveLoop
    <3>1. call'.pc = "ret" /\ UNCHANGED << heap, fault >>
      BY <2>1 DEF LeaveLoop, IInv, CallType
    <3> QED BY <3>1, QuietFits
  <2>2. CASE Fault("oob")
    BY <2>2 DEF Fault, FillInv, Filled, InsertFits, SourceFits
  <2>3. ASSUME NEW h, NEW p, NEW n, NEW x, Inserts(h, p, n, x)
        PROVE  FillInv'
    <3>1. fault = "none"
      BY <1>5 DEF ExtendStep, RewindStep, InsertDataStep, InsertBufferStep, In
    <3> QED BY <2>3, <3>1, InsertKeepsFilled
  <2> QED BY <2>1, <2>2, <2>3, <1>5, InsertingStep
<1>6. CASE SeekStep \/ TrimStep
  BY <1>6, CuttingStep, CutKeepsFilled
<1>7. CASE ClearStep
  BY <1>7, ClearKeepsFilled
<1>8. CASE OverwriteDataStep \/ OverwriteBufferStep
  BY <1>8, OverwriteKeepsFilled
<1> QED BY <1>1, <1>2, <1>3, <1>4, <1>5, <1>6, <1>7, <1>8 DEF Next, Library

THEOREM FillInvariant ==
    ASSUME CountSuffices, NoSelfSource, NoSplitAtEnd
    PROVE  Spec => []FillInv
<1>1. Init => FillInv
  BY DEF Init, FillInv, Filled, LivePages, EmptyHeap, NoPage, Idle
<1>2. IInv /\ IInv' /\ FillInv /\ [Next]_vars => FillInv'
  BY StepKeepsFilled
<1> QED BY <1>1, <1>2, InductiveInvariant, PTL DEF Spec

\* No call leaves a page of length zero in a list: every split leaves bytes on both
\* sides, and seek and trim free the pages they empty.
THEOREM PagesNeverEmpty ==
    ASSUME CountSuffices, NoSelfSource, NoSplitAtEnd
    PROVE  Spec => []NoEmptyPages
<1>1. FillInv => NoEmptyPages
  BY DEF FillInv, Filled, NoEmptyPages
<1> QED BY <1>1, FillInvariant, PTL

-----------------------------------------------------------------------------
(* overwrite_buffer.                                                       *)

\* ps and qs enumerate the lists of b and src, x and y are the k-th nodes of them,
\* and from there on the lists are cut at the same places.
CutAlike(h, b, src, N, ps, acc, M, qs, bcc, k, x, y) ==
    /\ Enumerates(h, b, N, ps, acc) /\ Enumerates(h, src, M, qs, bcc)
    /\ k \in Nat /\ k # 0 /\ k <= N + 1 /\ k <= M + 1 /\ x = ps[k] /\ y = qs[k]
    /\ \A i \in k..N : i <= M => h.page[ps[i]].len = h.page[qs[i]].len

Twins(h, b, src, x, y) ==
    \E N, ps, acc, M, qs, bcc, k : CutAlike(h, b, src, N, ps, acc, M, qs, bcc, k, x, y)

\* Both iterators are at the head of a page, and what is left fits into the two
\* pages or meets the same page boundaries on both sides.
InStep(h, c) ==
    c.fn = "overwrite_buffer" =>
        \/ c.len = 0
        \/ /\ c.off = 0 /\ c.soff = 0
           /\ \/ c.len <= NodeLen(h, c.it) /\ c.len <= NodeLen(h, c.sit)
              \/ Twins(h, c.buf, c.src, c.it, c.sit)

FaultInv ==
    /\ fault = "none"
    /\ call.pc = "loop" => InStep(heap, call)

NoMisaligned == "misaligned" \notin Usage

LEMMA TwinsNext ==
    ASSUME NEW h, HeapOK(h), NEW b \in Buffers, NEW src \in Buffers, NEW x, NEW y,
           Twins(h, b, src, x, y), x # b, y # src
    PROVE  /\ NodeLen(h, x) = NodeLen(h, y)
           /\ Twins(h, b, src, h.nxt[x], h.nxt[y])
<1>0. PICK N, ps, acc, M, qs, bcc, k : CutAlike(h, b, src, N, ps, acc, M, qs, bcc, k, x, y)
  BY DEF Twins
<1>1. /\ Enumerates(h, b, N, ps, acc) /\ Enumerates(h, src, M, qs, bcc)
      /\ k \in Nat /\ k # 0 /\ k <= N + 1 /\ k <= M + 1 /\ x = ps[k] /\ y = qs[k]
      /\ \A i \in k..N : i <= M => h.page[ps[i]].len = h.page[qs[i]].len
  BY <1>0 DEF CutAlike
<1>2. /\ N \in Nat /\ M \in Nat /\ ps[N + 1] = b /\ qs[M + 1] = src
  BY <1>1 DEF Enumerates
<1>3. k <= N /\ k <= M
  BY <1>1, <1>2
<1>4. k \in 0..N /\ k \in 0..M /\ k \in k..N
  BY <1>1, <1>2, <1>3
<1>5. x \in Mine(h, b) /\ y \in Mine(h, src)
  BY <1>1, <1>4, EnumNode
<1>6. NodeLen(h, x) = NodeLen(h, y)
  <2>1. x \in PageIds /\ y \in PageIds
    BY <1>5, MineFacts
  <2> QED BY <2>1, <1>1, <1>3, <1>4 DEF NodeLen
<1>7. h.nxt[x] = ps[k + 1] /\ h.nxt[y] = qs[k + 1]
  BY <1>1, <1>4, EnumNext
<1>8. k + 1 \in Nat /\ k + 1 # 0 /\ k + 1 <= N + 1 /\ k + 1 <= M + 1 /\ (k + 1)..N \subseteq k..N
  BY <1>1, <1>2, <1>3
<1>9. Twins(h, b, src, h.nxt[x], h.nxt[y])
  <2>1. \A i \in (k + 1)..N : i <= M => h.page[ps[i]].len = h.page[qs[i]].len
    BY <1>1, <1>8
  <2> DEFINE j == k + 1
  <2>2. /\ j \in Nat /\ j # 0 /\ j <= N + 1 /\ j <= M + 1
        /\ h.nxt[x] = ps[j] /\ h.nxt[y] = qs[j]
        /\ \A i \in j..N : i <= M => h.page[ps[i]].len = h.page[qs[i]].len
    BY <2>1, <1>7, <1>8
  <2> HIDE DEF j
  <2>3. CutAlike(h, b, src, N, ps, acc, M, qs, bcc, j, h.nxt[x], h.nxt[y])
    BY <2>2, <1>1 DEF CutAlike
  <2> QED BY <2>3 DEF Twins
<1> QED BY <1>6, <1>9

LEMMA TwinsSame ==
    ASSUME NEW h, NEW g, NEW b \in Buffers, NEW src \in Buffers, NEW x, NEW y,
           Twins(h, b, src, x, y), Patched(g, h)
    PROVE  Twins(g, b, src, x, y)
<1>0. PICK N, ps, acc, M, qs, bcc, k : CutAlike(h, b, src, N, ps, acc, M, qs, bcc, k, x, y)
  BY DEF Twins
<1>1. /\ Enumerates(h, b, N, ps, acc) /\ Enumerates(h, src, M, qs, bcc)
      /\ k \in Nat /\ k # 0 /\ k <= N + 1 /\ k <= M + 1 /\ x = ps[k] /\ y = qs[k]
      /\ \A i \in k..N : i <= M => h.page[ps[i]].len = h.page[qs[i]].len
  BY <1>0 DEF CutAlike
<1>2. ASSUME NEW c \in Buffers
      PROVE  /\ Mine(g, c) = Mine(h, c)
             /\ \A p \in Mine(h, c) : g.page[p].len = h.page[p].len
             /\ \A n \in Mine(h, c) \cup {c} : g.nxt[n] = h.nxt[n]
  BY DEF Patched, Mine, LivePages
<1>3. Enumerates(g, b, N, ps, acc)
  BY <1>1, <1>2, EnumSame
<1>4. Enumerates(g, src, M, qs, bcc)
  BY <1>1, <1>2, EnumSame
<1>5. ASSUME NEW i \in k..N, i <= M PROVE g.page[ps[i]].len = g.page[qs[i]].len
  <2>1. i \in 0..N /\ i \in 0..M /\ i # 0
    BY <1>1, <1>5 DEF Enumerates
  <2>2. ps[i] \in Mine(h, b) /\ qs[i] \in Mine(h, src)
    BY <2>1, <1>1, EnumNode
  <2> QED BY <2>2, <1>1, <1>2, <1>5
<1>6. CutAlike(g, b, src, N, ps, acc, M, qs, bcc, k, x, y)
  BY <1>1, <1>3, <1>4, <1>5 DEF CutAlike
<1> QED BY <1>6 DEF Twins

\* The lists Aligned compares page by page.
LEMMA AlignedTwins ==
    ASSUME IInv, ListInv, NEW b \in Buffers, NEW src \in Buffers, Exists(heap, b),
           Exists(heap, src), NEW ps, ps = PagesOf(heap, b), NEW qs, qs = PagesOf(heap, src),
           \A i \in 1..Lower(Len(ps), Len(qs)) : NodeLen(heap, ps[i]) = NodeLen(heap, qs[i])
    PROVE  Twins(heap, b, src, heap.nxt[b], heap.nxt[src])
<1>1. PICK N, us, acc : Enumerates(heap, b, N, us, acc)
  BY DEF ListInv, SizesMatch, Chain
<1>2. PICK M, vs, bcc : Enumerates(heap, src, M, vs, bcc)
  BY DEF ListInv, SizesMatch, Chain
<1>3. N \in Nat /\ M \in Nat /\ us[0] = b /\ vs[0] = src /\ 0 \in 0..N /\ 0 \in 0..M
  BY <1>1, <1>2 DEF Enumerates
<1>4. heap.nxt[b] = us[1] /\ heap.nxt[src] = vs[1]
  <2>1. heap.nxt[us[0]] = us[0 + 1] /\ heap.nxt[vs[0]] = vs[0 + 1]
    BY <1>1, <1>2, <1>3, EnumNext
  <2> QED BY <2>1, <1>3
<1>5. ps = [i \in 1..N |-> us[i]] /\ qs = [i \in 1..M |-> vs[i]]
  BY <1>1, <1>2, WalkFindsPages
<1>6. Len(ps) = N /\ Len(qs) = M
  BY <1>3, <1>5
<1>7. ASSUME NEW i \in 1..N, i <= M PROVE heap.page[us[i]].len = heap.page[vs[i]].len
  <2>1. i \in 1..M /\ i \in 1..Lower(Len(ps), Len(qs)) /\ i \in 0..N /\ i \in 0..M /\ i # 0
    BY <1>3, <1>6, <1>7 DEF Lower
  <2>2. ps[i] = us[i] /\ qs[i] = vs[i]
    BY <2>1, <1>5
  <2>3. us[i] \in PageIds /\ vs[i] \in PageIds
    BY <2>1, <1>1, <1>2, EnumNode, MineFacts
  <2>4. NodeLen(heap, us[i]) = NodeLen(heap, vs[i])
    BY <2>1, <2>2
  <2> QED BY <2>3, <2>4 DEF NodeLen
<1>8. 1 \in Nat /\ 1 # 0 /\ 1 <= N + 1 /\ 1 <= M + 1
  BY <1>3
<1>9. CutAlike(heap, b, src, N, us, acc, M, vs, bcc, 1, heap.nxt[b], heap.nxt[src])
  BY <1>1, <1>2, <1>4, <1>7, <1>8 DEF CutAlike
<1> QED BY <1>9 DEF Twins

LEMMA AfterOverwriteFields ==
    ASSUME NEW c \in CallType, NEW h, NEW n \in Nat, NEW d, d = AfterOverwrite(c, h, n)
    PROVE  /\ d.fn = c.fn /\ d.buf = c.buf /\ d.src = c.src /\ d.len = c.len - n
           /\ c.off + n = NodeLen(h, c.it) => d.it = h.nxt[c.it] /\ d.off = 0
           /\ c.soff + n = NodeLen(h, c.sit) => d.sit = h.nxt[c.sit] /\ d.soff = 0
  BY DEF CallType, AfterOverwrite, Progress

\* An iteration of overwrite_buffer stays inside both pages and in step.
LEMMA OverwriteInStep ==
    ASSUME IInv, FaultInv, OverwriteBufferStep
    PROVE  FaultInv'
<1> DEFINE p == call.it
           src == call.sit
           h == Writable(p)
           n == Lower(Lower(NodeLen(h, p), call.len), NodeLen(h, src))
<1>1. In("overwrite_buffer")
  BY DEF OverwriteBufferStep
<1>2. /\ call.fn = "overwrite_buffer" /\ call.pc = "loop" /\ HeapOK(heap)
      /\ call.buf \in Buffers /\ call \in CallType /\ fault = "none"
      /\ Inside(heap, p, call.buf) /\ call.len \in Nat /\ call.len > 0 /\ p # call.buf
      /\ src # call.src
  BY <1>1, InLoop DEF In, LoopGoesOn
<1>3. /\ p \in LivePages(heap) /\ p \in PageIds /\ src \in LivePages(heap) /\ src \in PageIds
      /\ call.src \in Buffers
  BY <1>2, InsideIsPage, AtSourcePage
<1>4. /\ call.off = 0 /\ call.soff = 0
      /\ \/ call.len <= NodeLen(heap, p) /\ call.len <= NodeLen(heap, src)
         \/ Twins(heap, call.buf, call.src, p, src)
  BY <1>2 DEF FaultInv, InStep
<1>5. CASE LeaveLoop
  <2>1. call'.pc = "ret" /\ fault' = fault
    BY <1>5, <1>2 DEF LeaveLoop, CallType
  <2> QED BY <2>1, <1>2 DEF FaultInv
<1>6. CASE CanWrite(p) /\ ~LeaveLoop
  <2>1. HeapOK(h) /\ Duplicated(h, heap, p)
    BY <1>3, <1>6, WritableOK DEF Duplicated
  <2>2. /\ p \in LivePages(h) /\ src \in LivePages(h) /\ h.nxt = heap.nxt
        /\ NodeLen(h, p) = NodeLen(heap, p) /\ NodeLen(h, src) = NodeLen(heap, src)
    BY <2>1, <1>3 DEF Duplicated, SamePagesBut, LivePages, NodeLen
  <2>3. NodeLen(heap, p) \in Nat /\ NodeLen(heap, src) \in Nat
    BY <1>2, NodeLenType
  <2>4. n \in Nat /\ n <= NodeLen(h, p) /\ n <= NodeLen(h, src) /\ n <= call.len
        /\ n \in {NodeLen(h, p), NodeLen(h, src), call.len}
    <3> HIDE DEF h, p, src
    <3> QED BY <2>2, <2>3, <1>2 DEF Lower
  <2> HIDE DEF h, n
  <2>5. InBounds(h, p, 0, n) /\ InBounds(h, src, 0, n)
    BY <2>1, <2>2, <2>4, WithinPage
  <2>6. /\ heap' = PageWrite(h, p, 0, PageBytes(h, src, 0, n)) /\ fault' = fault
        /\ call' = IF n = 0 THEN [call EXCEPT !.pc = "ret"] ELSE AfterOverwrite(call, h, n)
    BY <2>5, <1>4, <1>6 DEF OverwriteBufferStep, h, n
  <2>7. CASE n = 0
    <3>1. call'.pc = "ret"
      BY <2>6, <2>7, <1>2 DEF CallType
    <3> QED BY <3>1, <2>6, <1>2 DEF FaultInv
  <2>8. CASE n # 0
    <3>1. /\ call'.fn = call.fn /\ call'.buf = call.buf /\ call'.src = call.src
          /\ call'.len = call.len - n
          /\ n = NodeLen(h, p) => call'.it = h.nxt[p] /\ call'.off = 0
          /\ n = NodeLen(h, src) => call'.sit = h.nxt[src] /\ call'.soff = 0
      <4>1. 0 + n = n
        BY <2>4
      <4> QED BY <4>1, <2>4, <2>6, <2>8, <1>2, <1>4, AfterOverwriteFields
    <3>2. CASE n = call.len
      <4>1. call'.len = 0
        BY <3>1, <3>2, <1>2
      <4> QED BY <4>1, <2>6, <1>2 DEF FaultInv, InStep
    <3>3. CASE n # call.len
      <4>1. Twins(heap, call.buf, call.src, p, src)
        <5>1. ~(call.len <= NodeLen(heap, p) /\ call.len <= NodeLen(heap, src))
          BY <3>3, <2>2, <2>3, <2>4, <1>2
        <5> QED BY <5>1, <1>4
      <4>2. /\ NodeLen(heap, p) = NodeLen(heap, src)
            /\ Twins(heap, call.buf, call.src, heap.nxt[p], heap.nxt[src])
        BY <4>1, <1>2, <1>3, TwinsNext
      <4>3. n = NodeLen(h, p) /\ n = NodeLen(h, src)
        BY <4>2, <3>3, <2>2, <2>4
      <4>4. Patched(heap', heap)
        <5>1. ~UNCHANGED heap => Patched(heap', heap)
          BY OverwriteBufferPatches
        <5>2. PageBytes(h, src, 0, n) \in Seq(Byte)
          <6>1. h.page[src].data \in DataIds /\ h \in Heap
            BY <2>1, <2>2 DEF HeapOK, Shown, LivePages
          <6> QED BY <6>1, <2>4, <2>5, <1>3, PageBytesType
        <5> QED BY <5>2, <2>1, <2>6, <1>3, WrittenOK
      <4>5. Twins(heap', call.buf, call.src, heap.nxt[p], heap.nxt[src])
        BY <4>2, <4>4, <1>2, <1>3, TwinsSame
      <4>6. /\ call'.it = heap.nxt[p] /\ call'.off = 0
            /\ call'.sit = heap.nxt[src] /\ call'.soff = 0
        BY <4>3, <3>1, <2>2
      <4>7. InStep(heap', call')
        BY <4>5, <4>6, <3>1 DEF InStep
      <4> QED BY <4>7, <2>6, <1>2 DEF FaultInv, InStep
    <3> QED BY <3>2, <3>3
  <2> QED BY <2>7, <2>8
<1> QED BY <1>5, <1>6 DEF OverwriteBufferStep

\* A step of another function that is not the one with a fault.
LEMMA ElsewhereInStep ==
    ASSUME fault' = "none", call'.pc # "loop" \/ call'.fn # "overwrite_buffer"
    PROVE  FaultInv'
  BY DEF FaultInv, InStep

\* Entering overwrite_buffer.
LEMMA OverwriteBegins ==
    ASSUME IInv, ListInv, FaultInv, NoMisaligned, NEW b \in Buffers, NEW src \in Buffers, NEW n,
           OverwriteBuffer(b, src, n)
    PROVE  FaultInv'
<1>1. /\ call' = [Enter("overwrite_buffer", b, n) EXCEPT
                    !.it = heap.nxt[b], !.src = src, !.sit = heap.nxt[src]]
      /\ UNCHANGED << heap, fault >> /\ Exists(heap, b) /\ Exists(heap, src)
      /\ Aligned(b, src, n)
  BY DEF OverwriteBuffer, Start, Ready, Source, NoMisaligned
<1>2. /\ call'.fn = "overwrite_buffer" /\ call'.buf = b /\ call'.src = src /\ call'.len = n
      /\ call'.it = heap.nxt[b] /\ call'.sit = heap.nxt[src]
      /\ call'.off = 0 /\ call'.soff = 0
  BY <1>1 DEF Enter, Idle
<1>3. \/ n <= NodeLen(heap, heap.nxt[b]) /\ n <= NodeLen(heap, heap.nxt[src])
      \/ Twins(heap, b, src, heap.nxt[b], heap.nxt[src])
  <2> DEFINE ps == PagesOf(heap, b)
             qs == PagesOf(heap, src)
  <2>1. \/ n <= NodeLen(heap, heap.nxt[b]) /\ n <= NodeLen(heap, heap.nxt[src])
        \/ \A i \in 1..Lower(Len(ps), Len(qs)) : NodeLen(heap, ps[i]) = NodeLen(heap, qs[i])
    BY <1>1 DEF Aligned
  <2> HIDE DEF ps, qs
  <2> QED BY <2>1, <1>1, AlignedTwins DEF ps, qs
<1>4. InStep(heap', call')
  BY <1>1, <1>2, <1>3 DEF InStep
<1> QED BY <1>1, <1>4 DEF FaultInv, InStep

Elsewhere(c) == c.fn # "overwrite_buffer"

LEMMA ClientInStep ==
    ASSUME IInv, ListInv, FaultInv, NoMisaligned, Client
    PROVE  FaultInv'
<1>1. fault = "none"
  BY DEF FaultInv
<1>2. ASSUME NEW c, Elsewhere(c), Start(c)
      PROVE  FaultInv'
  BY <1>1, <1>2, ElsewhereInStep DEF Start, Elsewhere
<1>3. ASSUME NEW b, NEW n, NEW fn, fn # "overwrite_buffer"
      PROVE  /\ \A it : Elsewhere([Enter(fn, b, n) EXCEPT !.it = it])
             /\ \A it, dat : Elsewhere([Enter(fn, b, n) EXCEPT !.it = it, !.dat = dat])
             /\ \A it, off, dat :
                   Elsewhere([Enter(fn, b, n) EXCEPT !.it = it, !.off = off, !.dat = dat])
             /\ \A it, src, sit :
                   Elsewhere([Enter(fn, b, n) EXCEPT !.it = it, !.src = src, !.sit = sit])
             /\ \A it, off, src, sit :
                   Elsewhere([Enter(fn, b, n) EXCEPT !.it = it, !.off = off, !.src = src,
                                                     !.sit = sit])
  BY <1>3 DEF Enter, Idle, Elsewhere
<1>4. ASSUME NEW b, NEW n, Extend(b, n) \/ Reserve(b, n) \/ Rewind(b, n) PROVE FaultInv'
  BY <1>2, <1>3, <1>4 DEF Extend, Reserve, Rewind
<1>5. ASSUME NEW b, NEW n, Seek(b, n) \/ Trim(b, n) \/ ReadData(b, n) PROVE FaultInv'
  BY <1>2, <1>3, <1>5 DEF Seek, Trim, ReadData
<1>6. ASSUME NEW b, NEW src, NEW n, WriteBuffer(b, src, n) PROVE FaultInv'
  BY <1>2, <1>3, <1>6 DEF WriteBuffer
<1>7. ASSUME NEW b, NEW s, OverwriteData(b, s) PROVE FaultInv'
  BY <1>2, <1>3, <1>7 DEF OverwriteData
<1>8. ASSUME NEW b, NEW fn, NEW s, WriteData(b, fn, s) PROVE FaultInv'
  <2> DEFINE f == IF fn = "write_data" THEN "insert_data" ELSE "insert_data_ref"
  <2>1. f # "overwrite_buffer"
    OBVIOUS
  <2>2. Start([Enter(f, b, Len(s)) EXCEPT !.it = b, !.dat = s])
    BY <1>8 DEF WriteData
  <2> HIDE DEF f
  <2> QED BY <2>1, <2>2, <1>2, <1>3
<1>9. ASSUME NEW b, NEW x, NEW off, NEW src, NEW n, InsertBuffer(b, x, off, src, n)
      PROVE  FaultInv'
  BY <1>2, <1>3, <1>9 DEF InsertBuffer
<1>10. ASSUME NEW b, NEW x, NEW off, NEW fn \in {"insert_data", "insert_data_ref"}, NEW s,
              InsertData(b, x, off, fn, s)
       PROVE  FaultInv'
  BY <1>2, <1>3, <1>10 DEF InsertData
<1>11. ASSUME NEW b, NEW fn \in {"clear", "destroy"}, Clear(b, fn) PROVE FaultInv'
  <2>1. call'.fn = fn /\ fault' = fault
    BY <1>11 DEF Clear, Enter, Idle
  <2> QED BY <2>1, <1>1, ElsewhereInStep
<1>12. ASSUME NEW b, Create(b) PROVE FaultInv'
  <2>1. call' = Idle /\ fault' = fault
    BY <1>12 DEF Create
  <2> QED BY <2>1, <1>1, ElsewhereInStep DEF Idle
<1>13. PICK b \in Buffers :
          \/ Create(b)
          \/ \E n \in 1..MaxLen :
                \/ Extend(b, n) \/ Reserve(b, n) \/ Rewind(b, n)
                \/ Seek(b, n) \/ Trim(b, n) \/ ReadData(b, n)
                \/ \E src \in Buffers :
                      \/ WriteBuffer(b, src, n)
                      \/ OverwriteBuffer(b, src, n)
                      \/ \E x \in PageIds \cup {b}, off \in 0..MaxSize :
                            InsertBuffer(b, x, off, src, n)
          \/ \E s \in Inputs :
                \/ OverwriteData(b, s)
                \/ \E fn \in {"write_data", "write_data_ref"} : WriteData(b, fn, s)
                \/ \E x \in PageIds \cup {b}, off \in 0..MaxSize,
                      fn \in {"insert_data", "insert_data_ref"} :
                      InsertData(b, x, off, fn, s)
          \/ \E fn \in {"clear", "destroy"} : Clear(b, fn)
  BY DEF Client
<1> QED BY <1>4, <1>5, <1>6, <1>7, <1>8, <1>9, <1>10, <1>11, <1>12, <1>13, OverwriteBegins

LEMMA StepInStep ==
    ASSUME CountSuffices, IInv, ListInv, FillInv, FillInv', FaultInv, NoMisaligned, [Next]_vars
    PROVE  FaultInv'
<1>0. fault = "none" /\ fault' # "freed_linked" /\ call \in CallType
  BY DEF FaultInv, FillInv, IInv
<1>1. CASE Client
  BY <1>1, ClientInStep
<1>2. CASE Return
  <2>1. call' = Idle /\ fault' = fault
    BY <1>2 DEF Return
  <2> QED BY <2>1, <1>0, ElsewhereInStep DEF Idle
<1>3. CASE UNCHANGED vars
  BY <1>3 DEF vars, FaultInv, InStep
<1>4. CASE ReadDataStep
  <2>1. call.fn = "read_data" /\ fault' = fault
    BY <1>4, InLoop DEF ReadDataStep
  <2>2. call'.fn = call.fn
    BY <1>0, <1>4 DEF ReadDataStep, Progress, CallType
  <2> QED BY <2>1, <2>2, <1>0, ElsewhereInStep
<1>5. CASE ExtendStep \/ RewindStep \/ InsertDataStep \/ InsertBufferStep
  <2>1. call.fn \in Inserting
    BY <1>5 DEF ExtendStep, RewindStep, InsertDataStep, InsertBufferStep, In, Inserting
  <2>2. CASE LeaveLoop
    <3>1. call'.pc = "ret" /\ fault' = fault
      BY <2>2, <1>0 DEF LeaveLoop, CallType
    <3> QED BY <3>1, <1>0, ElsewhereInStep
  <2>3. ASSUME NEW h, NEW p, NEW n, NEW x, Inserts(h, p, n, x)
        PROVE  FaultInv'
    <3>1. \/ call' = [call EXCEPT !.pc = "ret"] /\ fault' = fault
          \/ /\ call' = [call EXCEPT !.pc = "ret"] \/ call' = AfterInsert(call, heap', n)
             /\ fault' \in {"freed_linked", fault}
      BY <2>3, InsertedPage
    <3>2. call'.fn = call.fn
      <4>1. AfterInsert(call, heap', n).fn = call.fn /\ [call EXCEPT !.pc = "ret"].fn = call.fn
        BY <1>0, ReturnedFn, AfterInsertFn
      <4> QED BY <4>1, <3>1
    <3> QED BY <2>1, <3>1, <3>2, <1>0, ElsewhereInStep DEF Inserting
  <2>4. CASE Fault("oob") /\ InsertBufferStep
    <3> DEFINE n == InsertLen(call)
    <3>1. In("insert_buffer")
      BY <2>4 DEF InsertBufferStep
    <3>2. InBounds(heap, call.sit, call.soff, n)
      BY <3>1, CopiesInBounds
    <3>3. SharePage(n) \/ MakePage(TRUE, PageBytes(heap, call.sit, call.soff, n), call.it)
      BY <2>4, <3>2 DEF InsertBufferStep
    <3>4. fault' \in {fault, "freed_linked"}
      <4> HIDE DEF n
      <4> QED BY <3>3 DEF SharePage, MakePage, InsertPage, LeaveLoop
    <3> QED BY <2>4, <3>4, <1>0 DEF Fault
  <2>5. CASE Fault("oob") /\ ~InsertBufferStep
    <3>1. ASSUME NEW owned, NEW m, NEW x, MakePage(owned, m, x)
          PROVE  fault' \in {fault, "freed_linked"}
      <4>1. CASE LeaveLoop
        BY <4>1 DEF LeaveLoop
      <4>2. ASSUME NEW h, NEW p, InsertPage(h, p, x) PROVE fault' \in {fault, "freed_linked"}
        BY <4>2 DEF InsertPage
      <4> QED BY <3>1, <4>1, <4>2 DEF MakePage
    <3>2. fault' \in {fault, "freed_linked"}
      BY <3>1, <2>5, <1>5 DEF ExtendStep, RewindStep, InsertDataStep
    <3> QED BY <2>5, <3>2, <1>0 DEF Fault
  <2> QED BY <2>2, <2>3, <2>4, <2>5, <1>5, InsertingStep
<1>6. CASE SeekStep \/ TrimStep
  <2>1. PICK g, n : Cuts(g, n)
    BY <1>6, CuttingStep
  <2>2. call.fn \in {"seek", "trim"} /\ call'.fn = call.fn /\ fault' = fault
    BY <2>1, <1>0 DEF Cuts, CallType, Progress
  <2> QED BY <2>2, <1>0, ElsewhereInStep
<1>7. CASE ClearStep
  <2>1. call.fn \in {"clear", "destroy"} /\ call'.fn = call.fn /\ fault' = fault
    BY <1>7, <1>0 DEF ClearStep, In, CallType
  <2> QED BY <2>1, <1>0, ElsewhereInStep
<1>8. CASE OverwriteDataStep
  <2>1. call.fn = "overwrite_data" /\ fault' = fault
    BY <1>8 DEF OverwriteDataStep, In, LeaveLoop
  <2>2. \E n, y : \/ call' = [call EXCEPT !.pc = "ret"]
                  \/ call' = [Progress(call, n) EXCEPT !.it = y]
    BY <1>8 DEF OverwriteDataStep, LeaveLoop
  <2>3. call'.fn = call.fn
    BY <2>2, <1>0 DEF CallType, Progress
  <2> QED BY <2>1, <2>3, <1>0, ElsewhereInStep
<1>9. CASE OverwriteBufferStep
  BY <1>9, OverwriteInStep
<1> QED BY <1>1, <1>2, <1>3, <1>4, <1>5, <1>6, <1>7, <1>8, <1>9 DEF Next, Library

\* Nothing undefined is executed: no loop reads or writes outside a region, and no
\* page is freed while it is in a list.
THEOREM NothingUndefined ==
    ASSUME CountSuffices, NoSelfSource, NoSplitAtEnd, NoMisaligned
    PROVE  Spec => []NoFault
<1>1. Init => FaultInv
  BY DEF Init, FaultInv, Idle
<1>2. IInv /\ ListInv /\ FillInv /\ FillInv' /\ FaultInv /\ [Next]_vars => FaultInv'
  BY StepInStep
<1>3. FaultInv => NoFault
  BY DEF FaultInv, NoFault
<1> QED
  BY <1>1, <1>2, <1>3, InductiveInvariant, ListsInvariant, FillInvariant, PTL DEF Spec

=============================================================================
