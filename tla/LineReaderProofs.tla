-------------------------- MODULE LineReaderProofs --------------------------
(***************************************************************************)
(* Theorems about LineReader: the byte iterators visit the bytes of a      *)
(* buffer in order, a search keeps its place whatever is appended, a line  *)
(* that was found is the line, and a search misses none.                   *)
(*                                                                         *)
(* The invariant says of a reader with the current revision that its byte  *)
(* iterator is behind as many bytes as buffer_offset says (Pos of          *)
(* ContentProofs), and of has_cr and has_line what they tell of the bytes  *)
(* around that place (LineOK).                                             *)
(***************************************************************************)
EXTENDS ContentProofs, LineReader

-----------------------------------------------------------------------------
(* Byte iterators.                                                         *)

\* Byte iterator i of buffer b is behind the first t bytes.
PosOf(h, b, i, t) == i \in ByteIterators /\ Pos(h, b, i.it, i.off, t)

LEMMA PosBack ==
    ASSUME NEW h, HeapOK(h), NEW b \in Buffers, NEW x, NEW off, NEW t, Pos(h, b, x, off, t),
           off > 0
    PROVE  Pos(h, b, x, off - 1, t - 1)
<1>1. PICK N, ps, acc, k : Enumerates(h, b, N, ps, acc) /\ PosIn(h, N, ps, acc, k, x, off, t)
  BY DEF Pos
<1>2. PosFacts(h, b, N, ps, acc, k, x, off, t)
  BY <1>1, PosInFacts
<1>3. k # N + 1 /\ k \in 1..N /\ off \in Nat /\ acc[k - 1] \in Nat /\ N \in Nat
  BY <1>2 DEF PosFacts
<1>4. h.page[x].len \in Nat /\ x = ps[k]
  BY <1>2, <1>3 DEF PosFacts
<1>5. PosIn(h, N, ps, acc, k, x, off - 1, t - 1)
  BY <1>1, <1>3, <1>4 DEF PosIn
<1> QED BY <1>1, <1>5 DEF Pos

\* In front of a byte, that byte is the current one, and the next place is behind it.
NextIs(h, b, i, t) ==
    /\ CurrentByte(h, i) = Content(h, b)[t + 1] /\ t + 1 <= Len(Content(h, b))
    /\ PosOf(h, b, NextByte(h, i), t + 1)

LEMMA ByteNext ==
    ASSUME NEW h, HeapOK(h), Filled(h), NEW b \in Buffers, NEW i, NEW t, PosOf(h, b, i, t),
           i.it # b
    PROVE  NextIs(h, b, i, t)
<1> DEFINE x == i.it
           l == h.page[i.it].len
<1>1. /\ t \in Nat /\ i.off \in Nat /\ i.off < l /\ l \in Nat /\ NodeLen(h, x) = l
      /\ x \in PageIds /\ Pos(h, b, x, i.off, t)
  BY PosWithin DEF PosOf
<1>2. PageBytes(h, x, i.off, 1)[1] = Content(h, b)[t + 1] /\ t + 1 <= Len(Content(h, b))
  <2>1. i.off + 1 <= l /\ 1 \in Nat /\ 1 \in 1..1
    BY <1>1
  <2>2. /\ t + 1 <= Len(Content(h, b))
        /\ \A j \in 1..1 : PageBytes(h, x, i.off, 1)[j] = Content(h, b)[t + j]
    BY <1>1, <2>1, PosBytes
  <2> QED BY <2>1, <2>2
<1>3. i = [it |-> x, off |-> i.off]
  BY DEF PosOf, ByteIterators
<1>4. CASE i.off + 1 >= l
  <2>1. NextByte(h, i) = [it |-> h.nxt[x], off |-> 0]
    BY <1>1, <1>4 DEF NextByte
  <2>2. h.nxt[x] \in Nodes \cup {NULL}
    BY <1>1 DEF HeapOK, Heap, Nodes
  <2>3. Pos(h, b, h.nxt[x], 0, t + (l - i.off))
    BY <1>1, PosNext
  <2>4. t + (l - i.off) = t + 1
    BY <1>1, <1>4
  <2>5. PosOf(h, b, NextByte(h, i), t + 1)
    BY <2>1, <2>2, <2>3, <2>4 DEF PosOf, ByteIterators
  <2> QED BY <1>2, <2>5 DEF NextIs, CurrentByte
<1>5. CASE ~(i.off + 1 >= l)
  <2>1. NextByte(h, i) = [it |-> x, off |-> i.off + 1]
    BY <1>1, <1>3, <1>5 DEF NextByte
  <2>2. Pos(h, b, x, i.off + 1, t + 1)
    BY <1>1, <1>5, PosStep
  <2>3. x \in Nodes \cup {NULL} /\ i.off + 1 \in Int
    BY <1>1 DEF Nodes
  <2>4. PosOf(h, b, NextByte(h, i), t + 1)
    BY <2>1, <2>2, <2>3 DEF PosOf, ByteIterators
  <2> QED BY <1>2, <2>4 DEF NextIs, CurrentByte
<1> QED BY <1>4, <1>5

\* Behind some bytes, the place before is in front of the last of them.
LEMMA BytePrev ==
    ASSUME NEW h, HeapOK(h), Filled(h), NEW b \in Buffers, NEW i, NEW t, PosOf(h, b, i, t),
           t > 0
    PROVE  PosOf(h, b, PrevByte(h, i), t - 1) /\ PrevByte(h, i).it # b
<1> DEFINE x == i.it
           y == h.prv[i.it]
<1>1. /\ t \in Nat /\ i.off \in Nat /\ Pos(h, b, x, i.off, t) /\ t # 0
      /\ (x = b => i.off = 0) /\ (x # b => x \in PageIds)
  BY PosWithin DEF PosOf
<1>2. i = [it |-> x, off |-> i.off]
  BY DEF PosOf, ByteIterators
<1>3. CASE i.off > 0
  <2>1. PrevByte(h, i) = [it |-> x, off |-> i.off - 1]
    BY <1>1, <1>2, <1>3 DEF PrevByte
  <2>2. Pos(h, b, x, i.off - 1, t - 1)
    BY <1>1, <1>3, PosBack
  <2>3. x # b /\ x \in Nodes \cup {NULL} /\ i.off - 1 \in Int
    BY <1>1, <1>3 DEF Nodes
  <2> QED BY <2>1, <2>2, <2>3 DEF PosOf, ByteIterators
<1>4. CASE ~(i.off > 0)
  <2>1. i.off = 0 /\ Pos(h, b, x, 0, t)
    BY <1>1, <1>4
  <2>2. y \in PageIds /\ Pos(h, b, y, NodeLen(h, y) - 1, t - 1) /\ y # b /\ NodeLen(h, y) \in Nat
    BY <2>1, <1>1, PosPrev
  <2>3. PrevByte(h, i) = [it |-> y, off |-> NodeLen(h, y) - 1]
    BY <2>1, <2>2 DEF PrevByte
  <2>4. y \in Nodes \cup {NULL} /\ NodeLen(h, y) - 1 \in Int
    BY <2>2 DEF Nodes
  <2> QED BY <2>2, <2>3, <2>4 DEF PosOf, ByteIterators
<1> QED BY <1>3, <1>4

\* In front of the first byte is the end iterator.
LEMMA BytePrevFirst ==
    ASSUME NEW h, HeapOK(h), Filled(h), NEW b \in Buffers, NEW i, PosOf(h, b, i, 0)
    PROVE  PrevByte(h, i).it = b
<1>1. i.off = 0
  <2>1. PICK N, ps, acc, k : /\ Enumerates(h, b, N, ps, acc)
                             /\ PosIn(h, N, ps, acc, k, i.it, i.off, 0)
    BY DEF PosOf, Pos
  <2>2. PosFacts(h, b, N, ps, acc, k, i.it, i.off, 0)
    BY <2>1, PosInFacts
  <2> QED BY <2>2 DEF PosFacts
<1>2. Pos(h, b, i.it, 0, 0)
  BY <1>1 DEF PosOf
<1>3. h.prv[i.it] \notin PageIds /\ h.prv[i.it] = b
  BY <1>2, PosPrev
<1> QED BY <1>1, <1>3 DEF PrevByte

LEMMA ByteFirst ==
    ASSUME NEW h, HeapOK(h), Filled(h), NEW b \in Buffers, Listed(h, b)
    PROVE  PosOf(h, b, FirstByte(h, b), 0)
<1>1. h.nxt[b] \in Nodes \cup {NULL}
  BY DEF HeapOK, Heap, Nodes
<1>2. Pos(h, b, h.nxt[b], 0, 0)
  BY PosFirst
<1> QED BY <1>1, <1>2 DEF PosOf, FirstByte, ByteIterators

LEMMA ByteEnd ==
    ASSUME NEW h, HeapOK(h), NEW b \in Buffers, Listed(h, b)
    PROVE  PosOf(h, b, EndByte(b), Len(Content(h, b)))
<1>1. Pos(h, b, b, 0, Len(Content(h, b)))
  BY PosEnd
<1> QED BY <1>1 DEF PosOf, EndByte, ByteIterators, Nodes

\* The end iterator is behind all bytes, and no other place is.
LEMMA AtEnd ==
    ASSUME NEW h, HeapOK(h), NEW b \in Buffers, NEW i, NEW t, PosOf(h, b, i, t)
    PROVE  /\ t \in Nat /\ t <= Len(Content(h, b)) /\ Content(h, b) \in Seq(Byte)
           /\ i.it = b <=> t = Len(Content(h, b))
<1>1. /\ t \in Nat /\ i.off \in Nat /\ Content(h, b) \in Seq(Byte) /\ t <= Len(Content(h, b))
      /\ i.it = b => t = Len(Content(h, b))
      /\ i.it # b => /\ i.off < h.page[i.it].len /\ h.page[i.it].len \in Nat
                     /\ t + (h.page[i.it].len - i.off) <= Len(Content(h, b))
  BY PosWithin DEF PosOf
<1>2. Len(Content(h, b)) \in Nat
  BY <1>1
<1>3. i.it # b => t # Len(Content(h, b))
  BY <1>1, <1>2
<1> QED BY <1>1, <1>3

-----------------------------------------------------------------------------
(* Walking.                                                                *)

\* The two walks of BytesInOrder over n bytes.
Forward(h, b, n, w) ==
    w = [k \in 0..n |-> IF k = 0 THEN FirstByte(h, b) ELSE NextByte(h, w[k - 1])]

Backward(h, b, n, w) ==
    w = [k \in 0..n |-> IF k = 0 THEN EndByte(b) ELSE PrevByte(h, w[k - 1])]

\* The iterators behind k bytes, and those that have k bytes behind them.
After(h, b, n) == [k \in 0..n |-> {i \in ByteIterators : PosOf(h, b, i, k)}]
Ahead(h, b, n) == [k \in 0..n |-> {i \in ByteIterators : PosOf(h, b, i, n - k)}]

LEMMA ForwardStep ==
    ASSUME NEW h, HeapOK(h), Filled(h), NEW b \in Buffers, Listed(h, b),
           NEW n, n = Len(Content(h, b))
    PROVE  /\ n \in Nat /\ FirstByte(h, b) \in After(h, b, n)[0]
           /\ \A k \in 1..n : \A i \in After(h, b, n)[k - 1] :
                 i \in ByteIterators /\ NextByte(h, i) \in After(h, b, n)[k]
<1>1. PosOf(h, b, FirstByte(h, b), 0)
  BY ByteFirst
<1>2. n \in Nat
  BY <1>1, AtEnd
<1>3. FirstByte(h, b) \in After(h, b, n)[0]
  BY <1>1, <1>2 DEF After, PosOf
<1>4. ASSUME NEW k \in 1..n, NEW i \in After(h, b, n)[k - 1]
      PROVE  i \in ByteIterators /\ NextByte(h, i) \in After(h, b, n)[k]
  <2>1. k - 1 \in 0..n /\ k \in 0..n /\ k - 1 # n /\ (k - 1) + 1 = k
    BY <1>2
  <2>2. PosOf(h, b, i, k - 1) /\ i \in ByteIterators
    BY <2>1 DEF After
  <2>3. i.it # b
    BY <2>1, <2>2, AtEnd
  <2>4. NextIs(h, b, i, k - 1)
    BY <2>2, <2>3, ByteNext
  <2>5. PosOf(h, b, NextByte(h, i), k)
    BY <2>1, <2>4 DEF NextIs
  <2> QED BY <2>1, <2>2, <2>5 DEF After, PosOf
<1> QED BY <1>2, <1>3, <1>4

LEMMA ForwardIs ==
    ASSUME NEW h, HeapOK(h), Filled(h), NEW b \in Buffers, Listed(h, b),
           NEW n, n = Len(Content(h, b)), NEW w, Forward(h, b, n, w)
    PROVE  \A k \in 0..n : PosOf(h, b, w[k], k)
<1>1. /\ n \in Nat /\ FirstByte(h, b) \in After(h, b, n)[0]
      /\ \A k \in 1..n : \A i \in After(h, b, n)[k - 1] : NextByte(h, i) \in After(h, b, n)[k]
  BY ForwardStep
<1>2. w[0] = FirstByte(h, b) /\ \A k \in 1..n : w[k] = NextByte(h, w[k - 1])
  <2>1. 0 \in 0..n /\ \A k \in 1..n : k \in 0..n /\ k # 0
    BY <1>1
  <2> QED BY <2>1 DEF Forward
<1>3. \A k \in 1..n : w[k - 1] \in After(h, b, n)[k - 1] => w[k] \in After(h, b, n)[k]
  BY <1>1, <1>2
<1>4. \A k \in 0..n : w[k] \in After(h, b, n)[k]
  BY <1>1, <1>2, <1>3, Along
<1> QED BY <1>4 DEF After

LEMMA ForwardExists ==
    ASSUME NEW h, HeapOK(h), Filled(h), NEW b \in Buffers, Listed(h, b),
           NEW n, n = Len(Content(h, b))
    PROVE  \E w : Forward(h, b, n, w)
<1> DEFINE S == After(h, b, n)
           G == [k \in 1..n |-> [i \in ByteIterators |-> NextByte(h, i)]]
           a == FirstByte(h, b)
<1>1. /\ n \in Nat /\ a \in S[0]
      /\ \A k \in 1..n : \A i \in S[k - 1] : i \in ByteIterators /\ NextByte(h, i) \in S[k]
  BY ForwardStep
<1> HIDE DEF S
<1>2. \A k \in 1..n : \A i \in S[k - 1] : G[k][i] \in S[k] /\ G[k][i] = NextByte(h, i)
  BY <1>1
<1> HIDE DEF G, a
<1>3. PICK f : Runs(f, a, G, n, S)
  BY <1>1, <1>2, RunExists
<1>4. \A k \in 1..n : k - 1 \in 0..n
  BY <1>1
<1>5. \A k \in 1..n : f[k] = NextByte(h, f[k - 1])
  BY <1>2, <1>3, <1>4 DEF Runs
<1>6. ASSUME NEW k \in 0..n PROVE f[k] = IF k = 0 THEN a ELSE NextByte(h, f[k - 1])
  <2>1. k # 0 => k \in 1..n
    BY <1>1
  <2> QED BY <2>1, <1>3, <1>5 DEF Runs
<1>7. f = [k \in 0..n |-> f[k]]
  BY <1>3 DEF Runs
<1> QED BY <1>6, <1>7 DEF Forward, a

LEMMA BackwardStep ==
    ASSUME NEW h, HeapOK(h), Filled(h), NEW b \in Buffers, Listed(h, b),
           NEW n, n = Len(Content(h, b))
    PROVE  /\ n \in Nat /\ EndByte(b) \in Ahead(h, b, n)[0]
           /\ \A k \in 1..n : \A i \in Ahead(h, b, n)[k - 1] :
                 i \in ByteIterators /\ PrevByte(h, i) \in Ahead(h, b, n)[k]
<1>1. PosOf(h, b, EndByte(b), n)
  BY ByteEnd
<1>2. n \in Nat
  BY <1>1, AtEnd
<1>3. EndByte(b) \in Ahead(h, b, n)[0]
  <2>1. n - 0 = n /\ 0 \in 0..n
    BY <1>2
  <2> QED BY <1>1, <2>1 DEF Ahead, PosOf
<1>4. ASSUME NEW k \in 1..n, NEW i \in Ahead(h, b, n)[k - 1]
      PROVE  i \in ByteIterators /\ PrevByte(h, i) \in Ahead(h, b, n)[k]
  <2>1. k - 1 \in 0..n /\ k \in 0..n /\ n - (k - 1) > 0 /\ (n - (k - 1)) - 1 = n - k
    BY <1>2
  <2>2. PosOf(h, b, i, n - (k - 1)) /\ i \in ByteIterators
    BY <2>1 DEF Ahead
  <2>3. PosOf(h, b, PrevByte(h, i), (n - (k - 1)) - 1)
    BY <2>1, <2>2, BytePrev
  <2>4. PosOf(h, b, PrevByte(h, i), n - k)
    BY <2>1, <2>3
  <2> QED BY <2>1, <2>2, <2>4 DEF Ahead, PosOf
<1> QED BY <1>2, <1>3, <1>4

LEMMA BackwardIs ==
    ASSUME NEW h, HeapOK(h), Filled(h), NEW b \in Buffers, Listed(h, b),
           NEW n, n = Len(Content(h, b)), NEW w, Backward(h, b, n, w)
    PROVE  \A k \in 0..n : PosOf(h, b, w[k], n - k)
<1>1. /\ n \in Nat /\ EndByte(b) \in Ahead(h, b, n)[0]
      /\ \A k \in 1..n : \A i \in Ahead(h, b, n)[k - 1] : PrevByte(h, i) \in Ahead(h, b, n)[k]
  BY BackwardStep
<1>2. w[0] = EndByte(b) /\ \A k \in 1..n : w[k] = PrevByte(h, w[k - 1])
  <2>1. 0 \in 0..n /\ \A k \in 1..n : k \in 0..n /\ k # 0
    BY <1>1
  <2> QED BY <2>1 DEF Backward
<1>3. \A k \in 1..n : w[k - 1] \in Ahead(h, b, n)[k - 1] => w[k] \in Ahead(h, b, n)[k]
  BY <1>1, <1>2
<1>4. \A k \in 0..n : w[k] \in Ahead(h, b, n)[k]
  BY <1>1, <1>2, <1>3, Along
<1> QED BY <1>4 DEF Ahead

LEMMA BackwardExists ==
    ASSUME NEW h, HeapOK(h), Filled(h), NEW b \in Buffers, Listed(h, b),
           NEW n, n = Len(Content(h, b))
    PROVE  \E w : Backward(h, b, n, w)
<1> DEFINE S == Ahead(h, b, n)
           G == [k \in 1..n |-> [i \in ByteIterators |-> PrevByte(h, i)]]
           a == EndByte(b)
<1>1. /\ n \in Nat /\ a \in S[0]
      /\ \A k \in 1..n : \A i \in S[k - 1] : i \in ByteIterators /\ PrevByte(h, i) \in S[k]
  BY BackwardStep
<1> HIDE DEF S
<1>2. \A k \in 1..n : \A i \in S[k - 1] : G[k][i] \in S[k] /\ G[k][i] = PrevByte(h, i)
  BY <1>1
<1> HIDE DEF G, a
<1>3. PICK f : Runs(f, a, G, n, S)
  BY <1>1, <1>2, RunExists
<1>4. \A k \in 1..n : k - 1 \in 0..n
  BY <1>1
<1>5. \A k \in 1..n : f[k] = PrevByte(h, f[k - 1])
  BY <1>2, <1>3, <1>4 DEF Runs
<1>6. ASSUME NEW k \in 0..n PROVE f[k] = IF k = 0 THEN a ELSE PrevByte(h, f[k - 1])
  <2>1. k # 0 => k \in 1..n
    BY <1>1
  <2> QED BY <2>1, <1>3, <1>5 DEF Runs
<1>7. f = [k \in 0..n |-> f[k]]
  BY <1>3 DEF Runs
<1> QED BY <1>6, <1>7 DEF Backward, a

\* What the two walks over the n bytes of s find.
WalksFind(h, b, s, fwd, bwd) ==
    /\ \A n \in 1..Len(s) :
          /\ ~IsEndByte(b, fwd[n - 1]) /\ CurrentByte(h, fwd[n - 1]) = s[n]
          /\ ~IsEndByte(b, bwd[n])
          /\ CurrentByte(h, bwd[n]) = s[Len(s) + 1 - n]
    /\ IsEndByte(b, fwd[Len(s)]) /\ IsEndByte(b, PrevByte(h, bwd[Len(s)]))

LEMMA WalksFindBytes ==
    ASSUME NEW h, HeapOK(h), Filled(h), NEW b \in Buffers, Listed(h, b),
           NEW s, s = Content(h, b), NEW n, n = Len(s),
           NEW f, Forward(h, b, n, f), NEW w, Backward(h, b, n, w)
    PROVE  WalksFind(h, b, s, f, w)
<1>1. n \in Nat /\ n = Len(Content(h, b))
  BY ForwardStep
<1>2. \A k \in 0..n : PosOf(h, b, f[k], k) /\ PosOf(h, b, w[k], n - k)
  BY <1>1, ForwardIs, BackwardIs
<1>3. ASSUME NEW k \in 1..n
      PROVE  /\ ~IsEndByte(b, f[k - 1]) /\ CurrentByte(h, f[k - 1]) = s[k]
             /\ ~IsEndByte(b, w[k]) /\ CurrentByte(h, w[k]) = s[n + 1 - k]
  <2>1. /\ k - 1 \in 0..n /\ k - 1 # n /\ (k - 1) + 1 = k
        /\ k \in 0..n /\ n - k # n /\ (n - k) + 1 = n + 1 - k
    BY <1>1
  <2>2. PosOf(h, b, f[k - 1], k - 1) /\ PosOf(h, b, w[k], n - k)
    BY <1>2, <2>1
  <2>3. f[k - 1].it # b /\ w[k].it # b
    BY <1>1, <2>1, <2>2, AtEnd
  <2>4. NextIs(h, b, f[k - 1], k - 1) /\ NextIs(h, b, w[k], n - k)
    BY <2>2, <2>3, ByteNext
  <2> QED BY <2>1, <2>3, <2>4 DEF NextIs, IsEndByte
<1>4. IsEndByte(b, f[n]) /\ IsEndByte(b, PrevByte(h, w[n]))
  <2>1. PosOf(h, b, f[n], n) /\ PosOf(h, b, w[n], n - n) /\ n - n = 0
    BY <1>1, <1>2
  <2>2. PrevByte(h, w[n]).it = b
    BY <2>1, BytePrevFirst
  <2> QED BY <1>1, <2>1, <2>2, AtEnd DEF IsEndByte
<1> QED BY <1>3, <1>4 DEF WalksFind

LEMMA BytesAreInOrder == IInv /\ ListInv /\ FillInv => BytesInOrder
<1> SUFFICES ASSUME IInv, ListInv, FillInv, NEW b \in Buffers, Exists(heap, b)
             PROVE  LET s == Content(heap, b)
                        fwd == CHOOSE w : Forward(heap, b, Len(s), w)
                        bwd == CHOOSE w : Backward(heap, b, Len(s), w)
                    IN  WalksFind(heap, b, s, fwd, bwd)
  BY DEF BytesInOrder, WalksFind, Forward, Backward
<1>1. HeapOK(heap) /\ Filled(heap) /\ Listed(heap, b)
  BY ListedIf DEF IInv, FillInv
<1> DEFINE s == Content(heap, b)
           fwd == CHOOSE w : Forward(heap, b, Len(s), w)
           bwd == CHOOSE w : Backward(heap, b, Len(s), w)
<1>2. Forward(heap, b, Len(s), fwd)
  BY <1>1, ForwardExists
<1>3. Backward(heap, b, Len(s), bwd)
  BY <1>1, BackwardExists
<1> HIDE DEF fwd, bwd
<1>4. WalksFind(heap, b, s, fwd, bwd)
  BY <1>1, <1>2, <1>3, WalksFindBytes
<1> QED BY <1>4 DEF fwd, bwd

-----------------------------------------------------------------------------
(* What a reader knows.                                                    *)

\* has_cr tells whether there is a CR in front of the place of d.
CrRight(s, d) == d.cr = TRUE <=> d.pos > 0 /\ s[d.pos] = CR

\* d stands on one of the bytes s, or s is empty; there is no line end in front of it.
OnBytes(s, d) ==
    /\ d.pos \in Nat /\ d.pos <= MaxLine
    /\ d.pos < Len(s) \/ (d.pos = 0 /\ Len(s) = 0)
    /\ \A i \in 1..d.pos : s[i] # LF

\* A search that is to go on looks at the first byte, or at one that is no line end.
ToGoOn(s, d) ==
    \/ d.pos = 0 /\ d.cr = FALSE
    \/ d.pos < Len(s) /\ s[d.pos + 1] # LF

\* A line that was found ends at a line end, at the maximum, or as it was terminated.
LineFound(s, d) ==
    /\ d.pos < Len(s)
    /\ s[d.pos + 1] = LF => CrRight(s, d)
    /\ s[d.pos + 1] # LF => \/ d.term = TRUE \/ d.termcr = TRUE
                            \/ d.pos = MaxLine /\ d.cr = FALSE

LineOK(s, d) ==
    /\ OnBytes(s, d)
    /\ d.found = FALSE => ToGoOn(s, d)
    /\ d.found = TRUE => LineFound(s, d)

Standing(h, d) == PosOf(h, d.buf, d.at, d.pos) /\ LineOK(Content(h, d.buf), d)

\* The reader d is well: it is where it counts, is to start again, or reads a buffer
\* whose call has moved its data and raises its revision when it returns.
ReaderOK(h, c, d) ==
    /\ d \in ReaderType
    /\ d.buf # NULL => /\ Exists(h, d.buf)
                       /\ d.stale = TRUE \/ Owes(c, d.buf) \/ Standing(h, d)

LEMMA HeadIsOK ==
    ASSUME NEW h, HeapOK(h), Filled(h), NEW b \in Buffers, Listed(h, b), NEW d, d = AtHead(h, b)
    PROVE  /\ d \in ReaderType /\ d.buf = b /\ d.stale = FALSE /\ d.found = FALSE
           /\ d.term = FALSE /\ d.termcr = FALSE /\ Standing(h, d)
<1>1. /\ d.buf = b /\ d.at = FirstByte(h, b) /\ d.pos = 0 /\ d.cr = FALSE /\ d.found = FALSE
      /\ d.term = FALSE /\ d.termcr = FALSE /\ d.stale = FALSE
  BY DEF AtHead
<1>2. PosOf(h, b, FirstByte(h, b), 0)
  BY ByteFirst
<1>3. Content(h, b) \in Seq(Byte) /\ 0 <= Len(Content(h, b)) /\ Len(Content(h, b)) \in Nat
  BY <1>2, AtEnd
<1>4. OnBytes(Content(h, b), d) /\ ToGoOn(Content(h, b), d)
  BY <1>1, <1>3, LineAssumption DEF OnBytes, ToGoOn
<1>5. Standing(h, d)
  BY <1>1, <1>2, <1>4 DEF Standing, LineOK
<1>6. FirstByte(h, b) \in ByteIterators
  BY <1>2 DEF PosOf
<1>7. d \in ReaderType
  BY <1>6 DEF AtHead, ReaderType
<1> QED BY <1>1, <1>5, <1>7

\* What a reader knows stays true of more bytes.
LEMMA MoreBytes ==
    ASSUME NEW s \in Seq(Byte), NEW u \in Seq(Byte), Len(s) <= Len(u),
           \A i \in 1..Len(s) : u[i] = s[i], u = s \/ Len(s) > 0, NEW d, LineOK(s, d)
    PROVE  LineOK(u, d)
<1>1. CASE u = s
  BY <1>1
<1>2. CASE Len(s) > 0
  <2>1. d.pos \in Nat /\ d.pos < Len(s) /\ Len(s) \in Nat /\ Len(u) \in Nat
    BY <1>2 DEF LineOK, OnBytes
  <2>2. /\ d.pos + 1 \in 1..Len(s) /\ (d.pos > 0 => d.pos \in 1..Len(s)) /\ d.pos < Len(u)
        /\ \A i \in 1..d.pos : i \in 1..Len(s)
    BY <2>1
  <2>3. u[d.pos + 1] = s[d.pos + 1] /\ (d.pos > 0 => u[d.pos] = s[d.pos])
        /\ \A i \in 1..d.pos : u[i] = s[i]
    BY <2>2
  <2>4. OnBytes(u, d)
    BY <2>1, <2>2, <2>3 DEF LineOK, OnBytes
  <2>5. ToGoOn(s, d) => ToGoOn(u, d)
    BY <2>2, <2>3 DEF ToGoOn
  <2>6. CrRight(s, d) => CrRight(u, d)
    BY <2>3 DEF CrRight
  <2>7. LineFound(s, d) => LineFound(u, d)
    BY <2>2, <2>3, <2>6 DEF LineFound
  <2> QED BY <2>4, <2>5, <2>7 DEF LineOK
<1> QED BY <1>1, <1>2

LEMMA StandingStays ==
    ASSUME NEW h, HeapOK(h), Filled(h), NEW g, HeapOK(g), NEW d, d.buf \in Buffers,
           Listed(h, d.buf), Standing(h, d),
           Unmoved(g, h, d.buf) \/ Appended(g, h, d.buf)
    PROVE  Standing(g, d)
<1> DEFINE b == d.buf
           s == Content(h, b)
           u == Content(g, b)
<1>1. PosOf(h, b, d.at, d.pos) /\ LineOK(s, d)
  BY DEF Standing
<1>2. CASE Unmoved(g, h, b)
  <2>1. ListKept(g, h, b) /\ BytesKept(g, h, b)
    BY <1>2 DEF Unmoved
  <2>2. u = s
    BY <2>1, KeptContent
  <2>3. PosOf(g, b, d.at, d.pos)
    BY <1>1, <2>1, PosUnmoved DEF PosOf
  <2> QED BY <1>1, <2>2, <2>3 DEF Standing
<1>3. CASE Appended(g, h, b)
  <2>1. /\ s \in Seq(Byte) /\ u \in Seq(Byte) /\ Len(s) <= Len(u)
        /\ \A i \in 1..Len(s) : u[i] = s[i]
    BY <1>3, AppendKeepsFront
  <2>2. Len(s) > 0
    BY <1>3, AppendToSome
  <2>3. d.pos # Len(s)
    BY <1>1, <2>1, <2>2 DEF LineOK, OnBytes
  <2>4. d.at.it # b
    BY <1>1, <2>3, AtEnd
  <2>5. PosOf(g, b, d.at, d.pos)
    BY <1>1, <1>3, <2>4, PosAppended DEF PosOf
  <2> HIDE DEF s, u
  <2>6. LineOK(u, d)
    BY <1>1, <2>1, <2>2, MoreBytes
  <2> QED BY <2>5, <2>6 DEF Standing, u
<1> QED BY <1>2, <1>3

\* A step leaves every reader well whose buffer keeps its revision.
LEMMA StepKeepsReader ==
    ASSUME CountSuffices, IInv, IInv', ListInv, FillInv, ClearBumps, Next,
           NEW d, ReaderOK(heap, call, d), d.buf \notin bumped',
           call.pc # "idle" /\ call.fn = "destroy" => d.buf # call.buf
    PROVE  ReaderOK(heap', call', d)
<1>1. CASE d.buf = NULL
  BY <1>1 DEF ReaderOK
<1>2. CASE d.buf # NULL
  <2>1. d \in ReaderType /\ d.buf \in Buffers /\ Exists(heap, d.buf)
    BY <1>2 DEF ReaderOK, ReaderType
  <2>2. /\ Exists(heap', d.buf)
        /\ \/ Owes(call', d.buf)
           \/ ~Owes(call, d.buf) /\ (Unmoved(heap', heap, d.buf) \/ Appended(heap', heap, d.buf))
    BY <2>1, StepOnBuffer
  <2>3. HeapOK(heap) /\ HeapOK(heap') /\ Filled(heap) /\ Listed(heap, d.buf)
    BY <2>1, ListedIf DEF IInv, FillInv
  <2>4. CASE Owes(call', d.buf)
    BY <2>1, <2>2, <2>4 DEF ReaderOK
  <2>5. CASE ~Owes(call, d.buf) /\ (Unmoved(heap', heap, d.buf) \/ Appended(heap', heap, d.buf))
    <3>1. d.stale = TRUE \/ Standing(heap, d)
      BY <1>2, <2>5 DEF ReaderOK
    <3>2. Standing(heap, d) => Standing(heap', d)
      BY <2>1, <2>3, <2>5, StandingStays
    <3> QED BY <2>1, <2>2, <3>1, <3>2 DEF ReaderOK
  <2> QED BY <2>2, <2>4, <2>5
<1> QED BY <1>1, <1>2

\* A reader whose buffer has another revision is to start again.
LEMMA StaleReader ==
    ASSUME CountSuffices, IInv, IInv', ListInv, FillInv, ClearBumps, Next,
           NEW d, ReaderOK(heap, call, d),
           call.pc # "idle" /\ call.fn = "destroy" => d.buf # call.buf,
           NEW e, e = [d EXCEPT !.stale = TRUE]
    PROVE  ReaderOK(heap', call', e)
<1>1. e \in ReaderType /\ e.buf = d.buf /\ e.stale = TRUE
  BY DEF ReaderOK, ReaderType
<1>2. CASE d.buf = NULL
  BY <1>1, <1>2 DEF ReaderOK
<1>3. CASE d.buf # NULL
  <2>1. d.buf \in Buffers /\ Exists(heap, d.buf)
    BY <1>3 DEF ReaderOK, ReaderType
  <2>2. Exists(heap', d.buf)
    BY <2>1, ExistsStill
  <2> QED BY <1>1, <2>2 DEF ReaderOK
<1> QED BY <1>2, <1>3

-----------------------------------------------------------------------------
(* The search.                                                             *)

\* What a search does not change.
Same(c, e) ==
    e.buf = c.buf /\ e.term = c.term /\ e.termcr = c.termcr /\ e.stale = c.stale

\* There is a line in the bytes s, as c takes them.
LineIn(s, c) ==
    \/ \E i \in 1..Len(s) : s[i] = LF
    \/ Len(s) > MaxLine
    \/ c.term = TRUE \/ c.termcr = TRUE

\* The reader e after k iterations from c that were not the last.
Searching(c, k, e) ==
    LET s == Content(heap, c.buf)
    IN  /\ e \in ReaderType /\ Same(c, e) /\ e.found = FALSE
        /\ PosOf(heap, c.buf, e.at, e.pos) /\ e.pos = c.pos + k /\ e.pos <= MaxLine
        /\ \A i \in 1..e.pos : s[i] # LF
        /\ CrRight(s, e) \/ (e.pos < Len(s) /\ s[e.pos + 1] # LF)

\* The reader e after the search.
Searched(c, e) ==
    /\ e \in ReaderType /\ Same(c, e) /\ Standing(heap, e)
    /\ e.found = TRUE <=> LineIn(Content(heap, c.buf), c)

\* A reader that may search.
Searches(c) ==
    /\ HeapOK(heap) /\ Filled(heap) /\ c \in ReaderType /\ c.buf \in Buffers
    /\ Standing(heap, c) /\ c.found = FALSE /\ Len(Content(heap, c.buf)) > 0

LEMMA SearchStarts ==
    ASSUME NEW c, Searches(c)
    PROVE  Searching(c, 0, c) /\ c.pos \in Nat
<1>1. PosOf(heap, c.buf, c.at, c.pos) /\ LineOK(Content(heap, c.buf), c) /\ c \in ReaderType
  BY DEF Searches, Standing
<1>2. OnBytes(Content(heap, c.buf), c) /\ ToGoOn(Content(heap, c.buf), c) /\ c.found = FALSE
  BY <1>1 DEF LineOK, Searches
<1>3. c.pos \in Nat /\ c.pos = c.pos + 0 /\ c.pos <= MaxLine
  BY <1>2 DEF OnBytes
<1>4. \/ CrRight(Content(heap, c.buf), c)
      \/ c.pos < Len(Content(heap, c.buf)) /\ Content(heap, c.buf)[c.pos + 1] # LF
  BY <1>2 DEF ToGoOn, CrRight
<1> QED BY <1>1, <1>2, <1>3, <1>4 DEF Searching, Same, OnBytes

\* At the end of the data.
Stopped(c, e) ==
    /\ c \in ReaderType /\ Same(e, c)
    /\ c.at = PrevByte(heap, e.at) /\ c.pos = e.pos - 1
    /\ c.found = TRUE <=> e.term = TRUE \/ e.termcr = TRUE

LEMMA StopAtEndIs ==
    ASSUME NEW e \in ReaderType, e.found = FALSE, PrevByte(heap, e.at) \in ByteIterators,
           e.pos - 1 \in Nat, NEW d, d = StopAtEnd(e)
    PROVE  Stopped(d, e)
<1>1. CASE e.termcr
  BY <1>1 DEF StopAtEnd, Stopped, Same, ReaderType
<1>2. CASE ~e.termcr /\ e.term
  BY <1>2 DEF StopAtEnd, Stopped, Same, ReaderType
<1>3. CASE ~e.termcr /\ ~e.term
  BY <1>3 DEF StopAtEnd, Stopped, Same, ReaderType
<1> QED BY <1>1, <1>2, <1>3

LEMMA SearchStops ==
    ASSUME NEW c, Searches(c), NEW k \in Nat, NEW e, Searching(c, k, e), IsEndByte(e.buf, e.at),
           NEW d, d = StopAtEnd(e)
    PROVE  Searched(c, d)
<1> DEFINE s == Content(heap, c.buf)
<1>1. /\ e \in ReaderType /\ Same(c, e) /\ e.found = FALSE /\ PosOf(heap, c.buf, e.at, e.pos)
      /\ e.pos <= MaxLine /\ \A i \in 1..e.pos : s[i] # LF
  BY DEF Searching
<1>2. HeapOK(heap) /\ Filled(heap) /\ c.buf \in Buffers /\ Len(s) > 0
  BY DEF Searches
<1>3. e.at.it = c.buf
  BY <1>1 DEF IsEndByte, Same
<1>4. e.pos = Len(s) /\ e.pos \in Nat /\ s \in Seq(Byte)
  BY <1>1, <1>2, <1>3, AtEnd
<1>5. e.pos > 0 /\ e.pos - 1 \in Nat /\ (e.pos - 1) + 1 = e.pos
  BY <1>2, <1>4
<1>6. PosOf(heap, c.buf, PrevByte(heap, e.at), e.pos - 1)
  BY <1>1, <1>2, <1>5, BytePrev
<1>7. Stopped(d, e)
  BY <1>1, <1>5, <1>6, StopAtEndIs DEF PosOf
<1>8. /\ d \in ReaderType /\ Same(c, d) /\ d.pos = e.pos - 1 /\ d.at = PrevByte(heap, e.at)
      /\ d.found = TRUE <=> c.term = TRUE \/ c.termcr = TRUE
  BY <1>1, <1>7 DEF Stopped, Same
<1>9. s[d.pos + 1] # LF /\ d.pos < Len(s) /\ d.pos \in Nat /\ d.pos <= MaxLine
  <2>1. e.pos \in 1..e.pos /\ d.pos + 1 = e.pos /\ MaxLine \in Nat
    BY <1>5, <1>8, LineAssumption
  <2> HIDE DEF s
  <2> QED BY <2>1, <1>1, <1>4, <1>5, <1>8
<1>10. OnBytes(s, d)
  <2>1. \A i \in 1..d.pos : i \in 1..e.pos
    BY <1>5, <1>8
  <2> HIDE DEF s
  <2> QED BY <1>1, <1>9, <2>1 DEF OnBytes
<1> HIDE DEF s
<1>11. ToGoOn(s, d)
  BY <1>9 DEF ToGoOn
<1>12. d.found = TRUE => LineFound(s, d)
  BY <1>8, <1>9 DEF LineFound, Same
<1>13. LineOK(s, d)
  BY <1>10, <1>11, <1>12 DEF LineOK
<1>14. LineIn(s, c) <=> c.term = TRUE \/ c.termcr = TRUE
  <2>1. Len(s) \in Nat /\ ~(Len(s) > MaxLine)
    BY <1>1, <1>4, LineAssumption
  <2>2. ~ \E i \in 1..Len(s) : s[i] = LF
    BY <1>1, <1>4
  <2> QED BY <2>1, <2>2 DEF LineIn
<1>15. Standing(heap, d)
  BY <1>6, <1>8, <1>13 DEF Standing, Same, s
<1> QED BY <1>8, <1>14, <1>15 DEF Searched, s

\* In front of a byte: it is a line end, one too many, or the search goes on.
LEMMA SearchFindsEnd ==
    ASSUME NEW c, Searches(c), NEW k \in Nat, NEW e, Searching(c, k, e), ~IsEndByte(e.buf, e.at),
           CurrentByte(heap, e.at) = LF, NEW d, d = [e EXCEPT !.found = TRUE]
    PROVE  Searched(c, d)
<1> DEFINE s == Content(heap, c.buf)
<1>1. /\ e \in ReaderType /\ Same(c, e) /\ e.found = FALSE /\ PosOf(heap, c.buf, e.at, e.pos)
      /\ e.pos <= MaxLine /\ \A i \in 1..e.pos : s[i] # LF
      /\ CrRight(s, e) \/ (e.pos < Len(s) /\ s[e.pos + 1] # LF)
  BY DEF Searching
<1>2. HeapOK(heap) /\ Filled(heap) /\ c.buf \in Buffers
  BY DEF Searches
<1>3. NextIs(heap, c.buf, e.at, e.pos)
  BY <1>1, <1>2, ByteNext DEF IsEndByte, Same
<1>4. e.pos \in Nat /\ s \in Seq(Byte)
  BY <1>1, <1>2, AtEnd
<1>5. s[e.pos + 1] = LF /\ e.pos + 1 <= Len(s)
  BY <1>3 DEF NextIs
<1>6. /\ d \in ReaderType /\ Same(c, d) /\ d.at = e.at /\ d.pos = e.pos /\ d.cr = e.cr
      /\ d.found = TRUE
  BY <1>1 DEF ReaderType, Same
<1> HIDE DEF s
<1>7. e.pos < Len(s) /\ e.pos + 1 \in 1..Len(s)
  BY <1>4, <1>5
<1>8. OnBytes(s, d)
  BY <1>1, <1>4, <1>6, <1>7 DEF OnBytes
<1>9. LineFound(s, d)
  BY <1>1, <1>5, <1>6, <1>7 DEF LineFound, CrRight
<1>10. LineOK(s, d) /\ LineIn(s, c)
  BY <1>5, <1>6, <1>7, <1>8, <1>9 DEF LineOK, LineIn
<1>11. Standing(heap, d)
  BY <1>1, <1>6, <1>10 DEF Standing, Same, s
<1> QED BY <1>6, <1>10, <1>11 DEF Searched, s

LEMMA SearchFindsMax ==
    ASSUME NEW c, Searches(c), NEW k \in Nat, NEW e, Searching(c, k, e), ~IsEndByte(e.buf, e.at),
           CurrentByte(heap, e.at) # LF, e.pos = MaxLine,
           NEW d, d = [e EXCEPT !.cr = FALSE, !.found = TRUE]
    PROVE  Searched(c, d)
<1> DEFINE s == Content(heap, c.buf)
<1>1. /\ e \in ReaderType /\ Same(c, e) /\ e.found = FALSE /\ PosOf(heap, c.buf, e.at, e.pos)
      /\ e.pos <= MaxLine /\ \A i \in 1..e.pos : s[i] # LF
  BY DEF Searching
<1>2. HeapOK(heap) /\ Filled(heap) /\ c.buf \in Buffers
  BY DEF Searches
<1>3. NextIs(heap, c.buf, e.at, e.pos)
  BY <1>1, <1>2, ByteNext DEF IsEndByte, Same
<1>4. e.pos \in Nat /\ s \in Seq(Byte)
  BY <1>1, <1>2, AtEnd
<1>5. s[e.pos + 1] # LF /\ e.pos + 1 <= Len(s)
  BY <1>3 DEF NextIs
<1>6. /\ d \in ReaderType /\ Same(c, d) /\ d.at = e.at /\ d.pos = e.pos /\ d.cr = FALSE
      /\ d.found = TRUE
  BY <1>1 DEF ReaderType, Same
<1> HIDE DEF s
<1>7. e.pos < Len(s) /\ Len(s) > MaxLine
  BY <1>4, <1>5
<1>8. OnBytes(s, d)
  BY <1>1, <1>4, <1>6, <1>7 DEF OnBytes
<1>9. LineFound(s, d)
  BY <1>5, <1>6, <1>7 DEF LineFound
<1>10. LineOK(s, d) /\ LineIn(s, c)
  BY <1>6, <1>7, <1>8, <1>9 DEF LineOK, LineIn
<1>11. Standing(heap, d)
  BY <1>1, <1>6, <1>10 DEF Standing, Same, s
<1> QED BY <1>6, <1>10, <1>11 DEF Searched, s

LEMMA SearchGoesOn ==
    ASSUME NEW c, Searches(c), NEW k \in Nat, NEW e, Searching(c, k, e), ~IsEndByte(e.buf, e.at),
           CurrentByte(heap, e.at) # LF, e.pos # MaxLine,
           NEW d, d = [LookAt(e) EXCEPT !.at = NextByte(heap, @), !.pos = @ + 1]
    PROVE  Searching(c, k + 1, d)
<1> DEFINE s == Content(heap, c.buf)
<1>1. /\ e \in ReaderType /\ Same(c, e) /\ e.found = FALSE /\ PosOf(heap, c.buf, e.at, e.pos)
      /\ e.pos = c.pos + k /\ e.pos <= MaxLine /\ \A i \in 1..e.pos : s[i] # LF
  BY DEF Searching
<1>2. HeapOK(heap) /\ Filled(heap) /\ c.buf \in Buffers /\ c.pos \in Nat
  BY SearchStarts DEF Searches
<1>3. NextIs(heap, c.buf, e.at, e.pos)
  BY <1>1, <1>2, ByteNext DEF IsEndByte, Same
<1>4. e.pos \in Nat /\ s \in Seq(Byte)
  BY <1>1, <1>2, AtEnd
<1>5. /\ s[e.pos + 1] # LF /\ e.pos + 1 <= Len(s) /\ CurrentByte(heap, e.at) = s[e.pos + 1]
      /\ PosOf(heap, c.buf, NextByte(heap, e.at), e.pos + 1)
  BY <1>3 DEF NextIs
<1>6. /\ d.buf = e.buf /\ d.term = e.term /\ d.termcr = e.termcr /\ d.stale = e.stale
      /\ d.at = NextByte(heap, e.at) /\ d.pos = e.pos + 1
      /\ d.cr = (CurrentByte(heap, e.at) = CR) /\ d.found = e.found
  BY <1>1 DEF LookAt, ReaderType
<1>7. d \in ReaderType
  <2>1. NextByte(heap, e.at) \in ByteIterators /\ e.pos + 1 \in Nat
    BY <1>4, <1>5 DEF PosOf
  <2> QED BY <2>1, <1>1 DEF LookAt, ReaderType
<1>8. Same(c, d) /\ d.found = FALSE
  BY <1>1, <1>6 DEF Same
<1>9. d.pos = c.pos + (k + 1) /\ d.pos <= MaxLine /\ d.pos > 0
  BY <1>1, <1>2, <1>4, <1>6, LineAssumption
<1>10. \A i \in 1..d.pos : s[i] # LF
  <2> SUFFICES ASSUME NEW i \in 1..d.pos PROVE s[i] # LF
    OBVIOUS
  <2>1. i = e.pos + 1 \/ i \in 1..e.pos
    BY <1>4, <1>6
  <2> QED BY <2>1, <1>1, <1>5
<1>11. CrRight(s, d)
  BY <1>5, <1>6, <1>9 DEF CrRight
<1> QED BY <1>5, <1>6, <1>7, <1>8, <1>9, <1>10, <1>11 DEF Searching

\* The states of the loop after k iterations.
SearchStates(c, k) ==
    {x \in [pos : ReaderType, over : BOOLEAN] :
        IF x.over THEN Searched(c, x.pos) ELSE Searching(c, k, x.pos)}

LEMMA SearchOver ==
    ASSUME NEW c, NEW k, NEW d, Searched(c, d), NEW y, y = [pos |-> d, over |-> TRUE]
    PROVE  y \in SearchStates(c, k)
<1>1. d \in ReaderType
  BY DEF Searched
<1> QED BY <1>1 DEF SearchStates

LEMMA SearchNotOver ==
    ASSUME NEW c, NEW k, NEW d, Searching(c, k, d), NEW y, y = [pos |-> d, over |-> FALSE]
    PROVE  y \in SearchStates(c, k)
<1>1. d \in ReaderType
  BY DEF Searching
<1> QED BY <1>1 DEF SearchStates

LEMMA SearchStepIs ==
    ASSUME NEW c, Searches(c), NEW k \in Nat, NEW x \in SearchStates(c, k)
    PROVE  SearchStep(x) \in SearchStates(c, k + 1)
<1> DEFINE e == x.pos
           y == SearchStep(x)
<1>1. x \in [pos : ReaderType, over : BOOLEAN] /\ e \in ReaderType
  BY DEF SearchStates
<1>2. CASE x.over
  BY <1>2 DEF SearchStates, SearchStep
<1>3. CASE ~x.over
  <2>1. Searching(c, k, e)
    BY <1>3 DEF SearchStates
  <2>2. CASE IsEndByte(e.buf, e.at)
    <3>1. y = [pos |-> StopAtEnd(e), over |-> TRUE]
      BY <1>3, <2>2 DEF SearchStep
    <3>2. Searched(c, StopAtEnd(e))
      BY <2>1, <2>2, SearchStops
    <3> QED BY <3>1, <3>2, SearchOver
  <2>3. CASE ~IsEndByte(e.buf, e.at) /\ CurrentByte(heap, e.at) = LF
    <3>1. y = [pos |-> [e EXCEPT !.found = TRUE], over |-> TRUE]
      BY <1>3, <2>3 DEF SearchStep
    <3>2. Searched(c, [e EXCEPT !.found = TRUE])
      BY <2>1, <2>3, SearchFindsEnd
    <3> QED BY <3>1, <3>2, SearchOver
  <2>4. CASE ~IsEndByte(e.buf, e.at) /\ CurrentByte(heap, e.at) # LF /\ e.pos = MaxLine
    <3>1. y = [pos |-> [e EXCEPT !.cr = FALSE, !.found = TRUE], over |-> TRUE]
      BY <1>3, <2>4 DEF SearchStep
    <3>2. Searched(c, [e EXCEPT !.cr = FALSE, !.found = TRUE])
      BY <2>1, <2>4, SearchFindsMax
    <3> QED BY <3>1, <3>2, SearchOver
  <2>5. CASE ~IsEndByte(e.buf, e.at) /\ CurrentByte(heap, e.at) # LF /\ e.pos # MaxLine
    <3>1. y = [pos |-> [LookAt(e) EXCEPT !.at = NextByte(heap, @), !.pos = @ + 1],
               over |-> FALSE]
      BY <1>3, <2>5 DEF SearchStep
    <3>2. Searching(c, k + 1, [LookAt(e) EXCEPT !.at = NextByte(heap, @), !.pos = @ + 1])
      BY <2>1, <2>5, SearchGoesOn
    <3> QED BY <3>1, <3>2, SearchNotOver
  <2> QED BY <2>2, <2>3, <2>4, <2>5
<1> QED BY <1>1, <1>2, <1>3

\* The loop of a search, from c on.
SearchRun(c, w) ==
    w = [k \in 0..(MaxLine + 1) |->
            IF k = 0 THEN [pos |-> c, over |-> FALSE] ELSE SearchStep(w[k - 1])]

LEMMA SearchFinds ==
    ASSUME NEW c, Searches(c)
    PROVE  Searched(c, Search(c))
<1> DEFINE n == MaxLine + 1
           S == [k \in 0..n |-> SearchStates(c, k)]
           a == [pos |-> c, over |-> FALSE]
           G == [k \in 1..n |-> [x \in SearchStates(c, k - 1) |-> SearchStep(x)]]
<1>1. n \in Nat /\ 0 \in 0..n /\ c.pos \in Nat /\ MaxLine \in Nat
  BY SearchStarts, LineAssumption
<1>2. a \in S[0]
  <2>1. Searching(c, 0, c)
    BY SearchStarts
  <2>2. a \in SearchStates(c, 0)
    BY <2>1, SearchNotOver
  <2> QED BY <1>1, <2>2
<1>3. ASSUME NEW k \in 1..n, NEW x \in S[k - 1]
      PROVE  SearchStep(x) \in S[k] /\ G[k][x] = SearchStep(x)
  <2>1. k - 1 \in Nat /\ k - 1 \in 0..n /\ k \in 0..n /\ (k - 1) + 1 = k
    BY <1>1
  <2>2. x \in SearchStates(c, k - 1)
    BY <2>1
  <2>3. SearchStep(x) \in SearchStates(c, k)
    <3>1. SearchStep(x) \in SearchStates(c, (k - 1) + 1)
      BY <2>1, <2>2, SearchStepIs
    <3> QED BY <3>1, <2>1
  <2> QED BY <2>1, <2>2, <2>3
<1>4. \A x \in S[n] : Searched(c, x.pos)
  <2>1. ASSUME NEW x \in S[n] PROVE Searched(c, x.pos)
    <3>1. x \in SearchStates(c, n)
      BY <1>1, <2>1
    <3>2. x.over \in BOOLEAN
      BY <3>1 DEF SearchStates
    <3>3. ~ Searching(c, n, x.pos)
      BY <1>1 DEF Searching
    <3> QED BY <3>1, <3>2, <3>3 DEF SearchStates
  <2> QED BY <2>1
<1> HIDE DEF S, G
<1>5. PICK f : Runs(f, a, G, n, S)
  <2> HIDE DEF a, n
  <2> QED BY <1>1, <1>2, <1>3, RunExists
<1>6. SearchRun(c, f)
  <2>1. ASSUME NEW k \in 0..n PROVE f[k] = IF k = 0 THEN a ELSE SearchStep(f[k - 1])
    <3>1. k # 0 => k \in 1..n /\ k - 1 \in 0..n
      BY <1>1
    <3>2. f[0] = a /\ (k # 0 => f[k] = G[k][f[k - 1]] /\ f[k - 1] \in S[k - 1])
      BY <3>1, <1>5 DEF Runs
    <3> QED BY <3>1, <3>2, <1>3
  <2>2. f = [k \in 0..n |-> f[k]]
    BY <1>5 DEF Runs
  <2> QED BY <2>1, <2>2 DEF SearchRun
<1>7. ASSUME NEW w, SearchRun(c, w) PROVE Searched(c, w[n].pos)
  <2>1. w[0] = a /\ \A k \in 1..n : w[k] = SearchStep(w[k - 1])
    <3>1. 0 \in 0..n /\ \A k \in 1..n : k \in 0..n /\ k # 0
      BY <1>1
    <3> QED BY <3>1, <1>7 DEF SearchRun
  <2>2. \A k \in 1..n : w[k - 1] \in S[k - 1] => w[k] \in S[k]
    BY <2>1, <1>3
  <2>3. \A k \in 0..n : w[k] \in S[k]
    <3> HIDE DEF a, n
    <3> QED BY <1>1, <1>2, <2>1, <2>2, Along
  <2>4. n \in 0..n
    BY <1>1
  <2> QED BY <2>3, <2>4, <1>4
<1>8. Search(c) = (CHOOSE w : SearchRun(c, w))[n].pos
  BY DEF Search, SearchRun
<1>9. SearchRun(c, CHOOSE w : SearchRun(c, w))
  BY <1>6
<1> QED BY <1>7, <1>8, <1>9

-----------------------------------------------------------------------------
(* The line.                                                               *)

LEMMA LineLenIs ==
    ASSUME NEW c \in ReaderType, c.found = TRUE, c.pos <= MaxLine
    PROVE  /\ LineLen(c) \in Nat
           /\ c.cr = FALSE => LineLen(c) = c.pos
           /\ c.cr = TRUE /\ c.pos > 0 => LineLen(c) = c.pos - 1
<1>1. c.pos \in Nat /\ SizeMod \in Nat /\ SizeMod > c.pos /\ SizeMod > 0 /\ c.cr \in BOOLEAN
  BY LineAssumption DEF ReaderType
<1>2. (c.pos - 1) % SizeMod \in Nat
  BY <1>1
<1>3. c.pos > 0 => (c.pos - 1) % SizeMod = c.pos - 1
  BY <1>1
<1> QED BY <1>1, <1>2, <1>3 DEF LineLen

\* The copy s of m bytes at most, when pages with a bytes have been gone through.
LineCopied(C, m, a, s) ==
    /\ s \in [left : Nat, dat : Seq(Byte)]
    /\ s.left = m - Lower(m, a) /\ s.dat = SubSeq(C, 1, Lower(m, a))

\* What k more of l bytes come to, when t of a bytes were taken.
TakesOf(m, a, l, t, k) ==
    /\ k \in Nat /\ k <= l /\ t \in Nat /\ t <= a /\ Lower(m, a + l) = t + k
    /\ m - (t + k) \in Nat /\ (m - t) - k = m - (t + k) /\ (k = 0 \/ t = a)

LEMMA LowerAdds ==
    ASSUME NEW m \in Nat, NEW a \in Nat, NEW l \in Nat, NEW t, t = Lower(m, a),
           NEW k, k = Lower(l, m - t)
    PROVE  TakesOf(m, a, l, t, k)
  BY DEF Lower, TakesOf

LEMMA PageCopied ==
    ASSUME HeapOK(heap), NEW b \in Buffers, NEW N, NEW ps, NEW acc,
           Enumerates(heap, b, N, ps, acc), NEW i \in 1..N, NEW m \in Nat,
           NEW s, LineCopied(Content(heap, b), m, acc[i - 1], s)
    PROVE  LineCopied(Content(heap, b), m, acc[i], CopyPage(s, ps[i]))
<1> DEFINE C == Content(heap, b)
           l == heap.page[ps[i]].len
           k == Lower(l, s.left)
           t == Lower(m, acc[i - 1])
<1>0. N \in Nat /\ i \in Nat /\ i - 1 \in Nat
  BY DEF Enumerates
<1>1. /\ ps[i] \in Mine(heap, b) /\ l \in Nat /\ acc[i - 1] \in Nat /\ acc[i] \in Nat
      /\ acc[i] = acc[i - 1] + l
  BY PageSum
<1>2. NodeLen(heap, ps[i]) = l
  BY <1>1, MineFacts DEF NodeLen
<1>3. s.left = m - t /\ s.dat = SubSeq(C, 1, t) /\ s.left \in Nat /\ s.dat \in Seq(Byte)
  BY DEF LineCopied
<1>4. /\ k \in Nat /\ k <= l /\ t \in Nat /\ t <= acc[i - 1] /\ Lower(m, acc[i]) = t + k
      /\ s.left - k \in Nat /\ s.left - k = m - (t + k) /\ (k = 0 \/ t = acc[i - 1])
  <2>1. k = Lower(l, m - t) /\ l = acc[i] - acc[i - 1] /\ acc[i - 1] + l = acc[i]
    BY <1>1, <1>3
  <2> HIDE DEF k, t, l
  <2>2. t = Lower(m, acc[i - 1]) /\ l \in Nat
    BY <1>1 DEF t
  <2>3. TakesOf(m, acc[i - 1], l, t, k)
    BY <1>1, <2>1, <2>2, LowerAdds
  <2> QED BY <1>3, <2>1, <2>3 DEF TakesOf
<1>5. InPage(heap, N, ps, acc, i, 0, k, acc[i - 1])
  BY <1>1, <1>4 DEF InPage
<1> HIDE DEF k, t
<1>6. /\ C \in Seq(Byte) /\ Len(C) = acc[N] /\ acc[N] \in Nat /\ acc[i - 1] + k <= acc[i]
      /\ acc[i] <= acc[N]
      /\ PageBytes(heap, ps[i], 0, k) = SubSeq(C, acc[i - 1] + 1, acc[i - 1] + k)
  BY <1>5, PageInContent
<1> HIDE DEF C, l
<1>7. acc[i - 1] + k <= Len(C) /\ acc[i - 1] <= Len(C) /\ t + k <= Len(C) /\ t <= Len(C)
  <2>1. acc[i - 1] \in Nat /\ acc[i] \in Nat /\ acc[N] \in Nat /\ k \in Nat /\ t \in Nat
    BY <1>1, <1>4, <1>6
  <2>2. acc[i - 1] <= acc[N]
    BY <2>1, <1>6
  <2>3. t + k <= acc[N]
    BY <2>1, <1>4, <1>6
  <2> QED BY <2>1, <2>2, <2>3, <1>4, <1>6
<1>8. PageBytes(heap, ps[i], 0, k) = SubSeq(C, t + 1, t + k)
  <2>1. CASE t = acc[i - 1]
    BY <1>6, <2>1
  <2>2. CASE k = 0
    <3>1. SubSeq(C, acc[i - 1] + 1, acc[i - 1]) = << >> /\ SubSeq(C, t + 1, t) = << >>
      BY <1>1, <1>4, <1>6, <1>7, NoPiece
    <3>2. acc[i - 1] + k = acc[i - 1] /\ t + k = t
      BY <1>1, <1>4, <2>2
    <3> QED BY <1>6, <3>1, <3>2
  <2> QED BY <1>4, <2>1, <2>2
<1>9. SubSeq(C, 1, t) \o SubSeq(C, t + 1, t + k) = SubSeq(C, 1, t + k)
      /\ SubSeq(C, 1, t + k) \in Seq(Byte)
  <2>1. 0 \in Nat /\ 0 <= t /\ t <= t + k /\ t + k \in Nat /\ 0 + 1 = 1 /\ 0 <= t + k
    BY <1>4
  <2>2. SubSeq(C, 0 + 1, t) \o SubSeq(C, t + 1, t + k) = SubSeq(C, 0 + 1, t + k)
    BY <2>1, <1>4, <1>6, <1>7, Spliced
  <2>3. SubSeq(C, 0 + 1, t + k) \in Seq(Byte)
    BY <2>1, <1>4, <1>6, <1>7, PieceOf
  <2> QED BY <2>1, <2>2, <2>3
<1>10. CopyPage(s, ps[i]) = [left |-> s.left - k, dat |-> SubSeq(C, 1, t + k)]
  BY <1>2, <1>3, <1>8, <1>9 DEF CopyPage, k
<1>11. LineCopied(C, m, acc[i], [left |-> s.left - k, dat |-> SubSeq(C, 1, t + k)])
  BY <1>4, <1>9 DEF LineCopied
<1> QED BY <1>10, <1>11 DEF C

\* The copying of m bytes at most of the pages qs.
CopyRun(m, qs, w) ==
    w = [i \in 0..Len(qs) |-> IF i = 0 THEN [left |-> m, dat |-> << >>]
                              ELSE CopyPage(w[i - 1], qs[i])]

LEMMA NothingCopied ==
    ASSUME NEW C \in Seq(Byte), NEW m \in Nat, NEW a, a = 0
    PROVE  LineCopied(C, m, a, [left |-> m, dat |-> << >>])
<1>1. Lower(m, a) = 0 /\ m - 0 = m
  BY DEF Lower
<1>2. SubSeq(C, 0 + 1, 0) = << >> /\ << >> \in Seq(Byte)
  <2>1. 0 \in Nat /\ 0 <= Len(C)
    OBVIOUS
  <2> QED BY <2>1, NoPiece
<1>3. SubSeq(C, 1, 0) = << >>
  BY <1>2
<1> QED BY <1>1, <1>2, <1>3 DEF LineCopied

LEMMA CopyRuns ==
    ASSUME HeapOK(heap), NEW b \in Buffers, NEW N, NEW ps, NEW acc,
           Enumerates(heap, b, N, ps, acc), NEW m \in Nat,
           NEW qs, Len(qs) = N, \A i \in 1..N : qs[i] = ps[i]
    PROVE  /\ \E w : CopyRun(m, qs, w)
           /\ \A w : CopyRun(m, qs, w) => LineCopied(Content(heap, b), m, acc[N], w[N])
<1> DEFINE C == Content(heap, b)
           T == [left : Nat, dat : Seq(Byte)]
           S == [i \in 0..N |-> {s \in T : LineCopied(C, m, acc[i], s)}]
           a == [left |-> m, dat |-> << >>]
           G == [i \in 1..N |-> [s \in T |-> CopyPage(s, qs[i])]]
<1>1. N \in Nat /\ 0 \in 0..N /\ N \in 0..N /\ acc[0] = 0 /\ C \in Seq(Byte)
  <2>1. C \in Seq(Byte)
    BY ContentLen
  <2> HIDE DEF C
  <2> QED BY <2>1 DEF Enumerates, Sums
<1>2. a \in S[0]
  <2>1. LineCopied(C, m, acc[0], a)
    BY <1>1, NothingCopied
  <2>2. a \in T
    BY <2>1 DEF LineCopied
  <2> HIDE DEF a, T, C
  <2> QED BY <1>1, <2>1, <2>2
<1>3. ASSUME NEW i \in 1..N, NEW s \in S[i - 1]
      PROVE  CopyPage(s, qs[i]) \in S[i] /\ G[i][s] = CopyPage(s, qs[i])
  <2>1. i - 1 \in 0..N /\ i \in 0..N
    BY <1>1
  <2>2. s \in T /\ LineCopied(C, m, acc[i - 1], s)
    <3> HIDE DEF T, C
    <3> QED BY <2>1
  <2>3. LineCopied(C, m, acc[i], CopyPage(s, ps[i]))
    <3> HIDE DEF T
    <3> QED BY <2>2, PageCopied
  <2>4. CopyPage(s, qs[i]) \in T
    BY <2>3 DEF LineCopied
  <2> HIDE DEF T, C
  <2> QED BY <2>1, <2>2, <2>3, <2>4
<1> HIDE DEF G, a, C, T
<1>4. \A s \in S[N] : LineCopied(C, m, acc[N], s)
  BY <1>1
<1> HIDE DEF S
<1>5. PICK f : Runs(f, a, G, N, S)
  BY <1>1, <1>2, <1>3, RunExists
<1>6. CopyRun(m, qs, f)
  <2>1. ASSUME NEW i \in 0..N PROVE f[i] = IF i = 0 THEN a ELSE CopyPage(f[i - 1], qs[i])
    <3>1. i # 0 => i \in 1..N /\ i - 1 \in 0..N
      BY <1>1
    <3>2. f[0] = a /\ (i # 0 => f[i] = G[i][f[i - 1]] /\ f[i - 1] \in S[i - 1])
      BY <3>1, <1>5 DEF Runs
    <3> QED BY <3>1, <3>2, <1>3
  <2>2. f = [i \in 0..N |-> f[i]]
    BY <1>5 DEF Runs
  <2> QED BY <2>1, <2>2 DEF CopyRun, a
<1>7. ASSUME NEW w, CopyRun(m, qs, w) PROVE LineCopied(C, m, acc[N], w[N])
  <2>1. w[0] = a /\ \A i \in 1..N : w[i] = CopyPage(w[i - 1], qs[i])
    <3>1. 0 \in 0..N /\ \A i \in 1..N : i \in 0..N /\ i # 0
      BY <1>1
    <3> QED BY <3>1, <1>7 DEF CopyRun, a
  <2>2. \A i \in 1..N : w[i - 1] \in S[i - 1] => w[i] \in S[i]
    BY <2>1, <1>3
  <2>3. \A i \in 0..N : w[i] \in S[i]
    BY <1>1, <1>2, <2>1, <2>2, Along
  <2> QED BY <2>3, <1>1, <1>4
<1> QED BY <1>6, <1>7 DEF C

\* get_line_data gives as much of the front of the buffer as the length of the line, the
\* memory and the buffer allow.
DataGiven(c, n, m) ==
    LET s == Content(heap, c.buf)
    IN  /\ m = Lower(Lower(LineLen(c), n), Len(s))
        /\ LineData(c, n) = SubSeq(s, 1, m) /\ m \in Nat /\ m <= Len(s)

LEMMA LineDataIs ==
    ASSUME HeapOK(heap), NEW c, c.buf \in Buffers, Listed(heap, c.buf), NEW n \in Nat,
           LineLen(c) \in Nat
    PROVE  \E m : DataGiven(c, n, m)
<1> DEFINE b == c.buf
           s == Content(heap, b)
           m == Lower(Lower(LineLen(c), n), Len(s))
           qs == PagesOf(heap, b)
           t == Lower(LineLen(c), n)
<1>1. PICK N, ps, acc : Enumerates(heap, b, N, ps, acc)
  BY DEF Listed
<1>2. qs = [i \in 1..N |-> ps[i]] /\ N \in Nat
  <2>1. N \in Nat
    BY <1>1 DEF Enumerates
  <2> QED BY <1>1, <2>1, WalkFindsPages
<1>3. Len(qs) = N /\ \A i \in 1..N : qs[i] = ps[i]
  <2> HIDE DEF qs
  <2> QED BY <1>2
<1>4. t \in Nat
  BY DEF Lower
<1>5. s \in Seq(Byte) /\ Len(s) = acc[N] /\ acc[N] \in Nat
  BY <1>1, ContentLen
<1>6. LineData(c, n) = (CHOOSE w : CopyRun(t, qs, w))[Len(qs)].dat
  BY DEF LineData, CopyRun
<1> HIDE DEF qs, t, m, s
<1>7. LineCopied(s, t, acc[N], (CHOOSE w : CopyRun(t, qs, w))[N])
  <2>1. /\ \E w : CopyRun(t, qs, w)
        /\ \A w : CopyRun(t, qs, w) => LineCopied(Content(heap, b), t, acc[N], w[N])
    BY <1>1, <1>3, <1>4, CopyRuns
  <2> QED BY <2>1 DEF s
<1>8. LineData(c, n) = SubSeq(s, 1, Lower(t, acc[N]))
  BY <1>3, <1>6, <1>7 DEF LineCopied
<1>9. m = Lower(t, acc[N])
  BY <1>5 DEF t, m
<1>10. m \in Nat /\ m <= Len(s)
  BY <1>4, <1>5, <1>9 DEF Lower
<1>11. DataGiven(c, n, m)
  BY <1>8, <1>9, <1>10 DEF DataGiven, m, s
<1> QED BY <1>11

-----------------------------------------------------------------------------
(* The invariant.                                                          *)

ReadersOK(h, c, R) == R \in [Readers -> ReaderType] /\ \A r \in Readers : ReaderOK(h, c, R[r])

\* The inductive invariant of the readers.
ReaderInv ==
    /\ ReadersOK(heap, call, reader)
    /\ ClearBumps
    /\ call.pc # "idle" /\ call.fn = "destroy" => \A r \in Readers : reader[r].buf # call.buf

SeekerType == [by : Readers, line : BOOLEAN, rest : Seq(Byte)]

\* A seek_line in progress: its reader is there until the seek returns, and the seek has
\* still to take what is in front of the rest.
SeekerInv ==
    seeker # NULL =>
        /\ seeker \in SeekerType /\ call.pc # "idle" /\ call.fn = "seek"
        /\ reader[seeker.by].buf # NULL /\ reader[seeker.by].buf = call.buf
        /\ seeker.line = TRUE => Taking(heap, call, seeker.rest)

\* All that is true of the buffers and the readers between two steps.
AllInv == IInv /\ ListInv /\ FillInv /\ ReaderInv /\ SeekerInv

\* The reader d of a buffer that no call is in.
Settled(d) ==
    /\ d \in ReaderType /\ d.buf \in Buffers /\ d.buf # NULL /\ d.stale = FALSE
    /\ Exists(heap, d.buf) /\ Standing(heap, d)
    /\ HeapOK(heap) /\ Filled(heap) /\ Listed(heap, d.buf)
    /\ Content(heap, d.buf) \in Seq(Byte) /\ Len(Content(heap, d.buf)) = size[d.buf]

LEMMA HeadIsReady ==
    ASSUME IInv, ListInv, FillInv, call = Idle, NEW b \in Buffers, Exists(heap, b),
           NEW d, d = AtHead(heap, b)
    PROVE  Settled(d) /\ d.buf = b /\ d.found = FALSE /\ d.term = FALSE /\ d.termcr = FALSE
<1>1. HeapOK(heap) /\ Filled(heap) /\ Listed(heap, b) /\ b # NULL
  BY ListedIf, HeapAssumption DEF IInv, FillInv
<1>2. Content(heap, b) \in Seq(Byte) /\ Len(Content(heap, b)) = size[b]
  BY ContentSized
<1>3. /\ d \in ReaderType /\ d.buf = b /\ d.stale = FALSE /\ d.found = FALSE
      /\ d.term = FALSE /\ d.termcr = FALSE /\ Standing(heap, d)
  BY <1>1, HeadIsOK
<1> QED BY <1>1, <1>2, <1>3 DEF Settled

\* A reader that was reset if it had to.
LEMMA CurrentIsReady ==
    ASSUME IInv, ListInv, FillInv, ReaderInv, call = Idle, NEW r \in Readers, Live(r),
           NEW d, d = Current(reader[r])
    PROVE  Settled(d) /\ d.buf = reader[r].buf
<1> DEFINE e == reader[r]
<1>1. ReaderOK(heap, call, e) /\ e.buf # NULL /\ e \in ReaderType
  BY DEF ReaderInv, ReadersOK, Live
<1>2. e.buf \in Buffers /\ Exists(heap, e.buf) /\ e.stale \in BOOLEAN
  BY <1>1 DEF ReaderOK, ReaderType
<1>3. CASE e.stale = TRUE
  <2>1. d = AtHead(heap, e.buf)
    BY <1>3 DEF Current
  <2> HIDE DEF e
  <2> QED BY <1>2, <2>1, HeadIsReady DEF e
<1>4. CASE e.stale = FALSE
  <2>1. d = e
    BY <1>4 DEF Current
  <2>2. HeapOK(heap) /\ Filled(heap) /\ Listed(heap, e.buf)
    BY <1>2, ListedIf DEF IInv, FillInv
  <2>3. Content(heap, e.buf) \in Seq(Byte) /\ Len(Content(heap, e.buf)) = size[e.buf]
    BY <1>2, ContentSized
  <2>4. ~Owes(call, e.buf)
    BY DEF Owes, Moving, Idle
  <2>5. Standing(heap, e)
    BY <1>1, <1>4, <2>4 DEF ReaderOK
  <2> QED BY <1>1, <1>2, <1>4, <2>1, <2>2, <2>3, <2>5 DEF Settled
<1> QED BY <1>2, <1>3, <1>4

LEMMA ReadyIsOK ==
    ASSUME NEW d, Settled(d), NEW c
    PROVE  ReaderOK(heap, c, d)
  BY DEF Settled, ReaderOK

\* One reader is changed, the others are not.
LEMMA OneReader ==
    ASSUME NEW h, NEW c, NEW R, ReadersOK(h, c, R), NEW r \in Readers, NEW d,
           ReaderOK(h, c, d), NEW R1, R1 = [R EXCEPT ![r] = d]
    PROVE  ReadersOK(h, c, R1)
<1>1. d \in ReaderType
  BY DEF ReaderOK
<1>2. R1 \in [Readers -> ReaderType]
  BY <1>1 DEF ReadersOK
<1>3. ASSUME NEW q \in Readers PROVE ReaderOK(h, c, R1[q])
  <2>1. CASE q = r
    <3>1. R1[q] = d
      BY <2>1 DEF ReadersOK
    <3> QED BY <3>1
  <2>2. CASE q # r
    <3>1. R1[q] = R[q]
      BY <2>2 DEF ReadersOK
    <3> QED BY <3>1 DEF ReadersOK
  <2> QED BY <2>1, <2>2
<1> QED BY <1>2, <1>3 DEF ReadersOK

-----------------------------------------------------------------------------
(* The functions of a reader.                                              *)

\* has_line of a reader that is up to date.
Found(c) == IF c.found \/ size[c.buf] = 0 THEN c ELSE Search(c)

LEMMA HasLineFinds ==
    ASSUME NEW c, Settled(c)
    PROVE  /\ Settled(Found(c)) /\ Same(c, Found(c))
           /\ Found(c).found = TRUE <=> Content(heap, c.buf) # << >> /\ LineIn(Content(heap, c.buf), c)
<1> DEFINE s == Content(heap, c.buf)
<1>1. c \in ReaderType /\ Standing(heap, c) /\ s \in Seq(Byte) /\ Len(s) = size[c.buf]
      /\ c.buf \in Buffers /\ c.found \in BOOLEAN /\ Len(s) \in Nat /\ LineOK(s, c)
  BY DEF Settled, ReaderType, Standing
<1>2. s # << >> <=> Len(s) # 0
  <2> HIDE DEF s
  <2> QED BY <1>1
<1>3. CASE c.found = TRUE
  <2>1. Found(c) = c
    BY <1>3 DEF Found
  <2>2. OnBytes(s, c) /\ LineFound(s, c)
    BY <1>1, <1>3 DEF LineOK
  <2>3. c.pos \in Nat /\ c.pos < Len(s)
    BY <2>2 DEF OnBytes, LineFound
  <2>4. c.pos + 1 \in 1..Len(s) /\ Len(s) # 0 /\ (c.pos = MaxLine => Len(s) > MaxLine)
    BY <1>1, <2>3
  <2>5. LineIn(s, c)
    BY <2>2, <2>4 DEF LineFound, LineIn
  <2> QED BY <1>2, <1>3, <2>1, <2>4, <2>5 DEF Same
<1>4. CASE c.found = FALSE /\ Len(s) = 0
  <2>1. Found(c) = c
    BY <1>1, <1>4 DEF Found
  <2> QED BY <1>2, <1>4, <2>1 DEF Same
<1>5. CASE c.found = FALSE /\ Len(s) # 0
  <2>1. Found(c) = Search(c)
    BY <1>1, <1>5 DEF Found
  <2>2. Len(s) > 0
    BY <1>1, <1>5
  <2>3. Searches(c)
    BY <1>1, <1>5, <2>2 DEF Searches, Settled
  <2>4. Searched(c, Search(c))
    BY <2>3, SearchFinds
  <2> DEFINE e == Search(c)
  <2> HIDE DEF e
  <2>5. e \in ReaderType /\ Same(c, e) /\ Standing(heap, e) /\ (e.found = TRUE <=> LineIn(s, c))
    BY <2>4 DEF Searched, e
  <2>6. Settled(e)
    BY <2>5 DEF Settled, Same
  <2> QED BY <1>2, <1>5, <2>1, <2>5, <2>6 DEF e
<1> QED BY <1>1, <1>3, <1>4, <1>5

\* A line may be terminated at any time.
LEMMA TerminatedIsOK ==
    ASSUME NEW h, NEW c, NEW d, ReaderOK(h, c, d),
           NEW e, e = [d EXCEPT !.term = TRUE] \/ e = [d EXCEPT !.termcr = TRUE]
    PROVE  ReaderOK(h, c, e)
<1>1. /\ e \in ReaderType /\ e.buf = d.buf /\ e.at = d.at /\ e.pos = d.pos /\ e.cr = d.cr
      /\ e.found = d.found /\ e.stale = d.stale
      /\ (d.term = TRUE => e.term = TRUE) /\ (d.termcr = TRUE => e.termcr = TRUE)
  BY DEF ReaderOK, ReaderType
<1>2. ASSUME NEW s, LineOK(s, d) PROVE LineOK(s, e)
  <2>1. OnBytes(s, e) /\ (ToGoOn(s, d) => ToGoOn(s, e)) /\ (CrRight(s, d) => CrRight(s, e))
    BY <1>1, <1>2 DEF LineOK, OnBytes, ToGoOn, CrRight
  <2>2. LineFound(s, d) => LineFound(s, e)
    BY <1>1, <2>1 DEF LineFound
  <2> QED BY <1>1, <1>2, <2>1, <2>2 DEF LineOK
<1>3. Standing(h, d) => Standing(h, e)
  BY <1>1, <1>2 DEF Standing
<1> QED BY <1>1, <1>3 DEF ReaderOK

\* A function of a reader that enters no call.
OnlyReader(r, d) == /\ reader' = [reader EXCEPT ![r] = d]
                    /\ UNCHANGED << heap, size, bumped, call, fault, seeker >>

\* The seek inside seek_line begins.
SeekBegins(r, c) ==
    LET b == c.buf
        m == ToSeek(c)
    IN  /\ Settled(c) /\ c.found = TRUE /\ b = reader[r].buf
        /\ call = Idle /\ fault = "none"
        /\ Start([Enter("seek", b, m) EXCEPT !.it = heap.nxt[b]])
        /\ seeker' = [by |-> r, line |-> OnLineEnd(c) /\ ~c.term,
                      rest |-> SubSeq(Content(heap, b), c.pos + 2, size[b])]
        /\ reader' = [reader EXCEPT ![r] = c]

LEMMA ReaderInvIdle ==
    ASSUME ReadersOK(heap, Idle, reader)', call' = Idle
    PROVE  ReaderInv'
<1>1. call'.pc = "idle"
  BY DEF Idle
<1>2. ReadersOK(heap', call', reader')
  BY DEF Idle
<1> QED BY <1>1, <1>2 DEF ReaderInv, ClearBumps

LEMMA OnlyReaderKeeps ==
    ASSUME CountSuffices, NoSplitAtEnd, AllInv, call = Idle, NEW r \in Readers,
           NEW d, ReaderOK(heap, call, d), OnlyReader(r, d)
    PROVE  AllInv'
<1>1. /\ reader' = [reader EXCEPT ![r] = d]
      /\ UNCHANGED << heap, size, bumped, call, fault, seeker >>
  BY DEF OnlyReader
<1>2. IInv' /\ ListInv' /\ FillInv'
  <2>1. UNCHANGED vars /\ [Next]_vars
    BY <1>1 DEF vars
  <2>2. IInv'
    BY <2>1, StutterKeeps DEF AllInv
  <2> QED BY <2>1, <2>2, StepKeepsLists, StepKeepsFilled DEF AllInv
<1>3. ReaderInv'
  <2>1. ReadersOK(heap, call, reader')
    BY <1>1, OneReader DEF AllInv, ReaderInv
  <2> QED BY <1>1, <2>1, ReaderInvIdle
<1>4. SeekerInv'
  <2>1. seeker = NULL
    BY DEF AllInv, SeekerInv, Idle
  <2> QED BY <1>1, <2>1 DEF SeekerInv
<1> QED BY <1>2, <1>3, <1>4 DEF AllInv

\* How far the seek of a line goes.
LEMMA ToSeekIs ==
    ASSUME NEW c, Settled(c), c.found = TRUE
    PROVE  /\ ToSeek(c) \in Nat /\ ToSeek(c) <= Len(Content(heap, c.buf))
           /\ c.pos \in Nat /\ c.pos < Len(Content(heap, c.buf))
           /\ c.term = FALSE => ToSeek(c) = c.pos + 1
<1> DEFINE s == Content(heap, c.buf)
<1>1. s \in Seq(Byte) /\ LineOK(s, c) /\ c.term \in BOOLEAN
  BY DEF Settled, Standing, ReaderType
<1>2. c.pos \in Nat /\ c.pos < Len(s) /\ Len(s) \in Nat
  BY <1>1 DEF LineOK, OnBytes, LineFound
<1>3. ToSeek(c) = c.pos \/ ToSeek(c) = c.pos + 1
  BY DEF ToSeek
<1>4. c.term = FALSE => ToSeek(c) = c.pos + 1
  BY DEF ToSeek
<1> HIDE DEF s
<1>5. ToSeek(c) \in Nat /\ ToSeek(c) <= Len(s)
  BY <1>2, <1>3
<1> QED BY <1>2, <1>4, <1>5 DEF s

LEMMA SeekBeginsKeeps ==
    ASSUME CountSuffices, NoSplitAtEnd, AllInv, NEW r \in Readers, NEW d, SeekBegins(r, d)
    PROVE  AllInv' /\ UNCHANGED fault /\ call'.fn = "seek"
<1> DEFINE b == d.buf
           m == ToSeek(d)
           C == Content(heap, b)
           c == [Enter("seek", b, m) EXCEPT !.it = heap.nxt[b]]
           rest == SubSeq(C, d.pos + 2, Len(C))
<1>1. /\ Settled(d) /\ d.found = TRUE /\ b = reader[r].buf /\ call = Idle /\ fault = "none"
      /\ Start(c) /\ reader' = [reader EXCEPT ![r] = d]
  BY DEF SeekBegins
<1>2. b \in Buffers /\ b # NULL /\ Exists(heap, b) /\ C \in Seq(Byte) /\ Len(C) = size[b]
  BY <1>1 DEF Settled
<1>3. m \in Nat /\ m <= Len(C) /\ d.pos \in Nat /\ d.pos < Len(C)
      /\ (d.term = FALSE => m = d.pos + 1)
  BY <1>1, ToSeekIs
<1>4. IInv /\ ListInv /\ FillInv /\ ReaderInv
  BY DEF AllInv
<1>5. seeker' = [by |-> r, line |-> OnLineEnd(d) /\ ~d.term, rest |-> rest]
  BY <1>2 DEF SeekBegins
<1> HIDE DEF m, C
<1>6. Seeks(c, b, m)
  BY <1>2, <1>3, <1>4, SeekEntered DEF c
<1> HIDE DEF c
<1>7. /\ c \in CallType /\ CallOK(heap, c) /\ c.fn = "seek" /\ c.buf = b /\ c.len = m
      /\ c.pc = "loop"
  BY <1>6 DEF Seeks
<1>8. call' = c /\ UNCHANGED << heap, size, fault >>
  BY <1>1 DEF Start
<1>9. IInv'
  BY <1>1, <1>4, <1>7, StartOK
<1>10. ListInv'
  <2>1. Plain(call) /\ Plain(call)'
    BY <1>1, <1>7, <1>8 DEF Plain, Idle
  <2> QED BY <1>4, <2>1, <1>8, OnlyCall
<1>11. FillInv'
  <2>1. Filled(heap') /\ fault' # "freed_linked" /\ call'.fn \notin Inserting
    BY <1>1, <1>4, <1>7, <1>8 DEF FillInv, Filled, LivePages, Inserting
  <2> QED BY <2>1, NoInsertFits
<1>12. ReadersOK(heap, c, reader)
  <2>1. ASSUME NEW q \in Readers PROVE ReaderOK(heap, c, reader[q])
    <3>1. ReaderOK(heap, call, reader[q]) /\ ~Owes(call, reader[q].buf)
      BY <1>1, <1>4 DEF ReaderInv, ReadersOK, Owes, Moving, Idle
    <3> QED BY <3>1 DEF ReaderOK
  <2> QED BY <1>4, <2>1 DEF ReaderInv, ReadersOK
<1>13. ReadersOK(heap, c, reader')
  BY <1>1, <1>12, ReadyIsOK, OneReader
<1>14. ReaderInv'
  <2>1. call'.fn = "seek"
    BY <1>7, <1>8
  <2>2. ReadersOK(heap', call', reader')
    BY <1>8, <1>13
  <2> QED BY <2>1, <2>2 DEF ReaderInv, ClearBumps
<1>15. rest \in Seq(Byte)
  <2>1. d.pos + 2 = (d.pos + 1) + 1 /\ d.pos + 1 \in Nat /\ d.pos + 1 <= Len(C)
        /\ Len(C) \in Nat /\ Len(C) <= Len(C)
    BY <1>2, <1>3
  <2> QED BY <1>2, <2>1, PieceOf
<1>16. /\ seeker'.by = r /\ seeker'.rest = rest /\ seeker' \in SeekerType
       /\ (seeker'.line = TRUE => d.term = FALSE)
  <2>1. d.term \in BOOLEAN
    BY <1>1 DEF Settled, ReaderType
  <2>2. OnLineEnd(d) \in BOOLEAN
    BY DEF OnLineEnd
  <2> HIDE DEF rest
  <2> QED BY <1>5, <1>15, <2>1, <2>2 DEF SeekerType
<1>17. seeker'.line = TRUE => Taking(heap', call', rest)
  <2>1. heap' = heap /\ call'.buf = b /\ call'.len = m /\ call'.fn = "seek" /\ call'.pc = "loop"
    BY <1>7, <1>8
  <2>2. ASSUME d.term = FALSE PROVE Taking(heap', call', rest)
    <3>1. m + 1 = d.pos + 2
      BY <1>3, <2>2
    <3>2. Content(heap, b) \in Seq(Byte) /\ m <= Len(Content(heap, b)) /\ m \in Nat
          /\ rest = SubSeq(Content(heap, b), m + 1, Len(Content(heap, b)))
      BY <1>2, <1>3, <3>1 DEF C
    <3> HIDE DEF b, rest
    <3> QED BY <1>2, <1>15, <2>1, <3>2 DEF Taking
  <2> QED BY <1>16, <2>2
<1>18. reader'[r] = d
  BY <1>1, <1>4 DEF ReaderInv, ReadersOK
<1>19. SeekerInv'
  <2>1. call'.pc # "idle" /\ call'.fn = "seek" /\ call'.buf = b
    BY <1>7, <1>8
  <2> HIDE DEF rest
  <2> QED BY <1>2, <1>16, <1>17, <1>18, <2>1 DEF SeekerInv
<1> QED BY <1>7, <1>8, <1>9, <1>10, <1>11, <1>14, <1>19 DEF AllInv

\* What the functions of a reader come to.
LEMMA ReaderOpIs ==
    ASSUME AllInv, ReaderOp
    PROVE  /\ call = Idle
           /\ \E r \in Readers :
                 \/ \E d : ReaderOK(heap, call, d) /\ OnlyReader(r, d)
                 \/ \E d : SeekBegins(r, d)
<1>1. call = Idle
  BY DEF ReaderOp, CreateReader, CloneReader, ResetReader, DestroyReader, HasLine, GetLine,
         SeekLine, TerminateLine, TerminateLineCheckCr, BetweenCalls
<1>2. IInv /\ ListInv /\ FillInv /\ ReaderInv
  BY DEF AllInv
<1>3. ASSUME NEW r \in Readers, NEW d, ReaderOK(heap, call, d), Become(r, d)
      PROVE  OnlyReader(r, d)
  BY <1>3 DEF Become, OnlyReader
<1>4. ASSUME NEW r \in Readers, Live(r)
      PROVE  /\ ReaderOK(heap, call, reader[r])
             /\ Settled(Current(reader[r])) /\ Current(reader[r]).buf = reader[r].buf
             /\ reader[r].buf \in Buffers /\ Exists(heap, reader[r].buf)
  <2>1. Settled(Current(reader[r])) /\ Current(reader[r]).buf = reader[r].buf
    BY <1>1, <1>2, <1>4, CurrentIsReady
  <2>2. ReaderOK(heap, call, reader[r])
    BY <1>2 DEF ReaderInv, ReadersOK
  <2> QED BY <2>1, <2>2 DEF Settled
<1>5. ASSUME NEW b \in Buffers, Exists(heap, b) PROVE ReaderOK(heap, call, AtHead(heap, b))
  <2>1. Settled(AtHead(heap, b))
    BY <1>1, <1>2, <1>5, HeadIsReady
  <2> QED BY <2>1, ReadyIsOK
<1>6. PICK r \in Readers :
        \/ \E b \in Buffers : CreateReader(r, b)
        \/ \E s \in Readers : CloneReader(r, s)
        \/ ResetReader(r) \/ DestroyReader(r)
        \/ HasLine(r) \/ GetLine(r) \/ SeekLine(r)
        \/ TerminateLine(r) \/ TerminateLineCheckCr(r)
  BY DEF ReaderOp
<1> DEFINE Kept == \E d : ReaderOK(heap, call, d) /\ OnlyReader(r, d)
<1>7. ASSUME NEW d, ReaderOK(heap, call, d), Become(r, d) PROVE Kept
  BY <1>3, <1>7
<1> HIDE DEF Kept
<1>8. ASSUME NEW b \in Buffers, CreateReader(r, b) PROVE Kept
  BY <1>5, <1>7, <1>8 DEF CreateReader
<1>9. ASSUME NEW s \in Readers, CloneReader(r, s) PROVE Kept
  BY <1>4, <1>7, <1>9 DEF CloneReader
<1>10. ResetReader(r) => Kept
  BY <1>4, <1>5, <1>7 DEF ResetReader
<1>11. DestroyReader(r) => Kept
  <2>1. NoReader \in ReaderType /\ NoReader.buf = NULL
    BY DEF NoReader, ReaderType, ByteIterators
  <2>2. ReaderOK(heap, call, NoReader)
    BY <2>1 DEF ReaderOK
  <2> QED BY <1>7, <2>2 DEF DestroyReader
<1>12. HasLine(r) => Kept
  <2> SUFFICES ASSUME HasLine(r) PROVE Kept
    OBVIOUS
  <2>1. Live(r) /\ Become(r, Found(Current(reader[r])))
    BY DEF HasLine, Found
  <2>2. Settled(Found(Current(reader[r])))
    BY <1>4, <2>1, HasLineFinds
  <2> QED BY <1>7, <2>1, <2>2, ReadyIsOK
<1>13. GetLine(r) => Kept
  BY <1>4, <1>7, ReadyIsOK DEF GetLine
<1>14. TerminateLine(r) \/ TerminateLineCheckCr(r) => Kept
  <2>1. TerminateLine(r) => Live(r) /\ Become(r, [reader[r] EXCEPT !.term = TRUE])
    BY DEF TerminateLine
  <2>2. TerminateLineCheckCr(r) => Live(r) /\ Become(r, [reader[r] EXCEPT !.termcr = TRUE])
    BY DEF TerminateLineCheckCr
  <2>3. Live(r) => /\ ReaderOK(heap, call, [reader[r] EXCEPT !.term = TRUE])
                   /\ ReaderOK(heap, call, [reader[r] EXCEPT !.termcr = TRUE])
    BY <1>4, TerminatedIsOK
  <2> QED BY <1>7, <2>1, <2>2, <2>3
<1>15. SeekLine(r) => Kept \/ \E d : SeekBegins(r, d)
  <2> SUFFICES ASSUME SeekLine(r) PROVE Kept \/ \E d : SeekBegins(r, d)
    OBVIOUS
  <2> DEFINE d == Current(reader[r])
  <2>1. /\ Live(r) /\ fault = "none"
        /\ IF ~d.found THEN Become(r, d)
           ELSE IF ToSeek(d) = 0 \/ ~Allowed(d.buf, "seek")
           THEN Become(r, AtHead(heap, d.buf))
           ELSE /\ Start([Enter("seek", d.buf, ToSeek(d)) EXCEPT !.it = heap.nxt[d.buf]])
                /\ seeker' = [by |-> r, line |-> OnLineEnd(d) /\ ~d.term, rest |->
                                SubSeq(Content(heap, d.buf), d.pos + 2, size[d.buf])]
                /\ reader' = [reader EXCEPT ![r] = d]
    BY DEF SeekLine, BetweenCalls
  <2>2. Settled(d) /\ d.buf = reader[r].buf
    BY <1>4, <2>1
  <2> HIDE DEF d
  <2>3. ReaderOK(heap, call, d) /\ ReaderOK(heap, call, AtHead(heap, d.buf)) /\ d.found \in BOOLEAN
    BY <1>5, <2>2, ReadyIsOK DEF Settled, ReaderType
  <2>4. Kept \/ SeekBegins(r, d)
    BY <1>1, <1>7, <2>1, <2>2, <2>3 DEF SeekBegins
  <2> QED BY <2>4
<1>16. Kept \/ \E d : SeekBegins(r, d)
  BY <1>6, <1>8, <1>9, <1>10, <1>11, <1>12, <1>13, <1>14, <1>15
<1> QED BY <1>1, <1>16 DEF Kept

LEMMA ReaderOpKeeps ==
    ASSUME CountSuffices, NoSplitAtEnd, AllInv, ReaderOp
    PROVE  AllInv'
  BY ReaderOpIs, OnlyReaderKeeps, SeekBeginsKeeps

-----------------------------------------------------------------------------
(* The steps of the buffers.                                               *)

\* The seek of a line that returns leaves its reader at the head.
LEMMA ReaderAtHead ==
    ASSUME IInv, IInv', ListInv, FillInv, NEW b \in Buffers, Exists(heap, b), heap' = heap,
           NEW d, d = AtHead(heap', b)
    PROVE  ReaderOK(heap', call', d)
<1>1. HeapOK(heap) /\ Filled(heap) /\ Listed(heap, b) /\ d = AtHead(heap, b)
  BY ListedIf DEF IInv, FillInv
<1>2. d \in ReaderType /\ d.buf = b /\ Standing(heap, d)
  BY <1>1, HeadIsOK
<1>3. Standing(heap', d) /\ Exists(heap', b)
  BY <1>2
<1> QED BY <1>2, <1>3 DEF ReaderOK

LEMMA BufferStepKeeps ==
    ASSUME CountSuffices, AllInv, IInv', BufferStep
    PROVE  ReaderInv' /\ \A r \in Readers : reader'[r].buf = reader[r].buf
<1>1. /\ Next /\ ClearBumps /\ ReadersOK(heap, call, reader)
      /\ IInv /\ ListInv /\ FillInv /\ ReaderInv /\ SeekerInv
  BY DEF BufferStep, AllInv, ReaderInv
<1>2. reader' = [r \in Readers |-> AfterStep(r)]
  BY DEF BufferStep
<1>3. ASSUME NEW r \in Readers
      PROVE  ReaderOK(heap', call', reader'[r]) /\ reader'[r].buf = reader[r].buf
  <2> DEFINE d == reader[r]
  <2>1. ReaderOK(heap, call, d) /\ d \in ReaderType /\ reader'[r] = AfterStep(r)
    BY <1>1, <1>2 DEF ReadersOK
  <2>2. call.pc # "idle" /\ call.fn = "destroy" => d.buf # call.buf
    BY <1>1 DEF ReaderInv
  <2>3. CASE Returned /\ seeker # NULL /\ seeker.by = r
    <3>1. reader'[r] = AtHead(heap', d.buf)
      BY <2>1, <2>3 DEF AfterStep
    <3>2. call.pc # "idle" /\ call.fn = "seek" /\ d.buf # NULL
      BY <1>1, <2>3 DEF SeekerInv
    <3>3. heap' = heap
      <4>1. ~Client
        BY <1>1, <3>2, ClientBegins
      <4>2. ~Return => call'.pc # "idle"
        BY <1>1, <4>1, LibraryEffect, InLibrary DEF Next, StepEffect, CallGoesOn
      <4>3. Return
        BY <2>3, <4>2 DEF Returned
      <4> QED BY <3>2, <4>3 DEF Return
    <3>4. d.buf \in Buffers /\ Exists(heap, d.buf)
      BY <2>1, <3>2 DEF ReaderOK, ReaderType
    <3>5. AtHead(heap', d.buf).buf = d.buf
      BY DEF AtHead
    <3> HIDE DEF d
    <3> QED BY <1>1, <3>1, <3>3, <3>4, <3>5, ReaderAtHead DEF d
  <2>4. CASE ~(Returned /\ seeker # NULL /\ seeker.by = r)
    <3>1. reader'[r] = IF d.buf \in bumped' THEN [d EXCEPT !.stale = TRUE] ELSE d
      BY <2>1, <2>4 DEF AfterStep, Noticed
    <3>2. [d EXCEPT !.stale = TRUE].buf = d.buf
      BY <2>1 DEF ReaderType
    <3> HIDE DEF d
    <3>3. CASE d.buf \in bumped'
      BY <1>1, <2>1, <2>2, <3>1, <3>2, <3>3, StaleReader DEF d
    <3>4. CASE d.buf \notin bumped'
      BY <1>1, <2>1, <2>2, <3>1, <3>4, StepKeepsReader DEF d
    <3> QED BY <3>3, <3>4
  <2> QED BY <2>3, <2>4
<1>4. ReadersOK(heap', call', reader')
  <2>1. \A r \in Readers : reader'[r] \in ReaderType
    BY <1>3 DEF ReaderOK
  <2>2. reader' \in [Readers -> ReaderType]
    BY <1>2, <2>1
  <2> QED BY <1>3, <2>2 DEF ReadersOK
<1>5. ClearBumps' /\ (call'.pc # "idle" /\ call'.fn = "destroy"
                         => \A r \in Readers : reader[r].buf # call'.buf)
  <2>1. CASE Client
    <3>1. call.pc = "idle" /\ (Begun \/ Made)
      BY <1>1, <2>1, ClientBegins
    <3>2. CASE Made
      BY <3>1, <3>2 DEF Made, ClearBumps
    <3>3. CASE Begun
      BY <3>1, <3>3 DEF Begun, ClearBumps, BufferStep, Entered
    <3> QED BY <3>1, <3>2, <3>3
  <2>2. CASE Return
    BY <2>2 DEF Return, Idle, ClearBumps
  <2>3. CASE Library /\ ~Return
    <3>1. CallGoesOn /\ call.pc # "idle"
      BY <1>1, <2>3, LibraryEffect, InLibrary DEF StepEffect
    <3>2. call.fn \in {"clear", "destroy"} => bumped' = bumped
      BY <2>3, ClearingIsClear
    <3> QED BY <3>1, <3>2, <1>1 DEF CallGoesOn, ClearBumps, ReaderInv
  <2> QED BY <1>1, <2>1, <2>2, <2>3 DEF Next
<1> QED BY <1>3, <1>4, <1>5 DEF ReaderInv

LEMMA SeekerStep ==
    ASSUME CountSuffices, AllInv, IInv', BufferStep
    PROVE  /\ SeekerInv'
           /\ seeker # NULL /\ Returned /\ seeker.line => Content(heap', call.buf) = seeker.rest
<1>1. /\ Next /\ seeker' = (IF Returned THEN NULL ELSE seeker)
      /\ IInv /\ ListInv /\ FillInv /\ ClearBumps
  BY DEF BufferStep, AllInv, ReaderInv
<1>2. CASE seeker = NULL
  BY <1>1, <1>2 DEF SeekerInv
<1>3. CASE seeker # NULL
  <2> DEFINE rest == seeker.rest
  <2>1. /\ seeker \in SeekerType /\ call.pc # "idle" /\ call.fn = "seek"
        /\ reader[seeker.by].buf # NULL /\ reader[seeker.by].buf = call.buf
        /\ seeker.line = TRUE => Taking(heap, call, rest)
    BY <1>3 DEF AllInv, SeekerInv
  <2>2. seeker.by \in Readers /\ seeker.line \in BOOLEAN
    BY <2>1 DEF SeekerType
  <2>3. reader'[seeker.by].buf = reader[seeker.by].buf
    BY <2>2, BufferStepKeeps
  <2>4. ~Client
    BY <1>1, <2>1, ClientBegins
  <2> HIDE DEF rest
  <2>5. CASE Return
    <3>1. Returned
      BY <2>1, <2>5 DEF Return, Returned, Idle
    <3>2. seeker.line = TRUE => Content(heap', call.buf) = rest
      BY <1>1, <2>1, <2>5, TakingEnds
    <3> QED BY <1>1, <2>2, <3>1, <3>2 DEF SeekerInv, rest
  <2>6. CASE ~Return
    <3>1. call'.pc # "idle" /\ call'.buf = call.buf /\ call'.fn = call.fn
      BY <1>1, <2>4, <2>6, LibraryEffect DEF Next, StepEffect, CallGoesOn
    <3>2. ~Returned
      BY <3>1 DEF Returned
    <3>3. seeker.line = TRUE => Taking(heap', call', rest)
      <4> SUFFICES ASSUME seeker.line = TRUE PROVE Taking(heap', call', rest)
        OBVIOUS
      <4>1. Taking(heap, call, rest)
        BY <2>1
      <4>2. SeekStep
        BY <1>1, <2>6, <4>1, OnlySeeks
      <4> QED BY <1>1, <4>1, <4>2, TakingGoesOn
    <3>4. seeker' = seeker
      BY <1>1, <3>2
    <3> QED BY <2>1, <2>3, <3>1, <3>2, <3>3, <3>4 DEF SeekerInv, rest
  <2> QED BY <2>5, <2>6
<1> QED BY <1>2, <1>3

LEMMA StepKeepsAll ==
    ASSUME CountSuffices, NoSelfSource, NoSplitAtEnd, AllInv, [LNext]_lvars
    PROVE  AllInv'
<1>1. CASE ReaderOp
  BY <1>1, ReaderOpKeeps
<1>2. CASE BufferStep
  <2>1. IInv /\ ListInv /\ FillInv /\ Next /\ [Next]_vars
    BY <1>2 DEF AllInv, BufferStep
  <2>2. IInv'
    BY <2>1, ClientKeeps, LibraryKeeps DEF Next
  <2>3. ListInv' /\ FillInv'
    BY <2>1, <2>2, StepKeepsLists, StepKeepsFilled
  <2>4. ReaderInv' /\ SeekerInv'
    BY <1>2, <2>2, BufferStepKeeps, SeekerStep
  <2> QED BY <2>2, <2>3, <2>4 DEF AllInv
<1>3. CASE UNCHANGED lvars
  <2>1. UNCHANGED vars /\ [Next]_vars
    BY <1>3 DEF lvars, vars
  <2>2. IInv'
    BY <2>1, StutterKeeps DEF AllInv
  <2>3. ListInv' /\ FillInv'
    BY <2>1, <2>2, StepKeepsLists, StepKeepsFilled DEF AllInv
  <2>4. ReaderInv' /\ SeekerInv'
    BY <1>3 DEF AllInv, ReaderInv, ClearBumps, SeekerInv, lvars
  <2> QED BY <2>2, <2>3, <2>4 DEF AllInv
<1> QED BY <1>1, <1>2, <1>3 DEF LNext

LEMMA InitAll == LInit => AllInv
<1>1. ASSUME LInit PROVE IInv /\ ListInv /\ FillInv
  BY <1>1, InitIInv, InitLists
     DEF LInit, Init, FillInv, Filled, LivePages, EmptyHeap, NoPage, Idle
<1>2. ASSUME LInit PROVE ReaderInv /\ SeekerInv
  <2>1. reader = [r \in Readers |-> NoReader] /\ call.pc = "idle" /\ seeker = NULL
    BY <1>2 DEF LInit, Init, Idle
  <2>2. NoReader \in ReaderType /\ NoReader.buf = NULL
    BY DEF NoReader, ReaderType, ByteIterators
  <2>3. ReaderOK(heap, call, NoReader)
    BY <2>2 DEF ReaderOK
  <2>4. ReadersOK(heap, call, reader)
    BY <2>1, <2>2, <2>3 DEF ReadersOK
  <2> QED BY <2>1, <2>4 DEF ReaderInv, ClearBumps, SeekerInv
<1> QED BY <1>1, <1>2 DEF AllInv

\* Whatever the client does with the buffers, every line reader is where it counts, and
\* has found what it says, or will start again before it looks at a page.
THEOREM LineInvariant ==
    ASSUME CountSuffices, NoSelfSource, NoSplitAtEnd
    PROVE  LSpec => []AllInv
<1>1. AllInv /\ [LNext]_lvars => AllInv'
  BY StepKeepsAll
<1> QED BY <1>1, InitAll, PTL DEF LSpec

-----------------------------------------------------------------------------
(* What follows.                                                           *)

\* Every variable has its type, and buffer_offset never wraps below 0.
THEOREM LineTypes ==
    ASSUME CountSuffices, NoSelfSource, NoSplitAtEnd
    PROVE  LSpec => []LTypeOK
<1>1. AllInv => LTypeOK
  BY IInvImplies DEF AllInv, ReaderInv, ReadersOK, SeekerInv, SeekerType, LTypeOK
<1> QED BY <1>1, LineInvariant, PTL

\* The byte iterators visit the bytes of every buffer in order, both ways.
THEOREM BytesVisitedInOrder ==
    ASSUME CountSuffices, NoSelfSource, NoSplitAtEnd
    PROVE  LSpec => []BytesInOrder
<1>1. AllInv => BytesInOrder
  BY BytesAreInOrder DEF AllInv
<1> QED BY <1>1, LineInvariant, PTL

LEMMA UpToDateIsSettled ==
    ASSUME AllInv, NEW r \in Readers, UpToDate(r)
    PROVE  Settled(reader[r])
<1>1. call = Idle /\ Live(r) /\ reader[r] \in ReaderType /\ ~reader[r].stale
  BY DEF UpToDate, AllInv, ReaderInv, ReadersOK
<1>2. Current(reader[r]) = reader[r]
  BY <1>1 DEF Current
<1> QED BY <1>1, <1>2, CurrentIsReady DEF AllInv

\* A line reader that will not start again stands in a page that is still in the list of
\* its buffer, behind as many bytes as buffer_offset says, none of them a line end.
THEOREM SearchesKeepTheirPlace ==
    ASSUME CountSuffices, NoSelfSource, NoSplitAtEnd
    PROVE  LSpec => []SearchKeepsItsPlace
<1>1. ASSUME NEW c, Settled(c)
      PROVE  /\ Owner(heap, c.at.it) = c.buf
             /\ c.pos = BytesBefore(heap, c.buf, c.at.it) + c.at.off
             /\ \/ c.pos < Len(Content(heap, c.buf))
                \/ c.pos = Len(Content(heap, c.buf)) /\ IsEndByte(c.buf, c.at)
             /\ \A i \in 1..c.pos : Content(heap, c.buf)[i] # LF
  <2> DEFINE b == c.buf
             s == Content(heap, b)
  <2>1. /\ HeapOK(heap) /\ b \in Buffers /\ PosOf(heap, b, c.at, c.pos) /\ LineOK(s, c)
    BY <1>1 DEF Settled, Standing
  <2>2. Pos(heap, b, c.at.it, c.at.off, c.pos)
    BY <2>1 DEF PosOf
  <2>3. BytesBefore(heap, b, c.at.it) + c.at.off = c.pos
    BY <2>1, <2>2, PosBefore
  <2>4. Owner(heap, c.at.it) = b
    <3>1. CASE c.at.it = b
      BY <2>1, <3>1, HeapAssumption DEF Owner
    <3>2. CASE c.at.it # b
      <4>1. c.at.it \in Mine(heap, b)
        BY <2>1, <2>2, <3>2, PosWithin
      <4>2. c.at.it \in PageIds /\ heap.page[c.at.it].own = b
        BY <2>1, <4>1, PageFacts
      <4> QED BY <4>2 DEF Owner
    <3> QED BY <3>1, <3>2
  <2>5. c.pos = Len(s) => IsEndByte(b, c.at)
    BY <2>1, AtEnd DEF IsEndByte
  <2>6. /\ c.pos < Len(s) \/ c.pos = Len(s)
        /\ \A i \in 1..c.pos : s[i] # LF
    BY <2>1 DEF LineOK, OnBytes
  <2> QED BY <2>3, <2>4, <2>5, <2>6
<1>2. AllInv => SearchKeepsItsPlace
  BY <1>1, UpToDateIsSettled DEF SearchKeepsItsPlace
<1> QED BY <1>2, LineInvariant, PTL

\* What get_line_len and get_line_data give of a line that was found.
LineGiven(c, s, line, n) ==
    /\ s \in Seq(Byte) /\ c.pos \in Nat /\ c.pos < Len(s) /\ n \in Nat /\ n <= Len(s)
    /\ line = SubSeq(s, 1, n) /\ Len(line) = n
    /\ c.cr = FALSE => n = c.pos
    /\ c.cr = TRUE /\ c.pos > 0 => n = c.pos - 1
    /\ \A i \in 1..c.pos : s[i] # LF
    /\ OnLineEnd(c) <=> s[c.pos + 1] = LF
    /\ LineFound(s, c)

LEMMA LineGivenIs ==
    ASSUME NEW c, Settled(c), c.found = TRUE, NEW s, s = Content(heap, c.buf),
           NEW line, line = LineData(c, LineLen(c))
    PROVE  \E n : LineGiven(c, s, line, n)
<1> DEFINE b == c.buf
           l == LineLen(c)
           n == Lower(Lower(l, l), Len(s))
<1>1. /\ HeapOK(heap) /\ Filled(heap) /\ b \in Buffers /\ Listed(heap, b) /\ c \in ReaderType
      /\ PosOf(heap, b, c.at, c.pos) /\ LineOK(s, c) /\ s \in Seq(Byte)
  BY DEF Settled, Standing
<1>2. /\ OnBytes(s, c) /\ LineFound(s, c) /\ c.pos \in Nat /\ c.pos < Len(s) /\ c.pos <= MaxLine
      /\ Len(s) \in Nat
  BY <1>1 DEF LineOK, OnBytes, LineFound
<1>3. l \in Nat /\ (c.cr = FALSE => l = c.pos) /\ (c.cr = TRUE /\ c.pos > 0 => l = c.pos - 1)
  BY <1>1, <1>2, LineLenIs
<1>4. line = SubSeq(s, 1, n) /\ n \in Nat /\ n <= Len(s)
  <2>1. PICK m : DataGiven(c, l, m)
    BY <1>1, <1>3, LineDataIs
  <2>2. m = n
    BY <2>1 DEF DataGiven
  <2> QED BY <2>1, <2>2 DEF DataGiven
<1>5. Lower(l, l) = l
  BY <1>3 DEF Lower
<1>6. c.cr = FALSE => n = c.pos
  BY <1>2, <1>3, <1>5 DEF Lower
<1>7. c.cr = TRUE /\ c.pos > 0 => n = c.pos - 1
  BY <1>2, <1>3, <1>5 DEF Lower
<1> HIDE DEF n, l
<1>8. Len(line) = n
  <2>1. 0 \in Nat /\ 0 <= n /\ 0 + 1 = 1 /\ n - 0 = n
    BY <1>4
  <2>2. Len(SubSeq(s, 0 + 1, n)) = n - 0
    BY <1>1, <1>4, <2>1, PieceOf
  <2> QED BY <1>4, <2>1, <2>2
<1>9. OnLineEnd(c) <=> s[c.pos + 1] = LF
  <2>1. c.at.it # b
    BY <1>1, <1>2, AtEnd
  <2>2. NextIs(heap, b, c.at, c.pos)
    BY <1>1, <2>1, ByteNext
  <2> QED BY <2>1, <2>2 DEF NextIs, OnLineEnd, IsEndByte
<1>10. \A i \in 1..c.pos : s[i] # LF
  BY <1>2 DEF OnBytes
<1> QED BY <1>1, <1>2, <1>4, <1>6, <1>7, <1>8, <1>9, <1>10 DEF LineGiven

\* Every line that was found is right: what is said of its length, its end and its bytes.
THEOREM FoundLines ==
    ASSUME CountSuffices, NoSelfSource, NoSplitAtEnd
    PROVE  LSpec => []FoundLinesAreRight
<1>1. ASSUME NEW r \in Readers, Settled(reader[r]), reader[r].found = TRUE
      PROVE  LET c == reader[r]
                 s == Content(heap, c.buf)
                 line == LineData(c, LineLen(c))
                 e == CHOOSE i \in 1..Len(s) :
                         s[i] = LF /\ \A j \in 1..(i - 1) : s[j] # LF
                 crlf == e > 1 /\ s[e - 1] = CR
             IN  /\ OnLineEnd(c) => /\ c.cr = crlf
                                    /\ line = SubSeq(s, 1, IF crlf THEN e - 2 ELSE e - 1)
                 /\ ~OnLineEnd(c) /\ ~c.term /\ ~c.termcr =>
                         ~c.cr /\ line = SubSeq(s, 1, MaxLine)
                 /\ line = SubSeq(s, 1, Len(line))
  <2> DEFINE c == reader[r]
             s == Content(heap, c.buf)
             line == LineData(c, LineLen(c))
             e == CHOOSE i \in 1..Len(s) :
                     s[i] = LF /\ \A j \in 1..(i - 1) : s[j] # LF
             crlf == e > 1 /\ s[e - 1] = CR
  <2>1. c.cr \in BOOLEAN /\ c.term \in BOOLEAN /\ c.termcr \in BOOLEAN
    BY <1>1 DEF Settled, ReaderType
  <2>2. PICK n : LineGiven(c, s, line, n)
    BY <1>1, LineGivenIs
  <2> HIDE DEF c, s, line
  <2>3. /\ s \in Seq(Byte) /\ c.pos \in Nat /\ c.pos < Len(s) /\ n \in Nat
        /\ line = SubSeq(s, 1, n) /\ Len(line) = n /\ Len(s) \in Nat
    BY <2>2 DEF LineGiven
  <2>4. ASSUME OnLineEnd(c)
        PROVE  c.cr = crlf /\ line = SubSeq(s, 1, IF crlf THEN e - 2 ELSE e - 1)
    <3>1. e = c.pos + 1
      <4>1. /\ c.pos + 1 \in 1..Len(s) /\ s[c.pos + 1] = LF
            /\ \A j \in 1..((c.pos + 1) - 1) : s[j] # LF
        BY <2>2, <2>3, <2>4 DEF LineGiven
      <4>2. /\ e \in 1..Len(s) /\ s[e] = LF /\ \A j \in 1..(e - 1) : s[j] # LF
        BY <4>1
      <4> HIDE DEF e
      <4>3. ~(e < c.pos + 1)
        <5>1. e < c.pos + 1 => e \in 1..((c.pos + 1) - 1)
          BY <2>3, <4>2
        <5> QED BY <4>1, <4>2, <5>1
      <4>4. ~(c.pos + 1 < e)
        <5>1. c.pos + 1 < e => c.pos + 1 \in 1..(e - 1)
          BY <2>3, <4>2
        <5> QED BY <4>1, <4>2, <5>1
      <4> QED BY <2>3, <4>2, <4>3, <4>4
    <3> HIDE DEF e
    <3>2. c.cr = TRUE <=> c.pos > 0 /\ s[c.pos] = CR
      BY <2>2, <2>4 DEF LineGiven, LineFound, CrRight
    <3>3. crlf <=> c.pos > 0 /\ s[c.pos] = CR
      <4>1. e - 1 = c.pos /\ (e > 1 <=> c.pos > 0)
        BY <2>3, <3>1
      <4> QED BY <4>1
    <3>4. c.cr = crlf
      BY <2>1, <3>2, <3>3
    <3> HIDE DEF crlf
    <3>5. n = IF crlf THEN e - 2 ELSE e - 1
      <4>1. CASE c.cr = TRUE
        <5>1. n = c.pos - 1
          BY <2>2, <3>2, <4>1 DEF LineGiven
        <5> QED BY <2>3, <3>1, <3>4, <4>1, <5>1
      <4>2. CASE c.cr = FALSE
        <5>1. n = c.pos
          BY <2>2, <4>2 DEF LineGiven
        <5> QED BY <2>3, <3>1, <3>4, <4>2, <5>1
      <4> QED BY <2>1, <4>1, <4>2
    <3> QED BY <2>3, <3>4, <3>5
  <2>5. ASSUME ~OnLineEnd(c), ~c.term, ~c.termcr
        PROVE  ~c.cr /\ line = SubSeq(s, 1, MaxLine)
    <3>1. c.pos = MaxLine /\ c.cr = FALSE
      BY <2>1, <2>2, <2>5 DEF LineGiven, LineFound
    <3>2. n = MaxLine
      BY <2>2, <3>1 DEF LineGiven
    <3> QED BY <2>3, <3>1, <3>2
  <2>6. line = SubSeq(s, 1, Len(line))
    BY <2>3
  <2> QED BY <2>4, <2>5, <2>6 DEF c, s, line
<1>2. ASSUME AllInv, NEW r \in Readers, UpToDate(r), reader[r].found
      PROVE  Settled(reader[r]) /\ reader[r].found = TRUE
  <2>1. Settled(reader[r])
    BY <1>2, UpToDateIsSettled
  <2> QED BY <1>2, <2>1 DEF Settled, ReaderType
<1>3. AllInv => FoundLinesAreRight
  BY <1>1, <1>2 DEF FoundLinesAreRight
<1> QED BY <1>3, LineInvariant, PTL

\* has_line finds a line if and only if there is one, whatever searches came before.
THEOREM SearchesAreComplete ==
    ASSUME CountSuffices, NoSelfSource, NoSplitAtEnd
    PROVE  LSpec => SearchIsComplete
<1>1. ASSUME AllInv, NEW r \in Readers, HasLine(r)
      PROVE  LET c == reader'[r]
                 s == Content(heap, c.buf)
             IN  c.found <=> /\ s # << >>
                             /\ \/ LF \in {s[i] : i \in 1..Len(s)}
                                \/ Len(s) > MaxLine
                                \/ c.term \/ c.termcr
  <2> DEFINE d == Current(reader[r])
             c == Found(d)
             s == Content(heap, d.buf)
  <2>1. Live(r) /\ call = Idle /\ Become(r, c)
    BY <1>1 DEF HasLine, Found, BetweenCalls
  <2>2. reader'[r] = c
    BY <1>1, <2>1 DEF Become, AllInv, ReaderInv, ReadersOK
  <2>3. Settled(d)
    BY <1>1, <2>1, CurrentIsReady DEF AllInv
  <2> HIDE DEF d
  <2>4. Settled(c) /\ Same(d, c) /\ (c.found = TRUE <=> s # << >> /\ LineIn(s, d))
    BY <2>3, HasLineFinds
  <2> HIDE DEF c
  <2>5. /\ c.buf = d.buf /\ c.term = d.term /\ c.termcr = d.termcr
        /\ c.found \in BOOLEAN /\ c.term \in BOOLEAN /\ c.termcr \in BOOLEAN
    BY <2>4 DEF Same, Settled, ReaderType
  <2>6. LineIn(s, d) <=> \/ LF \in {s[i] : i \in 1..Len(s)}
                         \/ Len(s) > MaxLine
                         \/ c.term = TRUE \/ c.termcr = TRUE
    BY <2>5 DEF LineIn
  <2>7. c.found <=> /\ s # << >>
                    /\ \/ LF \in {s[i] : i \in 1..Len(s)}
                       \/ Len(s) > MaxLine
                       \/ c.term \/ c.termcr
    BY <2>4, <2>5, <2>6
  <2> QED BY <2>2, <2>5, <2>7
<1>2. AllInv /\ [LNext]_lvars
        => [\A r \in Readers : HasLine(r) =>
              LET c == reader'[r]
                  s == Content(heap, c.buf)
              IN  c.found <=> /\ s # << >>
                              /\ \/ LF \in {s[i] : i \in 1..Len(s)}
                                 \/ Len(s) > MaxLine
                                 \/ c.term \/ c.termcr]_lvars
  BY <1>1
<1> QED BY <1>2, LineInvariant, PTL DEF LSpec, SearchIsComplete

\* Seeking a line with a line end takes the line and its end, and nothing more, over any
\* number of pages.
THEOREM SeeksTakeTheirLine ==
    ASSUME CountSuffices, NoSelfSource, NoSplitAtEnd
    PROVE  LSpec => SeekTakesLine
<1>1. ASSUME AllInv, AllInv', [LNext]_lvars
      PROVE  seeker # NULL /\ Returned /\ seeker.line => Content(heap', call.buf) = seeker.rest
  <2>1. CASE BufferStep
    BY <1>1, <2>1, SeekerStep DEF AllInv
  <2>2. CASE ReaderOp
    BY <1>1, <2>2, ReaderOpIs DEF Returned, Idle
  <2>3. CASE UNCHANGED lvars
    BY <2>3 DEF lvars, Returned
  <2> QED BY <1>1, <2>1, <2>2, <2>3 DEF LNext
<1>2. AllInv /\ AllInv' /\ [LNext]_lvars
        => [seeker # NULL /\ Returned /\ seeker.line
               => Content(heap', call.buf) = seeker.rest]_lvars
  BY <1>1
<1> QED BY <1>2, LineInvariant, PTL DEF LSpec, SeekTakesLine

====
