--------------------------- MODULE MmapBufferProofs ---------------------------
(***************************************************************************)
(* The mmap buffer, for any block size, any number of mappings, any inputs *)
(* and any failing system call but fstat in other functions than clear and *)
(* destroy, and a client that keeps to Usage = {}.                         *)
(*                                                                         *)
(* The invariant turns on one fact that no line of pagebuf_mmap.c states:  *)
(* a page runs to the end of its mapping.  Since the pages do not overlap, *)
(* a mapping has at most one page of the list, and a block is only looked  *)
(* up in the table when none of what the table has for it is shown.        *)
(***************************************************************************)
EXTENDS MmapBuffer, SequenceTheorems, FiniteSetTheorems, WellFoundedInduction, TLAPS

\* The client keeps to the usual ways of calling the buffer, and fstat works but for
\* pb_mmap_allocator_clear, which sets the head to what it returns and does no
\* more with it.
UsualClient == Usage = {} /\ StatFails \subseteq {"clear"}

LEMMA SizesAre ==
    ASSUME UsualClient, NEW fn, fn # "clear", NEW size \in SizesSeen(fn)
    PROVE  mode # "failed" => size = FileSize
  BY DEF SizesSeen, UsualClient

LEMMA FaultsAre ==
    ASSUME UsualClient, NEW fail \in Faults
    PROVE  fail \in {"none", "mmap", "page"}
  BY DEF Faults, UsualClient

\* No count can wrap: a mapping has a page of the list, the references of other
\* buffers and one for the time of a call; the allocator has the mappings and the
\* buffer.
CountsFit == MaxHeld + 2 < CountMod /\ Cardinality(DataIds) + 1 < CountMod

Live(s) == {d \in DataIds : s.reg[d].live}

\* The mappings the pages of the list are on.
Shows(s) == {s.list[i].data : i \in 1..Len(s.list)}

\* The references to each mapping, of the list and of other buffers.
Refs(s, he) == [d \in DataIds |-> he[d] + IF d \in Shows(s) THEN 1 ELSE 0]

Counted(s, refs, al) ==
    /\ \A d \in DataIds : s.reg[d].use = refs[d] /\ (s.reg[d].live <=> refs[d] > 0)
    /\ s.users = Cardinality(Live(s)) + (IF al THEN 1 ELSE 0)
    /\ ~s.broken

Tabled(s) ==
    /\ s.data_tree = {d \in DataIds : s.reg[d].live /\ ~s.reg[d].obsolete}
    /\ \A d, e \in s.data_tree : s.reg[d].off = s.reg[e].off => d = e

\* A mapping starts at a block and is part of it and of the file.
Placed(s, size) ==
    \A d \in Live(s) :
        LET r == s.reg[d]
        IN  r.off = BlockOf(r.off) /\ r.len <= Block /\ r.off + r.len <= size

\* A page shows what its mapping has from some place to its end.
Windowed(s) ==
    \A i \in 1..Len(s.list) :
        LET p == s.list[i]
        IN  s.reg[p.data].live /\ p.len > 0 /\ p.base + p.len = s.reg[p.data].len

\* The pages follow each other without a gap, from the head or a block on.
Gapless(s) ==
    \A i, j \in 1..Len(s.list) :
        /\ i < j => EndOf(s, s.list[i]) <= StartOf(s, s.list[j])
        /\ j = i + 1 => EndOf(s, s.list[i]) = StartOf(s, s.list[j])

Starting(s, hd) ==
    s.list # << >> =>
        LET at == StartOf(s, s.list[1])
        IN  hd <= at /\ at \in {hd, BlockOf(at)}

\* What the table has in place of an obsolete mapping of the list is in the list too.
Latest(s, D) ==
    \A d \in s.data_tree \ D, e \in Shows(s) : s.reg[d].off = s.reg[e].off => d \in Shows(s)

Viewing(s, hd) == Windowed(s) /\ Gapless(s) /\ Starting(s, hd)

Good(s, size, hd, he, al) ==
    /\ s \in Store
    /\ Counted(s, Refs(s, he), al) /\ Tabled(s) /\ Placed(s, size)
    /\ Viewing(s, hd) /\ Latest(s, {})

\* The loop of trim cuts off part of the data, none of it mapped by other buffers.
Trimming ==
    trim # NULL =>
        /\ alive /\ out = NULL /\ mode \in {"read", "rw"}
        /\ trim.size = FileSize /\ trim.left + trim.done <= FileSize - head
        /\ FileSize # BlockOf(FileSize) /\ Find(m, BlockOf(FileSize)) = {}
        /\ \A d \in DataIds : held[d] > 0 =>
              m.reg[d].off + m.reg[d].len <= FileSize - (trim.left + trim.done)

MInv ==
    /\ MTypeOK
    /\ Good(m, FileSize, head, held, alive)
    /\ \A d \in DataIds : held[d] <= MaxHeld
    /\ m.users = 0 <=> mode = "closed"
    /\ mode \in {"read", "rw"} => file \in Seq(Byte) /\ head <= FileSize
    /\ Live(m) # {} => mode = "rw"
    /\ IteratorsStayInList
    /\ Trimming

-----------------------------------------------------------------------------
(* Blocks.                                                                 *)

LEMMA BlockFacts ==
    ASSUME NEW off \in Nat
    PROVE  /\ BlockOf(off) \in Nat /\ BlockOf(off) <= off /\ off < BlockOf(off) + Block
           /\ BlockOf(BlockOf(off)) = BlockOf(off)
<1> DEFINE k == off \div Block
<1>1. Block \in Nat /\ Block > 0
  BY MmapAssumption
<1>2. k \in Nat /\ k * Block <= off /\ off < k * Block + Block
  BY <1>1
<1>3. (k * Block) \div Block = k
  BY <1>1, <1>2
<1> QED BY <1>2, <1>3, <1>1 DEF BlockOf

\* Two blocks that have a byte in common are one.
LEMMA SameBlock ==
    ASSUME NEW a \in Nat, NEW b \in Nat, a = BlockOf(a), b = BlockOf(b),
           a < b + Block, b < a + Block
    PROVE  a = b
<1> DEFINE j == a \div Block
           k == b \div Block
<1>1. Block \in Nat /\ Block > 0
  BY MmapAssumption
<1>2. j \in Int /\ k \in Int /\ a = j * Block /\ b = k * Block
  BY <1>1 DEF BlockOf
<1>3. ~(j >= k + 1)
  <2>1. ASSUME j >= k + 1 PROVE FALSE
    <3>1. j * Block >= (k + 1) * Block
      BY <2>1, <1>1, <1>2
    <3> QED BY <3>1, <1>1, <1>2
  <2> QED BY <2>1
<1>4. ~(k >= j + 1)
  <2>1. ASSUME k >= j + 1 PROVE FALSE
    <3>1. k * Block >= (j + 1) * Block
      BY <2>1, <1>1, <1>2
    <3> QED BY <3>1, <1>1, <1>2
  <2> QED BY <2>1
<1> QED BY <1>2, <1>3, <1>4

\* The block in front of the one that starts at a.
LEMMA BlockBefore ==
    ASSUME NEW a \in Nat, a = BlockOf(a), a > 0
    PROVE  a - Block \in Nat /\ BlockOf(a - Block) = a - Block
<1> DEFINE j == a \div Block
<1>1. Block \in Nat /\ Block > 0
  BY MmapAssumption
<1>2. j \in Int /\ a = j * Block
  BY <1>1 DEF BlockOf
<1>3. j >= 1
  <2>1. ASSUME j <= 0 PROVE FALSE
    <3>1. j * Block <= 0
      BY <2>1, <1>1, <1>2
    <3> QED BY <3>1, <1>2
  <2> QED BY <2>1, <1>2
<1>4. a - Block = (j - 1) * Block /\ (j - 1) * Block >= 0
  BY <1>1, <1>2, <1>3
<1>5. ((j - 1) * Block) \div Block = j - 1
  BY <1>1, <1>3, <1>2
<1>6. BlockOf((j - 1) * Block) = (j - 1) * Block
  BY <1>5 DEF BlockOf
<1>7. a - Block \in Int
  BY <1>1
<1> HIDE DEF j
<1> QED BY <1>4, <1>6, <1>7

\* A remainder of what is small enough is that itself.
LEMMA NoWrap ==
    ASSUME NEW n \in Nat, n < CountMod
    PROVE  n % CountMod = n
  BY MmapAssumption

-----------------------------------------------------------------------------
(* The counts.                                                             *)

\* t has the mappings D of s in the same places.
Alike(s, t, D) ==
    \A d \in D : /\ t.reg[d].live = s.reg[d].live
                 /\ t.reg[d].off = s.reg[d].off
                 /\ t.reg[d].len = s.reg[d].len

LEMMA StoreFacts ==
    ASSUME NEW s \in Store
    PROVE  /\ s.reg \in [DataIds -> Mapping] /\ s.data_tree \subseteq DataIds
           /\ s.list \in Seq(Page) /\ s.users \in Nat /\ s.broken \in BOOLEAN
           /\ Len(s.list) \in Nat
           /\ \A i \in 1..Len(s.list) : s.list[i] \in Page
           /\ \A d \in DataIds : s.reg[d] \in Mapping
  BY DEF Store

LEMMA PageFacts ==
    ASSUME NEW p \in Page
    PROVE  p.data \in DataIds /\ p.base \in Nat /\ p.len \in Nat
  BY DEF Page

LEMMA LiveCount ==
    ASSUME NEW s
    PROVE  /\ IsFiniteSet(Live(s)) /\ Cardinality(Live(s)) \in Nat
           /\ Cardinality(DataIds) \in Nat /\ Cardinality(Live(s)) <= Cardinality(DataIds)
<1>1. Live(s) \in SUBSET DataIds
  BY DEF Live
<1> QED BY <1>1, FS_Subset, FS_CardinalityType, MmapAssumption

\* pb_mmap_data_get.
LEMMA GetCounted ==
    ASSUME NEW s \in Store, NEW d \in DataIds, NEW refs \in [DataIds -> Nat], NEW al,
           Counted(s, refs, al), Tabled(s), refs[d] > 0, refs[d] + 1 < CountMod
    PROVE  LET t == DataGet(s, d)
           IN  /\ t \in Store /\ Counted(t, [refs EXCEPT ![d] = @ + 1], al) /\ Tabled(t)
               /\ t.list = s.list /\ t.data_tree = s.data_tree /\ Alike(s, t, DataIds)
<1> DEFINE t == DataGet(s, d)
           u == (s.reg[d].use + 1) % CountMod
<1>1. s.reg[d].use = refs[d] /\ u = refs[d] + 1
  BY NoWrap DEF Counted
<1>2. u \in Nat
  BY <1>1
<1>3. /\ t.reg = [s.reg EXCEPT ![d] = [s.reg[d] EXCEPT !.use = u]]
      /\ t.list = s.list /\ t.data_tree = s.data_tree /\ t.users = s.users
      /\ t.broken = s.broken
  BY DEF DataGet, Store
<1>4. t \in Store
  <2>1. [s.reg[d] EXCEPT !.use = u] \in Mapping
    BY <1>2, StoreFacts DEF Mapping
  <2>2. t = [s EXCEPT !.reg = t.reg]
    BY <1>3 DEF DataGet, Store
  <2> HIDE DEF t, u
  <2> QED BY <2>1, <2>2, <1>3 DEF Store
<1>5. \A e \in DataIds : t.reg[e] = IF e = d THEN [s.reg[d] EXCEPT !.use = u] ELSE s.reg[e]
  BY <1>3, StoreFacts
<1> HIDE DEF t, u
<1>6. \A e \in DataIds : /\ t.reg[e].live = s.reg[e].live /\ t.reg[e].off = s.reg[e].off
                         /\ t.reg[e].len = s.reg[e].len
                         /\ t.reg[e].obsolete = s.reg[e].obsolete
                         /\ t.reg[e].use = IF e = d THEN u ELSE s.reg[e].use
  <2>1. s.reg[d] \in Mapping
    BY StoreFacts
  <2>2. TAKE e \in DataIds
  <2>3. CASE e = d
    BY <2>1, <2>3, <1>5 DEF Mapping
  <2>4. CASE e # d
    BY <2>4, <1>5
  <2> QED BY <2>3, <2>4
<1>7. Live(t) = Live(s)
  BY <1>6 DEF Live
<1>8. Counted(t, [refs EXCEPT ![d] = @ + 1], al)
  BY <1>1, <1>3, <1>6, <1>7 DEF Counted
<1>9. Tabled(t)
  BY <1>3, <1>6, StoreFacts DEF Tabled
<1> QED BY <1>3, <1>4, <1>6, <1>8, <1>9 DEF t, Alike

\* t is s after a reference to d was given back.
PutLeaves(s, t, d, refs) ==
    /\ t \in Store /\ Counted(t, [refs EXCEPT ![d] = @ - 1], alive) /\ Tabled(t)
    /\ t.list = s.list
    /\ \/ refs[d] > 1 /\ Alike(s, t, DataIds) /\ t.data_tree = s.data_tree
       \/ /\ refs[d] = 1 /\ Alike(s, t, DataIds \ {d}) /\ ~t.reg[d].live
          /\ t.data_tree = s.data_tree \ {d}

\* pb_mmap_data_put, with pb_mmap_allocator_data_destroy for the last reference.
LEMMA PutCounted ==
    ASSUME NEW s \in Store, NEW d \in DataIds, NEW refs \in [DataIds -> Nat],
           Counted(s, refs, alive), Tabled(s), refs[d] > 0, refs[d] < CountMod, CountsFit
    PROVE  PutLeaves(s, DataPut(s, d), d, refs)
<1> DEFINE t == DataPut(s, d)
           u == (s.reg[d].use - 1) % CountMod
<1>1. s.reg[d].use = refs[d] /\ s.reg[d].live /\ refs[d] \in Nat
  BY DEF Counted
<1>2. u = refs[d] - 1 /\ u \in Nat
  <2>1. refs[d] - 1 \in Nat /\ refs[d] - 1 < CountMod
    BY <1>1, MmapAssumption
  <2> QED BY <2>1, <1>1, NoWrap
<1>3. CASE u # 0
  <2>1. t = [s EXCEPT !.reg[d].use = u]
    BY <1>1, <1>3 DEF DataPut
  <2>2. /\ t.reg = [s.reg EXCEPT ![d] = [s.reg[d] EXCEPT !.use = u]]
        /\ t.list = s.list /\ t.data_tree = s.data_tree /\ t.users = s.users
        /\ t.broken = s.broken
    BY <2>1 DEF Store
  <2>3. t \in Store
    <3>1. [s.reg[d] EXCEPT !.use = u] \in Mapping
      BY <1>2, StoreFacts DEF Mapping
    <3>2. t = [s EXCEPT !.reg = t.reg]
      BY <2>1, <2>2 DEF Store
    <3> HIDE DEF t, u
    <3> QED BY <3>1, <3>2, <2>2 DEF Store
  <2>4. \A e \in DataIds : t.reg[e] = IF e = d THEN [s.reg[d] EXCEPT !.use = u] ELSE s.reg[e]
    BY <2>2, StoreFacts
  <2> HIDE DEF t, u
  <2>5. \A e \in DataIds : /\ t.reg[e].live = s.reg[e].live /\ t.reg[e].off = s.reg[e].off
                           /\ t.reg[e].len = s.reg[e].len
                           /\ t.reg[e].obsolete = s.reg[e].obsolete
                           /\ t.reg[e].use = IF e = d THEN u ELSE s.reg[e].use
    <3>1. s.reg[d] \in Mapping
      BY StoreFacts
    <3>2. TAKE e \in DataIds
    <3>3. CASE e = d
      BY <3>1, <3>3, <2>4 DEF Mapping
    <3>4. CASE e # d
      BY <3>4, <2>4
    <3> QED BY <3>3, <3>4
  <2>6. Live(t) = Live(s)
    BY <2>5 DEF Live
  <2>7. Counted(t, [refs EXCEPT ![d] = @ - 1], alive)
    BY <1>1, <1>2, <1>3, <2>2, <2>5, <2>6 DEF Counted
  <2>8. Tabled(t)
    BY <2>2, <2>5, StoreFacts DEF Tabled
  <2>9. refs[d] > 1
    BY <1>1, <1>2, <1>3
  <2> QED BY <2>2, <2>3, <2>5, <2>7, <2>8, <2>9 DEF t, Alike, PutLeaves
<1>4. CASE u = 0
  <2>0. refs[d] = 1
    BY <1>1, <1>2, <1>4
  <2> DEFINE users == (s.users - 1) % CountMod
  <2>1. t = DataDestroy(s, d)
    BY <1>1, <1>4 DEF DataPut
  <2>2. /\ t.reg = [s.reg EXCEPT ![d] = NoMapping]
        /\ t.list = s.list /\ t.users = users
        /\ t.data_tree = IF s.reg[d].obsolete THEN s.data_tree ELSE s.data_tree \ {d}
        /\ t.broken = (s.broken \/ (users = 0 /\ (alive \/ FreeData(s) # DataIds \ {d})))
    BY <2>1 DEF DataDestroy, Store
  <2>3. \A e \in DataIds : t.reg[e] = IF e = d THEN NoMapping ELSE s.reg[e]
    BY <2>2, StoreFacts
  <2>4. t.data_tree = s.data_tree \ {d}
    BY <2>2 DEF Tabled
  <2>5. ~NoMapping.live /\ NoMapping.use = 0 /\ NoMapping \in Mapping
    BY DEF NoMapping, Mapping
  <2>6. Live(t) = Live(s) \ {d} /\ d \in Live(s)
    BY <2>3, <2>5, <1>1 DEF Live
  <2>7. Cardinality(Live(t)) = Cardinality(Live(s)) - 1
    BY <2>6, LiveCount, FS_RemoveElement
  <2>8. s.users = Cardinality(Live(s)) + (IF alive THEN 1 ELSE 0) /\ ~s.broken
    BY DEF Counted
  <2>9. users = s.users - 1 /\ users \in Nat
    <3>1. Cardinality(Live(s)) \in Nat /\ Cardinality(DataIds) \in Nat
          /\ Cardinality(Live(s)) <= Cardinality(DataIds)
          /\ Cardinality(Live(t)) \in Nat
      BY LiveCount
    <3>2. s.users - 1 \in Nat /\ s.users - 1 < CountMod
      BY <3>1, <2>8, <2>7, MmapAssumption DEF CountsFit
    <3> QED BY <3>2, NoWrap
  <2> HIDE DEF t, u, users
  <2>10. ~t.broken
    <3>1. ASSUME users = 0 PROVE ~alive /\ FreeData(s) = DataIds \ {d}
      <4>1. Cardinality(Live(t)) \in Nat
        BY LiveCount
      <4>0. Cardinality(Live(s)) \in Nat
        BY LiveCount
      <4>2. ~alive /\ Cardinality(Live(t)) = 0
        <5>1. alive => s.users = Cardinality(Live(s)) + 1
          BY <2>8, <4>0
        <5>2. ~alive => s.users = Cardinality(Live(s))
          BY <2>8, <4>0
        <5>3. s.users = 1
          BY <3>1, <2>9, StoreFacts
        <5>4. alive => FALSE
          BY <5>1, <5>3, <2>7, <4>0, <4>1
        <5> QED BY <5>2, <5>3, <5>4, <2>7
      <4>3. Live(t) = {}
        BY <4>2, LiveCount, FS_EmptySet
      <4> QED BY <4>2, <4>3, <2>6 DEF Live, FreeData
    <3> QED BY <3>1, <2>2, <2>8
  <2>11. t \in Store
    <3>1. t = [s EXCEPT !.reg = t.reg, !.users = t.users, !.data_tree = t.data_tree,
                        !.broken = t.broken]
      BY <2>1, <2>2 DEF DataDestroy, Store, users
    <3>2. t.reg \in [DataIds -> Mapping]
      BY <2>2, <2>5, StoreFacts
    <3>3. t.users \in Nat /\ t.data_tree \subseteq DataIds /\ t.broken \in BOOLEAN
      BY <2>2, <2>4, <2>9, <2>10, StoreFacts
    <3> QED BY <3>1, <3>2, <3>3 DEF Store
  <2>12. Counted(t, [refs EXCEPT ![d] = @ - 1], alive)
    BY <2>0, <2>2, <2>3, <2>5, <2>7, <2>8, <2>9, <2>10, LiveCount DEF Counted
  <2>13. Tabled(t)
    BY <2>3, <2>4, <2>5 DEF Tabled
  <2>14. Alike(s, t, DataIds \ {d}) /\ ~t.reg[d].live
    BY <2>3, <2>5 DEF Alike
  <2> QED BY <2>0, <2>2, <2>4, <2>11, <2>12, <2>13, <2>14 DEF t, PutLeaves
<1> QED BY <1>3, <1>4

\* pb_mmap_allocator_data_create.
LEMMA CreateCounted ==
    ASSUME NEW s \in Store, NEW d \in FreeData(s), NEW refs \in [DataIds -> Nat],
           NEW at \in Nat, NEW n \in Nat, Counted(s, refs, alive), CountsFit
    PROVE  LET t == DataCreate(s, d, at, n)
           IN  /\ t \in Store /\ Counted(t, [refs EXCEPT ![d] = @ + 1], alive)
               /\ refs[d] = 0 /\ ~s.reg[d].live /\ d \in DataIds
               /\ t.list = s.list /\ t.data_tree = s.data_tree
               /\ \A e \in DataIds \ {d} : t.reg[e] = s.reg[e]
               /\ t.reg[d].live /\ t.reg[d].off = at /\ t.reg[d].len = n /\ ~t.reg[d].obsolete
<1> DEFINE t == DataCreate(s, d, at, n)
           g == [live |-> TRUE, off |-> at, len |-> n, use |-> 1, obsolete |-> FALSE]
           users == (s.users + 1) % CountMod
<1>1. d \in DataIds /\ ~s.reg[d].live
  BY DEF FreeData
<1>2. refs[d] = 0
  BY <1>1 DEF Counted
<1>3. /\ t.reg = [s.reg EXCEPT ![d] = g] /\ t.users = users
      /\ t.list = s.list /\ t.data_tree = s.data_tree /\ t.broken = s.broken
  BY DEF DataCreate, Store
<1>4. g \in Mapping /\ g.live /\ g.use = 1 /\ g.off = at /\ g.len = n /\ ~g.obsolete
  BY DEF Mapping
<1>5. \A e \in DataIds : t.reg[e] = IF e = d THEN g ELSE s.reg[e]
  BY <1>3, StoreFacts
<1> HIDE DEF g
<1>6. Live(t) = Live(s) \cup {d} /\ d \notin Live(s)
  BY <1>1, <1>4, <1>5 DEF Live
<1>7. Cardinality(Live(t)) = Cardinality(Live(s)) + 1
  BY <1>6, LiveCount, FS_AddElement
<1>8. s.users = Cardinality(Live(s)) + (IF alive THEN 1 ELSE 0) /\ ~s.broken
  BY DEF Counted
<1>9. users = s.users + 1 /\ users \in Nat
  <2>1. Cardinality(Live(s)) \in Nat /\ Cardinality(DataIds) \in Nat
        /\ Cardinality(Live(t)) <= Cardinality(DataIds)
    BY LiveCount
  <2>2. s.users + 1 \in Nat /\ s.users + 1 < CountMod
    BY <2>1, <1>7, <1>8, MmapAssumption DEF CountsFit
  <2> QED BY <2>2, NoWrap
<1>10. t \in Store
  <2>1. t = [s EXCEPT !.reg = t.reg, !.users = t.users]
    BY <1>3 DEF DataCreate, Store, g
  <2>2. t.reg \in [DataIds -> Mapping]
    BY <1>3, <1>4, StoreFacts
  <2> HIDE DEF t, users
  <2> QED BY <2>1, <2>2, <1>3, <1>9 DEF Store
<1> HIDE DEF t, users
<1>11. Counted(t, [refs EXCEPT ![d] = @ + 1], alive)
  <2>1. t.users = Cardinality(Live(t)) + (IF alive THEN 1 ELSE 0)
    BY <1>3, <1>7, <1>8, <1>9, LiveCount
  <2>2. \A e \in DataIds : /\ t.reg[e].use = [refs EXCEPT ![d] = @ + 1][e]
                           /\ t.reg[e].live <=> [refs EXCEPT ![d] = @ + 1][e] > 0
    <3>1. TAKE e \in DataIds
    <3>2. CASE e = d
      BY <3>2, <1>2, <1>4, <1>5
    <3>3. CASE e # d
      BY <3>3, <1>5 DEF Counted
    <3> QED BY <3>2, <3>3
  <2> QED BY <2>1, <2>2, <1>3, <1>8 DEF Counted
<1> QED BY <1>1, <1>2, <1>3, <1>4, <1>5, <1>10, <1>11 DEF t

-----------------------------------------------------------------------------
(* Mapping a block.                                                        *)

\* What the table has for the block at at can be used, or replaced, for a page that
\* starts at off: the third case of page_map_forward, which puts a reference it has
\* not taken, does not occur.
Usable(s, at, off) ==
    /\ at \in Nat /\ at = BlockOf(at) /\ at < FileSize /\ off \in Nat /\ at <= off
    /\ \A d \in Find(s, at) :
          \/ d \notin Shows(s) /\ at + s.reg[d].len >= off + Block
          \/ s.reg[d].len < Block /\ at + s.reg[d].len < FileSize

\* What of Good does not speak of the pages.
Sound(s, refs) ==
    /\ s \in Store /\ Counted(s, refs, alive) /\ Tabled(s) /\ Placed(s, FileSize)

\* r has the mapping of the block at at, with one reference too many.
Mapped(s, r, at, refs) ==
    /\ r.d \in DataIds \ Shows(s)
    /\ Sound(r.s, [refs EXCEPT ![r.d] = @ + 1])
    /\ r.s.list = s.list /\ Alike(s, r.s, Live(s))
    /\ r.s.data_tree \subseteq s.data_tree \cup {r.d} /\ r.d \in r.s.data_tree
    /\ r.s.reg[r.d].live /\ r.s.reg[r.d].off = at
    /\ r.s.reg[r.d].len = Lower(Block, FileSize - at)
    /\ r.d \in s.data_tree \/ refs[r.d] = 0

\* The references are few enough, and those of the list among the living.
Fitting(s, refs) ==
    /\ refs \in [DataIds -> Nat] /\ \A d \in DataIds \ Shows(s) : refs[d] + 2 < CountMod
    /\ Shows(s) \subseteq Live(s) /\ CountsFit /\ FileSize \in Nat

LEMMA FoundMaps ==
    ASSUME NEW s, NEW refs, Sound(s, refs), Fitting(s, refs), NEW at, NEW off,
           Usable(s, at, off), NEW d \in Find(s, at), at + s.reg[d].len >= off + Block
    PROVE  Mapped(s, [s |-> DataGet(s, d), d |-> d], at, refs) /\ Live(s) # {}
<1> DEFINE t == DataGet(s, d)
<1>1. d \in DataIds /\ d \in s.data_tree /\ d \notin Shows(s) /\ s.reg[d].off = at
  <2>1. d \in DataIds /\ d \in s.data_tree /\ s.reg[d].off = at
    BY DEF Find, Sound, Store
  <2>2. s.reg[d].len \in Nat /\ at \in Nat /\ off \in Nat /\ at <= off /\ Block \in Nat
    BY <2>1, StoreFacts, MmapAssumption DEF Sound, Mapping, Usable
  <2>3. ~(s.reg[d].len < Block)
    BY <2>2
  <2> QED BY <2>1, <2>3 DEF Usable
<1>2. d \in Live(s) /\ s.reg[d].live
  BY <1>1 DEF Tabled, Sound, Live
<1>3. refs[d] > 0 /\ refs[d] + 1 < CountMod /\ refs \in [DataIds -> Nat]
  <2>1. refs[d] > 0 /\ refs[d] \in Nat /\ refs[d] + 2 < CountMod /\ refs \in [DataIds -> Nat]
    BY <1>1, <1>2 DEF Counted, Sound, Fitting
  <2> QED BY <2>1, MmapAssumption
<1>4. /\ t \in Store /\ Counted(t, [refs EXCEPT ![d] = @ + 1], alive) /\ Tabled(t)
      /\ t.list = s.list /\ t.data_tree = s.data_tree /\ Alike(s, t, DataIds)
  BY <1>1, <1>3, GetCounted DEF Sound
<1> HIDE DEF t
<1>5. Placed(t, FileSize) /\ Live(t) = Live(s)
  BY <1>4 DEF Placed, Live, Alike, Sound
<1>6. s.reg[d].len = Lower(Block, FileSize - at)
  <2>1. s.reg[d].len <= Block /\ at + s.reg[d].len <= FileSize
    BY <1>1, <1>2 DEF Placed, Sound
  <2>2. s.reg[d].len \in Nat /\ FileSize \in Nat /\ Block \in Nat /\ at \in Nat /\ off \in Nat
        /\ at <= off
    BY <1>1, StoreFacts, MmapAssumption DEF Sound, Fitting, Mapping, Usable
  <2> QED BY <2>1, <2>2 DEF Lower
<1>7. Alike(s, t, Live(s))
  BY <1>4 DEF Alike, Live
<1>8. t.reg[d].live /\ t.reg[d].off = at /\ t.reg[d].len = Lower(Block, FileSize - at)
  BY <1>1, <1>2, <1>4, <1>6 DEF Alike
<1> QED BY <1>1, <1>2, <1>4, <1>5, <1>7, <1>8 DEF Mapped, Sound, t

\* A new mapping d takes the place of those E in the table.
Superseded(s, t, E, d, at, n) ==
    LET made == DataCreate(s, d, at, n)
    IN  /\ t \in Store /\ t.list = s.list /\ t.users = made.users /\ t.broken = made.broken
        /\ t.data_tree = (s.data_tree \ E) \cup {d}
        /\ \A x \in DataIds :
              /\ t.reg[x].live = made.reg[x].live /\ t.reg[x].off = made.reg[x].off
              /\ t.reg[x].len = made.reg[x].len /\ t.reg[x].use = made.reg[x].use
              /\ t.reg[x].obsolete <=> made.reg[x].obsolete \/ x \in E

LEMMA SupersededMaps ==
    ASSUME NEW s, NEW refs, Sound(s, refs), Fitting(s, refs), NEW at, NEW off,
           Usable(s, at, off), NEW d \in FreeData(s), NEW t,
           Superseded(s, t, Find(s, at), d, at, Lower(Block, FileSize - at))
    PROVE  Mapped(s, [s |-> t, d |-> d], at, refs)
<1> DEFINE n == Lower(Block, FileSize - at)
           made == DataCreate(s, d, at, n)
           new == [refs EXCEPT ![d] = @ + 1]
<1>1. at \in Nat /\ at = BlockOf(at) /\ n \in Nat /\ n <= Block /\ at + n <= FileSize
  BY MmapAssumption DEF Usable, Lower, Fitting
<1>2. /\ made \in Store /\ Counted(made, new, alive)
      /\ refs[d] = 0 /\ ~s.reg[d].live /\ d \in DataIds
      /\ made.list = s.list /\ made.data_tree = s.data_tree
      /\ \A e \in DataIds \ {d} : made.reg[e] = s.reg[e]
      /\ made.reg[d].live /\ made.reg[d].off = at /\ made.reg[d].len = n
      /\ ~made.reg[d].obsolete
  <2>1. s \in Store /\ refs \in [DataIds -> Nat] /\ Counted(s, refs, alive) /\ CountsFit
    BY DEF Sound, Fitting
  <2> HIDE DEF n
  <2> QED BY <1>1, <2>1, CreateCounted
<1> HIDE DEF n
<1>3. /\ t \in Store /\ t.list = s.list /\ t.users = made.users /\ t.broken = made.broken
      /\ t.data_tree = (s.data_tree \ Find(s, at)) \cup {d}
      /\ \A x \in DataIds :
              /\ t.reg[x].live = made.reg[x].live /\ t.reg[x].off = made.reg[x].off
              /\ t.reg[x].len = made.reg[x].len /\ t.reg[x].use = made.reg[x].use
              /\ t.reg[x].obsolete <=> made.reg[x].obsolete \/ x \in Find(s, at)
  BY DEF Superseded, n
<1> HIDE DEF made, new
<1>4. Live(t) = Live(made)
  BY <1>3 DEF Live
<1>5. Counted(t, new, alive)
  BY <1>2, <1>3, <1>4 DEF Counted
<1>6. \A x \in DataIds \ {d} : t.reg[x].live = s.reg[x].live /\ t.reg[x].off = s.reg[x].off
                               /\ t.reg[x].len = s.reg[x].len
                               /\ (t.reg[x].obsolete <=> s.reg[x].obsolete \/ x \in Find(s, at))
  BY <1>2, <1>3
<1>7. d \notin s.data_tree /\ d \notin Find(s, at) /\ s.data_tree \subseteq DataIds
  BY <1>2 DEF Tabled, Sound, Find, Store
<1>8. t.reg[d].live /\ t.reg[d].off = at /\ t.reg[d].len = n /\ ~t.reg[d].obsolete
  BY <1>2, <1>3, <1>7
<1>9. Tabled(t)
  <2>1. t.data_tree = {x \in DataIds : t.reg[x].live /\ ~t.reg[x].obsolete}
    <3>1. s.data_tree = {x \in DataIds : s.reg[x].live /\ ~s.reg[x].obsolete}
      BY DEF Tabled, Sound
    <3> QED BY <3>1, <1>2, <1>3, <1>6, <1>7, <1>8
  <2>2. ASSUME NEW x \in t.data_tree, NEW y \in t.data_tree, t.reg[x].off = t.reg[y].off
        PROVE  x = y
    <3>1. \A z \in t.data_tree \ {d} : /\ z \in s.data_tree /\ z \notin Find(s, at)
                                       /\ t.reg[z].off = s.reg[z].off
      BY <1>3, <1>6, <1>7
    <3>2. \A z \in t.data_tree \ {d} : t.reg[z].off # at
      BY <3>1 DEF Find
    <3>3. CASE x = d \/ y = d
      BY <3>2, <3>3, <2>2, <1>8
    <3>4. CASE x # d /\ y # d
      BY <3>1, <3>4, <2>2 DEF Tabled, Sound
    <3> QED BY <3>3, <3>4
  <2> QED BY <2>1, <2>2 DEF Tabled
<1>10. Placed(t, FileSize)
  <2>1. Live(t) = Live(s) \cup {d}
    BY <1>2, <1>6, <1>8 DEF Live
  <2>2. ASSUME NEW x \in Live(s), x # d
        PROVE  LET r == t.reg[x]
               IN  r.off = BlockOf(r.off) /\ r.len <= Block /\ r.off + r.len <= FileSize
    <3>1. x \in DataIds /\ t.reg[x].off = s.reg[x].off /\ t.reg[x].len = s.reg[x].len
      BY <2>2, <1>6 DEF Live
    <3> QED BY <3>1, <2>2 DEF Placed, Sound
  <2> QED BY <2>1, <2>2, <1>1, <1>8 DEF Placed
<1>11. Alike(s, t, Live(s))
  BY <1>2, <1>6 DEF Alike, Live
<1>12. d \in DataIds \ Shows(s)
  BY <1>2 DEF Fitting, Live
<1> QED BY <1>2, <1>3, <1>5, <1>8, <1>9, <1>10, <1>11, <1>12 DEF Mapped, Sound, n, new

LEMMA ReplaceSupersedes ==
    ASSUME NEW s, NEW refs, Sound(s, refs), Fitting(s, refs), NEW at, NEW off,
           Usable(s, at, off), NEW d \in FreeData(s), NEW e \in Find(s, at)
    PROVE  LET n == Lower(Block, FileSize - at)
           IN  Superseded(s, Replace(DataCreate(s, d, at, n), e, d), Find(s, at), d, at, n)
<1> DEFINE n == Lower(Block, FileSize - at)
           made == DataCreate(s, d, at, n)
           t == Replace(made, e, d)
<1>1. at \in Nat /\ n \in Nat
  BY MmapAssumption DEF Usable, Lower, Fitting
<1>2. /\ made \in Store /\ d \in DataIds /\ ~s.reg[d].live
      /\ made.list = s.list /\ made.data_tree = s.data_tree
  <2>1. s \in Store /\ refs \in [DataIds -> Nat] /\ Counted(s, refs, alive) /\ CountsFit
    BY DEF Sound, Fitting
  <2> HIDE DEF n
  <2>2. LET u == DataCreate(s, d, at, n)
        IN  /\ u \in Store /\ Counted(u, [refs EXCEPT ![d] = @ + 1], alive)
            /\ refs[d] = 0 /\ ~s.reg[d].live /\ d \in DataIds
            /\ u.list = s.list /\ u.data_tree = s.data_tree
            /\ \A x \in DataIds \ {d} : u.reg[x] = s.reg[x]
            /\ u.reg[d].live /\ u.reg[d].off = at /\ u.reg[d].len = n /\ ~u.reg[d].obsolete
    BY <1>1, <2>1, CreateCounted, Zenon
  <2> QED BY <2>2
<1> HIDE DEF made, n
<1>3. Find(s, at) = {e} /\ e \in DataIds /\ e # d
  BY <1>2 DEF Find, Tabled, Sound
<1>4. /\ t.reg = [made.reg EXCEPT ![e] = [made.reg[e] EXCEPT !.obsolete = TRUE]]
      /\ t.data_tree = (made.data_tree \ {e}) \cup {d}
      /\ t.list = made.list /\ t.users = made.users /\ t.broken = made.broken
  BY <1>2 DEF Replace, Store
<1>5. \A x \in DataIds : t.reg[x] = IF x = e THEN [made.reg[e] EXCEPT !.obsolete = TRUE]
                                    ELSE made.reg[x]
  BY <1>2, <1>4, StoreFacts
<1>6. t \in Store
  <2>1. t = [made EXCEPT !.reg = t.reg, !.data_tree = t.data_tree]
    BY <1>2, <1>4 DEF Replace, Store
  <2>2. [made.reg[e] EXCEPT !.obsolete = TRUE] \in Mapping
    BY <1>2, <1>3, StoreFacts DEF Mapping
  <2>3. t.reg \in [DataIds -> Mapping] /\ t.data_tree \subseteq DataIds
    BY <1>2, <1>4, <2>2, StoreFacts
  <2> HIDE DEF t
  <2> QED BY <2>1, <2>3, <1>2 DEF Store
<1> HIDE DEF t
<1>7. \A x \in DataIds :
         /\ t.reg[x].live = made.reg[x].live /\ t.reg[x].off = made.reg[x].off
         /\ t.reg[x].len = made.reg[x].len /\ t.reg[x].use = made.reg[x].use
         /\ t.reg[x].obsolete <=> made.reg[x].obsolete \/ x \in Find(s, at)
  <2>1. TAKE x \in DataIds
  <2>2. CASE x = e
    <3>1. made.reg[e] \in Mapping
      BY <1>2, <1>3, StoreFacts
    <3> QED BY <2>2, <3>1, <1>3, <1>5 DEF Mapping
  <2>3. CASE x # e
    BY <2>3, <1>3, <1>5
  <2> QED BY <2>2, <2>3
<1> QED BY <1>2, <1>3, <1>4, <1>6, <1>7 DEF Superseded, made, n, t

LEMMA AddSupersedes ==
    ASSUME NEW s, NEW refs, Sound(s, refs), Fitting(s, refs), NEW at, NEW off,
           Usable(s, at, off), NEW d \in FreeData(s), Find(s, at) = {}
    PROVE  LET n == Lower(Block, FileSize - at)
           IN  Superseded(s, [DataCreate(s, d, at, n) EXCEPT !.data_tree = @ \cup {d}],
                          Find(s, at), d, at, n)
<1> DEFINE n == Lower(Block, FileSize - at)
           made == DataCreate(s, d, at, n)
           t == [made EXCEPT !.data_tree = @ \cup {d}]
<1>1. at \in Nat /\ n \in Nat
  BY MmapAssumption DEF Usable, Lower, Fitting
<1>2. made \in Store /\ d \in DataIds /\ made.list = s.list /\ made.data_tree = s.data_tree
  <2>1. s \in Store /\ refs \in [DataIds -> Nat] /\ Counted(s, refs, alive) /\ CountsFit
    BY DEF Sound, Fitting
  <2> HIDE DEF n
  <2>2. LET u == DataCreate(s, d, at, n)
        IN  /\ u \in Store /\ Counted(u, [refs EXCEPT ![d] = @ + 1], alive)
            /\ refs[d] = 0 /\ ~s.reg[d].live /\ d \in DataIds
            /\ u.list = s.list /\ u.data_tree = s.data_tree
            /\ \A x \in DataIds \ {d} : u.reg[x] = s.reg[x]
            /\ u.reg[d].live /\ u.reg[d].off = at /\ u.reg[d].len = n /\ ~u.reg[d].obsolete
    BY <1>1, <2>1, CreateCounted, Zenon
  <2> QED BY <2>2
<1> HIDE DEF made, n
<1>3. /\ t.reg = made.reg /\ t.data_tree = made.data_tree \cup {d}
      /\ t.list = made.list /\ t.users = made.users /\ t.broken = made.broken
  BY <1>2 DEF Store
<1>4. t \in Store
  BY <1>2 DEF Store
<1> HIDE DEF t
<1> QED BY <1>2, <1>3, <1>4 DEF Superseded, made, n, t

\* A mapping can be made of what the file has of a block.
Mappable(s, fail) == mode = "rw" /\ fail # "mmap" /\ FreeData(s) # {}

LEMMA RoomFacts ==
    ASSUME NEW s, NEW fail, fail # "stat", NEW at \in Nat, FileSize \in Nat, at < FileSize
    PROVE  /\ SizeFor(fail) = FileSize /\ Room(at, FileSize) = Lower(Block, FileSize - at)
           /\ CanMap(s, Lower(Block, FileSize - at), fail) <=> Mappable(s, fail)
<1>1. SizeFor(fail) = FileSize /\ Room(at, FileSize) = Lower(Block, FileSize - at)
  BY DEF SizeFor, Room
<1>2. Lower(Block, FileSize - at) > 0
  BY MmapAssumption DEF Lower
<1> QED BY <1>1, <1>2 DEF CanMap, Mappable

\* What page_map_forward and page_map_backward have in common.
LEMMA MapBlockMaps ==
    ASSUME NEW s, NEW refs, Sound(s, refs), Fitting(s, refs), NEW at, NEW off, NEW fail,
           fail # "stat", Usable(s, at, off)
    PROVE  LET r == MapBlock(s, at, off, fail)
           IN  \/ r = [s |-> s, d |-> NULL] /\ ~Mappable(s, fail)
               \/ Mapped(s, r, at, refs) /\ (mode = "rw" \/ Live(s) # {})
<1> DEFINE new == CHOOSE d \in FreeData(s) : TRUE
           made == DataCreate(s, new, at, Lower(Block, FileSize - at))
<1>0. /\ SizeFor(fail) = FileSize /\ Room(at, FileSize) = Lower(Block, FileSize - at)
      /\ CanMap(s, Lower(Block, FileSize - at), fail) <=> Mappable(s, fail)
  BY RoomFacts DEF Usable, Fitting
<1>1. Mappable(s, fail) => new \in FreeData(s) /\ mode = "rw"
  BY DEF Mappable
<1>2. CASE Find(s, at) # {}
  <2> DEFINE d == CHOOSE d \in Find(s, at) : TRUE
             e == at + s.reg[d].len
  <2>1. d \in Find(s, at)
    BY <1>2
  <2>2. e >= off + Block \/ (s.reg[d].len < Block /\ e < FileSize)
    BY <2>1 DEF Usable
  <2>3. CASE e >= off + Block
    <3>1. MapBlock(s, at, off, fail) = [s |-> DataGet(s, d), d |-> d]
      BY <1>2, <2>3, <1>0 DEF MapBlock
    <3> HIDE DEF d
    <3> QED BY <3>1, <2>1, <2>3, FoundMaps
  <2>4. CASE ~(e >= off + Block) /\ Mappable(s, fail)
    <3>1. MapBlock(s, at, off, fail) = [s |-> Replace(made, d, new), d |-> new]
      BY <1>2, <2>2, <2>4, <1>0 DEF MapBlock
    <3> HIDE DEF d, new
    <3>2. Superseded(s, Replace(made, d, new), Find(s, at), new, at, Lower(Block, FileSize - at))
      BY <2>1, <2>4, <1>1, ReplaceSupersedes
    <3> QED BY <3>1, <3>2, <2>4, <1>1, SupersededMaps
  <2>5. CASE ~(e >= off + Block) /\ ~Mappable(s, fail)
    BY <1>2, <2>2, <2>5, <1>0 DEF MapBlock
  <2> QED BY <2>3, <2>4, <2>5
<1>3. CASE Find(s, at) = {} /\ Mappable(s, fail)
  <2>1. MapBlock(s, at, off, fail)
           = [s |-> [made EXCEPT !.data_tree = @ \cup {new}], d |-> new]
    BY <1>3, <1>0 DEF MapBlock
  <2> HIDE DEF new
  <2>2. Superseded(s, [made EXCEPT !.data_tree = @ \cup {new}], Find(s, at), new, at,
                   Lower(Block, FileSize - at))
    BY <1>1, <1>3, AddSupersedes
  <2> QED BY <2>1, <2>2, <1>1, <1>3, SupersededMaps
<1>4. CASE Find(s, at) = {} /\ ~Mappable(s, fail)
  BY <1>4, <1>0 DEF MapBlock
<1> QED BY <1>2, <1>3, <1>4

-----------------------------------------------------------------------------
(* Making a page, and linking it.                                          *)

\* t is s but for mappings that no page of the list is on.
Kept(s, t) ==
    /\ t.list = s.list /\ t.data_tree \subseteq s.data_tree
    /\ Alike(s, t, Shows(s) \cup t.data_tree)

LEMMA PutBack ==
    ASSUME NEW s, NEW refs, Sound(s, refs), Fitting(s, refs), NEW at, NEW r,
           Mapped(s, r, at, refs)
    PROVE  Sound(DataPut(r.s, r.d), refs) /\ Kept(s, DataPut(r.s, r.d))
<1> DEFINE more == [refs EXCEPT ![r.d] = @ + 1]
           t == DataPut(r.s, r.d)
<1>1. /\ r.s \in Store /\ r.d \in DataIds /\ refs \in [DataIds -> Nat]
      /\ more \in [DataIds -> Nat] /\ Counted(r.s, more, alive) /\ Tabled(r.s)
      /\ CountsFit /\ more[r.d] = refs[r.d] + 1 /\ refs[r.d] \in Nat
      /\ refs[r.d] + 2 < CountMod
  BY DEF Mapped, Sound, Fitting
<1>2. more[r.d] > 0 /\ more[r.d] < CountMod
  BY <1>1, MmapAssumption
<1>3. [more EXCEPT ![r.d] = @ - 1] = refs
  <2>1. more[r.d] - 1 = refs[r.d]
    BY <1>1
  <2>2. [more EXCEPT ![r.d] = refs[r.d]] = refs
    BY <1>1
  <2> QED BY <2>1, <2>2
<1> HIDE DEF more
<1>4. /\ t \in Store /\ Counted(t, [more EXCEPT ![r.d] = @ - 1], alive) /\ Tabled(t)
      /\ t.list = r.s.list
      /\ \/ more[r.d] > 1 /\ Alike(r.s, t, DataIds) /\ t.data_tree = r.s.data_tree
         \/ /\ more[r.d] = 1 /\ Alike(r.s, t, DataIds \ {r.d}) /\ ~t.reg[r.d].live
            /\ t.data_tree = r.s.data_tree \ {r.d}
  <2>1. PutLeaves(r.s, t, r.d, more)
    BY <1>1, <1>2, PutCounted
  <2> HIDE DEF t
  <2> QED BY <2>1 DEF PutLeaves
<1> HIDE DEF t
<1>5. t.data_tree \subseteq s.data_tree
  <2>1. r.s.data_tree \subseteq s.data_tree \cup {r.d}
    BY DEF Mapped
  <2>2. r.d \in s.data_tree \/ refs[r.d] = 0
    BY DEF Mapped
  <2>3. r.d \notin s.data_tree => ~(more[r.d] > 1)
    BY <2>2, <1>1
  <2>4. CASE r.d \in s.data_tree
    BY <2>1, <2>4, <1>4
  <2>5. CASE r.d \notin s.data_tree
    <3>1. t.data_tree = r.s.data_tree \ {r.d}
      BY <2>3, <2>5, <1>4
    <3> QED BY <2>1, <3>1
  <2> QED BY <2>4, <2>5
<1>6. Live(t) \subseteq Live(r.s) /\ Alike(r.s, t, Live(t))
  BY <1>4 DEF Live, Alike
<1>7. Placed(t, FileSize)
  <2>1. Placed(r.s, FileSize)
    BY DEF Mapped, Sound
  <2> QED BY <2>1, <1>6 DEF Placed, Alike
<1>8. Alike(s, t, Shows(s) \cup t.data_tree)
  <2>1. ASSUME NEW x \in Shows(s) \cup t.data_tree
        PROVE  /\ t.reg[x].live = s.reg[x].live
               /\ t.reg[x].off = s.reg[x].off
               /\ t.reg[x].len = s.reg[x].len
    <3>1. x \in Live(s) /\ x \in DataIds
      BY <1>5 DEF Fitting, Sound, Tabled, Live
    <3>2. /\ r.s.reg[x].live = s.reg[x].live
          /\ r.s.reg[x].off = s.reg[x].off
          /\ r.s.reg[x].len = s.reg[x].len
      BY <3>1 DEF Mapped, Alike
    <3>3. CASE x \in Shows(s)
      <4>1. x # r.d
        BY <3>3 DEF Mapped
      <4> QED BY <3>1, <3>2, <4>1, <1>4 DEF Alike
    <3>4. CASE x \in t.data_tree
      <4>1. x \in Live(t)
        BY <3>4, <1>4 DEF Tabled, Live
      <4> QED BY <3>2, <4>1, <1>6 DEF Alike
    <3> QED BY <3>3, <3>4
  <2> QED BY <2>1 DEF Alike
<1>9. t.list = s.list
  BY <1>4 DEF Mapped
<1> QED BY <1>3, <1>4, <1>5, <1>7, <1>8, <1>9 DEF Sound, Kept, t

\* The reference of MapBlock is given back when the page has its own.
LEMMA GetThenPut ==
    ASSUME NEW s \in Store, NEW d \in DataIds, NEW refs \in [DataIds -> Nat],
           Counted(s, refs, alive), refs[d] > 0, refs[d] + 1 < CountMod
    PROVE  DataPut(DataGet(s, d), d) = s
<1> DEFINE t == DataGet(s, d)
           g == s.reg[d]
<1>1. g \in Mapping /\ g.use = refs[d] /\ g.live
  BY StoreFacts DEF Counted
<1>2. t = [s EXCEPT !.reg = [s.reg EXCEPT ![d] = [g EXCEPT !.use = g.use + 1]]]
  <2>1. (g.use + 1) % CountMod = g.use + 1
    BY <1>1, NoWrap
  <2> QED BY <2>1 DEF DataGet
<1>3. t.reg[d].live /\ t.reg[d].use = g.use + 1 /\ t.reg[d] = [g EXCEPT !.use = g.use + 1]
  BY <1>1, <1>2, StoreFacts DEF Mapping, Store
<1>4. (t.reg[d].use - 1) % CountMod = g.use
  <2>1. g.use \in Nat /\ g.use < CountMod
    BY <1>1, MmapAssumption
  <2> QED BY <1>3, <2>1, NoWrap
<1> HIDE DEF t
<1>5. DataPut(t, d) = [t EXCEPT !.reg[d].use = g.use]
  <2>1. g.use # 0 /\ t.reg[d].live
    BY <1>1, <1>3
  <2> HIDE DEF g
  <2> QED BY <2>1, <1>4 DEF DataPut
<1>6. [t EXCEPT !.reg[d].use = g.use] = s
  <2> HIDE DEF g
  <2>1. t.reg = [s.reg EXCEPT ![d] = [g EXCEPT !.use = g.use + 1]]
    BY <1>2 DEF Store
  <2>2. [t.reg EXCEPT ![d].use = g.use] = s.reg
    <3>1. s.reg \in [DataIds -> Mapping] /\ g = s.reg[d]
      BY StoreFacts DEF g
    <3>2. [[g EXCEPT !.use = g.use + 1] EXCEPT !.use = g.use] = g
      BY <1>1 DEF Mapping
    <3> QED BY <2>1, <3>1, <3>2
  <2>3. [t EXCEPT !.reg[d].use = g.use] = [t EXCEPT !.reg = [t.reg EXCEPT ![d].use = g.use]]
    OBVIOUS
  <2>4. [t EXCEPT !.reg = s.reg] = s
    BY <1>2 DEF Store
  <2> QED BY <2>2, <2>3, <2>4
<1> QED BY <1>5, <1>6 DEF t

\* pb_page_create on a mapping.
LEMMA MakePageMakes ==
    ASSUME NEW s, NEW refs, Sound(s, refs), Fitting(s, refs), NEW at, NEW r, NEW off, NEW end,
           NEW fail, \/ r = [s |-> s, d |-> NULL] /\ ~Mappable(s, fail)
                     \/ Mapped(s, r, at, refs)
    PROVE  LET R == MakePage(r, off, end, fail)
           IN  \/ /\ R.p = NULL /\ Sound(R.s, refs) /\ Kept(s, R.s)
                  /\ fail = "page" \/ (R.s = s /\ ~Mappable(s, fail))
               \/ /\ Mapped(s, r, at, refs) /\ R.s = r.s /\ fail # "page"
                  /\ R.p = [data |-> r.d, base |-> off - at, len |-> end - off]
<1>1. CASE r = [s |-> s, d |-> NULL] /\ ~Mappable(s, fail)
  <2>1. MakePage(r, off, end, fail) = [s |-> s, p |-> NULL]
    BY <1>1 DEF MakePage
  <2>2. Kept(s, s)
    BY DEF Kept, Alike
  <2> QED BY <1>1, <2>1, <2>2
<1>2. CASE Mapped(s, r, at, refs)
  <2>1. r.d # NULL /\ r.d \in DataIds
    BY <1>2, MmapAssumption DEF Mapped
  <2>2. CASE fail = "page"
    <3>1. MakePage(r, off, end, fail) = [s |-> DataPut(r.s, r.d), p |-> NULL]
      BY <2>1, <2>2 DEF MakePage
    <3>2. Sound(DataPut(r.s, r.d), refs) /\ Kept(s, DataPut(r.s, r.d))
      BY <1>2, PutBack
    <3> QED BY <3>1, <3>2, <2>2
  <2>3. CASE fail # "page"
    <3> DEFINE more == [refs EXCEPT ![r.d] = @ + 1]
    <3>1. MakePage(r, off, end, fail)
            = [s |-> DataPut(DataGet(r.s, r.d), r.d),
               p |-> [data |-> r.d, base |-> off - at, len |-> end - off]]
      <4>1. r.s.reg[r.d].off = at
        BY <1>2 DEF Mapped
      <4> QED BY <2>1, <2>3, <4>1 DEF MakePage
    <3>2. /\ r.s \in Store /\ more \in [DataIds -> Nat] /\ Counted(r.s, more, alive)
          /\ more[r.d] = refs[r.d] + 1 /\ refs[r.d] \in Nat /\ refs[r.d] + 2 < CountMod
      BY <1>2 DEF Mapped, Sound, Fitting
    <3>3. more[r.d] > 0 /\ more[r.d] + 1 < CountMod
      BY <3>2, MmapAssumption
    <3> HIDE DEF more
    <3>4. DataPut(DataGet(r.s, r.d), r.d) = r.s
      BY <2>1, <3>2, <3>3, GetThenPut
    <3> QED BY <3>1, <3>4, <1>2, <2>3
  <2> QED BY <2>2, <2>3
<1> QED BY <1>1, <1>2

\* What does not change in a call.
Setting ==
    /\ held \in [DataIds -> Nat] /\ (\A d \in DataIds : held[d] <= MaxHeld) /\ CountsFit
    /\ FileSize \in Nat /\ head \in Nat /\ head <= FileSize

\* The store is good for the state of the other variables.
Fine(s) == Good(s, FileSize, head, held, alive)

LEMMA PlaceFacts ==
    ASSUME NEW s \in Store, NEW i \in 1..Len(s.list)
    PROVE  LET p == s.list[i]
           IN  /\ p \in Page /\ p.data \in DataIds /\ p.base \in Nat /\ p.len \in Nat
               /\ StartOf(s, p) \in Nat /\ EndOf(s, p) \in Nat
               /\ EndOf(s, p) = StartOf(s, p) + p.len
               /\ StartOf(s, p) = s.reg[p.data].off + p.base
               /\ s.reg[p.data].off \in Nat /\ s.reg[p.data].len \in Nat
               /\ p.data \in Shows(s)
<1> DEFINE p == s.list[i]
<1>1. p \in Page
  BY StoreFacts
<1>2. p.data \in DataIds /\ p.base \in Nat /\ p.len \in Nat
  BY <1>1, PageFacts
<1>3. s.reg[p.data].off \in Nat /\ s.reg[p.data].len \in Nat
  BY <1>2, StoreFacts DEF Mapping
<1>4. p.data \in Shows(s)
  BY DEF Shows
<1> HIDE DEF p
<1>5. StartOf(s, p) \in Nat /\ EndOf(s, p) \in Nat /\ EndOf(s, p) = StartOf(s, p) + p.len
  <2>1. StartOf(s, p) = s.reg[p.data].off + p.base
    BY DEF StartOf
  <2>2. StartOf(s, p) \in Nat
    BY <2>1, <1>2, <1>3
  <2>3. EndOf(s, p) = StartOf(s, p) + p.len
    BY DEF EndOf
  <2> QED BY <2>2, <2>3, <1>2
<1> QED BY <1>1, <1>2, <1>3, <1>4, <1>5 DEF p, StartOf

LEMMA FineFits ==
    ASSUME NEW s, Fine(s), Setting
    PROVE  Sound(s, Refs(s, held)) /\ Fitting(s, Refs(s, held))
<1>1. Shows(s) \subseteq Live(s)
  <2>1. ASSUME NEW i \in 1..Len(s.list) PROVE s.list[i].data \in Live(s)
    BY PlaceFacts DEF Fine, Good, Viewing, Windowed, Live
  <2> QED BY <2>1 DEF Shows
<1>2. Refs(s, held) \in [DataIds -> Nat]
  BY DEF Refs, Setting
<1>3. ASSUME NEW d \in DataIds \ Shows(s) PROVE Refs(s, held)[d] + 2 < CountMod
  <2>1. Refs(s, held)[d] = held[d] + 0 /\ held[d] \in Nat /\ held[d] <= MaxHeld
    BY DEF Refs, Setting
  <2> QED BY <2>1, MmapAssumption DEF Setting, CountsFit
<1> QED BY <1>1, <1>2, <1>3 DEF Fitting, Sound, Fine, Good, Setting

\* What is kept is good again.
LEMMA KeptGood ==
    ASSUME NEW s, NEW t, NEW size, NEW more, NEW hd, NEW he, NEW al, NEW hf, NEW bl,
           Good(s, size, hd, he, al), Kept(s, t), t \in Store, Counted(t, Refs(t, hf), bl),
           Tabled(t), Placed(t, more)
    PROVE  Good(t, more, hd, hf, bl)
<1>1. s \in Store /\ t \in Store /\ t.list = s.list /\ Shows(t) = Shows(s)
  BY DEF Good, Kept, Shows
<1>2. ASSUME NEW i \in 1..Len(s.list)
      PROVE  /\ StartOf(t, s.list[i]) = StartOf(s, s.list[i])
             /\ EndOf(t, s.list[i]) = EndOf(s, s.list[i])
             /\ t.reg[s.list[i].data].live = s.reg[s.list[i].data].live
             /\ t.reg[s.list[i].data].len = s.reg[s.list[i].data].len
  <2>1. s.list[i].data \in Shows(s)
    BY DEF Shows
  <2> QED BY <2>1 DEF Kept, Alike, StartOf, EndOf
<1>3. Windowed(t)
  BY <1>1, <1>2 DEF Windowed, Good, Viewing
<1>4. Gapless(t)
  BY <1>1, <1>2 DEF Gapless, Good, Viewing
<1>5. Starting(t, hd)
  <2>1. s.list # << >> => 1 \in 1..Len(s.list)
    BY <1>1, StoreFacts
  <2> QED BY <2>1, <1>1, <1>2 DEF Starting, Good, Viewing
<1>6. Latest(t, {})
  <2>1. ASSUME NEW d \in t.data_tree, NEW e \in Shows(t), t.reg[d].off = t.reg[e].off
        PROVE  d \in Shows(t)
    <3>1. d \in s.data_tree /\ e \in Shows(s) /\ t.reg[d].off = s.reg[d].off
          /\ t.reg[e].off = s.reg[e].off
      BY <2>1, <1>1 DEF Kept, Alike
    <3> QED BY <3>1, <2>1, <1>1 DEF Latest, Good
  <2> QED BY <2>1 DEF Latest
<1> QED BY <1>1, <1>3, <1>4, <1>5, <1>6 DEF Good, Viewing

LEMMA KeptFine ==
    ASSUME NEW s, NEW t, Fine(s), Setting, Kept(s, t), Sound(t, Refs(s, held))
    PROVE  Fine(t)
<1>1. Refs(t, held) = Refs(s, held)
  BY DEF Refs, Shows, Kept
<1> QED BY <1>1, KeptGood DEF Fine, Sound

\* t is s with the mapping of r in the table and L as its list.
Joined(s, t, r, L) ==
    /\ t \in Store /\ Counted(t, Refs(t, held), alive) /\ Tabled(t) /\ Placed(t, FileSize)
    /\ Latest(t, {}) /\ t.list = L /\ t.reg = r.s.reg /\ Alike(s, t, Shows(s))
    /\ Shows(t) = Shows(s) \cup {r.d} /\ t.data_tree = r.s.data_tree

\* The mappings with a page on the new one added to the list.
LEMMA JoinSound ==
    ASSUME NEW s, Fine(s), Setting, NEW at, NEW r, Mapped(s, r, at, Refs(s, held)),
           NEW L \in Seq(Page), {L[i].data : i \in 1..Len(L)} = Shows(s) \cup {r.d},
           NEW t, t = [r.s EXCEPT !.list = L]
    PROVE  Joined(s, t, r, L)
<1>1. r.s \in Store /\ r.d \in DataIds /\ r.d \notin Shows(s)
  BY DEF Mapped, Sound
<1>2. /\ t.list = L /\ t.reg = r.s.reg /\ t.data_tree = r.s.data_tree
      /\ t.users = r.s.users /\ t.broken = r.s.broken /\ t \in Store
  BY <1>1 DEF Store
<1>3. Shows(t) = Shows(s) \cup {r.d}
  BY <1>2 DEF Shows
<1>4. Refs(t, held) = [Refs(s, held) EXCEPT ![r.d] = @ + 1]
  <2>1. held[r.d] \in Nat
    BY <1>1 DEF Setting
  <2> QED BY <2>1, <1>1, <1>3 DEF Refs
<1>5. Counted(t, Refs(t, held), alive) /\ Tabled(t) /\ Placed(t, FileSize)
  <2>1. Live(t) = Live(r.s)
    BY <1>2 DEF Live
  <2> DEFINE refs == Refs(t, held)
  <2>2. Sound(r.s, refs)
    BY <1>4 DEF Mapped
  <2> HIDE DEF refs
  <2>3. Counted(t, refs, alive)
    BY <2>1, <2>2, <1>2 DEF Counted, Sound
  <2>4. Tabled(t) /\ Placed(t, FileSize)
    BY <2>1, <2>2, <1>2 DEF Tabled, Placed, Sound
  <2> QED BY <2>3, <2>4 DEF refs
<1>6. Shows(s) \subseteq Live(s) /\ s.data_tree \subseteq Live(s)
  BY FineFits DEF Fitting, Sound, Tabled, Live
<1>7. \A x \in Live(s) : t.reg[x].off = s.reg[x].off
  BY <1>2 DEF Mapped, Alike
<1>8. Latest(t, {})
  <2>1. ASSUME NEW d \in t.data_tree, NEW e \in Shows(t), t.reg[d].off = t.reg[e].off,
               d # r.d
        PROVE  d \in Shows(t)
    <3>1. d \in s.data_tree /\ r.d \in t.data_tree
      BY <2>1, <1>2 DEF Mapped
    <3>2. e # r.d
      BY <2>1, <3>1, <1>5 DEF Tabled
    <3>3. e \in Shows(s)
      BY <3>2, <1>3
    <3>4. s.reg[d].off = s.reg[e].off
      BY <2>1, <3>1, <3>3, <1>6, <1>7
    <3> QED BY <3>1, <3>3, <3>4, <1>3 DEF Latest, Fine, Good
  <2> QED BY <2>1, <1>3 DEF Latest
<1>9. Alike(s, t, Shows(s))
  BY <1>2, <1>6 DEF Mapped, Alike
<1> QED BY <1>2, <1>3, <1>5, <1>8, <1>9 DEF Joined

\* The page p of t shows the file from off to end, and so to the end of its mapping.
Covers(t, p, off, end) ==
    /\ p \in Page /\ StartOf(t, p) = off /\ EndOf(t, p) = end
    /\ t.reg[p.data].live /\ p.len > 0 /\ p.base + p.len = t.reg[p.data].len

LEMMA NewPage ==
    ASSUME NEW s, NEW refs, NEW at \in Nat, NEW r, Mapped(s, r, at, refs),
           NEW off \in Nat, NEW end \in Nat, at <= off, off < end,
           end = at + r.s.reg[r.d].len, NEW p, p = [data |-> r.d, base |-> off - at, len |-> end - off],
           NEW t, t.reg = r.s.reg
    PROVE  Covers(t, p, off, end)
<1>1. r.d \in DataIds /\ r.s \in Store
  BY DEF Mapped, Sound
<1>2. r.s.reg[r.d].len \in Nat /\ r.s.reg[r.d].off = at /\ r.s.reg[r.d].live
  BY <1>1, StoreFacts DEF Mapped, Mapping
<1>3. p \in Page /\ p.data = r.d /\ p.base = off - at /\ p.len = end - off
  BY <1>1 DEF Page
<1>4. StartOf(t, p) = at + (off - at)
  BY <1>2, <1>3 DEF StartOf
<1>5. StartOf(t, p) = off /\ EndOf(t, p) = end
  BY <1>3, <1>4 DEF EndOf
<1> QED BY <1>2, <1>3, <1>5 DEF Covers

\* The pages of s are where they were.
LEMMA SamePlaces ==
    ASSUME NEW s, Fine(s), NEW t, Alike(s, t, Shows(s)), NEW i \in 1..Len(s.list)
    PROVE  LET p == s.list[i]
           IN  /\ Covers(t, p, StartOf(s, p), EndOf(s, p))
               /\ StartOf(s, p) \in Nat /\ EndOf(s, p) \in Nat /\ StartOf(s, p) < EndOf(s, p)
<1> DEFINE p == s.list[i]
<1>1. s \in Store /\ Windowed(s)
  BY DEF Fine, Good, Viewing
<1>2. /\ p \in Page /\ p.len \in Nat /\ p.data \in Shows(s)
      /\ StartOf(s, p) \in Nat /\ EndOf(s, p) \in Nat
      /\ EndOf(s, p) = StartOf(s, p) + p.len
  BY <1>1, PlaceFacts
<1>3. s.reg[p.data].live /\ p.len > 0 /\ p.base + p.len = s.reg[p.data].len
  BY <1>1 DEF Windowed
<1> HIDE DEF p
<1>4. /\ t.reg[p.data].live = s.reg[p.data].live /\ t.reg[p.data].off = s.reg[p.data].off
      /\ t.reg[p.data].len = s.reg[p.data].len
  BY <1>2 DEF Alike
<1>5. StartOf(t, p) = StartOf(s, p) /\ EndOf(t, p) = EndOf(s, p)
  BY <1>4 DEF StartOf, EndOf
<1>6. StartOf(s, p) < EndOf(s, p)
  BY <1>2, <1>3
<1> QED BY <1>2, <1>3, <1>4, <1>5, <1>6 DEF Covers, p

LEMMA OrderFacts ==
    ASSUME NEW s, Fine(s), NEW i \in 1..Len(s.list), NEW j \in 1..Len(s.list), i <= j
    PROVE  /\ EndOf(s, s.list[i]) <= EndOf(s, s.list[j])
           /\ StartOf(s, s.list[i]) <= StartOf(s, s.list[j])
<1>1. /\ StartOf(s, s.list[i]) \in Nat /\ EndOf(s, s.list[i]) \in Nat
      /\ StartOf(s, s.list[i]) < EndOf(s, s.list[i])
      /\ StartOf(s, s.list[j]) \in Nat /\ EndOf(s, s.list[j]) \in Nat
      /\ StartOf(s, s.list[j]) < EndOf(s, s.list[j])
  BY SamePlaces DEF Alike
<1>2. CASE i = j
  BY <1>1, <1>2
<1>3. CASE i < j
  <2>1. EndOf(s, s.list[i]) <= StartOf(s, s.list[j])
    BY <1>3 DEF Fine, Good, Viewing, Gapless
  <2> QED BY <2>1, <1>1
<1>4. i \in Int /\ j \in Int
  OBVIOUS
<1> QED BY <1>2, <1>3, <1>4

Ordered(t, L, n) ==
    \A i, j \in 1..n :
        /\ i < j => EndOf(t, L[i]) <= StartOf(t, L[j])
        /\ j = i + 1 => EndOf(t, L[i]) = StartOf(t, L[j])

LEMMA GaplessIf ==
    ASSUME NEW t, NEW L, NEW n, t.list = L, Len(L) = n, Ordered(t, L, n)
    PROVE  Gapless(t)
  BY DEF Gapless, Ordered

\* t is good with the list L, in which the page p, from off to end, is new.
Linked(s, t, r, L, p, off, end) ==
    /\ Fine(t) /\ t.list = L /\ Covers(t, p, off, end)
    /\ Alike(s, t, Shows(s)) /\ Shows(t) = Shows(s) \cup {r.d}
    /\ t.data_tree = r.s.data_tree /\ t.reg = r.s.reg

\* page_map_forward, and pb_trivial_buffer_insert behind the last page.
LEMMA AppendFine ==
    ASSUME NEW s, Fine(s), Setting, NEW at \in Nat, NEW r, Mapped(s, r, at, Refs(s, held)),
           NEW off \in Nat, NEW end \in Nat, at <= off, off < end,
           end = at + r.s.reg[r.d].len,
           s.list = << >> => head <= off /\ off \in {head, BlockOf(off)},
           s.list # << >> => off = EndOf(s, s.list[Len(s.list)]),
           NEW p, p = [data |-> r.d, base |-> off - at, len |-> end - off],
           NEW t, t = [r.s EXCEPT !.list = Append(s.list, p)]
    PROVE  Linked(s, t, r, Append(s.list, p), p, off, end)
<1> DEFINE N == Len(s.list)
           L == Append(s.list, p)
<1>1. s \in Store /\ s.list \in Seq(Page) /\ N \in Nat
  <2>1. s \in Store
    BY DEF Fine, Good
  <2> QED BY <2>1, StoreFacts
<1>2. p \in Page /\ p.data = r.d
  <2>1. r.d \in DataIds /\ off - at \in Nat /\ end - off \in Nat
    BY DEF Mapped
  <2> QED BY <2>1 DEF Page
<1>3. /\ L \in Seq(Page) /\ Len(L) = N + 1 /\ L[N + 1] = p
      /\ \A i \in 1..N : L[i] = s.list[i]
  BY <1>1, <1>2
<1>0. t = [r.s EXCEPT !.list = L]
  OBVIOUS
<1> HIDE DEF N, L
<1>4. {L[i].data : i \in 1..Len(L)} = Shows(s) \cup {r.d}
  <2>1. ASSUME NEW i \in 1..(N + 1) PROVE L[i].data \in Shows(s) \cup {r.d}
    <3>1. CASE i = N + 1
      BY <3>1, <1>2, <1>3
    <3>2. CASE i \in 1..N
      BY <3>2, <1>3 DEF Shows, N
    <3> QED BY <3>1, <3>2, <1>1
  <2>2. \A x \in Shows(s) : \E i \in 1..(N + 1) : L[i].data = x
    <3>1. \A i \in 1..N : i \in 1..(N + 1)
      BY <1>1
    <3> QED BY <3>1, <1>3 DEF Shows, N
  <2>3. N + 1 \in 1..(N + 1) /\ L[N + 1].data = r.d
    BY <1>1, <1>2, <1>3
  <2> QED BY <2>1, <2>2, <2>3, <1>3
<1>5. /\ t \in Store /\ Counted(t, Refs(t, held), alive) /\ Tabled(t) /\ Placed(t, FileSize)
      /\ Latest(t, {}) /\ t.list = L /\ t.reg = r.s.reg /\ Alike(s, t, Shows(s))
      /\ Shows(t) = Shows(s) \cup {r.d} /\ t.data_tree = r.s.data_tree
  <2>1. L \in Seq(Page)
    BY <1>3
  <2>2. Joined(s, t, r, L)
    BY <2>1, <1>0, <1>4, JoinSound
  <2> QED BY <2>2 DEF Joined
<1>6. Covers(t, p, off, end)
  BY <1>5, NewPage
<1>7. ASSUME NEW i \in 1..N
      PROVE  /\ Covers(t, L[i], StartOf(s, s.list[i]), EndOf(s, s.list[i]))
             /\ StartOf(s, s.list[i]) \in Nat /\ EndOf(s, s.list[i]) \in Nat
  BY <1>3, <1>5, SamePlaces DEF N
<1>8. Windowed(t)
  <2>1. ASSUME NEW i \in 1..(N + 1) PROVE \E a, b : Covers(t, L[i], a, b)
    <3>1. i = N + 1 \/ i \in 1..N
      BY <1>1
    <3> QED BY <3>1, <1>3, <1>6, <1>7
  <2> QED BY <2>1, <1>3, <1>5 DEF Windowed, Covers
<1>9. Gapless(t)
  <2>1. ASSUME NEW i \in 1..(N + 1), NEW j \in 1..(N + 1), i < j
        PROVE  /\ EndOf(t, L[i]) <= StartOf(t, L[j])
               /\ j = i + 1 => EndOf(t, L[i]) = StartOf(t, L[j])
    <3>1. i \in 1..N /\ N \in 1..N /\ i <= N
      BY <2>1, <1>1
    <3>2. EndOf(t, L[i]) = EndOf(s, s.list[i]) /\ EndOf(s, s.list[i]) \in Nat
      BY <3>1, <1>7 DEF Covers
    <3>3. CASE j = N + 1
      <4>1. s.list # << >>
        BY <3>1 DEF N
      <4>2. StartOf(t, L[j]) = EndOf(s, s.list[N])
        BY <3>3, <4>1, <1>3, <1>6 DEF N, Covers
      <4>3. EndOf(s, s.list[i]) <= EndOf(s, s.list[N])
        BY <3>1, OrderFacts DEF N
      <4>4. j = i + 1 => i = N
        BY <3>3, <1>1
      <4> QED BY <3>2, <4>2, <4>3, <4>4
    <3>4. CASE j \in 1..N
      <4>1. StartOf(t, L[j]) = StartOf(s, s.list[j])
        BY <3>4, <1>7 DEF Covers
      <4> QED BY <2>1, <3>1, <3>2, <3>4, <4>1 DEF Fine, Good, Viewing, Gapless, N
    <3> QED BY <3>3, <3>4, <1>1
  <2>2. \A i, j \in 1..(N + 1) : j = i + 1 => i < j
    BY <1>1
  <2>3. Ordered(t, L, N + 1)
    BY <2>1, <2>2 DEF Ordered
  <2>4. t.list = L /\ Len(L) = N + 1
    BY <1>3, <1>5
  <2> QED BY <2>3, <2>4, GaplessIf
<1>10. Starting(t, head)
  <2>1. CASE s.list = << >>
    <3>1. N = 0
      BY <2>1 DEF N
    <3>2. L[1] = p
      BY <3>1, <1>3
    <3>3. StartOf(t, L[1]) = off
      BY <3>2, <1>6 DEF Covers
    <3> QED BY <2>1, <3>3, <1>5 DEF Starting
  <2>2. CASE s.list # << >>
    <3>1. 1 \in 1..N
      BY <2>2, <1>1 DEF N
    <3>2. StartOf(t, L[1]) = StartOf(s, s.list[1])
      BY <3>1, <1>7 DEF Covers
    <3> QED BY <2>2, <3>2, <1>5 DEF Starting, Fine, Good, Viewing
  <2> QED BY <2>1, <2>2
<1> QED BY <1>5, <1>6, <1>8, <1>9, <1>10 DEF Fine, Good, Viewing, L, Linked

\* A page in front of a list.
LEMMA FrontFacts ==
    ASSUME NEW q \in Seq(Page), NEW p \in Page
    PROVE  LET L == << p >> \o q
           IN  /\ L \in Seq(Page) /\ Len(L) = Len(q) + 1 /\ L[1] = p
               /\ \A i \in 1..Len(q) : L[i + 1] = q[i]
<1> DEFINE N == Len(q)
           L == << p >> \o q
<1>1. << p >> \in Seq(Page) /\ Len(<< p >>) = 1 /\ N \in Nat
  OBVIOUS
<1>2. L \in Seq(Page) /\ Len(L) = 1 + N
  BY <1>1, ConcatProperties
<1>3. \A i \in 1..(1 + N) : L[i] = IF i <= 1 THEN << p >>[i] ELSE q[i - 1]
  BY <1>1, ConcatProperties
<1>4. \A i \in 1..N : i + 1 \in 1..(1 + N) /\ ~(i + 1 <= 1) /\ (i + 1) - 1 = i
  <2> HIDE DEF N, L
  <2> QED BY <1>1
<1>5. 1 \in 1..(1 + N) /\ 1 <= 1
  BY <1>1
<1>6. L \in Seq(Page) /\ Len(L) = N + 1 /\ L[1] = p /\ \A i \in 1..N : L[i + 1] = q[i]
  <2> HIDE DEF L, N
  <2> QED BY <1>1, <1>2, <1>3, <1>4, <1>5
<1> QED BY <1>6

\* page_map_backward, and pb_trivial_buffer_insert in front of the first page.
LEMMA PrependFine ==
    ASSUME NEW s, Fine(s), Setting, NEW at \in Nat, NEW r, Mapped(s, r, at, Refs(s, held)),
           NEW off \in Nat, NEW end \in Nat, at <= off, off < end,
           end = at + r.s.reg[r.d].len, head <= off, off \in {head, BlockOf(off)},
           s.list # << >> => end = StartOf(s, s.list[1]),
           NEW p, p = [data |-> r.d, base |-> off - at, len |-> end - off],
           NEW t, t = [r.s EXCEPT !.list = << p >> \o s.list]
    PROVE  Linked(s, t, r, << p >> \o s.list, p, off, end)
<1> DEFINE N == Len(s.list)
           L == << p >> \o s.list
<1>1. s \in Store /\ s.list \in Seq(Page) /\ N \in Nat
  <2>1. s \in Store
    BY DEF Fine, Good
  <2> QED BY <2>1, StoreFacts
<1>2. p \in Page /\ p.data = r.d
  <2>1. r.d \in DataIds /\ off - at \in Nat /\ end - off \in Nat
    BY DEF Mapped
  <2> QED BY <2>1 DEF Page
<1>3. /\ L \in Seq(Page) /\ Len(L) = N + 1 /\ L[1] = p
      /\ \A i \in 1..N : L[i + 1] = s.list[i]
  BY <1>1, <1>2, FrontFacts
<1>0. t = [r.s EXCEPT !.list = L]
  OBVIOUS
<1> HIDE DEF N, L
<1>4. {L[i].data : i \in 1..Len(L)} = Shows(s) \cup {r.d}
  <2>1. ASSUME NEW i \in 1..(N + 1) PROVE L[i].data \in Shows(s) \cup {r.d}
    <3>1. CASE i = 1
      BY <3>1, <1>2, <1>3
    <3>2. CASE i # 1
      <4>1. i - 1 \in 1..N /\ (i - 1) + 1 = i
        BY <3>2, <1>1
      <4>2. L[i] = s.list[i - 1]
        BY <4>1, <1>3
      <4> QED BY <4>1, <4>2 DEF Shows, N
    <3> QED BY <3>1, <3>2
  <2>2. \A x \in Shows(s) : \E i \in 1..(N + 1) : L[i].data = x
    <3>1. \A i \in 1..N : i + 1 \in 1..(N + 1)
      BY <1>1
    <3> QED BY <3>1, <1>3 DEF Shows, N
  <2>3. 1 \in 1..(N + 1) /\ L[1].data = r.d
    BY <1>1, <1>2, <1>3
  <2> QED BY <2>1, <2>2, <2>3, <1>3
<1>5. /\ t \in Store /\ Counted(t, Refs(t, held), alive) /\ Tabled(t) /\ Placed(t, FileSize)
      /\ Latest(t, {}) /\ t.list = L /\ t.reg = r.s.reg /\ Alike(s, t, Shows(s))
      /\ Shows(t) = Shows(s) \cup {r.d} /\ t.data_tree = r.s.data_tree
  <2>1. L \in Seq(Page)
    BY <1>3
  <2>2. Joined(s, t, r, L)
    BY <2>1, <1>0, <1>4, JoinSound
  <2> QED BY <2>2 DEF Joined
<1>6. Covers(t, p, off, end)
  BY <1>5, NewPage
<1>7. ASSUME NEW i \in 1..N
      PROVE  /\ Covers(t, L[i + 1], StartOf(s, s.list[i]), EndOf(s, s.list[i]))
             /\ StartOf(s, s.list[i]) \in Nat /\ EndOf(s, s.list[i]) \in Nat
  BY <1>3, <1>5, SamePlaces DEF N
<1>8. Windowed(t)
  <2>1. ASSUME NEW i \in 1..(N + 1) PROVE \E a, b : Covers(t, L[i], a, b)
    <3>1. i = 1 \/ (i - 1 \in 1..N /\ (i - 1) + 1 = i)
      BY <1>1
    <3> QED BY <3>1, <1>3, <1>6, <1>7
  <2> QED BY <2>1, <1>3, <1>5 DEF Windowed, Covers
<1>9. Gapless(t)
  <2>1. ASSUME NEW i \in 1..(N + 1), NEW j \in 1..(N + 1), i < j
        PROVE  /\ EndOf(t, L[i]) <= StartOf(t, L[j])
               /\ j = i + 1 => EndOf(t, L[i]) = StartOf(t, L[j])
    <3>1. j - 1 \in 1..N /\ (j - 1) + 1 = j /\ 1 \in 1..N /\ 1 <= j - 1
      BY <2>1, <1>1
    <3>2. StartOf(t, L[j]) = StartOf(s, s.list[j - 1]) /\ StartOf(s, s.list[j - 1]) \in Nat
      BY <3>1, <1>7 DEF Covers
    <3>3. CASE i = 1
      <4>1. s.list # << >>
        BY <3>1 DEF N
      <4>2. EndOf(t, L[i]) = StartOf(s, s.list[1])
        BY <3>3, <4>1, <1>3, <1>6 DEF Covers
      <4>3. StartOf(s, s.list[1]) <= StartOf(s, s.list[j - 1])
        BY <3>1, OrderFacts DEF N
      <4>4. j = i + 1 => j - 1 = 1
        BY <3>3
      <4> QED BY <3>2, <4>2, <4>3, <4>4
    <3>4. CASE i # 1
      <4>1. i - 1 \in 1..N /\ (i - 1) + 1 = i /\ i - 1 < j - 1
            /\ (j = i + 1 => j - 1 = (i - 1) + 1)
        BY <2>1, <3>4, <1>1
      <4>2. EndOf(t, L[i]) = EndOf(s, s.list[i - 1])
        BY <4>1, <1>7 DEF Covers
      <4> QED BY <3>1, <3>2, <4>1, <4>2 DEF Fine, Good, Viewing, Gapless, N
    <3> QED BY <3>3, <3>4
  <2>2. \A i, j \in 1..(N + 1) : j = i + 1 => i < j
    BY <1>1
  <2>3. Ordered(t, L, N + 1)
    BY <2>1, <2>2 DEF Ordered
  <2>4. t.list = L /\ Len(L) = N + 1
    BY <1>3, <1>5
  <2> QED BY <2>3, <2>4, GaplessIf
<1>10. Starting(t, head)
  <2>1. StartOf(t, L[1]) = off
    BY <1>3, <1>6 DEF Covers
  <2> QED BY <2>1, <1>5 DEF Starting
<1> QED BY <1>5, <1>6, <1>8, <1>9, <1>10 DEF Fine, Good, Viewing, L, Linked


-----------------------------------------------------------------------------
(* Where an iterator gets to.                                              *)

\* Remappable, of a store.
Replaceable(s) ==
    \A d \in s.data_tree \ Shows(s) :
        LET r == s.reg[d]
        IN  \/ r.off + r.len <= head
            \/ r.len = Block /\ head <= r.off
            \/ r.len < Block /\ r.off + r.len < FileSize

LEMMA FoundFacts ==
    ASSUME NEW s, Fine(s), NEW at, NEW d \in Find(s, at)
    PROVE  /\ d \in DataIds /\ d \in s.data_tree /\ s.reg[d].off = at /\ d \in Live(s)
           /\ s.reg[d].len \in Nat /\ s.reg[d].len <= Block /\ at + s.reg[d].len <= FileSize
<1>1. s \in Store /\ Tabled(s) /\ Placed(s, FileSize)
  BY DEF Fine, Good
<1>2. d \in DataIds /\ d \in s.data_tree /\ s.reg[d].off = at
  BY <1>1 DEF Find, Store
<1>3. d \in Live(s)
  BY <1>1, <1>2 DEF Tabled, Live
<1>4. s.reg[d].len \in Nat
  BY <1>1, <1>2, StoreFacts DEF Mapping
<1> QED BY <1>1, <1>2, <1>3, <1>4 DEF Placed

\* What is known of a page of the list.
Seen(s, p) ==
    LET r == s.reg[p.data]
    IN  /\ p.data \in Shows(s) /\ p.data \in DataIds
        /\ r.off \in Nat /\ r.len \in Nat /\ r.off = BlockOf(r.off) /\ r.len <= Block
        /\ StartOf(s, p) \in Nat /\ EndOf(s, p) \in Nat
        /\ r.off <= StartOf(s, p) /\ StartOf(s, p) < EndOf(s, p)
        /\ EndOf(s, p) = r.off + r.len /\ EndOf(s, p) <= FileSize
        /\ head <= StartOf(s, p)

LEMMA ViewFacts ==
    ASSUME NEW s, Fine(s), Setting, NEW i \in 1..Len(s.list)
    PROVE  Seen(s, s.list[i])
<1> DEFINE p == s.list[i]
           r == s.reg[p.data]
<1>1. s \in Store /\ Placed(s, FileSize) /\ Windowed(s) /\ Starting(s, head)
  BY DEF Fine, Good, Viewing
<1>2. /\ p \in Page /\ p.data \in DataIds /\ p.base \in Nat /\ p.len \in Nat
      /\ StartOf(s, p) \in Nat /\ EndOf(s, p) \in Nat
      /\ EndOf(s, p) = StartOf(s, p) + p.len
      /\ StartOf(s, p) = s.reg[p.data].off + p.base
      /\ s.reg[p.data].off \in Nat /\ s.reg[p.data].len \in Nat
      /\ p.data \in Shows(s)
  BY <1>1, PlaceFacts
<1>3. r.live /\ p.len > 0 /\ p.base + p.len = r.len
  BY <1>1 DEF Windowed
<1>4. p.data \in Live(s)
  BY <1>2, <1>3 DEF Live
<1>5. r.off = BlockOf(r.off) /\ r.len <= Block /\ r.off + r.len <= FileSize
  BY <1>1, <1>4 DEF Placed
<1>6. head <= StartOf(s, p)
  <2>1. i \in Nat /\ 1 <= i /\ Len(s.list) \in Nat
    BY <1>1, StoreFacts
  <2>2. 1 \in 1..Len(s.list)
    BY <2>1
  <2>3. s.list # << >>
    BY <2>2, <2>1
  <2>4. head <= StartOf(s, s.list[1])
    BY <1>1, <2>3 DEF Starting
  <2>5. StartOf(s, s.list[1]) \in Nat
    BY <2>2, <1>1, PlaceFacts
  <2>6. StartOf(s, s.list[1]) <= StartOf(s, p)
    BY <2>1, <2>2, OrderFacts
  <2> HIDE DEF p
  <2> QED BY <2>4, <2>5, <2>6, <1>2 DEF Setting
<1> HIDE DEF p
<1>7. r.off <= StartOf(s, p) /\ StartOf(s, p) < EndOf(s, p) /\ EndOf(s, p) = r.off + r.len
  <2>1. /\ r.off \in Nat /\ r.len \in Nat /\ p.base \in Nat /\ p.len \in Nat
        /\ StartOf(s, p) = r.off + p.base /\ EndOf(s, p) = StartOf(s, p) + p.len
        /\ p.len > 0 /\ p.base + p.len = r.len
    BY <1>2, <1>3
  <2> HIDE DEF r
  <2> QED BY <2>1
<1>8. EndOf(s, p) <= FileSize
  BY <1>5, <1>7
<1>9. Seen(s, p)
  BY <1>2, <1>5, <1>6, <1>7, <1>8 DEF Seen
<1> QED BY <1>9 DEF p

\* What page_map_forward finds in the table it can use or replace.
LEMMA ForwardUsable ==
    ASSUME NEW s, Fine(s), Setting, Replaceable(s), NEW off \in Nat, off < FileSize,
           s.list = << >> => off = head,
           s.list # << >> => off = EndOf(s, s.list[Len(s.list)])
    PROVE  Usable(s, BlockOf(off), off)
<1> DEFINE at == BlockOf(off)
           N == Len(s.list)
<1>1. at \in Nat /\ at <= off /\ off < at + Block /\ BlockOf(at) = at /\ Block \in Nat
      /\ FileSize \in Nat /\ head \in Nat
  BY BlockFacts, MmapAssumption DEF Setting
<1>2. s \in Store /\ s.list \in Seq(Page) /\ N \in Nat /\ (s.list # << >> => N \in 1..N)
  <2>1. s \in Store
    BY DEF Fine, Good
  <2> QED BY <2>1, StoreFacts
<1> HIDE DEF at, N
<1>3. head <= off
  <2>1. CASE s.list = << >>
    BY <2>1, <1>1
  <2>2. CASE s.list # << >>
    <3>1. head <= StartOf(s, s.list[N]) /\ StartOf(s, s.list[N]) < EndOf(s, s.list[N])
          /\ StartOf(s, s.list[N]) \in Nat /\ EndOf(s, s.list[N]) = off
      BY <2>2, <1>2, ViewFacts DEF N, Seen
    <3> QED BY <3>1, <1>1
  <2> QED BY <2>1, <2>2
<1>4. ASSUME NEW d \in Find(s, at)
      PROVE  \/ d \notin Shows(s) /\ at + s.reg[d].len >= off + Block
             \/ s.reg[d].len < Block /\ at + s.reg[d].len < FileSize
  <2> DEFINE n == s.reg[d].len
  <2>1. /\ d \in DataIds /\ d \in s.data_tree /\ s.reg[d].off = at
        /\ n \in Nat /\ n <= Block /\ at + n <= FileSize
    BY FoundFacts
  <2>2. CASE at + n <= off
    BY <2>1, <2>2, <1>1
  <2>3. CASE d \in Shows(s)
    <3>1. PICK i \in 1..N : s.list[i].data = d
      BY <2>3 DEF Shows, N
    <3>2. N \in 1..N /\ i <= N /\ s.list # << >>
      BY <1>2, <3>1 DEF N
    <3>3. EndOf(s, s.list[i]) = at + n
      BY <2>1, <3>1, ViewFacts DEF N, Seen
    <3>4. EndOf(s, s.list[i]) <= EndOf(s, s.list[N])
      BY <3>2, OrderFacts DEF N
    <3>5. EndOf(s, s.list[N]) = off
      BY <3>2 DEF N
    <3> QED BY <3>3, <3>4, <3>5, <2>2
  <2>4. CASE d \notin Shows(s)
    <3>1. \/ at + n <= head
          \/ n = Block /\ head <= at
          \/ n < Block /\ at + n < FileSize
      BY <2>1, <2>4 DEF Replaceable
    <3>2. CASE at + n <= head
      BY <3>2, <1>3, <1>1, <2>1, <2>2
    <3>3. CASE n = Block /\ head <= at
      <4>1. CASE off = at
        BY <4>1, <3>3, <1>1, <2>4
      <4>2. CASE off # at
        <5>1. s.list # << >> /\ at < off
          BY <4>2, <3>3, <1>1
        <5> DEFINE e == s.list[N].data
        <5>2. /\ e \in Shows(s) /\ s.reg[e].off \in Nat /\ s.reg[e].len \in Nat
              /\ s.reg[e].off = BlockOf(s.reg[e].off) /\ s.reg[e].len <= Block
              /\ s.reg[e].off < EndOf(s, s.list[N]) /\ EndOf(s, s.list[N]) = s.reg[e].off + s.reg[e].len
          <6>1. N \in 1..Len(s.list)
            BY <5>1, <1>2 DEF N
          <6>2. Seen(s, s.list[N])
            BY <6>1, ViewFacts
          <6> QED BY <6>2 DEF Seen
        <5>3. EndOf(s, s.list[N]) = off
          BY <5>1 DEF N
        <5>4. s.reg[e].off < at + Block /\ at < s.reg[e].off + Block
          <6> HIDE DEF e
          <6> QED BY <5>1, <5>2, <5>3, <1>1
        <5>5. s.reg[e].off = at
          BY <5>2, <5>4, <1>1, SameBlock
        <5> HIDE DEF e
        <5>6. d \in Shows(s)
          BY <5>2, <5>5, <2>1 DEF Fine, Good, Latest
        <5> QED BY <5>6, <2>4
      <4> QED BY <4>1, <4>2
    <3>4. CASE n < Block /\ at + n < FileSize
      BY <3>4
    <3> QED BY <3>1, <3>2, <3>3, <3>4
  <2> QED BY <2>3, <2>4
<1>5. at < FileSize
  BY <1>1
<1> QED BY <1>1, <1>4, <1>5 DEF Usable, at

\* What page_map_backward finds in the table it can use or replace.
LEMMA BackwardUsable ==
    ASSUME NEW s, Fine(s), Setting, Replaceable(s), NEW cur \in Nat, cur <= FileSize,
           head < cur, s.list # << >> => cur = StartOf(s, s.list[1]),
           NEW at, at = IF cur = BlockOf(cur) THEN cur - Block ELSE BlockOf(cur),
           NEW off, off = IF at > head THEN at ELSE head
    PROVE  /\ Usable(s, at, off) /\ off \in Nat /\ head <= off /\ off < cur
           /\ off \in {head, BlockOf(off)}
           /\ s.list # << >> \/ cur = FileSize => cur = at + Lower(Block, FileSize - at)
<1>1. Block \in Nat /\ FileSize \in Nat /\ head \in Nat /\ Block > 0
  BY MmapAssumption DEF Setting
<1>2. BlockOf(cur) \in Nat /\ BlockOf(cur) <= cur /\ cur < BlockOf(cur) + Block
      /\ BlockOf(BlockOf(cur)) = BlockOf(cur)
  BY BlockFacts
<1>3. at \in Nat /\ at = BlockOf(at) /\ at < cur /\ cur <= at + Block
  <2>1. CASE cur = BlockOf(cur)
    <3>1. cur > 0
      BY <1>1
    <3>2. cur - Block \in Nat /\ BlockOf(cur - Block) = cur - Block
      BY <2>1, <3>1, BlockBefore
    <3> QED BY <2>1, <3>2, <1>1
  <2>2. CASE cur # BlockOf(cur)
    BY <2>2, <1>2, <1>1
  <2> QED BY <2>1, <2>2
<1>4. off \in Nat /\ head <= off /\ off < cur /\ at <= off
  BY <1>3, <1>1
<1>5. off \in {head, BlockOf(off)}
  BY <1>3
<1>6. s.list # << >> => cur = BlockOf(cur)
  <2>1. s.list # << >> => StartOf(s, s.list[1]) \in {head, BlockOf(StartOf(s, s.list[1]))}
    BY DEF Fine, Good, Viewing, Starting
  <2> QED BY <2>1, <1>1
<1>7. ASSUME NEW d \in Find(s, at)
      PROVE  \/ d \notin Shows(s) /\ at + s.reg[d].len >= off + Block
             \/ s.reg[d].len < Block /\ at + s.reg[d].len < FileSize
  <2> DEFINE n == s.reg[d].len
  <2>1. /\ d \in DataIds /\ d \in s.data_tree /\ s.reg[d].off = at
        /\ n \in Nat /\ n <= Block /\ at + n <= FileSize
    BY FoundFacts
  <2>2. d \notin Shows(s)
    <3>1. SUFFICES ASSUME d \in Shows(s) PROVE FALSE
      OBVIOUS
    <3>2. PICK i \in 1..Len(s.list) : s.list[i].data = d
      BY <3>1 DEF Shows
    <3>3. s \in Store
      BY DEF Fine, Good
    <3>4. 1 \in 1..Len(s.list) /\ 1 <= i /\ s.list # << >>
      BY <3>2, <3>3, StoreFacts
    <3>5. EndOf(s, s.list[i]) = at + n /\ StartOf(s, s.list[i]) < EndOf(s, s.list[i])
          /\ StartOf(s, s.list[i]) \in Nat
      BY <2>1, <3>2, ViewFacts DEF Seen
    <3>6. StartOf(s, s.list[1]) <= StartOf(s, s.list[i])
      BY <3>4, OrderFacts
    <3>7. StartOf(s, s.list[1]) = cur /\ at = cur - Block
      BY <3>4, <1>6
    <3> QED BY <3>5, <3>6, <3>7, <2>1, <1>1, <1>3
  <2>3. \/ at + n <= head
        \/ n = Block /\ head <= at
        \/ n < Block /\ at + n < FileSize
    BY <2>1, <2>2 DEF Replaceable
  <2>4. CASE at + n <= head
    BY <2>4, <2>1, <1>1, <1>3
  <2>5. CASE n = Block /\ head <= at
    <3>1. off = at
      BY <2>5, <1>1, <1>3
    <3> QED BY <3>1, <2>5, <2>2, <1>1, <1>3
  <2> QED BY <2>3, <2>4, <2>5
<1>8. at < FileSize
  BY <1>1, <1>3
<1>9. s.list # << >> \/ cur = FileSize => cur = at + Lower(Block, FileSize - at)
  <2>1. CASE cur = BlockOf(cur)
    <3>1. at = cur - Block
      BY <2>1
    <3> QED BY <3>1, <1>1, <1>3 DEF Lower
  <2>2. CASE cur # BlockOf(cur)
    <3>1. at = BlockOf(cur) /\ s.list = << >>
      BY <2>2, <1>6
    <3> QED BY <3>1, <1>1, <1>2, <1>3 DEF Lower
  <2> QED BY <2>1, <2>2
<1> QED BY <1>3, <1>4, <1>5, <1>7, <1>8, <1>9 DEF Usable


Serving(s) == Live(s) # {} => mode = "rw"

Ready(s) == Fine(s) /\ Replaceable(s) /\ Serving(s)

\* The pages of s are in t and where they were, k places further back in the list.
Carries(s, t, k) ==
    \A i \in 1..Len(s.list) :
        /\ i + k \in 1..Len(t.list) /\ t.list[i + k] = s.list[i]
        /\ StartOf(t, t.list[i + k]) = StartOf(s, s.list[i])
        /\ EndOf(t, t.list[i + k]) = EndOf(s, s.list[i])

\* Nothing failed, and there was a mapping left.
Whole(s, fail) == fail = "none" /\ FreeData(s) # {} /\ mode = "rw"

\* A new last page starts at off, or there is none, which without a failure means
\* that off is the end of the file.
Forward(s, off, fail, R) ==
    /\ Ready(R.s) /\ Carries(s, R.s, 0)
    /\ \/ R.i = 0 /\ R.s.list = s.list /\ (Whole(R.s, fail) => off = FileSize)
       \/ /\ R.i = Len(s.list) + 1 /\ Len(R.s.list) = R.i
          /\ StartOf(R.s, R.s.list[R.i]) = off

LEMMA KeptReady ==
    ASSUME NEW s, NEW t, Ready(s), Setting, Kept(s, t), Sound(t, Refs(s, held))
    PROVE  Ready(t) /\ Carries(s, t, 0) /\ t.list = s.list
<1>1. Fine(t) /\ t.list = s.list /\ Fine(s)
  BY KeptFine DEF Ready, Kept
<1>2. Live(t) = Live(s)
  <2>1. Counted(t, Refs(s, held), alive) /\ Counted(s, Refs(s, held), alive)
    BY DEF Sound, Ready, Fine, Good
  <2> QED BY <2>1 DEF Counted, Live
<1>3. Shows(t) = Shows(s)
  BY <1>1 DEF Shows
<1>4. Replaceable(t)
  <2>1. ASSUME NEW d \in t.data_tree \ Shows(t)
        PROVE  d \in s.data_tree \ Shows(s) /\ t.reg[d].off = s.reg[d].off
               /\ t.reg[d].len = s.reg[d].len
    BY <1>3 DEF Kept, Alike
  <2> QED BY <2>1 DEF Ready, Replaceable
<1>5. Carries(s, t, 0)
  <2>1. ASSUME NEW i \in 1..Len(s.list)
        PROVE  /\ i + 0 = i /\ t.list[i] = s.list[i]
               /\ StartOf(t, s.list[i]) = StartOf(s, s.list[i])
               /\ EndOf(t, s.list[i]) = EndOf(s, s.list[i])
    <3>1. s.list[i].data \in Shows(s)
      BY DEF Shows
    <3> QED BY <3>1, <1>1 DEF Kept, Alike, StartOf, EndOf
  <2> QED BY <2>1, <1>1 DEF Carries
<1> QED BY <1>1, <1>2, <1>4, <1>5 DEF Ready, Serving

LEMMA JoinReady ==
    ASSUME NEW s, Ready(s), Setting, NEW at, NEW r, Mapped(s, r, at, Refs(s, held)),
           NEW t, Fine(t), Shows(t) = Shows(s) \cup {r.d}, t.data_tree = r.s.data_tree,
           t.reg = r.s.reg, mode = "rw" \/ Live(s) # {}
    PROVE  Ready(t)
<1>1. mode = "rw"
  BY DEF Ready, Serving
<1>2. s.data_tree \subseteq Live(s)
  BY DEF Ready, Fine, Good, Tabled, Live
<1>3. ASSUME NEW d \in t.data_tree \ Shows(t)
      PROVE  d \in s.data_tree \ Shows(s) /\ t.reg[d].off = s.reg[d].off
             /\ t.reg[d].len = s.reg[d].len
  <2>1. d \in s.data_tree \ Shows(s)
    BY DEF Mapped
  <2> QED BY <2>1, <1>2 DEF Mapped, Alike
<1>4. Replaceable(t)
  BY <1>3 DEF Ready, Replaceable
<1> QED BY <1>1, <1>4 DEF Ready, Serving

\* page_map_forward, and the insert of the page.
LEMMA MapForwardReaches ==
    ASSUME NEW s, Ready(s), Setting, NEW off \in Nat, off <= FileSize, NEW fail, fail # "stat",
           s.list = << >> => off = head,
           s.list # << >> => off = EndOf(s, s.list[Len(s.list)])
    PROVE  Forward(s, off, fail, AppendPage(MapForward(s, off, fail)))
<1> DEFINE R == AppendPage(MapForward(s, off, fail))
           refs == Refs(s, held)
           at == BlockOf(off)
           r == MapBlock(s, at, off, fail)
<1>0. Carries(s, s, 0) /\ s \in Store /\ Fine(s) /\ Setting
  <2>1. \A i \in 1..Len(s.list) : i + 0 = i
    OBVIOUS
  <2> QED BY <2>1 DEF Carries, Ready, Fine, Good
<1>1. CASE mode = "failed" \/ off = FileSize
  <2>1. R = [s |-> s, i |-> 0]
    BY <1>1 DEF SizeFor, MapForward, AppendPage, NoPage
  <2>2. R.s = s /\ R.i = 0
    BY <2>1
  <2>3. Whole(s, fail) => off = FileSize
    BY <1>1 DEF Whole
  <2> HIDE DEF R
  <2>4. Forward(s, off, fail, R)
    BY <2>2, <2>3, <1>0 DEF Forward
  <2> QED BY <2>4 DEF R
<1>2. CASE ~(mode = "failed" \/ off = FileSize)
  <2>1. Sound(s, refs) /\ Fitting(s, refs)
    BY <1>0, FineFits
  <2>2. Usable(s, at, off) /\ off < FileSize
    <3>1. off < FileSize
      BY <1>2 DEF Setting
    <3> QED BY <3>1, <1>0, ForwardUsable DEF Ready
  <2>3. /\ at \in Nat /\ at <= off /\ off < at + Block /\ Block \in Nat /\ FileSize \in Nat
    BY BlockFacts, MmapAssumption DEF Setting
  <2> HIDE DEF refs, at
  <2>4. \/ r = [s |-> s, d |-> NULL] /\ ~Mappable(s, fail)
        \/ Mapped(s, r, at, refs) /\ (mode = "rw" \/ Live(s) # {})
    BY <2>1, <2>2, MapBlockMaps
  <2>5. CASE r = [s |-> s, d |-> NULL] /\ ~Mappable(s, fail)
    <3>1. r.d = NULL /\ r.s = s
      BY <2>5
    <3>2. MapForward(s, off, fail) = NoPage(s)
      BY <3>1, <1>2 DEF SizeFor, MapForward, at
    <3>3. R = [s |-> s, i |-> 0]
      BY <3>2 DEF AppendPage, NoPage
    <3>4. R.s = s /\ R.i = 0
      BY <3>3
    <3>5. ~Whole(s, fail)
      BY <2>5 DEF Whole, Mappable
    <3> HIDE DEF R
    <3>6. Forward(s, off, fail, R)
      BY <3>4, <3>5, <1>0 DEF Forward
    <3> QED BY <3>6 DEF R
  <2>6. CASE Mapped(s, r, at, refs) /\ (mode = "rw" \/ Live(s) # {})
    <3> DEFINE end == r.s.reg[r.d].off + r.s.reg[r.d].len
               Q == MakePage(r, off, end, fail)
    <3>1. r.d # NULL /\ r.d \in DataIds
      BY <2>6, MmapAssumption DEF Mapped
    <3>2. MapForward(s, off, fail) = Q
      BY <3>1, <1>2 DEF SizeFor, MapForward, at
    <3>3. /\ end = at + r.s.reg[r.d].len /\ end \in Nat /\ off < end
      <4>1. r.s.reg[r.d].off = at /\ r.s.reg[r.d].len = Lower(Block, FileSize - at)
        BY <2>6 DEF Mapped
      <4> QED BY <4>1, <2>3, <2>2 DEF Lower
    <3>4. \/ /\ Q.p = NULL /\ Sound(Q.s, refs) /\ Kept(s, Q.s)
             /\ fail = "page" \/ (Q.s = s /\ ~Mappable(s, fail))
          \/ /\ Mapped(s, r, at, refs) /\ Q.s = r.s /\ fail # "page"
             /\ Q.p = [data |-> r.d, base |-> off - at, len |-> end - off]
      <4> HIDE DEF end, r
      <4> QED BY <2>1, <2>6, MakePageMakes
    <3> HIDE DEF Q, end, r
    <3>5. R = AppendPage(Q)
      BY <3>2
    <3> HIDE DEF R
    <3>6. CASE Q.p = NULL
      <4>1. Sound(Q.s, refs) /\ Kept(s, Q.s) /\ (fail = "page" \/ (Q.s = s /\ ~Mappable(s, fail)))
        <5>1. NULL # [data |-> r.d, base |-> off - at, len |-> end - off]
          <6>1. [data |-> r.d, base |-> off - at, len |-> end - off] \in Page
            BY <3>1, <3>3, <2>3 DEF Page
          <6> QED BY <6>1, PageAssumption
        <5> QED BY <5>1, <3>4, <3>6
      <4>2. R = [s |-> Q.s, i |-> 0]
        BY <3>5, <3>6 DEF AppendPage
      <4>3. R.s = Q.s /\ R.i = 0
        BY <4>2
      <4>4. Ready(Q.s) /\ Carries(s, Q.s, 0) /\ Q.s.list = s.list
        BY <4>1, KeptReady DEF refs
      <4>5. ~Whole(Q.s, fail)
        BY <4>1 DEF Whole, Mappable
      <4>6. Forward(s, off, fail, R)
        BY <4>3, <4>4, <4>5 DEF Forward
      <4> QED BY <4>6 DEF R
    <3>7. CASE Q.p # NULL
      <4> DEFINE p == Q.p
                 t == [Q.s EXCEPT !.list = Append(Q.s.list, p)]
      <4>1. Q.s = r.s /\ p = [data |-> r.d, base |-> off - at, len |-> end - off]
            /\ r.s.list = s.list
        BY <3>4, <3>7 DEF Mapped
      <4>2. t = [r.s EXCEPT !.list = Append(s.list, p)] /\ p.len # 0
        BY <4>1, <3>3
      <4>3. R = [s |-> t, i |-> Len(t.list)]
        BY <3>5, <3>7, <4>2 DEF AppendPage
      <4>4. R.s = t /\ R.i = Len(t.list)
        BY <4>3
      <4> HIDE DEF t, p
      <4>5. s.list = << >> => head <= off /\ off \in {head, BlockOf(off)}
        BY DEF Setting
      <4>6. /\ Fine(t) /\ t.list = Append(s.list, p) /\ Covers(t, p, off, end)
            /\ Alike(s, t, Shows(s)) /\ Shows(t) = Shows(s) \cup {r.d}
            /\ t.data_tree = r.s.data_tree /\ t.reg = r.s.reg
        <5>1. Mapped(s, r, at, Refs(s, held))
          BY <2>6 DEF refs
        <5>2. Linked(s, t, r, Append(s.list, p), p, off, end)
          BY <5>1, <4>1, <4>2, <4>5, <3>3, <2>3, <1>0, AppendFine
        <5> QED BY <5>2 DEF Linked
      <4>7. Ready(t)
        <5>1. Mapped(s, r, at, Refs(s, held))
          BY <2>6 DEF refs
        <5> QED BY <5>1, <4>6, <2>6, JoinReady
      <4>8. /\ s.list \in Seq(Page) /\ Len(s.list) \in Nat /\ p \in Page
        BY <4>6, <1>0, StoreFacts DEF Covers
      <4>9. /\ Len(t.list) = Len(s.list) + 1 /\ t.list[Len(s.list) + 1] = p
            /\ \A i \in 1..Len(s.list) : i \in 1..Len(t.list) /\ t.list[i] = s.list[i]
        BY <4>8, <4>6
      <4>10. Carries(s, t, 0)
        <5>1. ASSUME NEW i \in 1..Len(s.list)
              PROVE  /\ i + 0 = i /\ i \in 1..Len(t.list) /\ t.list[i] = s.list[i]
                     /\ Covers(t, s.list[i], StartOf(s, s.list[i]), EndOf(s, s.list[i]))
          BY <1>0, <4>6, <4>9, SamePlaces
        <5> QED BY <5>1 DEF Carries, Covers
      <4>11. StartOf(t, t.list[Len(s.list) + 1]) = off
        BY <4>6, <4>9 DEF Covers
      <4>12. Forward(s, off, fail, R)
        BY <4>4, <4>7, <4>9, <4>10, <4>11 DEF Forward
      <4> QED BY <4>12 DEF R
    <3> QED BY <3>6, <3>7
  <2> QED BY <2>4, <2>5, <2>6
<1> QED BY <1>1, <1>2


\* pb_mmap_buffer_get_iterator.
Starts(s, fail, R) ==
    /\ Ready(R.s) /\ Carries(s, R.s, 0)
    /\ \/ R.i = 0 /\ R.s.list = << >> /\ s.list = << >> /\ (Whole(R.s, fail) => head = FileSize)
       \/ /\ R.i = 1 /\ 1 \in 1..Len(R.s.list)
          /\ R.s = s \/ StartOf(R.s, R.s.list[1]) = head

LEMMA CarriesAll ==
    ASSUME NEW s
    PROVE  Carries(s, s, 0)
<1>1. \A i \in 1..Len(s.list) : i + 0 = i
  OBVIOUS
<1> QED BY <1>1 DEF Carries

LEMMA FirstReaches ==
    ASSUME NEW s, Ready(s), Setting, NEW fail, fail # "stat"
    PROVE  Starts(s, fail, First(s, fail))
<1> DEFINE R == First(s, fail)
<1>1. s.list \in Seq(Page) /\ Len(s.list) \in Nat
  BY StoreFacts DEF Ready, Fine, Good
<1>2. CASE s.list # << >>
  <2>1. R = [s |-> s, i |-> 1]
    BY <1>2 DEF First
  <2>2. R.s = s /\ R.i = 1
    BY <2>1
  <2>3. 1 \in 1..Len(s.list)
    BY <1>1, <1>2
  <2> HIDE DEF R
  <2>4. Starts(s, fail, R)
    BY <2>2, <2>3, CarriesAll DEF Starts
  <2> QED BY <2>4 DEF R
<1>3. CASE s.list = << >>
  <2>1. R = AppendPage(MapForward(s, head, fail))
    BY <1>3 DEF First
  <2> HIDE DEF R
  <2>2. Forward(s, head, fail, R)
    BY <2>1, <1>3, MapForwardReaches DEF Setting
  <2>3. Len(s.list) = 0
    BY <1>3
  <2>4. R.i = 1 => 1 \in 1..Len(R.s.list) /\ Len(s.list) + 1 = 1
    BY <2>2, <2>3 DEF Forward
  <2>5. Starts(s, fail, R)
    BY <2>2, <2>3, <2>4, <1>3 DEF Forward, Starts
  <2> QED BY <2>5 DEF R
<1> QED BY <1>2, <1>3

\* pb_mmap_buffer_next_iterator.
Follows(s, i, fail, R) ==
    /\ Ready(R.s) /\ Carries(s, R.s, 0)
    /\ \/ /\ R.i = 0
          /\ Whole(R.s, fail) => EndOf(s, s.list[i]) = FileSize /\ i = Len(R.s.list)
       \/ /\ R.i = i + 1 /\ i + 1 \in 1..Len(R.s.list)
          /\ StartOf(R.s, R.s.list[i + 1]) = EndOf(s, s.list[i])

LEMMA NextReaches ==
    ASSUME NEW s, Ready(s), Setting, NEW i \in 1..Len(s.list), NEW fail, fail # "stat"
    PROVE  Follows(s, i, fail, NextOf(s, i, fail))
<1> DEFINE R == NextOf(s, i, fail)
<1>1. s.list \in Seq(Page) /\ Len(s.list) \in Nat /\ Fine(s)
  BY StoreFacts DEF Ready, Fine, Good
<1>2. CASE i < Len(s.list)
  <2>1. R = [s |-> s, i |-> i + 1]
    BY <1>2 DEF NextOf
  <2>2. R.s = s /\ R.i = i + 1
    BY <2>1
  <2>3. i + 1 \in 1..Len(s.list)
    BY <1>1, <1>2
  <2>4. EndOf(s, s.list[i]) = StartOf(s, s.list[i + 1])
    BY <2>3, <1>1 DEF Fine, Good, Viewing, Gapless
  <2> HIDE DEF R
  <2>5. Follows(s, i, fail, R)
    BY <2>2, <2>3, <2>4, CarriesAll DEF Follows
  <2> QED BY <2>5 DEF R
<1>3. CASE ~(i < Len(s.list))
  <2>1. i = Len(s.list) /\ s.list # << >>
    BY <1>1, <1>3
  <2> DEFINE off == EndOf(s, s.list[i])
  <2>2. R = AppendPage(MapForward(s, off, fail))
    BY <1>3 DEF NextOf
  <2>3. off \in Nat /\ off <= FileSize
    BY <1>1, ViewFacts DEF Seen
  <2> HIDE DEF R
  <2>4. off = EndOf(s, s.list[Len(s.list)])
    BY <2>1
  <2> HIDE DEF off
  <2>5. Forward(s, off, fail, R)
    BY <2>1, <2>2, <2>3, <2>4, MapForwardReaches
  <2>6. R.i = i + 1 => i + 1 \in 1..Len(R.s.list)
    BY <2>1, <2>5, <1>1 DEF Forward
  <2>7. Follows(s, i, fail, R)
    BY <2>1, <2>5, <2>6, <1>1 DEF Forward, Follows, off
  <2> QED BY <2>7 DEF R
<1> QED BY <1>2, <1>3

\* A new first page ends at cur, or there is none, which without a failure means
\* that cur is the head.
Backward(s, cur, fail, R) ==
    /\ Ready(R.s)
    /\ \/ /\ R.i = 0 /\ R.s.list = s.list /\ Carries(s, R.s, 0)
          /\ Whole(R.s, fail) => cur = head
       \/ /\ R.i = 1 /\ Len(R.s.list) = Len(s.list) + 1 /\ Carries(s, R.s, 1)
          /\ EndOf(R.s, R.s.list[1]) = cur

\* Linking the page of page_map_backward in front of the others.
PrependPage(r) ==
    IF r.p = NULL THEN [s |-> r.s, i |-> 0]
    ELSE [s |-> [r.s EXCEPT !.list = << r.p >> \o @], i |-> 1]

LEMMA MapBackwardReaches ==
    ASSUME NEW s, Ready(s), Setting, NEW cur \in Nat, cur <= FileSize, head <= cur,
           NEW fail, fail # "stat",
           s.list # << >> => cur = StartOf(s, s.list[1]), s.list = << >> => cur = FileSize
    PROVE  Backward(s, cur, fail, PrependPage(MapBackward(s, cur, fail)))
<1> DEFINE R == PrependPage(MapBackward(s, cur, fail))
           refs == Refs(s, held)
           at == IF cur = BlockOf(cur) THEN cur - Block ELSE BlockOf(cur)
           off == IF at > head THEN at ELSE head
           r == MapBlock(s, at, off, fail)
           Q == MakePage(r, off, cur, fail)
<1>0. Carries(s, s, 0) /\ s \in Store /\ Fine(s) /\ Setting
  BY CarriesAll DEF Ready, Fine, Good
<1>1. CASE mode = "failed" \/ cur <= head
  <2>1. R = [s |-> s, i |-> 0]
    BY <1>1 DEF MapBackward, PrependPage, NoPage
  <2>2. R.s = s /\ R.i = 0
    BY <2>1
  <2>3. Whole(s, fail) => cur = head
    BY <1>1 DEF Whole, Setting
  <2> HIDE DEF R
  <2>4. Backward(s, cur, fail, R)
    BY <2>2, <2>3, <1>0 DEF Backward
  <2> QED BY <2>4 DEF R
<1>2. CASE ~(mode = "failed" \/ cur <= head)
  <2>1. Sound(s, refs) /\ Fitting(s, refs)
    BY <1>0, FineFits
  <2>2. MapBackward(s, cur, fail) = Q
    BY <1>2 DEF MapBackward
  <2>3. head < cur
    BY <1>2 DEF Setting
  <2>4. /\ Usable(s, at, off) /\ off \in Nat /\ head <= off /\ off < cur
        /\ off \in {head, BlockOf(off)}
        /\ s.list # << >> \/ cur = FileSize => cur = at + Lower(Block, FileSize - at)
    <3>1. ASSUME NEW a, a = at, NEW o, o = off
          PROVE  /\ Usable(s, a, o) /\ o \in Nat /\ head <= o /\ o < cur
                 /\ o \in {head, BlockOf(o)}
                 /\ s.list # << >> \/ cur = FileSize => cur = a + Lower(Block, FileSize - a)
      BY <2>3, <3>1, <1>0, BackwardUsable DEF Ready
    <3> QED BY <3>1
  <2> HIDE DEF refs, at, off, Q
  <2>5. \/ r = [s |-> s, d |-> NULL] /\ ~Mappable(s, fail)
        \/ Mapped(s, r, at, refs) /\ (mode = "rw" \/ Live(s) # {})
    BY <2>1, <2>4, MapBlockMaps
  <2> HIDE DEF r
  <2>6. \/ /\ Q.p = NULL /\ Sound(Q.s, refs) /\ Kept(s, Q.s)
           /\ fail = "page" \/ (Q.s = s /\ ~Mappable(s, fail))
        \/ /\ Mapped(s, r, at, refs) /\ Q.s = r.s /\ fail # "page"
           /\ Q.p = [data |-> r.d, base |-> off - at, len |-> cur - off]
    <3>1. (r = [s |-> s, d |-> NULL] /\ ~Mappable(s, fail)) \/ Mapped(s, r, at, refs)
      BY <2>5
    <3> QED BY <2>1, <3>1, MakePageMakes DEF Q
  <2>7. R = PrependPage(Q)
    BY <2>2
  <2> HIDE DEF R
  <2>8. at \in Nat /\ at <= off
    BY <2>4 DEF Usable
  <2>9. Mapped(s, r, at, refs)
          => [data |-> r.d, base |-> off - at, len |-> cur - off] \in Page
    <3>1. off - at \in Nat /\ cur - off \in Nat
      BY <2>4, <2>8
    <3> QED BY <3>1 DEF Mapped, Page
  <2>10. CASE Q.p = NULL
    <3>1. Sound(Q.s, refs) /\ Kept(s, Q.s) /\ (fail = "page" \/ (Q.s = s /\ ~Mappable(s, fail)))
      BY <2>6, <2>9, <2>10, PageAssumption
    <3>2. R = [s |-> Q.s, i |-> 0]
      BY <2>7, <2>10 DEF PrependPage
    <3>3. R.s = Q.s /\ R.i = 0
      BY <3>2
    <3>4. Ready(Q.s) /\ Carries(s, Q.s, 0) /\ Q.s.list = s.list
      BY <3>1, KeptReady DEF refs
    <3>5. ~Whole(Q.s, fail)
      BY <3>1 DEF Whole, Mappable
    <3>6. Backward(s, cur, fail, R)
      BY <3>3, <3>4, <3>5 DEF Backward
    <3> QED BY <3>6 DEF R
  <2>11. CASE Q.p # NULL
    <3> DEFINE p == Q.p
               L == << p >> \o s.list
               t == [Q.s EXCEPT !.list = << p >> \o Q.s.list]
    <3>1. /\ Mapped(s, r, at, refs) /\ Q.s = r.s
          /\ p = [data |-> r.d, base |-> off - at, len |-> cur - off]
          /\ r.s.list = s.list
      BY <2>6, <2>11 DEF Mapped
    <3>2. t = [r.s EXCEPT !.list = << p >> \o s.list] /\ p \in Page
      BY <3>1, <2>9
    <3>3. R = [s |-> t, i |-> 1]
      BY <2>7, <2>11 DEF PrependPage
    <3>4. R.s = t /\ R.i = 1
      BY <3>3
    <3> HIDE DEF t, p
    <3>5. cur = at + r.s.reg[r.d].len
      BY <2>4, <3>1 DEF Mapped
    <3>6. Linked(s, t, r, << p >> \o s.list, p, off, cur)
      <4>1. Mapped(s, r, at, Refs(s, held))
        BY <3>1 DEF refs
      <4> QED BY <4>1, <3>1, <3>2, <3>5, <2>4, <2>8, <1>0, PrependFine
    <3>7. Ready(t)
      <4>1. Mapped(s, r, at, Refs(s, held))
        BY <3>1 DEF refs
      <4>2. mode = "rw" \/ Live(s) # {}
        BY <2>5, <2>11, <2>6, <3>1, MmapAssumption DEF Mapped
      <4>3. /\ Fine(t) /\ Shows(t) = Shows(s) \cup {r.d}
            /\ t.data_tree = r.s.data_tree /\ t.reg = r.s.reg
        BY <3>6 DEF Linked
      <4> QED BY <4>1, <4>2, <4>3, JoinReady
    <3>8. s.list \in Seq(Page) /\ Len(s.list) \in Nat
      BY <1>0, StoreFacts
    <3>9. /\ L \in Seq(Page) /\ Len(L) = Len(s.list) + 1 /\ L[1] = p
          /\ \A i \in 1..Len(s.list) : L[i + 1] = s.list[i]
      BY <3>2, <3>8, FrontFacts
    <3>10. t.list = L
      BY <3>6 DEF Linked
    <3> HIDE DEF L
    <3>11. Carries(s, t, 1)
      <4>1. ASSUME NEW i \in 1..Len(s.list)
            PROVE  /\ i + 1 \in 1..Len(t.list) /\ t.list[i + 1] = s.list[i]
                   /\ Covers(t, s.list[i], StartOf(s, s.list[i]), EndOf(s, s.list[i]))
        <5>1. Covers(t, s.list[i], StartOf(s, s.list[i]), EndOf(s, s.list[i]))
          BY <1>0, <3>6, SamePlaces DEF Linked
        <5> QED BY <5>1, <3>8, <3>9, <3>10
      <4> QED BY <4>1 DEF Carries, Covers
    <3>12. EndOf(t, t.list[1]) = cur
      BY <3>6, <3>9, <3>10 DEF Linked, Covers
    <3>13. Backward(s, cur, fail, R)
      BY <3>4, <3>7, <3>9, <3>10, <3>11, <3>12 DEF Backward
    <3> QED BY <3>13 DEF R
  <2> QED BY <2>10, <2>11
<1> QED BY <1>1, <1>2

\* pb_mmap_buffer_prev_iterator.
Precedes(s, i, fail, R) ==
    /\ Ready(R.s) /\ (Carries(s, R.s, 0) \/ Carries(s, R.s, 1))
    /\ R.i \in 0..Len(R.s.list)
    /\ R.i = 0 /\ Whole(R.s, fail) => R.s.list = << >> \/ StartOf(R.s, R.s.list[1]) = head
    /\ i = 0 /\ R.i # 0 => \/ R.s = s /\ s.list # << >> /\ R.i = Len(s.list)
                           \/ EndOf(R.s, R.s.list[R.i]) = FileSize

LEMMA PrevReaches ==
    ASSUME NEW s, Ready(s), Setting, NEW i \in 0..Len(s.list), NEW fail, fail # "stat"
    PROVE  Precedes(s, i, fail, PrevOf(s, i, fail))
<1> DEFINE R == PrevOf(s, i, fail)
           cur == IF i = 0 THEN FileSize ELSE StartOf(s, s.list[1])
<1>1. s.list \in Seq(Page) /\ Len(s.list) \in Nat /\ Fine(s)
  BY StoreFacts DEF Ready, Fine, Good
<1>2. CASE i > 1
  <2>1. R = [s |-> s, i |-> i - 1]
    BY <1>2 DEF PrevOf
  <2>2. R.s = s /\ R.i = i - 1
    BY <2>1
  <2>3. i - 1 \in 0..Len(s.list) /\ i - 1 # 0 /\ i # 0
    BY <1>1, <1>2
  <2> HIDE DEF R
  <2>4. Precedes(s, i, fail, R)
    BY <2>2, <2>3, CarriesAll DEF Precedes
  <2> QED BY <2>4 DEF R
<1>3. CASE i = 0 /\ s.list # << >>
  <2>1. R = [s |-> s, i |-> Len(s.list)]
    BY <1>3 DEF PrevOf
  <2>2. R.s = s /\ R.i = Len(s.list)
    BY <2>1
  <2>3. Len(s.list) \in 0..Len(s.list) /\ Len(s.list) # 0
    BY <1>1, <1>3
  <2> HIDE DEF R
  <2>4. Precedes(s, i, fail, R)
    BY <2>2, <2>3, <1>3, CarriesAll DEF Precedes
  <2> QED BY <2>4 DEF R
<1>4. CASE ~(i > 1) /\ ~(i = 0 /\ s.list # << >>)
  <2>1. /\ s.list # << >> => i = 1 /\ 1 \in 1..Len(s.list)
        /\ s.list = << >> => i = 0
    BY <1>1, <1>4
  <2>2. PrependPage(NoPage(s)) = [s |-> s, i |-> 0]
    BY DEF PrependPage, NoPage
  <2>3. mode = "failed" => MapBackward(s, cur, fail) = NoPage(s)
    BY DEF MapBackward
  <2>4. R = PrependPage(MapBackward(s, cur, fail))
    <3>1. R = LET q == IF mode = "failed" THEN NoPage(s) ELSE MapBackward(s, cur, fail)
              IN  IF q.p = NULL THEN [s |-> q.s, i |-> 0]
                  ELSE [s |-> [q.s EXCEPT !.list = << q.p >> \o @], i |-> 1]
      BY <1>4 DEF PrevOf, SizeFor
    <3> HIDE DEF R, cur
    <3> QED BY <3>1, <2>3 DEF PrependPage
  <2>5. /\ cur \in Nat /\ cur <= FileSize /\ head <= cur
        /\ s.list # << >> => cur = StartOf(s, s.list[1])
        /\ s.list = << >> => cur = FileSize
    <3>1. CASE s.list = << >>
      BY <3>1, <2>1 DEF Setting
    <3>2. CASE s.list # << >>
      <4>1. Seen(s, s.list[1]) /\ cur = StartOf(s, s.list[1])
        BY <3>2, <2>1, <1>1, ViewFacts
      <4> HIDE DEF cur
      <4> QED BY <4>1, <3>2 DEF Seen, Setting
    <3> QED BY <3>1, <3>2
  <2> HIDE DEF R, cur
  <2>6. Backward(s, cur, fail, R)
    BY <2>4, <2>5, MapBackwardReaches
  <2>7. R.i \in 0..Len(R.s.list)
    BY <2>6, <1>1 DEF Backward
  <2>8. R.i = 0 /\ Whole(R.s, fail) => R.s.list = << >> \/ StartOf(R.s, R.s.list[1]) = head
    <3>1. SUFFICES ASSUME R.i = 0, Whole(R.s, fail), R.s.list # << >>
                   PROVE  StartOf(R.s, R.s.list[1]) = head
      OBVIOUS
    <3>2. R.s.list = s.list /\ Carries(s, R.s, 0) /\ cur = head
      BY <3>1, <2>6 DEF Backward
    <3>3. 1 \in 1..Len(s.list) /\ 1 + 0 = 1
      BY <3>1, <3>2, <2>1
    <3>4. StartOf(R.s, R.s.list[1]) = StartOf(s, s.list[1])
      BY <3>3, <3>2 DEF Carries
    <3> QED BY <3>1, <3>2, <3>4, <2>5
  <2>9. i = 0 /\ R.i # 0 => EndOf(R.s, R.s.list[R.i]) = FileSize
    BY <2>1, <2>5, <2>6 DEF Backward
  <2>10. Precedes(s, i, fail, R)
    BY <2>6, <2>7, <2>8, <2>9 DEF Precedes, Backward
  <2> QED BY <2>10 DEF R
<1> QED BY <1>2, <1>3, <1>4


-----------------------------------------------------------------------------
(* Recursion.                                                              *)

\* Induction over the naturals, from the least element of a set of them.
LEMMA Least ==
    ASSUME NEW T \in SUBSET Nat, T # {}
    PROVE  \E x \in T : \A y \in T : x <= y
<1>1. PICK x \in T : \A y \in T : ~(<< y, x >> \in OpToRel(<, Nat))
  BY NatLessThanWellFounded, WFMin
<1>2. \A y \in T : ~(y < x)
  BY <1>1 DEF OpToRel
<1>3. x \in Nat /\ \A y \in T : y \in Nat
  OBVIOUS
<1>4. ASSUME NEW y \in T PROVE x <= y
  <2>1. x \in Nat /\ y \in Nat /\ ~(y < x)
    BY <1>2, <1>3
  <2> QED BY <2>1
<1> QED BY <1>4

\* What holds at 0 and from each place to the next holds up to N.
LEMMA Along ==
    ASSUME NEW N \in Nat, NEW S, NEW f, f[0] \in S[0],
           \A k \in 1..N : f[k - 1] \in S[k - 1] => f[k] \in S[k]
    PROVE  \A k \in 0..N : f[k] \in S[k]
<1> DEFINE T == {k \in 0..N : f[k] \notin S[k]}
<1> SUFFICES ASSUME T # {} PROVE FALSE
  OBVIOUS
<1>0. T \in SUBSET Nat
  OBVIOUS
<1>1. PICK x \in T : \A y \in T : x <= y
  <2> HIDE DEF T
  <2> QED BY <1>0, Least
<1>2. x \in 1..N /\ x - 1 \in 0..N /\ ~(x <= x - 1)
  BY <1>1
<1>3. f[x - 1] \in S[x - 1]
  BY <1>1, <1>2
<1> QED BY <1>1, <1>2, <1>3

\* The function defined by a step from each place to the next.
ByRule(f, a, F, n) == f = [k \in 0..n |-> IF k = 0 THEN a ELSE F[k][f[k - 1]]]

LEMMA RuleExists ==
    ASSUME NEW N \in Nat, NEW a, NEW F
    PROVE  \E f : ByRule(f, a, F, N)
<1> DEFINE T == {n \in 0..N : ~ \E f : ByRule(f, a, F, n)}
<1> SUFFICES ASSUME T # {} PROVE FALSE
  OBVIOUS
<1>0. T \in SUBSET Nat
  OBVIOUS
<1>1. PICK x \in T : \A y \in T : x <= y
  <2> HIDE DEF T
  <2> QED BY <1>0, Least
<1>2. x # 0
  <2> DEFINE f == [k \in 0..0 |-> a]
  <2>1. f = [k \in 0..0 |-> IF k = 0 THEN a ELSE F[k][f[k - 1]]]
    OBVIOUS
  <2>2. \E g : ByRule(g, a, F, 0)
    BY <2>1 DEF ByRule
  <2> QED BY <2>2, <1>1
<1>3. x \in 1..N /\ x - 1 \in 0..N /\ ~(x <= x - 1)
  BY <1>1, <1>2
<1>4. PICK f : ByRule(f, a, F, x - 1)
  BY <1>1, <1>3
<1> DEFINE g == [k \in 0..x |-> IF k = x THEN F[x][f[x - 1]] ELSE f[k]]
<1>5. \A k \in 0..(x - 1) : f[k] = IF k = 0 THEN a ELSE F[k][f[k - 1]]
  BY <1>4 DEF ByRule
<1>6. ASSUME NEW k \in 0..x
      PROVE  g[k] = IF k = 0 THEN a ELSE F[k][g[k - 1]]
  <2>1. CASE k = 0
    BY <2>1, <1>3, <1>5
  <2>2. CASE k # 0
    <3>1. k - 1 \in 0..x /\ k - 1 # x
      BY <2>2, <1>3
    <3>2. g[k - 1] = f[k - 1]
      BY <3>1
    <3>3. CASE k = x
      BY <3>2, <3>3, <1>3
    <3>4. CASE k # x
      <4>1. k \in 0..(x - 1)
        BY <3>4, <1>3
      <4> QED BY <4>1, <3>2, <3>4, <2>2, <1>5
    <3> QED BY <3>3, <3>4
  <2> QED BY <2>1, <2>2
<1>7. g = [k \in 0..x |-> g[k]]
  OBVIOUS
<1> HIDE DEF g
<1>8. ByRule(g, a, F, x)
  BY <1>6, <1>7 DEF ByRule
<1> QED BY <1>8, <1>1

-----------------------------------------------------------------------------
(* Dropping the pages.                                                     *)

\* A mapping has one page of the list at most.
LEMMA OnePageEach ==
    ASSUME NEW s \in Store, Windowed(s), Gapless(s),
           NEW i \in 1..Len(s.list), NEW j \in 1..Len(s.list), s.list[i].data = s.list[j].data
    PROVE  i = j
<1>1. ASSUME NEW k \in 1..Len(s.list)
      PROVE  /\ EndOf(s, s.list[k]) = s.reg[s.list[k].data].off + s.reg[s.list[k].data].len
             /\ StartOf(s, s.list[k]) < EndOf(s, s.list[k])
             /\ StartOf(s, s.list[k]) \in Nat /\ EndOf(s, s.list[k]) \in Nat
  <2> DEFINE p == s.list[k]
             o == s.reg[p.data].off
  <2>1. /\ p \in Page /\ p.data \in DataIds /\ p.base \in Nat /\ p.len \in Nat
        /\ StartOf(s, p) \in Nat /\ EndOf(s, p) \in Nat
        /\ EndOf(s, p) = StartOf(s, p) + p.len
        /\ StartOf(s, p) = s.reg[p.data].off + p.base
        /\ s.reg[p.data].off \in Nat /\ s.reg[p.data].len \in Nat
        /\ p.data \in Shows(s)
    BY PlaceFacts
  <2>2. p.len > 0 /\ p.base + p.len = s.reg[p.data].len
    BY DEF Windowed
  <2> HIDE DEF p
  <2>3. EndOf(s, p) = o + s.reg[p.data].len /\ StartOf(s, p) < EndOf(s, p)
    <3> DEFINE n == s.reg[p.data].len
    <3>1. /\ StartOf(s, p) = o + p.base /\ o \in Nat /\ n \in Nat
          /\ p.base \in Nat /\ p.len \in Nat /\ EndOf(s, p) = StartOf(s, p) + p.len
          /\ p.len > 0 /\ p.base + p.len = n
      BY <2>1, <2>2
    <3> HIDE DEF o, n
    <3>2. EndOf(s, p) = o + n /\ StartOf(s, p) < EndOf(s, p)
      BY <3>1
    <3> QED BY <3>2 DEF n
  <2> QED BY <2>1, <2>3 DEF p
<1>2. EndOf(s, s.list[i]) = EndOf(s, s.list[j])
  BY <1>1
<1>3. \A a, b \in 1..Len(s.list) : a < b => EndOf(s, s.list[a]) <= StartOf(s, s.list[b])
  BY DEF Gapless
<1>4. ~(i < j)
  <2>1. i < j => EndOf(s, s.list[i]) <= StartOf(s, s.list[j])
    BY <1>3
  <2> QED BY <2>1, <1>1, <1>2
<1>5. ~(j < i)
  <2>1. j < i => EndOf(s, s.list[j]) <= StartOf(s, s.list[i])
    BY <1>3
  <2> QED BY <2>1, <1>1, <1>2
<1> QED BY <1>4, <1>5

\* The references that are left when the first k pages are destroyed.
ShowsFrom(s, k) == {s.list[i].data : i \in (k + 1)..Len(s.list)}

RefsFrom(s, k) == [d \in DataIds |-> held[d] + IF d \in ShowsFrom(s, k) THEN 1 ELSE 0]

Clearing(s, x, k) ==
    /\ x \in Store /\ x.list = s.list /\ Counted(x, RefsFrom(s, k), alive) /\ Tabled(x)
    /\ Live(x) \subseteq Live(s) /\ Alike(s, x, Live(x)) /\ x.data_tree \subseteq s.data_tree

Clearings(s) == [k \in 0..Len(s.list) |-> {x \in Store : Clearing(s, x, k)}]

\* The references held elsewhere are few.
FewHeld == held \in [DataIds -> Nat] /\ (\A d \in DataIds : held[d] <= MaxHeld) /\ CountsFit

LEMMA ClearPage ==
    ASSUME NEW s \in Store, Windowed(s), Gapless(s), FewHeld, NEW k \in 1..Len(s.list),
           NEW x, Clearing(s, x, k - 1)
    PROVE  Clearing(s, DataPut(x, s.list[k].data), k)
<1> DEFINE d == s.list[k].data
           refs == RefsFrom(s, k - 1)
           t == DataPut(x, d)
<1>1. d \in DataIds /\ Len(s.list) \in Nat
  BY StoreFacts, PageFacts
<1>2. ShowsFrom(s, k) = ShowsFrom(s, k - 1) \ {d} /\ d \in ShowsFrom(s, k - 1)
  <2>1. (k - 1) + 1 = k /\ k \in k..Len(s.list)
    BY <1>1
  <2>2. \A i \in k..Len(s.list) : i \in 1..Len(s.list) /\ (i = k \/ i \in (k + 1)..Len(s.list))
    BY <1>1
  <2>3. \A i \in (k + 1)..Len(s.list) : i \in k..Len(s.list) /\ i \in 1..Len(s.list) /\ i # k
    BY <1>1
  <2>4. \A i \in (k + 1)..Len(s.list) : s.list[i].data # d
    BY <2>3, OnePageEach
  <2> HIDE DEF d
  <2>5. s.list[k].data = d
    BY DEF d
  <2> QED BY <2>1, <2>2, <2>3, <2>4, <2>5 DEF ShowsFrom
<1>3. refs \in [DataIds -> Nat] /\ refs[d] = held[d] + 1 /\ refs[d] <= MaxHeld + 1
  BY <1>1, <1>2, MmapAssumption DEF RefsFrom, FewHeld
<1>4. refs[d] > 0 /\ refs[d] < CountMod
  BY <1>3, <1>1, MmapAssumption DEF FewHeld, CountsFit
<1>5. RefsFrom(s, k) = [refs EXCEPT ![d] = @ - 1]
  <2>1. \A e \in DataIds : held[e] \in Nat
    BY DEF FewHeld
  <2>2. refs[d] - 1 = held[d] + 0
    BY <1>1, <1>3, <2>1
  <2> QED BY <2>1, <2>2, <1>1, <1>2 DEF RefsFrom
<1>6. PutLeaves(x, t, d, refs)
  <2>1. x \in Store /\ Counted(x, refs, alive) /\ Tabled(x) /\ CountsFit
    BY DEF Clearing, FewHeld
  <2> HIDE DEF refs, d
  <2> QED BY <2>1, <1>1, <1>3, <1>4, PutCounted
<1> HIDE DEF t, refs, d
<1>7. /\ t \in Store /\ Counted(t, RefsFrom(s, k), alive) /\ Tabled(t) /\ t.list = s.list
      /\ Alike(x, t, DataIds \ {d}) /\ t.data_tree \subseteq x.data_tree
      /\ ~t.reg[d].live \/ Alike(x, t, DataIds)
  BY <1>5, <1>6 DEF PutLeaves, Clearing, Alike
<1>8. Live(t) \subseteq Live(x) /\ Alike(x, t, Live(t))
  BY <1>7 DEF Live, Alike
<1>9. Live(t) \subseteq Live(s) /\ Alike(s, t, Live(t)) /\ t.data_tree \subseteq s.data_tree
  BY <1>7, <1>8 DEF Clearing, Alike
<1>10. Clearing(s, t, k)
  BY <1>7, <1>9 DEF Clearing
<1> QED BY <1>10 DEF t, d

\* t is s without its list.
PagesPut(s, t) ==
    /\ t \in Store /\ t.list = << >> /\ Counted(t, held, alive) /\ Tabled(t)
    /\ Live(t) \subseteq Live(s) /\ Alike(s, t, Live(t)) /\ t.data_tree \subseteq s.data_tree

LEMMA PureClearClears ==
    ASSUME NEW s \in Store, Windowed(s), Gapless(s), FewHeld,
           Counted(s, Refs(s, held), alive), Tabled(s)
    PROVE  PagesPut(s, PureClear(s))
<1> DEFINE N == Len(s.list)
           S == Clearings(s)
           F == [k \in 1..N |-> [x \in S[k - 1] |-> DataPut(x, s.list[k].data)]]
           Puts(w) == w = [i \in 0..N |-> IF i = 0 THEN s ELSE DataPut(w[i - 1], s.list[i].data)]
<1>1. N \in Nat /\ \A k \in 1..N : k \in 0..N /\ k - 1 \in 0..N
  BY StoreFacts
<1>2. s \in S[0]
  <2>1. RefsFrom(s, 0) = Refs(s, held)
    BY DEF RefsFrom, Refs, ShowsFrom, Shows
  <2>2. 0 \in 0..N
    BY <1>1
  <2> QED BY <2>1, <2>2 DEF Clearings, Clearing, Alike
<1>3. \A k \in 1..N : \A x \in S[k - 1] : DataPut(x, s.list[k].data) \in S[k]
  <2>1. ASSUME NEW k \in 1..N, NEW x \in S[k - 1] PROVE DataPut(x, s.list[k].data) \in S[k]
    <3>1. Clearing(s, x, k - 1)
      BY <1>1 DEF Clearings
    <3>2. Clearing(s, DataPut(x, s.list[k].data), k)
      BY <3>1, ClearPage
    <3> QED BY <3>2, <1>1 DEF Clearings, Clearing
  <2> QED BY <2>1
<1> HIDE DEF S, N
<1>4. ASSUME NEW w, w[0] = s, \A k \in 1..N : w[k - 1] \in S[k - 1] => w[k] = DataPut(w[k - 1], s.list[k].data)
      PROVE  \A k \in 0..N : w[k] \in S[k]
  <2>1. w[0] \in S[0]
    BY <1>2, <1>4
  <2>2. \A k \in 1..N : w[k - 1] \in S[k - 1] => w[k] \in S[k]
    BY <1>3, <1>4
  <2> QED BY <2>1, <2>2, <1>1, Along
<1>5. \E w : Puts(w)
  <2>1. PICK w : ByRule(w, s, F, N)
    <3> HIDE DEF F
    <3> QED BY <1>1, RuleExists
  <2>2. w = [k \in 0..N |-> IF k = 0 THEN s ELSE F[k][w[k - 1]]]
    BY <2>1 DEF ByRule
  <2>3. w[0] = s /\ \A k \in 1..N : w[k] = F[k][w[k - 1]]
    <3>1. 0 \in 0..N /\ \A k \in 1..N : k \in 0..N /\ k # 0
      BY <1>1
    <3> HIDE DEF F
    <3> QED BY <2>2, <3>1
  <2>4. \A k \in 1..N : \A x \in S[k - 1] : F[k][x] = DataPut(x, s.list[k].data)
    OBVIOUS
  <2> HIDE DEF F
  <2>5. \A k \in 0..N : w[k] \in S[k]
    BY <2>3, <2>4, <1>4
  <2>6. \A k \in 0..N : w[k] = IF k = 0 THEN s ELSE DataPut(w[k - 1], s.list[k].data)
    <3>1. \A k \in 0..N : k = 0 \/ k \in 1..N
      BY <1>1
    <3> QED BY <3>1, <2>3, <2>4, <2>5, <1>1
  <2>7. w = [k \in 0..N |-> w[k]]
    BY <2>2
  <2>8. Puts(w)
    BY <2>6, <2>7
  <2> QED BY <2>8
<1>6. ASSUME NEW w, Puts(w) PROVE w[N] \in S[N]
  <2>1. w[0] = s /\ \A k \in 1..N : w[k] = DataPut(w[k - 1], s.list[k].data)
    <3>1. 0 \in 0..N /\ \A k \in 1..N : k \in 0..N /\ k # 0
      BY <1>1
    <3> QED BY <1>6, <3>1
  <2>2. N \in 0..N
    BY <1>1
  <2> HIDE DEF Puts
  <2> QED BY <2>1, <2>2, <1>4
<1> DEFINE put == CHOOSE w : Puts(w)
<1>7. Puts(put)
  <2> HIDE DEF Puts
  <2> QED BY <1>5
<1>8. PureClear(s) = [put[N] EXCEPT !.list = << >>]
  BY DEF PureClear, N
<1> DEFINE x == put[N]
<1>9. x \in S[N]
  <2> HIDE DEF Puts, put
  <2> QED BY <1>6, <1>7
<1> HIDE DEF put, Puts
<1>10. Clearing(s, x, N)
  <2>1. N \in 0..Len(s.list)
    BY <1>1 DEF N
  <2> HIDE DEF x
  <2> QED BY <2>1, <1>9 DEF S, Clearings
<1> DEFINE t == [x EXCEPT !.list = << >>]
<1> HIDE DEF x
<1>11. /\ t.reg = x.reg /\ t.data_tree = x.data_tree /\ t.users = x.users
       /\ t.broken = x.broken /\ t.list = << >> /\ t \in Store
  <2>1. x \in Store
    BY <1>10 DEF Clearing
  <2>2. << >> \in Seq(Page)
    OBVIOUS
  <2> QED BY <2>1, <2>2 DEF Store
<1> HIDE DEF t
<1>12. RefsFrom(s, N) = held
  <2>1. ShowsFrom(s, N) = {}
    <3>1. (N + 1)..Len(s.list) = {}
      BY <1>1 DEF N
    <3> QED BY <3>1 DEF ShowsFrom
  <2>2. \A d \in DataIds : held[d] + 0 = held[d]
    BY DEF FewHeld
  <2> QED BY <2>1, <2>2 DEF RefsFrom, FewHeld
<1>13. Live(t) = Live(x)
  BY <1>11 DEF Live
<1>14. Counted(t, held, alive) /\ Tabled(t)
  BY <1>10, <1>11, <1>12, <1>13 DEF Clearing, Counted, Tabled
<1>15. PagesPut(s, t)
  BY <1>10, <1>11, <1>13, <1>14 DEF PagesPut, Clearing, Alike
<1> QED BY <1>8, <1>15 DEF t, x


-----------------------------------------------------------------------------
(* Reading.                                                                *)

LEMMA CalledFacts ==
    ASSUME MInv, Called, CountsFit
    PROVE  /\ Fine(m) /\ Serving(m) /\ FewHeld /\ trim = NULL
           /\ \/ mode = "failed" /\ m.list = << >>
              \/ mode \in {"read", "rw"} /\ Setting /\ file \in Seq(Byte)
<1>1. Fine(m) /\ Serving(m) /\ FewHeld /\ trim = NULL
  BY DEF MInv, Fine, Serving, FewHeld, Called, BetweenCalls, MTypeOK
<1>2. mode # "closed"
  <2>1. m.users = Cardinality(Live(m)) + 1
    BY <1>1 DEF Fine, Good, Counted, Called
  <2>2. m.users # 0
    BY <2>1, LiveCount
  <2> QED BY <2>2 DEF MInv
<1>3. mode \in {"failed", "read", "rw"}
  BY <1>2 DEF MInv, MTypeOK
<1>4. CASE mode = "failed"
  <2>1. Live(m) = {}
    BY <1>4 DEF MInv
  <2>2. m \in Store /\ Windowed(m)
    BY <1>1 DEF Fine, Good, Viewing
  <2>3. ~(m.list # << >>)
    <3>1. SUFFICES ASSUME m.list # << >> PROVE FALSE
      OBVIOUS
    <3>2. 1 \in 1..Len(m.list)
      BY <3>1, <2>2, StoreFacts
    <3>3. m.list[1].data \in DataIds /\ m.reg[m.list[1].data].live
      BY <3>2, <2>2, StoreFacts, PageFacts DEF Windowed
    <3> QED BY <3>3, <2>1 DEF Live
  <2> QED BY <2>3, <1>4, <1>1
<1>5. CASE mode \in {"read", "rw"}
  <2>1. file \in Seq(Byte) /\ head <= FileSize /\ head \in Nat
    BY <1>5 DEF MInv, MTypeOK
  <2>2. FileSize \in Nat
    BY <2>1, LenProperties DEF FileSize
  <2> QED BY <1>1, <1>5, <2>1, <2>2 DEF Setting, FewHeld
<1> QED BY <1>3, <1>4, <1>5

\* What the client looks at before it calls.
LEMMA UsualFacts ==
    ASSUME MInv, Called, UsualClient, MayMap
    PROVE  Replaceable(m)
<1>1. m.list \in Seq(Page)
  BY StoreFacts DEF MInv, Good
<1>2. Listed = Shows(m)
  BY <1>1 DEF Listed, Shows, Range
<1> QED BY <1>2 DEF Replaceable, Remappable, MayMap, UsualClient

\* The locals of the loop of read_data.
LoopStates == [s : Store, i : Nat, left : Nat, dat : Seq(Byte), cut : BOOLEAN]

\* Nothing fails in the walk, and there is a mapping left.
Flawless(s, fails) ==
    (\A k \in 0..LastBlock : fails[k] = "none") /\ FreeData(s) # {} /\ mode = "rw"

LEMMA FaultFacts ==
    ASSUME UsualClient, NEW fails \in WalkFaults, NEW off \in Nat
    PROVE  /\ FaultAt(fails, off) \in Faults /\ FaultAt(fails, off) # "stat"
           /\ \A s : Flawless(s, fails) => Whole(s, FaultAt(fails, off))
<1>1. LastBlock \in Nat
  BY MmapAssumption DEF LastBlock
<1>2. off \div Block \in Nat
  BY MmapAssumption
<1>3. Lower(off \div Block, LastBlock) \in 0..LastBlock
  BY <1>1, <1>2 DEF Lower
<1>4. FaultAt(fails, off) \in Faults
  BY <1>3 DEF WalkFaults, FaultAt
<1>5. \A s : Flawless(s, fails) => Whole(s, FaultAt(fails, off))
  BY <1>3 DEF Flawless, Whole, FaultAt
<1> QED BY <1>4, <1>5, FaultsAre

\* After k iterations of n bytes, of which dat is what was read of the file from
\* the head on.
Reading(n, fails, uses, w, k) ==
    /\ w \in LoopStates
    /\ Ready(w.s) /\ Carries(m, w.s, 0) /\ w.i \in 0..Len(w.s.list)
    /\ w.left + Len(w.dat) = n
    /\ w.i # 0 \/ w.dat # << >> => Setting /\ file \in Seq(Byte) /\ w.s.list # << >>
    /\ w.dat # << >> => /\ head + Len(w.dat) <= FileSize
                        /\ w.dat = SubSeq(file, head + 1, head + Len(w.dat))
    /\ w.i # 0 /\ w.left # 0 => StartOf(w.s, w.s.list[w.i]) = head + Len(w.dat)
    /\ w.i = 0 /\ w.left # 0 /\ Flawless(w.s, fails) => head + Len(w.dat) = FileSize
    /\ uses = Nat => ~w.cut
    /\ w.i = 0 \/ w.left = 0 \/ w.cut \/ Len(w.dat) >= k

\* The state at the entry, and the state behind an iteration.
LoopStart(n, fails) ==
    LET r == First(m, FaultAt(fails, head))
    IN  [s |-> r.s, i |-> r.i, left |-> n, dat |-> << >>, cut |-> FALSE]

LoopStep(w, fails, uses) ==
    LET p == w.s.list[w.i]
        c == Lower(p.len, w.left)
        r == NextOf(w.s, w.i, FaultAt(fails, EndOf(w.s, p)))
    IN  IF w.i = 0 \/ w.left = 0 \/ w.cut THEN w
        ELSE IF w.s.reg[p.data].use \notin uses THEN [w EXCEPT !.cut = TRUE]
        ELSE IF BlockOf(StartOf(w.s, p)) >= FileSize
        THEN [w EXCEPT !.left = 0, !.s.broken = TRUE]
        ELSE [s |-> r.s, i |-> r.i, left |-> w.left - c, cut |-> FALSE,
              dat |-> w.dat \o Shown(w.s, p, c)]

LEMMA LoopStarts ==
    ASSUME MInv, Called, UsualClient, CountsFit, MayMap, FromHead, NEW n \in Nat,
           NEW fails \in WalkFaults, NEW uses
    PROVE  Reading(n, fails, uses, LoopStart(n, fails), 0)
<1> DEFINE fail == FaultAt(fails, head)
           r == First(m, fail)
           w == LoopStart(n, fails)
<1>1. /\ Ready(m) /\ m \in Store
      /\ \/ mode = "failed" /\ m.list = << >>
         \/ mode \in {"read", "rw"} /\ Setting /\ file \in Seq(Byte)
  BY CalledFacts, UsualFacts DEF Ready, Fine, Good
<1>2. m.list # << >> => StartOf(m, m.list[1]) = head
  BY DEF FromHead, UsualClient
<1>0. fail # "stat" /\ \A s : Flawless(s, fails) => Whole(s, fail)
  BY FaultFacts DEF MInv, MTypeOK
<1> HIDE DEF fail
<1>3. /\ Ready(r.s) /\ Carries(m, r.s, 0)
      /\ \/ r.i = 0 /\ (Whole(r.s, fail) => head = FileSize)
         \/ /\ r.i = 1 /\ 1 \in 1..Len(r.s.list) /\ StartOf(r.s, r.s.list[1]) = head
            /\ Setting /\ file \in Seq(Byte)
  <2>1. CASE mode = "failed" /\ m.list = << >>
    <3>1. r = [s |-> m, i |-> 0]
      BY <2>1 DEF First, MapForward, AppendPage, NoPage
    <3>2. r.s = m /\ r.i = 0
      BY <3>1
    <3> HIDE DEF r
    <3> QED BY <3>2, <2>1, <1>1, CarriesAll DEF Whole
  <2>2. CASE mode \in {"read", "rw"} /\ Setting /\ file \in Seq(Byte)
    <3>1. Starts(m, fail, r)
      BY <2>2, <1>0, <1>1, FirstReaches
    <3>2. r.i = 1 => StartOf(r.s, r.s.list[1]) = head
      <4>1. r.i = 1 /\ r.s = m => m.list # << >>
        BY <3>1 DEF Starts
      <4> QED BY <3>1, <4>1, <1>2 DEF Starts
    <3> HIDE DEF r
    <3> QED BY <3>1, <3>2, <2>2 DEF Starts
  <2> QED BY <1>1, <2>1, <2>2
<1> HIDE DEF r
<1>4. /\ w.s = r.s /\ w.i = r.i /\ w.left = n /\ w.dat = << >> /\ w.cut = FALSE
      /\ w = [s |-> r.s, i |-> r.i, left |-> n, dat |-> << >>, cut |-> FALSE]
  BY DEF LoopStart, r, fail
<1> HIDE DEF w
<1>5. r.s \in Store
  BY <1>3 DEF Ready, Fine, Good
<1>6. r.i \in 0..Len(r.s.list) /\ r.i \in Nat
  BY <1>3, <1>5, StoreFacts
<1>7. w \in LoopStates
  BY <1>4, <1>5, <1>6 DEF LoopStates
<1>8. Len(<< >>) = 0 /\ n + 0 = n /\ head + 0 = head
  BY DEF MInv, MTypeOK
<1>9. w.left + Len(w.dat) = n /\ Len(w.dat) >= 0
  BY <1>4, <1>8
<1>10. w.i # 0 \/ w.dat # << >> => Setting /\ file \in Seq(Byte) /\ w.s.list # << >>
  BY <1>3, <1>4
<1>11. /\ w.i # 0 /\ w.left # 0 => StartOf(w.s, w.s.list[w.i]) = head + Len(w.dat)
       /\ w.i = 0 /\ w.left # 0 /\ Flawless(w.s, fails) => head + Len(w.dat) = FileSize
  BY <1>0, <1>3, <1>4, <1>8
<1>12. Reading(n, fails, uses, w, 0)
  BY <1>3, <1>4, <1>6, <1>7, <1>9, <1>10, <1>11 DEF Reading
<1> QED BY <1>12 DEF w

LEMMA CarriesOn ==
    ASSUME NEW s, NEW t, NEW u, Carries(s, t, 0), Carries(t, u, 0)
    PROVE  Carries(s, u, 0)
<1>1. ASSUME NEW i \in 1..Len(s.list)
      PROVE  /\ i + 0 \in 1..Len(u.list) /\ u.list[i + 0] = s.list[i]
             /\ StartOf(u, u.list[i + 0]) = StartOf(s, s.list[i])
             /\ EndOf(u, u.list[i + 0]) = EndOf(s, s.list[i])
  <2>1. i + 0 = i
    OBVIOUS
  <2>2. i \in 1..Len(t.list)
    BY <2>1 DEF Carries
  <2> QED BY <2>1, <2>2 DEF Carries
<1> QED BY <1>1 DEF Carries

\* Reading on where the last bytes ended.
ReadsOn(q, a, dat, c) ==
    LET t == SubSeq(q, a + Len(dat) + 1, a + Len(dat) + c)
    IN  /\ t \in Seq(Byte) /\ Len(t) = c /\ dat \o t \in Seq(Byte)
        /\ Len(dat \o t) = Len(dat) + c
        /\ dat \o t = SubSeq(q, a + 1, a + (Len(dat) + c))

LEMMA ReadOn ==
    ASSUME NEW q \in Seq(Byte), NEW a \in Nat, NEW dat \in Seq(Byte), NEW c \in Nat,
           a + Len(dat) + c <= Len(q),
           dat # << >> => dat = SubSeq(q, a + 1, a + Len(dat))
    PROVE  ReadsOn(q, a, dat, c)
<1> DEFINE k == Len(dat)
           t == SubSeq(q, a + k + 1, a + k + c)
<1>1. k \in Nat /\ Len(q) \in Nat
  BY LenProperties
<1> HIDE DEF k
<1>2. a + k + 1 \in Int /\ a + k + c \in Int /\ \A i \in (a + k + 1)..(a + k + c) : i \in 1..Len(q)
  BY <1>1 DEF k
<1>3. \A i \in 1..Len(q) : q[i] \in Byte
  BY ElementOfSeq
<1>4. /\ t \in Seq(Byte)
      /\ Len(t) = IF a + k + 1 <= a + k + c THEN (a + k + c) - (a + k + 1) + 1 ELSE 0
  BY <1>2, <1>3, SubSeqProperties
<1>5. Len(t) = c
  <2> HIDE DEF t
  <2> QED BY <1>1, <1>4
<1> HIDE DEF t
<1>6. dat \o t \in Seq(Byte) /\ Len(dat \o t) = k + c
  BY <1>4, <1>5, ConcatProperties DEF k
<1>7. dat \o t = SubSeq(q, a + 1, a + (k + c))
  <2>1. CASE dat = << >>
    <3>1. k = 0
      BY <2>1 DEF k
    <3>2. dat \o t = t
      BY <2>1, <1>4, ConcatEmptySeq
    <3>3. a + k + 1 = a + 1 /\ a + k + c = a + (k + c)
      BY <3>1, <1>1
    <3> QED BY <3>2, <3>3 DEF t
  <2>2. CASE dat # << >>
    <3>1. dat = SubSeq(q, a + 1, a + k)
      BY <2>2 DEF k
    <3>2. /\ a + 1 \in 1..(Len(q) + 1) /\ a + k \in (a + 1 - 1)..Len(q)
          /\ a + k + c \in (a + k)..Len(q) /\ a + k + c = a + (k + c)
      BY <1>1 DEF k
    <3> DEFINE A == a + 1
               K == a + k
               N == a + k + c
    <3>3. A \in 1..(Len(q) + 1) /\ K \in (A - 1)..Len(q) /\ N \in K..Len(q)
      BY <3>2
    <3>4. t = SubSeq(q, K + 1, N) /\ dat = SubSeq(q, A, K) /\ N = a + (k + c)
      BY <3>1, <3>2 DEF t
    <3> HIDE DEF A, K, N
    <3>5. SubSeq(q, A, K) \o SubSeq(q, K + 1, N) = SubSeq(q, A, N)
      BY <3>3, ConcatAdjacentSubSeq
    <3> QED BY <3>4, <3>5 DEF A
  <2> QED BY <2>1, <2>2
<1> QED BY <1>4, <1>5, <1>6, <1>7 DEF k, t, ReadsOn

\* An iteration that reads.
LEMMA LoopReads ==
    ASSUME UsualClient, NEW n \in Nat, NEW fails \in WalkFaults, NEW uses,
           NEW k \in Nat \ {0}, NEW w, Reading(n, fails, uses, w, k - 1),
           w.i # 0, w.left # 0, ~w.cut,
           w.s.reg[w.s.list[w.i].data].use \in uses
    PROVE  Reading(n, fails, uses, LoopStep(w, fails, uses), k)
<1> DEFINE p == w.s.list[w.i]
           c == Lower(p.len, w.left)
           fail == FaultAt(fails, EndOf(w.s, p))
           r == NextOf(w.s, w.i, fail)
           t == SubSeq(file, head + Len(w.dat) + 1, head + Len(w.dat) + c)
           x == [s |-> r.s, i |-> r.i, left |-> w.left - c, cut |-> FALSE, dat |-> w.dat \o t]
<1>1. /\ w \in LoopStates /\ Ready(w.s) /\ Carries(m, w.s, 0) /\ w.i \in 1..Len(w.s.list)
      /\ Setting /\ file \in Seq(Byte) /\ w.left + Len(w.dat) = n
      /\ StartOf(w.s, p) = head + Len(w.dat) /\ Len(w.dat) >= k - 1
      /\ w.dat # << >> => w.dat = SubSeq(file, head + 1, head + Len(w.dat))
  BY DEF Reading, LoopStates
<1>2. /\ w.s \in Store /\ w.left \in Nat /\ w.dat \in Seq(Byte) /\ Len(w.dat) \in Nat
      /\ Fine(w.s) /\ head \in Nat /\ FileSize \in Nat /\ FileSize = Len(file)
  BY <1>1, LenProperties DEF LoopStates, Ready, Setting, FileSize
<1>0. Seen(w.s, p)
  BY <1>1, <1>2, ViewFacts
<1>18. fail # "stat" /\ \A s : Flawless(s, fails) => Whole(s, fail)
  BY <1>0, FaultFacts DEF Seen
<1> HIDE DEF fail
<1>3. Follows(w.s, w.i, fail, r)
  BY <1>1, <1>2, <1>18, NextReaches
<1>4. EndOf(w.s, p) = StartOf(w.s, p) + p.len /\ p.len \in Nat
  BY <1>1, <1>2, PlaceFacts
<1>5. StartOf(w.s, p) < EndOf(w.s, p) /\ EndOf(w.s, p) <= FileSize
  BY <1>0 DEF Seen
<1>6. Ready(r.s) /\ Carries(w.s, r.s, 0)
  BY <1>3 DEF Follows
<1>7. /\ r.i = 0 /\ (Whole(r.s, fail) => EndOf(w.s, p) = FileSize)
      \/ /\ r.i \in 1..Len(r.s.list) /\ StartOf(r.s, r.s.list[r.i]) = EndOf(w.s, p)
  BY <1>3 DEF Follows
<1> DEFINE z == Len(w.dat)
           e == EndOf(w.s, p)
           b == StartOf(w.s, p)
           f == Len(file)
           l == p.len
           v == w.left
<1>9. /\ c \in Nat /\ c > 0 /\ c <= v /\ (v - c # 0 => c = l)
      /\ head + z + c <= f /\ (c = l => e = head + (z + c)) /\ v - c \in Nat
      /\ (v - c) + (z + c) = n /\ z + c >= k /\ head + (z + c) <= f /\ z + c \in Nat
  <2>1. /\ z \in Nat /\ e = b + l /\ l \in Nat /\ b = head + z /\ b < e /\ e <= f /\ f \in Nat
        /\ v \in Nat /\ v # 0 /\ v + z = n /\ z >= k - 1 /\ head \in Nat
        /\ c = IF l < v THEN l ELSE v
    BY <1>1, <1>2, <1>4, <1>5 DEF Lower
  <2> HIDE DEF z, e, b, f, l, v, c
  <2> QED BY <2>1
<1>8. LoopStep(w, fails, uses) = x
  <2>1. b \in Nat /\ b < FileSize /\ BlockOf(b) \in Nat /\ BlockOf(b) <= b
    <3>1. b = head + z /\ z \in Nat /\ head \in Nat /\ f = FileSize /\ f \in Nat
      BY <1>1, <1>2
    <3> HIDE DEF b, z, f, c, e, l, v
    <3>2. b \in Nat /\ b < FileSize
      BY <3>1, <1>9
    <3> QED BY <3>2, BlockFacts
  <2>2. ~(BlockOf(b) >= FileSize)
    BY <2>1, <1>2
  <2>3. Shown(w.s, p, c) = t
    <3>1. b + c <= FileSize /\ b + 1 = head + Len(w.dat) + 1 /\ b + c = head + Len(w.dat) + c
      BY <1>1, <1>2, <1>9
    <3> HIDE DEF c, p
    <3> QED BY <3>1 DEF Shown, b
  <2> HIDE DEF t, b
  <2> QED BY <2>2, <2>3, <1>1, <1>2 DEF LoopStep, fail, b
<1>10. /\ t \in Seq(Byte) /\ Len(t) = c /\ w.dat \o t \in Seq(Byte) /\ Len(w.dat \o t) = z + c
       /\ w.dat \o t = SubSeq(file, head + 1, head + (z + c))
  <2>1. /\ file \in Seq(Byte) /\ head \in Nat /\ w.dat \in Seq(Byte)
        /\ w.dat # << >> => w.dat = SubSeq(file, head + 1, head + Len(w.dat))
    BY <1>1, <1>2
  <2>2. c \in Nat /\ head + Len(w.dat) + c <= Len(file)
    BY <1>9
  <2> HIDE DEF c, p, r, x, e, b, f, l, v
  <2>3. ReadsOn(file, head, w.dat, c)
    BY <2>1, <2>2, ReadOn
  <2> QED BY <2>3 DEF ReadsOn
<1>11. Carries(m, r.s, 0) /\ w.i \in 1..Len(r.s.list)
  <2>1. Carries(m, w.s, 0) /\ Carries(w.s, r.s, 0)
    BY <1>1, <1>6
  <2>2. w.i \in 1..Len(w.s.list)
    BY <1>1
  <2> HIDE DEF c, p, r, x, t, z, e, b, f, l, v
  <2>3. Carries(m, r.s, 0)
    BY <2>1, CarriesOn
  <2>4. w.i + 0 \in 1..Len(r.s.list)
    BY <2>1, <2>2 DEF Carries
  <2>5. w.i + 0 = w.i
    BY <2>2
  <2> QED BY <2>3, <2>4, <2>5
<1>12. r.s \in Store /\ Len(r.s.list) \in Nat /\ r.s.list # << >> /\ r.i \in 0..Len(r.s.list)
  <2>1. r.s \in Store
    BY <1>6 DEF Ready, Fine, Good
  <2>2. Len(r.s.list) \in Nat
    BY <2>1, StoreFacts
  <2>3. r.s.list # << >>
    BY <1>11
  <2> QED BY <2>1, <2>2, <2>3, <1>7
<1> DEFINE D == w.dat \o t
<1>13. /\ x.s = r.s /\ x.i = r.i /\ x.left = v - c /\ x.cut = FALSE /\ x.dat = D
       /\ D \in Seq(Byte) /\ Len(D) = z + c /\ D = SubSeq(file, head + 1, head + (z + c))
       /\ x = [s |-> r.s, i |-> r.i, left |-> v - c, cut |-> FALSE, dat |-> D]
  BY <1>10
<1> HIDE DEF t, c, r, x, z, e, b, f, l, v, p, D
<1>14. x \in LoopStates
  BY <1>13, <1>12, <1>9 DEF LoopStates
<1>15. x.i # 0 /\ x.left # 0 => StartOf(x.s, x.s.list[x.i]) = head + Len(x.dat)
  BY <1>13, <1>7, <1>9 DEF e
<1>16. x.i = 0 /\ x.left # 0 /\ Flawless(x.s, fails) => head + Len(x.dat) = FileSize
  <2> SUFFICES ASSUME x.i = 0, x.left # 0, Flawless(x.s, fails)
               PROVE  head + Len(x.dat) = FileSize
    OBVIOUS
  <2>1. e = FileSize
    BY <1>13, <1>7, <1>18 DEF e
  <2> QED BY <2>1, <1>13, <1>9
<1>17. Reading(n, fails, uses, x, k)
  BY <1>14, <1>15, <1>16, <1>13, <1>6, <1>11, <1>12, <1>9, <1>1, <1>2 DEF Reading, f
<1> QED BY <1>17, <1>8 DEF x

LEMMA LoopSteps ==
    ASSUME UsualClient, NEW n \in Nat, NEW fails \in WalkFaults, NEW uses,
           NEW k \in Nat \ {0}, NEW w, Reading(n, fails, uses, w, k - 1)
    PROVE  Reading(n, fails, uses, LoopStep(w, fails, uses), k)
<1>1. CASE w.i = 0 \/ w.left = 0 \/ w.cut
  <2>1. LoopStep(w, fails, uses) = w
    BY <1>1 DEF LoopStep
  <2> QED BY <1>1, <2>1 DEF Reading
<1>2. CASE /\ ~(w.i = 0 \/ w.left = 0 \/ w.cut)
           /\ w.s.reg[w.s.list[w.i].data].use \notin uses
  <2> DEFINE x == [w EXCEPT !.cut = TRUE]
  <2>1. LoopStep(w, fails, uses) = x
    BY <1>2 DEF LoopStep
  <2>2. w \in LoopStates /\ w.i \in 0..Len(w.s.list)
    BY DEF Reading
  <2>3. /\ x \in LoopStates /\ x.s = w.s /\ x.i = w.i /\ x.left = w.left /\ x.dat = w.dat
        /\ x.cut = TRUE
    BY <2>2 DEF LoopStates
  <2>4. w.s.reg[w.s.list[w.i].data].use \in Nat
    <3>1. w.s \in Store /\ w.i \in 1..Len(w.s.list)
      BY <1>2, <2>2 DEF LoopStates
    <3>2. w.s.list[w.i].data \in DataIds
      BY <3>1, PlaceFacts
    <3> QED BY <3>1, <3>2, StoreFacts DEF Mapping
  <2>5. uses # Nat
    BY <1>2, <2>4
  <2> HIDE DEF x
  <2>6. Reading(n, fails, uses, x, k)
    BY <2>3, <2>5 DEF Reading
  <2> QED BY <2>1, <2>6
<1>3. CASE /\ ~(w.i = 0 \/ w.left = 0 \/ w.cut)
           /\ w.s.reg[w.s.list[w.i].data].use \in uses
  BY <1>3, LoopReads
<1> QED BY <1>1, <1>2, <1>3

\* What the loop leaves behind.
LEMMA WalkReads ==
    ASSUME MInv, Called, UsualClient, CountsFit, MayMap, FromHead, NEW n \in Nat,
           NEW fails \in WalkFaults, NEW uses
    PROVE  Reading(n, fails, uses, Walk(n, fails, uses), MaxFile + 1)
<1> DEFINE N == MaxFile + 1
           S == [k \in 0..N |-> {w \in LoopStates : Reading(n, fails, uses, w, k)}]
           F == [k \in 1..N |-> [w \in LoopStates |-> LoopStep(w, fails, uses)]]
           a == LoopStart(n, fails)
           Walks(g) == g = [k \in 0..N |-> IF k = 0 THEN a ELSE LoopStep(g[k - 1], fails, uses)]
<1>1. N \in Nat /\ \A k \in 1..N : k \in 0..N /\ k - 1 \in 0..N /\ k \in Nat \ {0} /\ k # 0
  BY MmapAssumption
<1>2. \A k \in 0..N : \A w : w \in S[k] <=> Reading(n, fails, uses, w, k)
  BY DEF Reading
<1>3. a \in S[0]
  <2>1. 0 \in 0..N
    BY <1>1
  <2>2. Reading(n, fails, uses, a, 0)
    BY LoopStarts
  <2> HIDE DEF S, a
  <2> QED BY <2>1, <2>2, <1>2
<1>4. \A k \in 1..N : \A w \in S[k - 1] : LoopStep(w, fails, uses) \in S[k]
  <2>1. ASSUME NEW k \in 1..N, NEW w \in S[k - 1] PROVE LoopStep(w, fails, uses) \in S[k]
    <3> HIDE DEF S
    <3>1. Reading(n, fails, uses, w, k - 1)
      BY <1>1, <1>2
    <3>2. Reading(n, fails, uses, LoopStep(w, fails, uses), k)
      BY <3>1, <1>1, LoopSteps
    <3> QED BY <3>2, <1>1, <1>2
  <2> QED BY <2>1
<1>5. \A k \in 0..N : S[k] \subseteq LoopStates
  OBVIOUS
<1> HIDE DEF S, N, a
<1>6. ASSUME NEW f, f[0] = a,
             \A k \in 1..N : f[k - 1] \in S[k - 1] => f[k] = LoopStep(f[k - 1], fails, uses)
      PROVE  \A k \in 0..N : f[k] \in S[k]
  <2>1. f[0] \in S[0]
    BY <1>3, <1>6
  <2>2. \A k \in 1..N : f[k - 1] \in S[k - 1] => f[k] \in S[k]
    BY <1>4, <1>6
  <2> QED BY <2>1, <2>2, <1>1, Along
<1>7. \E g : Walks(g)
  <2>1. PICK f : ByRule(f, a, F, N)
    <3> HIDE DEF F
    <3> QED BY <1>1, RuleExists
  <2>2. f = [k \in 0..N |-> IF k = 0 THEN a ELSE F[k][f[k - 1]]]
    BY <2>1 DEF ByRule
  <2>3. f[0] = a /\ \A k \in 1..N : f[k] = F[k][f[k - 1]]
    <3>1. 0 \in 0..N
      BY <1>1
    <3> HIDE DEF F
    <3> QED BY <2>2, <3>1, <1>1
  <2>4. \A k \in 1..N : \A w \in LoopStates : F[k][w] = LoopStep(w, fails, uses)
    OBVIOUS
  <2> HIDE DEF F
  <2>5. \A k \in 1..N : \A w \in S[k - 1] : F[k][w] = LoopStep(w, fails, uses)
    BY <2>4, <1>5, <1>1
  <2>6. \A k \in 0..N : f[k] \in S[k]
    BY <2>3, <2>5, <1>6
  <2>7. \A k \in 0..N : f[k] = IF k = 0 THEN a ELSE LoopStep(f[k - 1], fails, uses)
    <3>1. \A k \in 0..N : k = 0 \/ k \in 1..N
      BY <1>1
    <3> QED BY <3>1, <2>3, <2>5, <2>6, <1>1
  <2>8. f = [k \in 0..N |-> f[k]]
    BY <2>2
  <2>9. Walks(f)
    BY <2>7, <2>8
  <2> QED BY <2>9
<1> DEFINE g == CHOOSE f : Walks(f)
<1>8. Walks(g)
  <2> HIDE DEF Walks
  <2> QED BY <1>7
<1>9. g[N] \in S[N]
  <2> HIDE DEF g
  <2>1. g[0] = a /\ \A k \in 1..N : g[k] = LoopStep(g[k - 1], fails, uses)
    <3>1. 0 \in 0..N
      BY <1>1
    <3> QED BY <1>8, <3>1, <1>1
  <2>2. N \in 0..N
    BY <1>1
  <2> HIDE DEF Walks
  <2> QED BY <2>1, <2>2, <1>6
<1>10. Walk(n, fails, uses) = g[N]
  BY DEF Walk, LoopStart, LoopStep, N, a
<1>11. Reading(n, fails, uses, g[N], N)
  <2>1. N \in 0..N
    BY <1>1
  <2> HIDE DEF g
  <2> QED BY <2>1, <1>9, <1>2
<1> QED BY <1>10, <1>11 DEF N

-----------------------------------------------------------------------------
(* The calls.                                                              *)

\* A step within a call of a buffer, or a whole one.
Calling ==
    /\ UNCHANGED << mode, remove, alive, held >> /\ trim' = NULL
    /\ Good(m', FileSize', head', held, alive)
    /\ file' \in {NULL} \cup Seq(Byte) /\ head' \in Nat
    /\ mode \in {"read", "rw"} => file' \in Seq(Byte) /\ head' <= FileSize'
    /\ Live(m') # {} => mode = "rw"
    /\ it' \in {NULL, END} \cup Range(m'.list)
    /\ out' \in {NULL} \cup [len : Nat, dat : Seq(Byte), failed : BOOLEAN]

LEMMA ListHasPages ==
    ASSUME NEW s \in Store
    PROVE  Range(s.list) \subseteq Page
  BY StoreFacts DEF Range

LEMMA CallKeeps ==
    ASSUME MInv, alive, Calling
    PROVE  MInv'
<1>1. m' \in Store /\ alive' /\ Counted(m', Refs(m', held), alive)
  BY DEF Calling, Good
<1>2. m'.users # 0
  <2>1. Cardinality(Live(m')) \in Nat
    BY LiveCount
  <2> QED BY <1>1, <2>1 DEF Counted
<1>3. mode # "closed"
  <2>1. Cardinality(Live(m)) \in Nat /\ m.users = Cardinality(Live(m)) + 1
    BY LiveCount DEF MInv, Good, Counted
  <2>2. m.users # 0
    BY <2>1
  <2> QED BY <2>2 DEF MInv
<1>4. MTypeOK'
  <2>1. it' \in {NULL, END} \cup Page
    BY <1>1, ListHasPages DEF Calling
  <2> QED BY <1>1, <2>1 DEF MInv, MTypeOK, Calling
<1>5. Good(m', FileSize', head', held', alive')
  BY DEF Calling
<1>6. IteratorsStayInList'
  BY DEF Calling, IteratorsStayInList
<1>7. Trimming'
  BY DEF Calling, Trimming
<1>8. \A d \in DataIds : held'[d] <= MaxHeld
  BY DEF MInv, Calling
<1>9. (m.users = 0 <=> mode = "closed")'
  BY <1>2, <1>3 DEF Calling
<1>10. (mode \in {"read", "rw"} => file \in Seq(Byte) /\ head <= FileSize)'
  BY DEF Calling
<1>11. (Live(m) # {} => mode = "rw")'
  BY DEF Calling
<1> QED BY <1>4, <1>5, <1>6, <1>7, <1>8, <1>9, <1>10, <1>11 DEF MInv

\* The iterator functions.
LEMMA ArriveKeeps ==
    ASSUME MInv, Called, CountsFit, NEW r, Arrive(r), Fine(r.s), Serving(r.s),
           r.i \in 0..Len(r.s.list)
    PROVE  MInv'
<1>1. trim = NULL /\ alive /\ Fine(m)
  BY CalledFacts DEF Called
<1>2. m' = r.s /\ it' = At(r.s, r.i) /\ out' = NULL
  BY DEF Arrive
<1>3. UNCHANGED << file, mode, remove, alive, head, held, trim >>
  BY DEF Arrive
<1>4. At(r.s, r.i) \in {NULL, END} \cup Range(r.s.list)
  <2>1. r.s.list \in Seq(Page)
    BY StoreFacts DEF Fine, Good
  <2> QED BY <2>1 DEF At, Range
<1>5. FileSize' = FileSize
  BY <1>3 DEF FileSize
<1>6. Good(m', FileSize', head', held, alive)
  BY <1>2, <1>3, <1>5 DEF Fine
<1>7. Live(m') # {} => mode = "rw"
  BY <1>2 DEF Serving
<1>8. file' \in {NULL} \cup Seq(Byte) /\ head' \in Nat
  BY <1>3 DEF MInv, MTypeOK
<1>9. mode \in {"read", "rw"} => file' \in Seq(Byte) /\ head' <= FileSize'
  BY <1>3, <1>5 DEF MInv
<1>10. Calling
  BY <1>1, <1>2, <1>3, <1>4, <1>6, <1>7, <1>8, <1>9 DEF Calling
<1> QED BY <1>1, <1>10, CallKeeps

\* Nothing is mapped when the file could not be opened.
LEMMA FailedMapsNothing ==
    ASSUME mode = "failed", m.list = << >>, NEW fail
    PROVE  /\ First(m, fail) = [s |-> m, i |-> 0]
           /\ PrevOf(m, 0, fail) = [s |-> m, i |-> 0]
  BY DEF First, PrevOf, AppendPage, MapForward, NoPage

LEMMA IndexFacts ==
    ASSUME MInv, Called, CountsFit, it # NULL
    PROVE  /\ IndexOf(it) \in 0..Len(m.list) /\ (it # END => IndexOf(it) \in 1..Len(m.list))
           /\ it = END => IndexOf(it) = 0
<1>1. m \in Store /\ Len(m.list) \in Nat /\ it \in {END} \cup Range(m.list)
  <2>1. m \in Store
    BY DEF MInv, Good
  <2> QED BY <2>1, StoreFacts DEF MInv, IteratorsStayInList
<1>2. CASE it = END
  BY <1>1, <1>2 DEF IndexOf
<1>3. CASE it # END
  <2>1. PICK i \in DOMAIN m.list : m.list[i] = it
    BY <1>1, <1>3 DEF Range
  <2>2. i \in 1..Len(m.list)
    BY <2>1, <1>1, StoreFacts
  <2>3. IndexOf(it) = CHOOSE j \in 1..Len(m.list) : m.list[j] = it
    BY <1>3 DEF IndexOf
  <2>4. IndexOf(it) \in 1..Len(m.list)
    BY <2>1, <2>2, <2>3
  <2> QED BY <2>4, <1>1, <1>3
<1> QED BY <1>2, <1>3

LEMMA GetIteratorKeeps ==
    ASSUME MInv, UsualClient, CountsFit, NEW fail \in Faults, GetIterator(fail)
    PROVE  MInv'
<1>1. Called /\ MayMap /\ Arrive(First(m, fail))
  BY DEF GetIterator
<1>2. Fine(m) /\ Serving(m) /\ Replaceable(m) /\ m \in Store /\ Len(m.list) \in Nat
  BY <1>1, CalledFacts, UsualFacts, StoreFacts DEF Fine, Good
<1> DEFINE R == First(m, fail)
<1>3. Fine(R.s) /\ Serving(R.s) /\ R.i \in 0..Len(R.s.list)
  <2>1. CASE mode = "failed" /\ m.list = << >>
    <3>1. R = [s |-> m, i |-> 0]
      BY <2>1, FailedMapsNothing
    <3> HIDE DEF R
    <3> QED BY <3>1, <1>2
  <2>2. CASE Setting
    <3>1. Starts(m, fail, R)
      BY <2>2, <1>2, FirstReaches, FaultsAre DEF Ready
    <3> HIDE DEF R
    <3> QED BY <3>1 DEF Starts, Ready
  <2> QED BY <2>1, <2>2, <1>1, CalledFacts
<1> QED BY <1>1, <1>3, ArriveKeeps

LEMMA GetEndIteratorKeeps ==
    ASSUME MInv, CountsFit, GetEndIterator
    PROVE  MInv'
<1> DEFINE R == [s |-> m, i |-> 0]
<1>1. Called /\ Arrive(R)
  BY DEF GetEndIterator
<1>2. Fine(m) /\ Serving(m) /\ Len(m.list) \in Nat
  BY <1>1, CalledFacts, StoreFacts DEF Fine, Good
<1>3. R.s = m /\ R.i = 0
  OBVIOUS
<1> HIDE DEF R
<1>4. Fine(R.s) /\ Serving(R.s) /\ R.i \in 0..Len(R.s.list)
  BY <1>2, <1>3
<1> QED BY <1>1, <1>4, ArriveKeeps

LEMMA NextIteratorKeeps ==
    ASSUME MInv, UsualClient, CountsFit, NEW fail \in Faults, NextIterator(fail)
    PROVE  MInv'
<1> DEFINE R == NextOf(m, IndexOf(it), fail)
<1>1. Called /\ MayMap /\ it \notin {NULL, END} /\ Arrive(R)
  BY DEF NextIterator
<1>2. Fine(m) /\ Serving(m) /\ Replaceable(m) /\ IndexOf(it) \in 1..Len(m.list)
  BY <1>1, CalledFacts, UsualFacts, IndexFacts
<1>3. Setting
  BY <1>1, <1>2, CalledFacts
<1>4. Follows(m, IndexOf(it), fail, R)
  BY <1>2, <1>3, NextReaches, FaultsAre DEF Ready
<1> HIDE DEF R
<1>5. Ready(R.s) /\ Len(R.s.list) \in Nat
  BY <1>4, StoreFacts DEF Follows, Ready, Fine, Good
<1>6. Fine(R.s) /\ Serving(R.s) /\ R.i \in 0..Len(R.s.list)
  BY <1>4, <1>5 DEF Follows, Ready
<1> QED BY <1>1, <1>6, ArriveKeeps

LEMMA PrevIteratorKeeps ==
    ASSUME MInv, UsualClient, CountsFit, NEW fail \in Faults, PrevIterator(fail)
    PROVE  MInv'
<1> DEFINE R == PrevOf(m, IndexOf(it), fail)
<1>1. Called /\ MayMap /\ it # NULL /\ Arrive(R)
  BY DEF PrevIterator
<1>2. Fine(m) /\ Serving(m) /\ Replaceable(m) /\ IndexOf(it) \in 0..Len(m.list)
      /\ Len(m.list) \in Nat
  BY <1>1, CalledFacts, UsualFacts, IndexFacts, StoreFacts DEF Fine, Good
<1>3. Fine(R.s) /\ Serving(R.s) /\ R.i \in 0..Len(R.s.list)
  <2>1. CASE mode = "failed" /\ m.list = << >>
    <3>1. IndexOf(it) = 0
      BY <2>1, <1>2
    <3>2. R = [s |-> m, i |-> 0]
      BY <2>1, <3>1, FailedMapsNothing
    <3> HIDE DEF R
    <3> QED BY <3>2, <1>2
  <2>2. CASE Setting
    <3>1. Precedes(m, IndexOf(it), fail, R)
      BY <2>2, <1>2, PrevReaches, FaultsAre DEF Ready
    <3> HIDE DEF R
    <3> QED BY <3>1 DEF Precedes, Ready
  <2> QED BY <2>1, <2>2, <1>1, CalledFacts
<1> QED BY <1>1, <1>3, ArriveKeeps

\* Joining sequences of bytes gives a sequence of bytes.
LEMMA FlattenBytes ==
    ASSUME NEW q \in Seq(Seq(Byte))
    PROVE  FlattenSeq(q) \in Seq(Byte)
<1> DEFINE n == Len(q)
           N == n - 1
           S == [k \in 0..N |-> Seq(Byte)]
           F == [k \in 1..N |-> [x \in Seq(Byte) |-> x \o q[k + 1]]]
           Joins(g) == g = [i \in 1..n |-> IF i = 1 THEN q[i] ELSE g[i - 1] \o q[i]]
<1>1. n \in Nat /\ \A i \in 1..n : q[i] \in Seq(Byte)
  BY LenProperties, ElementOfSeq
<1>2. CASE n = 0
  <2>1. q = << >>
    BY <1>2, EmptySeq
  <2> QED BY <1>2, <2>1 DEF FlattenSeq
<1>3. CASE n # 0
  <2>1. N \in Nat /\ \A k \in 1..N : k \in 0..N /\ k - 1 \in 0..N /\ k # 0 /\ k + 1 \in 1..n
    BY <1>1, <1>3
  <2>2. \A k \in 0..N : S[k] = Seq(Byte)
    OBVIOUS
  <2>3. 0 \in 0..N /\ N \in 0..N /\ N + 1 = n /\ 1 \in 1..n
    BY <1>1, <2>1, <1>3
  <2>4. \A k \in 1..N : \A x \in Seq(Byte) : F[k][x] = x \o q[k + 1]
    OBVIOUS
  <2>5. \A i \in 1..n : i = 1 \/ (i - 1 \in 1..N /\ i # 1 /\ i - 1 \in 1..n)
    BY <1>1
  <2> HIDE DEF S, F, N
  <2>6. ASSUME NEW f, f[0] = q[1],
               \A k \in 1..N : f[k - 1] \in Seq(Byte) => f[k] = f[k - 1] \o q[k + 1]
        PROVE  \A k \in 0..N : f[k] \in Seq(Byte)
    <3>1. f[0] \in S[0]
      BY <2>2, <2>3, <2>6, <1>1
    <3>2. ASSUME NEW k \in 1..N, f[k - 1] \in S[k - 1] PROVE f[k] \in S[k]
      <4>1. f[k - 1] \in Seq(Byte) /\ q[k + 1] \in Seq(Byte)
        BY <2>1, <2>2, <3>2, <1>1
      <4>2. f[k] = f[k - 1] \o q[k + 1]
        BY <4>1, <2>6
      <4>3. f[k - 1] \o q[k + 1] \in Seq(Byte)
        BY <4>1, ConcatProperties
      <4> QED BY <4>2, <4>3, <2>1, <2>2
    <3>3. \A k \in 0..N : f[k] \in S[k]
      BY <3>1, <3>2, <2>1, Along
    <3> QED BY <3>3, <2>2
  <2>7. \E g : Joins(g)
    <3>1. PICK f : ByRule(f, q[1], F, N)
      BY <2>1, RuleExists
    <3>2. f = [k \in 0..N |-> IF k = 0 THEN q[1] ELSE F[k][f[k - 1]]]
      BY <3>1 DEF ByRule
    <3>3. f[0] = q[1] /\ \A k \in 1..N : f[k] = F[k][f[k - 1]]
      BY <3>2, <2>1, <2>3
    <3>4. \A k \in 0..N : f[k] \in Seq(Byte)
      BY <3>3, <2>4, <2>6
    <3> DEFINE g == [i \in 1..n |-> f[i - 1]]
    <3>5. ASSUME NEW i \in 1..n PROVE g[i] = IF i = 1 THEN q[i] ELSE g[i - 1] \o q[i]
      <4>1. CASE i = 1
        <5>1. 1 - 1 = 0
          OBVIOUS
        <5> QED BY <4>1, <3>3, <5>1
      <4>2. CASE i # 1
        <5>1. i - 1 \in 1..N /\ i - 1 \in 1..n /\ (i - 1) + 1 = i
          BY <4>2, <2>5, <1>1
        <5>2. f[i - 1] = F[i - 1][f[(i - 1) - 1]] /\ f[(i - 1) - 1] \in Seq(Byte)
          BY <5>1, <3>3, <3>4, <2>1
        <5>3. F[i - 1][f[(i - 1) - 1]] = f[(i - 1) - 1] \o q[i]
          BY <5>1, <5>2, <2>4
        <5>4. g[i - 1] = f[(i - 1) - 1]
          BY <5>1
        <5> QED BY <4>2, <5>2, <5>3, <5>4
      <4> QED BY <4>1, <4>2
    <3>6. g = [i \in 1..n |-> g[i]]
      OBVIOUS
    <3> HIDE DEF g, n
    <3>7. Joins(g)
      BY <3>5, <3>6
    <3> QED BY <3>7
  <2> DEFINE g == CHOOSE f : Joins(f)
  <2>8. Joins(g)
    <3> HIDE DEF Joins
    <3> QED BY <2>7
  <2>9. FlattenSeq(q) = g[n]
    BY <1>3 DEF FlattenSeq
  <2>10. g[n] \in Seq(Byte)
    <3> HIDE DEF g, n
    <3>1. \A i \in 1..n : g[i] = IF i = 1 THEN q[i] ELSE g[i - 1] \o q[i]
      BY <2>8
    <3> DEFINE f == [k \in 0..N |-> g[k + 1]]
    <3>2. f[0] = q[1]
      <4>1. 0 + 1 = 1
        OBVIOUS
      <4> QED BY <3>1, <2>3, <4>1
    <3>3. ASSUME NEW k \in 1..N, f[k - 1] \in Seq(Byte) PROVE f[k] = f[k - 1] \o q[k + 1]
      <4>1. k \in 0..N /\ k - 1 \in 0..N /\ k + 1 \in 1..n /\ k + 1 # 1 /\ (k + 1) - 1 = k
            /\ (k - 1) + 1 = k
        BY <2>1
      <4>2. f[k] = g[k + 1] /\ f[k - 1] = g[k]
        BY <4>1
      <4> HIDE DEF f
      <4> QED BY <3>1, <4>1, <4>2
    <3>4. f[N] = g[n]
      BY <2>3
    <3> HIDE DEF f
    <3>5. f[N] \in Seq(Byte)
      BY <3>2, <3>3, <2>3, <2>6
    <3> QED BY <3>4, <3>5
  <2> QED BY <2>9, <2>10
<1> QED BY <1>2, <1>3

LEMMA GatherBytes ==
    ASSUME NEW ps \in Inputs, NEW k \in Nat
    PROVE  Gather(ps, k) \in Seq(Byte)
<1> DEFINE c == Lower(k, Len(ps))
<1>1. ps \in Seq(Seq(Byte)) /\ Len(ps) \in Nat
  BY MmapAssumption, LenProperties
<1>2. c \in Nat /\ c <= Len(ps)
  BY <1>1 DEF Lower
<1> HIDE DEF c
<1>3. \A i \in 1..c : i \in 1..Len(ps) /\ ps[i] \in Seq(Byte)
  BY <1>1, <1>2, ElementOfSeq
<1>4. SubSeq(ps, 1, c) \in Seq(Seq(Byte))
  BY <1>2, <1>3, SubSeqProperties
<1> QED BY <1>4, FlattenBytes DEF Gather, c

\* What a call leaves behind that maps blocks and returns no iterator.
LEMMA MappingCalls ==
    ASSUME MInv, Called, CountsFit, NEW s, Ready(s), Carries(m, s, 0), m' = s,
           UNCHANGED << mode, remove, alive, head, held, trim >>, it' \in {it, NULL},
           file' = file \/ (Setting /\ file' \in Seq(Byte) /\ Len(file') = FileSize),
           out' \in {NULL} \cup [len : Nat, dat : Seq(Byte), failed : BOOLEAN]
    PROVE  MInv'
<1>1. trim = NULL /\ alive /\ m \in Store /\ s \in Store
  BY CalledFacts DEF Called, Fine, Good, Ready
<1>2. FileSize' = FileSize
  BY DEF FileSize
<1>3. Good(m', FileSize', head', held, alive)
  BY <1>2 DEF Fine, Ready
<1>4. it' \in {NULL, END} \cup Range(m'.list)
  <2>1. it \in {NULL, END} \cup Range(m.list)
    BY DEF MInv, IteratorsStayInList
  <2>2. Range(m.list) \subseteq Range(s.list)
    <3>1. ASSUME NEW i \in DOMAIN m.list PROVE m.list[i] \in Range(s.list)
      <4>1. i \in 1..Len(m.list) /\ i + 0 = i
        BY <1>1, StoreFacts
      <4>2. i \in 1..Len(s.list) /\ s.list[i] = m.list[i]
        BY <4>1 DEF Carries
      <4>3. i \in DOMAIN s.list
        BY <4>2, <1>1, StoreFacts
      <4> QED BY <4>2, <4>3 DEF Range
    <3> QED BY <3>1 DEF Range
  <2> QED BY <2>1, <2>2
<1>5. file' \in {NULL} \cup Seq(Byte) /\ head' \in Nat
  BY DEF MInv, MTypeOK
<1>6. mode \in {"read", "rw"} => file' \in Seq(Byte) /\ head' <= FileSize'
  BY <1>2 DEF MInv, Setting
<1>7. Live(m') # {} => mode = "rw"
  BY DEF Ready, Serving
<1>8. Calling
  BY <1>1, <1>3, <1>4, <1>5, <1>6, <1>7 DEF Calling
<1> QED BY <1>1, <1>8, CallKeeps

LEMMA ReadDataKeeps ==
    ASSUME MInv, UsualClient, CountsFit, NEW n \in Nat, NEW fails \in WalkFaults,
           ReadData(n, fails)
    PROVE  MInv'
<1> DEFINE w == Walk(n, fails, Nat)
<1>1. /\ Called /\ MayMap /\ FromHead /\ m' = w.s
      /\ out' = [len |-> n, dat |-> w.dat,
                 failed |-> \E k \in DOMAIN fails : fails[k] # "none"]
      /\ UNCHANGED << file, mode, remove, alive, head, held, it, trim >>
  BY DEF ReadData
<1>2. Reading(n, fails, Nat, w, MaxFile + 1)
  BY <1>1, WalkReads
<1> HIDE DEF w
<1>3. Ready(w.s) /\ Carries(m, w.s, 0) /\ w.dat \in Seq(Byte)
  BY <1>2 DEF Reading, LoopStates
<1>4. out' \in [len : Nat, dat : Seq(Byte), failed : BOOLEAN]
  BY <1>1, <1>3
<1> QED BY <1>1, <1>3, <1>4, MappingCalls

LEMMA OverlayBytes ==
    ASSUME NEW q \in Seq(Byte), NEW off \in Nat, NEW t \in Seq(Byte)
    PROVE  Overlay(q, off, t) \in Seq(Byte) /\ Len(Overlay(q, off, t)) = Len(q)
<1>1. Len(q) \in Nat /\ Len(t) \in Nat
  BY LenProperties
<1>2. ASSUME NEW i \in 1..Len(q)
      PROVE  (IF i > off /\ i <= off + Len(t) THEN t[i - off] ELSE q[i]) \in Byte
  <2>1. CASE i > off /\ i <= off + Len(t)
    <3>1. i - off \in 1..Len(t)
      BY <2>1, <1>1
    <3> QED BY <2>1, <3>1, ElementOfSeq
  <2>2. CASE ~(i > off /\ i <= off + Len(t))
    BY <2>2, ElementOfSeq
  <2> QED BY <2>1, <2>2
<1>3. Overlay(q, off, t) \in [1..Len(q) -> Byte]
  BY <1>2 DEF Overlay
<1> QED BY <1>1, <1>3, SeqDef, LenProperties

LEMMA OverwriteDataKeeps ==
    ASSUME MInv, UsualClient, CountsFit, NEW t \in Seq(Byte), NEW fails \in WalkFaults,
           OverwriteData(t, fails)
    PROVE  MInv'
<1> DEFINE w == Walk(Len(t), fails, {1})
           n == Len(w.dat)
           v == Overlay(file, StartOf(w.s, w.s.list[1]), SubSeq(t, 1, n))
<1>1. Called /\ MayMap /\ FromHead /\ Len(t) \in Nat
  BY LenProperties DEF OverwriteData
<1>2. /\ ~w.cut /\ m' = [w.s EXCEPT !.broken = @ \/ w.cut]
      /\ file' = IF n = 0 THEN file ELSE v
      /\ it' = IF n > 0 THEN NULL ELSE it
      /\ out' = NULL /\ UNCHANGED << mode, remove, alive, head, held, trim >>
  BY DEF OverwriteData, UsualClient
<1>3. Reading(Len(t), fails, {1}, w, MaxFile + 1)
  BY <1>1, WalkReads
<1> HIDE DEF w
<1>4. /\ w \in LoopStates /\ Ready(w.s) /\ Carries(m, w.s, 0) /\ w.left + n = Len(t)
      /\ w.dat # << >> => Setting /\ file \in Seq(Byte) /\ w.s.list # << >>
  BY <1>3 DEF Reading
<1>5. w.s \in Store /\ w.left \in Nat /\ n \in Nat /\ n <= Len(t)
  <2>1. w.s \in Store /\ w.left \in Nat /\ n \in Nat
    BY <1>4, LenProperties DEF LoopStates
  <2> QED BY <2>1, <1>4, <1>1
<1>6. m' = w.s
  <2>1. w.s.broken \in BOOLEAN /\ (w.s.broken \/ w.cut) = w.s.broken
    BY <1>2, <1>5, StoreFacts
  <2>2. m' = [w.s EXCEPT !.broken = w.s.broken]
    BY <1>2, <2>1
  <2> QED BY <2>2, <1>5 DEF Store
<1>7. file' = file \/ (Setting /\ file' \in Seq(Byte) /\ Len(file') = FileSize)
  <2>1. CASE n = 0
    BY <2>1, <1>2
  <2>2. CASE n # 0
    <3>1. Setting /\ file \in Seq(Byte) /\ w.s.list # << >>
      BY <2>2, <1>4
    <3>2. 1 \in 1..Len(w.s.list)
      BY <3>1, <1>5, StoreFacts
    <3>3. StartOf(w.s, w.s.list[1]) \in Nat
      BY <3>2, <1>5, PlaceFacts
    <3>4. SubSeq(t, 1, n) \in Seq(Byte)
      <4>1. \A i \in 1..n : i \in 1..Len(t) /\ t[i] \in Byte
        BY <1>1, <1>5, ElementOfSeq
      <4> QED BY <4>1, <1>5, SubSeqProperties
    <3>5. v \in Seq(Byte) /\ Len(v) = Len(file)
      BY <3>1, <3>3, <3>4, OverlayBytes
    <3> QED BY <2>2, <1>2, <3>1, <3>5 DEF FileSize
  <2> QED BY <2>1, <2>2
<1>8. it' \in {it, NULL}
  BY <1>2
<1> HIDE DEF n, v
<1> QED BY <1>1, <1>2, <1>4, <1>6, <1>7, <1>8, MappingCalls

\* Appending to the file.
Longer == file' = file \/ (mode = "rw" /\ file' \in Seq(Byte) /\ FileSize <= Len(file'))

LEMMA GoodWhenLonger ==
    ASSUME NEW s, NEW size \in Nat, NEW more \in Nat, size <= more, NEW hd, NEW he, NEW al,
           Good(s, size, hd, he, al)
    PROVE  Good(s, more, hd, he, al)
<1>1. Placed(s, more)
  <2>1. ASSUME NEW d \in Live(s) PROVE s.reg[d].off + s.reg[d].len <= more
    <3>1. s.reg[d].off \in Nat /\ s.reg[d].len \in Nat
      BY StoreFacts DEF Good, Live, Mapping
    <3>2. s.reg[d].off + s.reg[d].len <= size
      BY DEF Good, Placed
    <3> QED BY <3>1, <3>2
  <2> QED BY <2>1 DEF Good, Placed
<1> QED BY <1>1 DEF Good

LEMMA FileOnlyKeeps ==
    ASSUME MInv, Called, CountsFit, FileOnly, it' \in {it, NULL}, Longer
    PROVE  MInv'
<1>1. trim = NULL /\ alive /\ Good(m, FileSize, head, held, alive)
  BY CalledFacts DEF Called, Fine
<1>2. out' = NULL /\ UNCHANGED << mode, remove, alive, head, m, held, trim >>
  BY DEF FileOnly
<1>3. \/ file' = file
      \/ /\ mode = "rw" /\ file' \in Seq(Byte) /\ FileSize <= FileSize'
         /\ FileSize \in Nat /\ FileSize' \in Nat /\ head \in Nat /\ head <= FileSize
  <2>1. CASE mode = "rw" /\ file' \in Seq(Byte) /\ FileSize <= Len(file')
    <3>1. file \in Seq(Byte) /\ head <= FileSize /\ head \in Nat
      BY <2>1 DEF MInv, MTypeOK
    <3> QED BY <2>1, <3>1, LenProperties DEF FileSize
  <2> QED BY <2>1 DEF Longer
<1>4. Good(m, FileSize', head, held, alive)
  <2>1. CASE file' = file
    BY <2>1, <1>1 DEF FileSize
  <2>2. CASE FileSize <= FileSize' /\ FileSize \in Nat /\ FileSize' \in Nat
    BY <2>2, <1>1, GoodWhenLonger
  <2> QED BY <2>1, <2>2, <1>3
<1>5. it' \in {NULL, END} \cup Range(m'.list)
  BY <1>2 DEF MInv, IteratorsStayInList
<1>6. file' \in {NULL} \cup Seq(Byte) /\ head' \in Nat
  BY <1>2, <1>3 DEF MInv, MTypeOK
<1>7. mode \in {"read", "rw"} => file' \in Seq(Byte) /\ head' <= FileSize'
  <2>1. CASE file' = file
    BY <2>1, <1>2 DEF MInv, FileSize
  <2>2. CASE /\ file' \in Seq(Byte) /\ FileSize <= FileSize' /\ head <= FileSize
             /\ FileSize \in Nat /\ FileSize' \in Nat /\ head \in Nat
    BY <2>2, <1>2
  <2> QED BY <2>1, <2>2, <1>3
<1>8. Live(m') # {} => mode = "rw"
  BY <1>2 DEF MInv
<1>9. Calling
  BY <1>1, <1>2, <1>4, <1>5, <1>6, <1>7, <1>8 DEF Calling
<1> QED BY <1>1, <1>9, CallKeeps

LEMMA JoinLonger ==
    ASSUME MInv, mode = "rw", NEW t \in Seq(Byte), file' = file \o t
    PROVE  Longer
<1>1. file \in Seq(Byte)
  BY DEF MInv
<1>2. file' \in Seq(Byte) /\ Len(file') = Len(file) + Len(t) /\ Len(file) \in Nat /\ Len(t) \in Nat
  BY <1>1, ConcatProperties, LenProperties
<1> QED BY <1>2 DEF Longer, FileSize

LEMMA DataSizeFacts ==
    ASSUME MInv
    PROVE  DataSize \in Nat
<1>1. CASE mode \in {"read", "rw"}
  <2>1. file \in Seq(Byte) /\ head <= FileSize /\ head \in Nat /\ FileSize \in Nat
    BY <1>1, LenProperties DEF MInv, MTypeOK, FileSize
  <2> QED BY <1>1, <2>1 DEF DataSize
<1>2. CASE mode \notin {"read", "rw"}
  BY <1>2 DEF DataSize
<1> QED BY <1>1, <1>2

\* What the functions see of the size of the file, when its fstat works.
LEMMA SizeFacts ==
    ASSUME MInv, Called, UsualClient, CountsFit, NEW fn, fn # "clear",
           NEW size \in SizesSeen(fn)
    PROVE  /\ mode # "failed" => size = FileSize
           /\ Asserted(size) /\ DataSizeOf(size) = DataSize
           /\ \A n \in Nat : AtMost(n, size) = Lower(n, DataSize)
<1>1. mode # "failed" => size = FileSize
  BY SizesAre
<1>2. \/ mode = "failed"
      \/ mode \in {"read", "rw"} /\ head \in Nat /\ FileSize \in Nat /\ head <= FileSize
  BY CalledFacts DEF Setting
<1>3. CASE mode = "failed"
  BY <1>3 DEF Asserted, DataSizeOf, DataSize, AtMost, Lower
<1>4. CASE mode \in {"read", "rw"} /\ head \in Nat /\ FileSize \in Nat /\ head <= FileSize
  BY <1>1, <1>4 DEF Asserted, DataSizeOf, DataSize, AtMost
<1> QED BY <1>1, <1>2, <1>3, <1>4

LEMMA ExtendLonger ==
    ASSUME MInv, UsualClient, NEW n \in Nat, n > 0, ExtendBy(n)
    PROVE  Longer
<1>1. PICK size \in SizesSeen("extend") : Truncate(size + n)
  BY DEF ExtendBy
<1> DEFINE c == size + n
<1>2. PICK ok \in {mode = "rw"} \cup (IF MayFail THEN {FALSE} ELSE {}) :
          file' = IF ~ok THEN file
                  ELSE IF c <= FileSize THEN SubSeq(file, 1, c)
                  ELSE file \o Zeros(c - FileSize)
  BY <1>1 DEF Truncate
<1> HIDE DEF c
<1>3. CASE ~ok
  BY <1>2, <1>3 DEF Longer
<1>4. CASE ok
  <2>1. mode = "rw"
    BY <1>2, <1>4
  <2>2. FileSize \in Nat
    BY <2>1, LenProperties DEF MInv, FileSize
  <2>3. size = FileSize
    BY <2>1, SizesAre
  <2>4. c \in Nat /\ ~(c <= FileSize) /\ c - FileSize = n
    BY <2>2, <2>3 DEF c
  <2>5. file' = file \o Zeros(n)
    BY <1>2, <1>4, <2>4
  <2>6. Zeros(n) \in Seq(Byte)
    <3>1. Zeros(n) \in [1..n -> Byte]
      BY MmapAssumption DEF Zeros
    <3> QED BY <3>1, SeqDef
  <2> QED BY <2>1, <2>5, <2>6, JoinLonger
<1> QED BY <1>3, <1>4

LEMMA AppendLonger ==
    ASSUME MInv, NEW t \in Seq(Byte), AppendBytes(t)
    PROVE  Longer
<1>0. Len(t) \in Nat
  BY LenProperties
<1>1. PICK n \in IF mode # "rw" THEN {0} ELSE IF MayFail THEN 0..Len(t) ELSE {Len(t)} :
          file' = IF n = 0 THEN file ELSE file \o SubSeq(t, 1, n)
  BY DEF AppendBytes
<1>2. CASE n = 0
  BY <1>1, <1>2 DEF Longer
<1>3. CASE n # 0
  <2>1. mode = "rw" /\ n \in 0..Len(t)
    BY <1>0, <1>1, <1>3
  <2>2. SubSeq(t, 1, n) \in Seq(Byte)
    <3>1. \A i \in 1..n : i \in 1..Len(t) /\ t[i] \in Byte
      BY <2>1, <1>0, ElementOfSeq
    <3> QED BY <2>1, <1>0, <3>1, SubSeqProperties
  <2> QED BY <1>1, <1>3, <2>1, <2>2, JoinLonger
<1> QED BY <1>2, <1>3

LEMMA ExtendKeeps ==
    ASSUME MInv, UsualClient, CountsFit, NEW n \in Nat, n > 0, Extend(n)
    PROVE  MInv'
<1>1. Called /\ ExtendBy(n) /\ FileOnly /\ it' \in {it, NULL}
  BY DEF Extend
<1> QED BY <1>1, ExtendLonger, FileOnlyKeeps

LEMMA ReserveKeeps ==
    ASSUME MInv, UsualClient, CountsFit, NEW n \in Nat, Reserve(n)
    PROVE  MInv'
<1>1. Called
  BY DEF Reserve
<1>2. PICK size \in SizesSeen("get_data_size") :
          IF ~Asserted(size) THEN Abort
          ELSE LET more == n - DataSizeOf(size)
               IN  more > 0 /\ Fits(more) /\ ExtendBy(more) /\ FileOnly /\ UNCHANGED it
  BY DEF Reserve
<1>3. Asserted(size) /\ DataSizeOf(size) = DataSize
  BY <1>1, SizeFacts
<1> DEFINE more == n - DataSize
<1>4. more > 0 /\ ExtendBy(more) /\ FileOnly /\ it' \in {it, NULL}
  BY <1>2, <1>3
<1>5. more \in Nat
  BY <1>4, DataSizeFacts
<1> HIDE DEF more
<1> QED BY <1>1, <1>4, <1>5, ExtendLonger, FileOnlyKeeps

LEMMA WriteKeeps ==
    ASSUME MInv, UsualClient, CountsFit, NEW t \in Seq(Byte), Write(t)
    PROVE  MInv'
<1>1. Called
  BY DEF Write
<1>2. PICK size \in SizesSeen("get_data_size") :
          IF ~Asserted(size) THEN Abort
          ELSE /\ AppendBytes(t) /\ FileOnly
               /\ it' = IF DataSizeOf(size) = 0 THEN NULL ELSE it
  BY DEF Write
<1>3. Asserted(size)
  BY <1>1, SizeFacts
<1>4. AppendBytes(t) /\ FileOnly /\ it' \in {it, NULL}
  BY <1>2, <1>3
<1> QED BY <1>1, <1>4, AppendLonger, FileOnlyKeeps

LEMMA WriteDataKeeps ==
    ASSUME MInv, UsualClient, CountsFit, NEW t \in Seq(Byte), WriteData(t)
    PROVE  MInv'
  BY WriteKeeps DEF WriteData

LEMMA WriteBufferKeeps ==
    ASSUME MInv, UsualClient, CountsFit, NEW ps \in Inputs, NEW n \in Nat,
           WriteBuffer(ps, n)
    PROVE  MInv'
<1> DEFINE t == Gather(ps, IovLimit)
           c == Lower(n, Len(t))
           s == SubSeq(t, 1, c)
<1>1. Write(s)
  BY DEF WriteBuffer
<1>2. t \in Seq(Byte) /\ Len(t) \in Nat
  BY GatherBytes, MmapAssumption, LenProperties
<1>3. c \in 0..Len(t)
  <2> HIDE DEF t
  <2> QED BY <1>2 DEF Lower
<1>4. s \in Seq(Byte)
  <2> HIDE DEF t, c
  <2>1. \A i \in 1..c : i \in 1..Len(t) /\ t[i] \in Byte
    BY <1>2, <1>3, ElementOfSeq
  <2> QED BY <1>2, <1>3, <2>1, SubSeqProperties
<1> HIDE DEF t, c, s
<1> QED BY <1>1, <1>4, WriteKeeps

-----------------------------------------------------------------------------
(* Dropping the pages, and the references of other buffers.                *)

LEMMA ClearedGood ==
    ASSUME NEW s, NEW t, NEW size, NEW more, NEW to, NEW bl,
           s \in Store, Placed(s, size), PagesPut(s, t), held \in [DataIds -> Nat],
           \A d \in DataIds : held[d] > 0 => s.reg[d].off + s.reg[d].len <= more,
           NEW u, u.reg = t.reg, u.data_tree = t.data_tree, u.list = t.list, u \in Store,
           Counted(u, held, bl)
    PROVE  Good(u, more, to, held, bl)
<1>1. t \in Store /\ u.list = << >> /\ Counted(t, held, alive) /\ Tabled(t) /\ Alike(s, t, Live(t))
      /\ Live(t) \subseteq Live(s)
  BY DEF PagesPut
<1>2. Len(u.list) = 0
  BY <1>1
<1>3. Shows(u) = {} /\ Refs(u, held) = held
  <2>1. Shows(u) = {}
    BY <1>2 DEF Shows
  <2>2. \A d \in DataIds : held[d] + 0 = held[d]
    OBVIOUS
  <2> QED BY <2>1, <2>2 DEF Refs
<1>4. Viewing(u, to) /\ Latest(u, {})
  BY <1>1, <1>2, <1>3 DEF Viewing, Windowed, Gapless, Starting, Latest
<1>5. Tabled(u)
  BY <1>1 DEF Tabled
<1>6. Placed(u, more)
  <2>1. ASSUME NEW d \in Live(u)
        PROVE  LET r == u.reg[d]
               IN  r.off = BlockOf(r.off) /\ r.len <= Block /\ r.off + r.len <= more
    <3>1. d \in Live(t) /\ d \in Live(s) /\ d \in DataIds
      BY <1>1 DEF Live
    <3>2. u.reg[d].off = s.reg[d].off /\ u.reg[d].len = s.reg[d].len
      BY <3>1, <1>1 DEF Alike
    <3>3. held[d] > 0
      BY <3>1, <1>1 DEF Counted, Live
    <3> QED BY <3>1, <3>2, <3>3 DEF Placed
  <2> QED BY <2>1 DEF Placed
<1> QED BY <1>3, <1>4, <1>5, <1>6 DEF Good

\* What pb_trivial_pure_buffer_clear leaves of the store.
LEMMA ClearFacts ==
    ASSUME MInv, CountsFit
    PROVE  PagesPut(m, PureClear(m)) /\ m \in Store /\ FewHeld /\ Placed(m, FileSize)
           /\ held \in [DataIds -> Nat] /\ head \in Nat /\ Live(PureClear(m)) \subseteq Live(m)
<1>1. Fine(m) /\ FewHeld
  BY DEF Fine, FewHeld, MInv, MTypeOK
<1>2. /\ m \in Store /\ Windowed(m) /\ Gapless(m) /\ Counted(m, Refs(m, held), alive)
      /\ Tabled(m) /\ Placed(m, FileSize)
  BY <1>1 DEF Fine, Good, Viewing
<1>3. PagesPut(m, PureClear(m))
  BY <1>1, <1>2, PureClearClears
<1> QED BY <1>1, <1>2, <1>3 DEF FewHeld, MInv, MTypeOK, PagesPut

LEMMA HeldLive ==
    ASSUME MInv
    PROVE  \A d \in DataIds : held[d] > 0 =>
              d \in Live(m) /\ m.reg[d].off + m.reg[d].len <= FileSize
<1>1. ASSUME NEW d \in DataIds, held[d] > 0 PROVE d \in Live(m)
  <2>1. held[d] \in Nat /\ Refs(m, held)[d] > 0
    BY <1>1 DEF Refs, MInv, MTypeOK
  <2> QED BY <2>1 DEF MInv, Good, Counted, Live
<1> QED BY <1>1 DEF MInv, Good, Placed

LEMMA MoveHeadKeeps ==
    ASSUME MInv, CountsFit, NEW to \in Nat, mode \in {"read", "rw"} => to <= FileSize,
           Called, MoveHead(to)
    PROVE  MInv'
<1> DEFINE t == PureClear(m)
<1>1. /\ Called /\ m' = t /\ head' = to /\ it' = NULL /\ out' = NULL
      /\ UNCHANGED << file, mode, remove, alive, held, trim >>
  BY DEF MoveHead, AfterClear
<1>2. trim = NULL /\ alive
  BY <1>1, CalledFacts DEF Called
<1>3. /\ PagesPut(m, t) /\ m \in Store /\ Placed(m, FileSize) /\ held \in [DataIds -> Nat]
      /\ Live(t) \subseteq Live(m)
  BY <1>1, ClearFacts
<1>4. \A d \in DataIds : held[d] > 0 => m.reg[d].off + m.reg[d].len <= FileSize
  BY HeldLive
<1> HIDE DEF t
<1>5. t \in Store /\ Counted(t, held, alive)
  BY <1>3 DEF PagesPut
<1>6. Good(t, FileSize, to, held, alive)
  BY <1>3, <1>4, <1>5, ClearedGood
<1>7. FileSize' = FileSize
  BY <1>1 DEF FileSize
<1>8. Good(m', FileSize', head', held, alive)
  BY <1>1, <1>6, <1>7
<1>9. file' \in {NULL} \cup Seq(Byte) /\ (mode \in {"read", "rw"} => file' \in Seq(Byte))
  BY <1>1 DEF MInv, MTypeOK
<1>10. Live(m') # {} => mode = "rw"
  BY <1>1, <1>3 DEF MInv
<1>11. mode \in {"read", "rw"} => head' <= FileSize'
  BY <1>1, <1>7
<1>12. Calling
  BY <1>1, <1>2, <1>8, <1>9, <1>10, <1>11 DEF Calling
<1> QED BY <1>2, <1>12, CallKeeps

LEMMA RewindKeeps ==
    ASSUME MInv, CountsFit, NEW n \in Nat, Rewind(n)
    PROVE  MInv'
<1> DEFINE to == IF mode = "failed" THEN head ELSE head - Lower(n, head)
<1>1. head \in Nat /\ (mode \in {"read", "rw"} => head <= FileSize /\ FileSize \in Nat)
  BY LenProperties DEF MInv, MTypeOK, FileSize
<1>2. to \in Nat /\ to <= head
  BY <1>1 DEF Lower
<1>3. Called /\ MoveHead(to)
  BY DEF Rewind
<1> HIDE DEF to
<1>4. mode \in {"read", "rw"} => to <= FileSize
  BY <1>1, <1>2
<1> QED BY <1>2, <1>3, <1>4, MoveHeadKeeps

LEMMA SeekKeeps ==
    ASSUME MInv, UsualClient, CountsFit, NEW n \in Nat, Seek(n)
    PROVE  MInv'
<1>0. PICK size \in SizesSeen("seek") : Called /\ MoveHead(head + AtMost(n, size))
  BY DEF Seek
<1> DEFINE to == head + Lower(n, DataSize)
<1>1. head \in Nat /\ (mode \in {"read", "rw"} => head <= FileSize /\ FileSize \in Nat)
  BY LenProperties DEF MInv, MTypeOK, FileSize
<1>2. MoveHead(to)
  <2>1. AtMost(n, size) = Lower(n, DataSize)
    BY <1>0, SizeFacts
  <2> QED BY <1>0, <2>1
<1>3. DataSize \in Nat
  BY DataSizeFacts
<1>4. to \in Nat
  BY <1>1, <1>3 DEF Lower
<1>5. ASSUME mode \in {"read", "rw"} PROVE to <= FileSize
  <2>1. DataSize = FileSize - head
    BY <1>5 DEF DataSize
  <2> QED BY <1>1, <1>3, <1>5, <2>1 DEF Lower
<1> HIDE DEF to
<1> QED BY <1>0, <1>2, <1>4, <1>5, MoveHeadKeeps

\* Where clear leaves the head, whatever fstat says.
LEMMA ClearedFacts ==
    ASSUME MInv, Called, CountsFit, NEW size \in SizesSeen("clear")
    PROVE  /\ Cleared(size) \in Nat
           /\ mode \in {"read", "rw"} => Cleared(size) <= FileSize
<1>1. head \in Nat
  BY DEF MInv, MTypeOK
<1>2. \/ mode = "failed"
      \/ mode \in {"read", "rw"} /\ FileSize \in Nat
  BY CalledFacts DEF Setting
<1>3. size \in {0, FileSize}
  BY DEF SizesSeen
<1> QED BY <1>1, <1>2, <1>3 DEF Cleared

LEMMA ClearKeeps ==
    ASSUME MInv, CountsFit, Clear
    PROVE  MInv'
<1>1. PICK size \in SizesSeen("clear") : Called /\ MoveHead(Cleared(size))
  BY DEF Clear
<1> QED BY <1>1, ClearedFacts, MoveHeadKeeps

\* pb_mmap_allocator_put of the buffer, or of the last mapping.
LEMMA SettleKeeps ==
    ASSUME MInv, NEW s, NEW hd \in Nat, NEW al \in BOOLEAN, NEW he \in [DataIds -> Nat],
           trim = NULL, Settle(s), head' = hd, alive' = al, held' = he, trim' = NULL,
           out' = NULL, remove' = remove,
           it' \in {NULL, END} \cup Range(s.list), \A d \in DataIds : he[d] <= MaxHeld,
           Live(s) \subseteq Live(m), s.users # 0 => hd <= FileSize \/ mode \notin {"read", "rw"},
           \A size : s.users = 0 \/ size = FileSize => Good(s, size, hd, he, al),
           s.users # 0 => m.users # 0
    PROVE  MInv'
<1>1. /\ m' = s /\ mode' = (IF s.users = 0 THEN "closed" ELSE mode)
      /\ file' = (IF s.users = 0 /\ remove /\ mode # "failed" THEN NULL ELSE file)
  BY DEF Settle
<1>2. Good(m', FileSize', head', held', alive')
  <2>1. CASE s.users = 0
    BY <2>1, <1>1
  <2>2. CASE s.users # 0
    <3>1. FileSize' = FileSize
      BY <2>2, <1>1 DEF FileSize
    <3> QED BY <3>1, <1>1
  <2> QED BY <2>1, <2>2
<1>3. s \in Store
  BY <1>1, <1>2 DEF Good
<1>4. MTypeOK'
  <2>1. it' \in {NULL, END} \cup Page
    BY <1>3, ListHasPages
  <2>2. file' \in {NULL} \cup Seq(Byte) /\ mode' \in {"closed", "failed", "read", "rw"}
    BY <1>1 DEF MInv, MTypeOK
  <2>3. remove' \in BOOLEAN
    BY DEF MInv, MTypeOK
  <2> QED BY <1>1, <1>3, <2>1, <2>2, <2>3 DEF MTypeOK
<1>5. IteratorsStayInList'
  BY <1>1 DEF IteratorsStayInList
<1>6. Trimming'
  BY DEF Trimming
<1>7. (m.users = 0 <=> mode = "closed")'
  <2>1. s.users # 0 => mode # "closed"
    BY DEF MInv
  <2> QED BY <1>1, <2>1
<1>8. (mode \in {"read", "rw"} => file \in Seq(Byte) /\ head <= FileSize)'
  <2>1. ASSUME mode' \in {"read", "rw"} PROVE file' \in Seq(Byte) /\ head' <= FileSize'
    <3>1. s.users # 0 /\ mode' = mode /\ file' = file
      BY <2>1, <1>1
    <3>2. FileSize' = FileSize /\ head' = hd
      BY <3>1 DEF FileSize
    <3> QED BY <2>1, <3>1, <3>2 DEF MInv
  <2> QED BY <2>1
<1>9. (Live(m) # {} => mode = "rw")'
  <2>1. ASSUME Live(s) # {} PROVE mode' = "rw"
    <3>1. mode = "rw"
      BY <2>1 DEF MInv
    <3>2. s.users # 0
      <4>1. s.users = Cardinality(Live(s)) + (IF al THEN 1 ELSE 0)
        BY <1>1, <1>2 DEF Good, Counted
      <4>2. Cardinality(Live(s)) \in Nat /\ Cardinality(Live(s)) # 0
        BY <2>1, LiveCount, FS_EmptySet
      <4> QED BY <4>1, <4>2
    <3> QED BY <3>1, <3>2, <1>1
  <2> QED BY <2>1, <1>1
<1>10. \A d \in DataIds : held'[d] <= MaxHeld
  OBVIOUS
<1> QED BY <1>2, <1>4, <1>5, <1>6, <1>7, <1>8, <1>9, <1>10 DEF MInv

LEMMA DestroyKeeps ==
    ASSUME MInv, CountsFit, Destroy
    PROVE  MInv'
<1>0. PICK size \in SizesSeen("clear") : head' = Cleared(size)
  BY DEF Destroy
<1> DEFINE t == PureClear(m)
           s == [t EXCEPT !.users = (@ - 1) % CountMod]
           hd == Cleared(size)
<1>1. /\ Called /\ Settle(s) /\ head' = hd /\ alive' = FALSE /\ it' = NULL /\ out' = NULL
      /\ UNCHANGED << remove, held, trim >>
  BY <1>0 DEF Destroy, AfterClear
<1>2. trim = NULL /\ alive = TRUE
  BY <1>1, CalledFacts DEF Called, MInv, MTypeOK
<1>3. /\ PagesPut(m, t) /\ m \in Store /\ Placed(m, FileSize) /\ held \in [DataIds -> Nat]
      /\ Live(t) \subseteq Live(m) /\ head \in Nat
  BY <1>1, ClearFacts
<1>5. hd \in Nat /\ (hd <= FileSize \/ mode \notin {"read", "rw"})
  BY <1>0, <1>1, ClearedFacts
<1> HIDE DEF t, hd
<1>6. t \in Store /\ Counted(t, held, alive) /\ t.list = << >>
  BY <1>3 DEF PagesPut
<1>7. Cardinality(Live(t)) \in Nat /\ Cardinality(Live(t)) < CountMod
  BY LiveCount, MmapAssumption DEF CountsFit
<1>8. (t.users - 1) % CountMod = Cardinality(Live(t))
  <2>1. t.users = Cardinality(Live(t)) + 1
    BY <1>2, <1>6 DEF Counted
  <2>2. t.users - 1 = Cardinality(Live(t))
    BY <2>1, <1>7
  <2> QED BY <2>2, <1>7, NoWrap
<1>9. /\ s.reg = t.reg /\ s.data_tree = t.data_tree /\ s.list = t.list /\ s.broken = t.broken
      /\ s.users = Cardinality(Live(t)) /\ s \in Store
  BY <1>6, <1>7, <1>8 DEF Store
<1> HIDE DEF s
<1>10. Live(s) = Live(t)
  BY <1>9 DEF Live
<1>11. Counted(s, held, FALSE)
  <2>1. s.users = Cardinality(Live(s)) + 0
    BY <1>9, <1>10, <1>7
  <2> QED BY <2>1, <1>6, <1>9 DEF Counted
<1>12. ASSUME NEW all, s.users = 0 \/ all = FileSize PROVE Good(s, all, hd, held, FALSE)
  <2>1. ASSUME NEW d \in DataIds, held[d] > 0 PROVE m.reg[d].off + m.reg[d].len <= all
    <3>1. d \in Live(t)
      BY <2>1, <1>6 DEF Counted, Live
    <3>2. s.users # 0
      <4>1. Live(t) # {} /\ IsFiniteSet(Live(t))
        BY <3>1, LiveCount
      <4> QED BY <4>1, <1>9, FS_EmptySet
    <3> QED BY <2>1, <3>2, <1>12, HeldLive
  <2> QED BY <2>1, <1>3, <1>9, <1>11, ClearedGood
<1>13. \A all : s.users = 0 \/ all = FileSize => Good(s, all, hd, held, FALSE)
  BY <1>12
<1>14. m.users # 0
  <2>1. m.users = Cardinality(Live(m)) + 1
    BY <1>2 DEF MInv, Good, Counted
  <2> QED BY <2>1, LiveCount
<1>15. \A d \in DataIds : held[d] <= MaxHeld
  BY DEF MInv
<1> QED BY <1>1, <1>2, <1>3, <1>5, <1>10, <1>13, <1>14, <1>15, SettleKeeps

\* The references of other buffers to d, one less.
LEMMA DropKeeps ==
    ASSUME MInv, CountsFit, NEW d \in DataIds, Drop(d)
    PROVE  MInv'
<1> DEFINE s == DataPut(m, d)
           he == [held EXCEPT ![d] = @ - 1]
           refs == Refs(m, held)
<1>1. /\ trim = NULL /\ held[d] > 0 /\ Settle(s) /\ held' = he /\ out' = NULL
      /\ UNCHANGED << remove, alive, head, it, trim >>
  BY DEF Drop, BetweenCalls
<1>2. /\ Good(m, FileSize, head, held, alive) /\ held \in [DataIds -> Nat] /\ head \in Nat
      /\ alive \in BOOLEAN /\ \A e \in DataIds : held[e] <= MaxHeld
  BY DEF MInv, MTypeOK
<1>3. m \in Store /\ Counted(m, refs, alive) /\ Tabled(m) /\ refs \in [DataIds -> Nat]
  BY <1>2 DEF Good, Refs
<1>4. refs[d] = held[d] + (IF d \in Shows(m) THEN 1 ELSE 0) /\ held[d] \in Nat
  BY <1>2 DEF Refs
<1>5. refs[d] > 0 /\ refs[d] < CountMod
  <2>1. held[d] <= MaxHeld /\ MaxHeld + 2 < CountMod
    BY <1>2 DEF CountsFit
  <2> HIDE DEF refs
  <2> QED BY <1>1, <1>4, <2>1, MmapAssumption
<1>6. PutLeaves(m, s, d, refs)
  <2> HIDE DEF refs
  <2> QED BY <1>3, <1>5, PutCounted
<1>7. he \in [DataIds -> Nat] /\ \A e \in DataIds : he[e] <= MaxHeld
  <2>1. held[d] - 1 \in Nat /\ held[d] - 1 <= MaxHeld
    BY <1>1, <1>2, <1>4, MmapAssumption
  <2> QED BY <2>1, <1>2
<1>8. [refs EXCEPT ![d] = @ - 1] = Refs(s, he)
  <2>1. Shows(s) = Shows(m)
    BY <1>6 DEF PutLeaves, Shows
  <2>2. ASSUME NEW e \in DataIds
        PROVE  [refs EXCEPT ![d] = @ - 1][e] = he[e] + (IF e \in Shows(m) THEN 1 ELSE 0)
    <3>1. CASE e = d
      <4>1. he[e] = held[d] - 1 /\ [refs EXCEPT ![d] = @ - 1][e] = refs[d] - 1
        BY <3>1, <1>2, <1>3
      <4> HIDE DEF he, refs
      <4> QED BY <4>1, <3>1, <1>4
    <3>2. CASE e # d
      BY <3>2, <1>2 DEF Refs
    <3> QED BY <3>1, <3>2
  <2>3. [refs EXCEPT ![d] = @ - 1] = [e \in DataIds |-> [refs EXCEPT ![d] = @ - 1][e]]
    BY <1>3
  <2> QED BY <2>1, <2>2, <2>3 DEF Refs
<1> HIDE DEF he
<1>9. s \in Store /\ Counted(s, Refs(s, he), alive) /\ Tabled(s) /\ s.list = m.list
  BY <1>6, <1>8 DEF PutLeaves
<1>10. Kept(m, s) /\ Live(s) \subseteq Live(m)
  <2>1. CASE Alike(m, s, DataIds) /\ s.data_tree = m.data_tree
    <3>1. Shows(m) \cup m.data_tree \subseteq DataIds
      BY <1>3, StoreFacts, PageFacts DEF Shows
    <3> QED BY <2>1, <3>1, <1>9 DEF Kept, Alike, Live
  <2>2. CASE /\ refs[d] = 1 /\ Alike(m, s, DataIds \ {d}) /\ ~s.reg[d].live
             /\ s.data_tree = m.data_tree \ {d}
    <3>1. d \notin Shows(m)
      <4> HIDE DEF refs
      <4> QED BY <2>2, <1>1, <1>4
    <3>2. Shows(m) \cup s.data_tree \subseteq DataIds \ {d}
      BY <2>2, <3>1, <1>3, StoreFacts, PageFacts DEF Shows
    <3> QED BY <2>2, <3>2, <1>9 DEF Kept, Alike, Live
  <2> QED BY <2>1, <2>2, <1>6 DEF PutLeaves
<1> HIDE DEF s, refs
<1>11. ASSUME NEW size, s.users = 0 \/ size = FileSize PROVE Good(s, size, head, he, alive)
  <2>1. Placed(s, size)
    <3>1. ASSUME NEW e \in Live(s)
          PROVE  LET r == s.reg[e]
                 IN  r.off = BlockOf(r.off) /\ r.len <= Block /\ r.off + r.len <= size
      <4>1. e \in Live(m) /\ e \in DataIds /\ IsFiniteSet(Live(s))
        BY <1>10, LiveCount DEF Live
      <4>2. s.users # 0
        <5>1. s.users = Cardinality(Live(s)) + (IF alive THEN 1 ELSE 0)
          BY <1>9 DEF Counted
        <5>2. Cardinality(Live(s)) \in Nat /\ Cardinality(Live(s)) # 0
          BY <4>1, LiveCount, FS_EmptySet
        <5> QED BY <5>1, <5>2
      <4>3. s.reg[e].off = m.reg[e].off /\ s.reg[e].len = m.reg[e].len
        <5>1. CASE Alike(m, s, DataIds)
          BY <5>1, <4>1 DEF Alike
        <5>2. CASE Alike(m, s, DataIds \ {d}) /\ ~s.reg[d].live
          BY <5>2, <4>1 DEF Alike, Live
        <5> QED BY <5>1, <5>2, <1>6 DEF PutLeaves
      <4> QED BY <4>1, <4>2, <4>3, <1>2, <1>11 DEF Good, Placed
    <3> QED BY <3>1 DEF Placed
  <2> QED BY <2>1, <1>2, <1>9, <1>10, KeptGood
<1>12. \A size : s.users = 0 \/ size = FileSize => Good(s, size, head, he, alive)
  BY <1>11
<1>13. s.users # 0 => m.users # 0
  <2>1. Cardinality(Live(m)) \in Nat /\ m.users = Cardinality(Live(m)) + (IF alive THEN 1 ELSE 0)
    BY <1>3, LiveCount DEF Counted
  <2>2. s.users = Cardinality(Live(s)) + (IF alive THEN 1 ELSE 0)
    BY <1>9 DEF Counted
  <2>3. Cardinality(Live(s)) <= Cardinality(Live(m)) /\ Cardinality(Live(s)) \in Nat
    BY <1>10, LiveCount, FS_Subset
  <2> QED BY <2>1, <2>2, <2>3
<1>14. it \in {NULL, END} \cup Range(s.list)
  BY <1>9 DEF MInv, IteratorsStayInList
<1>15. s.users # 0 => head <= FileSize \/ mode \notin {"read", "rw"}
  BY DEF MInv
<1> QED BY <1>1, <1>2, <1>7, <1>10, <1>12, <1>13, <1>14, <1>15, SettleKeeps

\* A page of the list taken to another buffer.
LEMMA ShareKeeps ==
    ASSUME MInv, CountsFit, NEW d \in DataIds, Share(d)
    PROVE  MInv'
<1> DEFINE s == DataGet(m, d)
           he == [held EXCEPT ![d] = @ + 1]
           refs == Refs(m, held)
<1>1. /\ Called /\ d \in Listed /\ held[d] < MaxHeld /\ m' = s /\ held' = he /\ out' = NULL
      /\ UNCHANGED << file, mode, remove, alive, head, it, trim >>
  BY DEF Share
<1>2. /\ Good(m, FileSize, head, held, alive) /\ held \in [DataIds -> Nat] /\ head \in Nat
      /\ \A e \in DataIds : held[e] <= MaxHeld
  BY DEF MInv, MTypeOK
<1>3. m \in Store /\ Counted(m, refs, alive) /\ Tabled(m) /\ refs \in [DataIds -> Nat]
  BY <1>2 DEF Good, Refs
<1>4. d \in Shows(m)
  <2>1. m.list \in Seq(Page)
    BY <1>3, StoreFacts
  <2> QED BY <2>1, <1>1 DEF Listed, Shows, Range
<1>5. refs[d] = held[d] + 1 /\ held[d] \in Nat
  BY <1>2, <1>4 DEF Refs
<1>6. refs[d] > 0 /\ refs[d] + 1 < CountMod
  <2>1. MaxHeld + 2 < CountMod /\ held[d] < MaxHeld
    BY <1>1 DEF CountsFit
  <2> HIDE DEF refs
  <2> QED BY <1>5, <2>1, MmapAssumption
<1>7. /\ s \in Store /\ Counted(s, [refs EXCEPT ![d] = @ + 1], alive) /\ Tabled(s)
      /\ s.list = m.list /\ s.data_tree = m.data_tree /\ Alike(m, s, DataIds)
  <2> HIDE DEF refs
  <2> QED BY <1>3, <1>6, GetCounted
<1>8. [refs EXCEPT ![d] = @ + 1] = Refs(s, he)
  <2>1. Shows(s) = Shows(m)
    BY <1>7 DEF Shows
  <2>2. ASSUME NEW e \in DataIds
        PROVE  [refs EXCEPT ![d] = @ + 1][e] = he[e] + (IF e \in Shows(m) THEN 1 ELSE 0)
    <3>1. CASE e = d
      <4>1. he[e] = held[d] + 1 /\ [refs EXCEPT ![d] = @ + 1][e] = refs[d] + 1
        BY <3>1, <1>2, <1>3
      <4> HIDE DEF he, refs
      <4> QED BY <4>1, <3>1, <1>4, <1>5
    <3>2. CASE e # d
      BY <3>2, <1>2 DEF Refs
    <3> QED BY <3>1, <3>2
  <2>3. [refs EXCEPT ![d] = @ + 1] = [e \in DataIds |-> [refs EXCEPT ![d] = @ + 1][e]]
    BY <1>3
  <2> QED BY <2>1, <2>2, <2>3 DEF Refs
<1>9. he \in [DataIds -> Nat] /\ \A e \in DataIds : he[e] <= MaxHeld
  <2>1. held[d] + 1 \in Nat /\ held[d] + 1 <= MaxHeld
    BY <1>1, <1>5, MmapAssumption
  <2> QED BY <2>1, <1>2
<1> HIDE DEF he, s, refs
<1>10. Kept(m, s) /\ Live(s) = Live(m)
  <2>1. Shows(m) \cup m.data_tree \subseteq DataIds
    BY <1>3, StoreFacts, PageFacts DEF Shows
  <2> QED BY <2>1, <1>7 DEF Kept, Alike, Live
<1>11. Placed(s, FileSize)
  <2>1. ASSUME NEW e \in Live(s)
        PROVE  LET r == s.reg[e]
               IN  r.off = BlockOf(r.off) /\ r.len <= Block /\ r.off + r.len <= FileSize
    <3>1. e \in Live(m) /\ e \in DataIds /\ s.reg[e].off = m.reg[e].off
          /\ s.reg[e].len = m.reg[e].len
      BY <1>7, <1>10 DEF Live, Alike
    <3> QED BY <3>1, <1>2 DEF Good, Placed
  <2> QED BY <2>1 DEF Placed
<1>12. Good(s, FileSize, head, he, alive)
  BY <1>2, <1>7, <1>8, <1>10, <1>11, KeptGood
<1>13. FileSize' = FileSize
  BY <1>1 DEF FileSize
<1>14. MTypeOK'
  BY <1>1, <1>7, <1>9 DEF MInv, MTypeOK
<1>15. trim = NULL
  BY <1>1, CalledFacts
<1>16. (m.users = 0 <=> mode = "closed")'
  <2>1. s.users = m.users
    <3>1. Cardinality(Live(s)) = Cardinality(Live(m))
      BY <1>10
    <3> QED BY <3>1, <1>3, <1>7 DEF Counted
  <2> QED BY <2>1, <1>1 DEF MInv
<1>17. (mode \in {"read", "rw"} => file \in Seq(Byte) /\ head <= FileSize)'
  BY <1>1, <1>13 DEF MInv
<1>18. (Live(m) # {} => mode = "rw")'
  BY <1>1, <1>10 DEF MInv
<1>19. IteratorsStayInList'
  BY <1>1, <1>7 DEF MInv, IteratorsStayInList
<1>20. Trimming'
  BY <1>1, <1>15 DEF Trimming
<1>21. Good(m', FileSize', head', held', alive')
  BY <1>1, <1>12, <1>13
<1>22. \A e \in DataIds : held'[e] <= MaxHeld
  BY <1>1, <1>9
<1> QED BY <1>14, <1>16, <1>17, <1>18, <1>19, <1>20, <1>21, <1>22 DEF MInv

-----------------------------------------------------------------------------
(* Opening and trimming.                                                   *)

LEMMA SetCloseActionKeeps ==
    ASSUME MInv, CountsFit, NEW rm \in BOOLEAN, SetCloseAction(rm)
    PROVE  MInv'
<1>1. /\ Called /\ remove' = rm /\ out' = NULL
      /\ UNCHANGED << file, mode, alive, head, m, held, it, trim >>
  BY DEF SetCloseAction
<1>2. trim = NULL /\ FileSize' = FileSize
  BY <1>1, CalledFacts DEF FileSize
<1>3. MTypeOK' /\ IteratorsStayInList'
  BY <1>1 DEF MInv, MTypeOK, IteratorsStayInList
<1>4. Trimming'
  BY <1>1, <1>2 DEF Trimming
<1>5. Good(m', FileSize', head', held', alive')
  BY <1>1, <1>2 DEF MInv
<1> QED BY <1>1, <1>2, <1>3, <1>4, <1>5 DEF MInv

LEMMA OpenKeeps ==
    ASSUME MInv, CountsFit, NEW how \in {"read", "append", "overwrite"}, NEW rm \in BOOLEAN,
           Open(how, rm)
    PROVE  MInv'
<1>1. /\ trim = NULL /\ mode = "closed" /\ remove' = rm /\ alive' = TRUE /\ head' = 0
      /\ m' = [m EXCEPT !.users = 1] /\ it' = NULL /\ out' = NULL
      /\ UNCHANGED << held, trim >>
  BY DEF Open, BetweenCalls
<1>2. PICK fails \in {how = "read" /\ file = NULL} \cup (IF MayFail THEN {TRUE} ELSE {}) :
          /\ mode' = IF fails THEN "failed" ELSE IF how = "read" THEN "read" ELSE "rw"
          /\ file' = IF fails \/ how = "read" THEN file
                     ELSE IF how = "overwrite" \/ file = NULL THEN << >> ELSE file
  BY DEF Open
<1>3. /\ m \in Store /\ Live(m) = {} /\ Counted(m, Refs(m, held), alive) /\ Tabled(m)
      /\ Windowed(m)
  BY <1>1 DEF MInv, Good, Viewing
<1>4. m.list = << >>
  <2>1. SUFFICES ASSUME m.list # << >> PROVE FALSE
    OBVIOUS
  <2>2. 1 \in 1..Len(m.list)
    BY <2>1, <1>3, StoreFacts
  <2>3. m.list[1].data \in DataIds /\ m.reg[m.list[1].data].live
    BY <2>2, <1>3, StoreFacts, PageFacts DEF Windowed
  <2> QED BY <2>3, <1>3 DEF Live
<1>5. /\ m' \in Store /\ m'.reg = m.reg /\ m'.data_tree = m.data_tree /\ m'.list = << >>
      /\ m'.users = 1 /\ m'.broken = m.broken
  BY <1>1, <1>3, <1>4 DEF Store
<1>6. Live(m') = {}
  BY <1>3, <1>5 DEF Live
<1>7. Shows(m') = {} /\ Shows(m) = {} /\ Len(m'.list) = 0
  BY <1>4, <1>5 DEF Shows
<1>8. Good(m', FileSize', head', held', alive')
  <2>1. Refs(m', held) = Refs(m, held)
    BY <1>7 DEF Refs
  <2>2. Counted(m', Refs(m', held), TRUE)
    <3>1. Cardinality(Live(m')) = 0
      BY <1>6, FS_EmptySet
    <3> QED BY <2>1, <3>1, <1>3, <1>5 DEF Counted
  <2>3. Tabled(m') /\ Placed(m', FileSize')
    BY <1>3, <1>5, <1>6 DEF Tabled, Placed
  <2>4. Viewing(m', 0) /\ Latest(m', {})
    BY <1>5, <1>7 DEF Viewing, Windowed, Gapless, Starting, Latest
  <2> QED BY <2>2, <2>3, <2>4, <1>1, <1>5 DEF Good
<1>9. file \in {NULL} \cup Seq(Byte)
  BY DEF MInv, MTypeOK
<1>10. file' \in {NULL} \cup Seq(Byte) /\ mode' \in {"failed", "read", "rw"}
  BY <1>2, <1>9
<1>11. ASSUME mode' \in {"read", "rw"} PROVE file' \in Seq(Byte) /\ head' <= FileSize'
  <2>1. ~fails
    BY <1>2, <1>11
  <2>2. ~(how = "read" /\ file = NULL)
    BY <2>1, <1>2
  <2>3. file' \in Seq(Byte)
    BY <2>1, <2>2, <1>2, <1>9
  <2> QED BY <2>3, <1>1, LenProperties DEF FileSize
<1>12. MTypeOK'
  BY <1>1, <1>5, <1>10 DEF MInv, MTypeOK
<1>13. IteratorsStayInList' /\ Trimming'
  BY <1>1 DEF IteratorsStayInList, Trimming
<1>14. (m.users = 0 <=> mode = "closed")'
  BY <1>5, <1>10
<1>15. (mode \in {"read", "rw"} => file \in Seq(Byte) /\ head <= FileSize)'
  BY <1>11
<1>16. (Live(m) # {} => mode = "rw")'
  BY <1>6
<1>17. \A d \in DataIds : held'[d] <= MaxHeld
  BY <1>1 DEF MInv
<1> QED BY <1>8, <1>12, <1>13, <1>14, <1>15, <1>16, <1>17 DEF MInv

LEMMA TrimBeginKeeps ==
    ASSUME MInv, UsualClient, CountsFit, NEW n \in Nat, TrimBegin(n)
    PROVE  MInv'
<1>0. Called /\ \E size \in SizesSeen("trim") :
          LET k == AtMost(n, size)
          IN  IF k = 0 THEN m' = PureClear(m) /\ it' = AfterClear /\ UNCHANGED trim
              ELSE /\ TrimEasy(k) /\ trim' = [left |-> k, done |-> 0, size |-> size]
                   /\ UNCHANGED << m, it >>
  BY DEF TrimBegin
<1> DEFINE k == Lower(n, DataSize)
<1>4. PICK size \in SizesSeen("trim") :
          IF k = 0 THEN m' = PureClear(m) /\ it' = AfterClear /\ UNCHANGED trim
          ELSE /\ TrimEasy(k) /\ trim' = [left |-> k, done |-> 0, size |-> size]
               /\ UNCHANGED << m, it >>
  <2>1. \A size \in SizesSeen("trim") : AtMost(n, size) = Lower(n, DataSize)
    BY <1>0, SizeFacts
  <2> QED BY <1>0, <2>1
<1>1. /\ Called /\ out' = NULL /\ UNCHANGED << file, mode, remove, alive, head, held >>
      /\ \/ k = 0 /\ m' = PureClear(m) /\ it' = AfterClear /\ UNCHANGED trim
         \/ /\ k # 0 /\ TrimEasy(k) /\ trim' = [left |-> k, done |-> 0, size |-> size]
            /\ UNCHANGED << m, it >>
  BY <1>0, <1>4 DEF TrimBegin
<1>2. CASE m' = PureClear(m) /\ it' = AfterClear /\ UNCHANGED trim
  <2>1. MoveHead(head)
    BY <1>1, <1>2 DEF MoveHead
  <2>2. head \in Nat /\ (mode \in {"read", "rw"} => head <= FileSize)
    BY DEF MInv, MTypeOK
  <2> QED BY <1>1, <2>1, <2>2, MoveHeadKeeps
<1>3. CASE /\ k # 0 /\ TrimEasy(k) /\ trim' = [left |-> k, done |-> 0, size |-> size]
           /\ UNCHANGED << m, it >>
  <2>1. DataSize \in Nat
    BY DataSizeFacts
  <2>2. k \in Nat /\ k <= DataSize /\ DataSize # 0
    BY <2>1, <1>3 DEF Lower
  <2>3. mode \in {"read", "rw"} /\ DataSize = FileSize - head
    BY <2>2 DEF DataSize
  <2>4. FileSize' = FileSize /\ size = FileSize /\ FileSize \in Nat
    <3>1. size = FileSize
      BY <1>0, <2>3, SizeFacts
    <3>2. FileSize \in Nat
      BY <2>3, LenProperties DEF MInv, FileSize
    <3> QED BY <1>1, <3>1, <3>2 DEF FileSize
  <2>5. /\ FileSize # BlockOf(FileSize) /\ Find(m, BlockOf(FileSize)) = {}
        /\ \A d \in DataIds : held[d] > 0 => m.reg[d].off + m.reg[d].len <= FileSize - k
    BY <1>3 DEF TrimEasy, UsualClient
  <2> HIDE DEF k
  <2>6. trim'.left = k /\ trim'.done = 0 /\ trim'.size = size /\ trim'.left + trim'.done = k
    BY <1>3, <2>2
  <2>7. Trimming'
    <3>1. alive' /\ out' = NULL /\ mode' \in {"read", "rw"}
      BY <1>1, <2>3 DEF Called
    <3>2. trim'.size = FileSize' /\ trim'.left + trim'.done <= FileSize' - head'
      BY <1>1, <2>2, <2>3, <2>4, <2>6
    <3>3. FileSize' # BlockOf(FileSize') /\ Find(m', BlockOf(FileSize')) = {}
      BY <1>3, <2>4, <2>5
    <3>4. \A d \in DataIds : held'[d] > 0 =>
             m'.reg[d].off + m'.reg[d].len <= FileSize' - (trim'.left + trim'.done)
      BY <1>1, <1>3, <2>4, <2>5, <2>6
    <3> QED BY <3>1, <3>2, <3>3, <3>4 DEF Trimming
  <2>8. MTypeOK'
    <3>1. trim' \in [left : Nat, done : Nat, size : Nat]
      BY <1>3, <2>2, <2>4
    <3> QED BY <1>1, <1>3, <3>1 DEF MInv, MTypeOK
  <2>9. Good(m', FileSize', head', held', alive')
    BY <1>1, <1>3, <2>4 DEF MInv
  <2>10. IteratorsStayInList'
    BY <1>3 DEF MInv, IteratorsStayInList
  <2>11. (mode \in {"read", "rw"} => file \in Seq(Byte) /\ head <= FileSize)'
    BY <1>1, <2>4 DEF MInv
  <2>12. /\ (m.users = 0 <=> mode = "closed")' /\ (Live(m) # {} => mode = "rw")'
         /\ \A d \in DataIds : held'[d] <= MaxHeld
    BY <1>1, <1>3 DEF MInv
  <2> QED BY <2>7, <2>8, <2>9, <2>10, <2>11, <2>12 DEF MInv
<1> QED BY <1>1, <1>2, <1>3

\* What the loop of trim finds: bytes in the last block, and no mapping of it.
LEMMA TrimFinds ==
    ASSUME MInv, trim # NULL, trim.left > 0
    PROVE  /\ Find(m, BlockOf(FileSize)) = {} /\ trim \in [left : Nat, done : Nat, size : Nat]
           /\ trim.size = FileSize
           /\ TrimLen(m, BlockOf(FileSize)) \in Nat /\ TrimLen(m, BlockOf(FileSize)) > 0
           /\ TrimLen(m, BlockOf(FileSize)) <= trim.left
<1>1. /\ mode \in {"read", "rw"} /\ FileSize # BlockOf(FileSize)
      /\ Find(m, BlockOf(FileSize)) = {} /\ trim \in [left : Nat, done : Nat, size : Nat]
      /\ trim.size = FileSize
  BY DEF MInv, Trimming, MTypeOK
<1>2. FileSize \in Nat
  BY <1>1, LenProperties DEF MInv, FileSize
<1>3. BlockOf(FileSize) \in Nat /\ BlockOf(FileSize) < FileSize
  BY <1>1, <1>2, BlockFacts
<1>4. TrimLen(m, BlockOf(FileSize)) = Lower(FileSize - BlockOf(FileSize), trim.left)
  BY <1>1 DEF TrimLen
<1>5. FileSize - BlockOf(FileSize) \in Nat /\ FileSize - BlockOf(FileSize) > 0
  BY <1>2, <1>3
<1> QED BY <1>1, <1>4, <1>5 DEF Lower

LEMMA TrimStepKeeps ==
    ASSUME MInv, NEW fail, TrimStep(fail)
    PROVE  MInv'
<1> DEFINE n == TrimLen(m, BlockOf(FileSize))
<1>1. /\ trim # NULL /\ trim.left > 0
      /\ UNCHANGED << file, mode, remove, alive, head, held, it, out >>
  BY DEF TrimStep
<1>2. /\ Find(m, BlockOf(FileSize)) = {} /\ trim \in [left : Nat, done : Nat, size : Nat]
      /\ n \in Nat /\ n > 0 /\ n <= trim.left /\ trim.size = FileSize
  BY <1>1, TrimFinds
<1>3. trim' = [trim EXCEPT !.left = @ - n, !.done = @ + n] /\ UNCHANGED m
  BY <1>2 DEF TrimStep
<1> HIDE DEF n
<1>4. /\ trim'.left = trim.left - n /\ trim'.done = trim.done + n
      /\ trim' \in [left : Nat, done : Nat, size : Nat] /\ trim'.left + trim'.done = trim.left + trim.done
      /\ trim'.size = trim.size
  <2> DEFINE L == trim.left
             D == trim.done
             z == trim.size
  <2>1. L \in Nat /\ D \in Nat /\ z \in Nat /\ n <= L
    BY <1>2
  <2>2. trim' = [left |-> L - n, done |-> D + n, size |-> z]
    BY <1>2, <1>3
  <2> HIDE DEF L, D, z
  <2>3. L - n \in Nat /\ D + n \in Nat /\ (L - n) + (D + n) = L + D
    BY <2>1, <1>2
  <2> QED BY <2>1, <2>2, <2>3 DEF L, D, z
<1>5. FileSize' = FileSize
  BY <1>1 DEF FileSize
<1>6. Trimming'
  BY <1>1, <1>3, <1>4, <1>5 DEF MInv, Trimming
<1>7. MTypeOK'
  BY <1>1, <1>3, <1>4 DEF MInv, MTypeOK
<1>8. Good(m', FileSize', head', held', alive')
  BY <1>1, <1>3, <1>5 DEF MInv
<1>9. IteratorsStayInList'
  BY <1>1, <1>3 DEF MInv, IteratorsStayInList
<1>10. (mode \in {"read", "rw"} => file \in Seq(Byte) /\ head <= FileSize)'
  BY <1>1, <1>5 DEF MInv
<1>11. /\ (m.users = 0 <=> mode = "closed")' /\ (Live(m) # {} => mode = "rw")'
       /\ \A d \in DataIds : held'[d] <= MaxHeld
  BY <1>1, <1>3 DEF MInv
<1> QED BY <1>6, <1>7, <1>8, <1>9, <1>10, <1>11 DEF MInv

LEMMA TrimEndKeeps ==
    ASSUME MInv, CountsFit, TrimEnd
    PROVE  MInv'
<1> DEFINE t == PureClear(m)
<1>1. /\ trim # NULL /\ trim.left = 0 /\ m' = t /\ it' = NULL /\ trim' = NULL
      /\ UNCHANGED << mode, remove, alive, head, held, out >>
  BY DEF TrimEnd, AfterClear
<1>3. /\ alive /\ out = NULL /\ mode \in {"read", "rw"}
      /\ trim.size = FileSize /\ trim.left + trim.done <= FileSize - head
      /\ \A d \in DataIds : held[d] > 0 =>
            m.reg[d].off + m.reg[d].len <= FileSize - (trim.left + trim.done)
      /\ trim \in [left : Nat, done : Nat, size : Nat]
  BY <1>1 DEF MInv, Trimming, MTypeOK
<1>4. file \in Seq(Byte) /\ head \in Nat /\ head <= FileSize /\ FileSize = Len(file)
      /\ FileSize \in Nat
  BY <1>3, LenProperties DEF MInv, MTypeOK, FileSize
<1>5. trim.left + trim.done = trim.done /\ trim.done \in Nat /\ trim.done <= FileSize - head
  BY <1>1, <1>3
<1> DEFINE c == FileSize - trim.done
<1>2. PICK ok \in {mode = "rw"} \cup (IF MayFail THEN {FALSE} ELSE {}) :
          file' = IF ok THEN SubSeq(file, 1, c) ELSE file
  <2>1. trim.done <= FileSize /\ c <= FileSize
    BY <1>4, <1>5
  <2>2. Truncate(c)
    BY <1>1, <1>3, <2>1 DEF TrimEnd
  <2> HIDE DEF c
  <2> QED BY <2>1, <2>2 DEF Truncate
<1> HIDE DEF c
<1>6. file' \in Seq(Byte) /\ (FileSize' = FileSize \/ FileSize' = FileSize - trim.done)
  <2>1. CASE file' = file
    BY <2>1, <1>4 DEF FileSize
  <2>2. CASE file' = SubSeq(file, 1, c)
    <3>1. c \in Nat /\ c <= Len(file)
      BY <1>4, <1>5 DEF c
    <3>2. \A i \in 1..c : i \in 1..Len(file) /\ file[i] \in Byte
      BY <3>1, <1>4, ElementOfSeq
    <3>3. SubSeq(file, 1, c) \in Seq(Byte) /\ Len(SubSeq(file, 1, c)) = IF 1 <= c THEN c - 1 + 1 ELSE 0
      BY <3>1, <3>2, <1>4, SubSeqProperties
    <3>4. Len(SubSeq(file, 1, c)) = c
      BY <3>1, <3>3
    <3> QED BY <2>2, <3>3, <3>4 DEF FileSize, c
  <2> QED BY <2>1, <2>2, <1>2
<1>7. \A d \in DataIds : held[d] > 0 => m.reg[d].off + m.reg[d].len <= FileSize'
  <2>1. ASSUME NEW d \in DataIds, held[d] > 0 PROVE m.reg[d].off + m.reg[d].len <= FileSize'
    <3>1. m.reg[d].off + m.reg[d].len <= FileSize - trim.done
      BY <2>1, <1>3, <1>5
    <3>2. m.reg[d].off + m.reg[d].len <= FileSize
      BY <2>1, HeldLive
    <3> QED BY <3>1, <3>2, <1>6
  <2> QED BY <2>1
<1>8. /\ PagesPut(m, t) /\ m \in Store /\ Placed(m, FileSize) /\ held \in [DataIds -> Nat]
      /\ Live(t) \subseteq Live(m)
  BY ClearFacts
<1> HIDE DEF t
<1>9. t \in Store /\ Counted(t, held, alive)
  BY <1>8 DEF PagesPut
<1>10. Good(t, FileSize', head, held, alive)
  BY <1>7, <1>8, <1>9, ClearedGood
<1>11. head' \in Nat /\ head' <= FileSize'
  BY <1>1, <1>4, <1>5, <1>6
<1>12. Live(m') # {} => mode = "rw"
  BY <1>1, <1>8 DEF MInv
<1>13. Calling
  BY <1>1, <1>3, <1>6, <1>10, <1>11, <1>12 DEF Calling
<1> QED BY <1>3, <1>13, CallKeeps

-----------------------------------------------------------------------------
(* The invariant.                                                          *)

LEMMA MInvStarts ==
    ASSUME Init
    PROVE  MInv
<1>1. /\ file = NULL /\ mode = "closed" /\ remove = FALSE /\ alive = FALSE /\ head = 0
      /\ m = EmptyStore /\ held = [d \in DataIds |-> 0] /\ it = NULL /\ trim = NULL /\ out = NULL
  BY DEF Init
<1>2. /\ m \in Store /\ m.reg = [d \in DataIds |-> NoMapping] /\ m.data_tree = {}
      /\ m.list = << >> /\ m.users = 0 /\ m.broken = FALSE
  BY <1>1 DEF EmptyStore, Store, Mapping, NoMapping
<1>3. Live(m) = {} /\ Len(m.list) = 0 /\ Shows(m) = {}
  BY <1>2 DEF Live, Shows, NoMapping
<1>4. Good(m, FileSize, head, held, alive)
  <2>1. Counted(m, Refs(m, held), alive)
    <3>1. Cardinality(Live(m)) = 0
      BY <1>3, FS_EmptySet
    <3>2. \A d \in DataIds : Refs(m, held)[d] = 0
      BY <1>1, <1>3 DEF Refs
    <3> QED BY <3>1, <3>2, <1>1, <1>2 DEF Counted, NoMapping
  <2>2. Tabled(m) /\ Placed(m, FileSize)
    BY <1>2, <1>3 DEF Tabled, Placed, NoMapping
  <2>3. Viewing(m, head) /\ Latest(m, {})
    BY <1>2, <1>3 DEF Viewing, Windowed, Gapless, Starting, Latest
  <2> QED BY <2>1, <2>2, <2>3, <1>2 DEF Good
<1>5. MTypeOK
  BY <1>1, <1>2 DEF MTypeOK
<1>6. \A d \in DataIds : held[d] <= MaxHeld
  BY <1>1, MmapAssumption
<1> QED BY <1>1, <1>2, <1>3, <1>4, <1>5, <1>6 DEF MInv, IteratorsStayInList, Trimming

LEMMA MInvStays ==
    ASSUME MInv, UNCHANGED vars
    PROVE  MInv'
<1>1. UNCHANGED << file, mode, remove, alive, head, m, held, it, trim, out >>
  BY DEF vars
<1>2. FileSize' = FileSize
  BY <1>1 DEF FileSize
<1>3. MTypeOK' /\ IteratorsStayInList' /\ Trimming'
  BY <1>1, <1>2 DEF MInv, MTypeOK, IteratorsStayInList, Trimming
<1>4. Good(m', FileSize', head', held', alive')
  BY <1>1, <1>2 DEF MInv
<1> QED BY <1>1, <1>2, <1>3, <1>4 DEF MInv

LEMMA MInvKept ==
    ASSUME MInv, Next, UsualClient, CountsFit
    PROVE  MInv'
<1>0. MaxFile \in Nat /\ \A n \in 1..MaxFile : n \in Nat /\ n > 0
  BY MmapAssumption
<1>00. \A ps \in Inputs : Gather(ps, Len(ps)) \in Seq(Byte)
  <2>1. \A ps \in Inputs : Len(ps) \in Nat
    BY MmapAssumption, LenProperties
  <2> QED BY <2>1, GatherBytes
<1>1. CASE \E how \in {"read", "append", "overwrite"}, rm \in BOOLEAN : Open(how, rm)
  BY <1>1, OpenKeeps
<1>2. CASE \E rm \in BOOLEAN : SetCloseAction(rm)
  BY <1>2, SetCloseActionKeeps
<1>3. CASE GetEndIterator
  BY <1>3, GetEndIteratorKeeps
<1>4. ASSUME NEW fail \in Faults,
             \/ GetIterator(fail) \/ NextIterator(fail) \/ PrevIterator(fail)
             \/ TrimStep(fail)
      PROVE  MInv'
  <2>1. CASE GetIterator(fail)
    BY <2>1, GetIteratorKeeps
  <2>2. CASE NextIterator(fail)
    BY <2>2, NextIteratorKeeps
  <2>3. CASE PrevIterator(fail)
    BY <2>3, PrevIteratorKeeps
  <2>4. CASE TrimStep(fail)
    BY <2>4, TrimStepKeeps
  <2> QED BY <1>4, <2>1, <2>2, <2>3, <2>4
<1>11. ASSUME NEW fails \in WalkFaults,
              \/ \E n \in 1..MaxFile : ReadData(n, fails)
              \/ \E ps \in Inputs : OverwriteData(Gather(ps, Len(ps)), fails)
       PROVE  MInv'
  <2>1. CASE \E n \in 1..MaxFile : ReadData(n, fails)
    BY <2>1, <1>0, ReadDataKeeps
  <2>2. CASE \E ps \in Inputs : OverwriteData(Gather(ps, Len(ps)), fails)
    BY <2>2, <1>00, OverwriteDataKeeps
  <2> QED BY <1>11, <2>1, <2>2
<1>5. ASSUME NEW n \in 1..MaxFile,
             \/ Extend(n) \/ Reserve(n) \/ Rewind(n) \/ Seek(n) \/ TrimBegin(n)
             \/ \E ps \in Inputs : WriteBuffer(ps, n)
      PROVE  MInv'
  <2>1. CASE Extend(n)
    BY <2>1, <1>0, ExtendKeeps
  <2>2. CASE Reserve(n)
    BY <2>2, <1>0, ReserveKeeps
  <2>3. CASE Rewind(n)
    BY <2>3, <1>0, RewindKeeps
  <2>4. CASE Seek(n)
    BY <2>4, <1>0, SeekKeeps
  <2>5. CASE TrimBegin(n)
    BY <2>5, <1>0, TrimBeginKeeps
  <2>6. CASE \E ps \in Inputs : WriteBuffer(ps, n)
    BY <2>6, <1>0, WriteBufferKeeps
  <2> QED BY <1>5, <2>1, <2>2, <2>3, <2>4, <2>5, <2>6
<1>6. CASE \E ps \in Inputs : WriteData(Gather(ps, Len(ps)))
  BY <1>6, <1>00, WriteDataKeeps
<1>7. CASE TrimEnd
  BY <1>7, TrimEndKeeps
<1>8. CASE Clear
  BY <1>8, ClearKeeps
<1>9. CASE Destroy
  BY <1>9, DestroyKeeps
<1>10. CASE \E d \in DataIds : Share(d) \/ Drop(d)
  BY <1>10, ShareKeeps, DropKeeps
<1> QED BY <1>1, <1>2, <1>3, <1>4, <1>5, <1>6, <1>7, <1>8, <1>9, <1>10, <1>11 DEF Next

\* The invariant holds in every state of the buffer, whichever system calls and
\* allocations fail, fstat in clear and destroy only.
THEOREM MmapInvariant ==
    ASSUME UsualClient, CountsFit
    PROVE  Spec => []MInv
<1>1. Init => MInv
  BY MInvStarts
<1>2. MInv /\ [Next]_vars => MInv'
  BY MInvKept, MInvStays
<1> QED BY <1>1, <1>2, PTL DEF Spec

-----------------------------------------------------------------------------
(* What the invariant says.                                                *)

\* The pages of the list on d are one or none.
LEMMA PagesOn ==
    ASSUME MInv, NEW d \in DataIds
    PROVE  Cardinality({i \in 1..Len(m.list) : m.list[i].data = d})
              = IF d \in Shows(m) THEN 1 ELSE 0
<1> DEFINE I == {i \in 1..Len(m.list) : m.list[i].data = d}
<1>1. m \in Store /\ Windowed(m) /\ Gapless(m)
  BY DEF MInv, Good, Viewing
<1>2. CASE d \in Shows(m)
  <2>1. PICK j \in 1..Len(m.list) : m.list[j].data = d
    BY <1>2 DEF Shows
  <2>2. \A i \in I : i = j
    BY <1>1, <2>1, OnePageEach
  <2>3. I = {j}
    BY <2>1, <2>2
  <2> QED BY <1>2, <2>3, FS_Singleton
<1>3. CASE d \notin Shows(m)
  <2>1. I = {}
    BY <1>3 DEF Shows
  <2> QED BY <1>3, <2>1, FS_EmptySet
<1> QED BY <1>2, <1>3

LEMMA CountsFollow ==
    ASSUME MInv
    PROVE  UseCountsExact
<1>1. Counted(m, Refs(m, held), alive) /\ held \in [DataIds -> Nat]
      /\ (m.users = 0 <=> mode = "closed")
  BY DEF MInv, Good, MTypeOK
<1>2. ASSUME NEW d \in DataIds
      PROVE  LET n == Cardinality({i \in 1..Len(m.list) : m.list[i].data = d}) + held[d]
             IN  m.reg[d].use = n /\ (m.reg[d].live <=> n > 0)
  <2> DEFINE c == Cardinality({i \in 1..Len(m.list) : m.list[i].data = d})
  <2>1. c = IF d \in Shows(m) THEN 1 ELSE 0
    BY PagesOn
  <2>2. Refs(m, held)[d] = held[d] + (IF d \in Shows(m) THEN 1 ELSE 0) /\ held[d] \in Nat
    BY <1>1 DEF Refs
  <2> HIDE DEF c
  <2>3. Refs(m, held)[d] = c + held[d]
    BY <2>1, <2>2
  <2>4. m.reg[d].use = c + held[d] /\ (m.reg[d].live <=> c + held[d] > 0)
    BY <1>1, <2>3 DEF Counted
  <2> QED BY <2>4 DEF c
<1>3. m.users = Cardinality({d \in DataIds : m.reg[d].live}) + (IF alive THEN 1 ELSE 0)
      /\ ~m.broken
  BY <1>1 DEF Counted, Live
<1> QED BY <1>1, <1>2, <1>3 DEF UseCountsExact

LEMMA PagesFollow ==
    ASSUME MInv
    PROVE  PagesShowTheFile
<1>1. m \in Store /\ Windowed(m) /\ Gapless(m) /\ Starting(m, head) /\ Placed(m, FileSize)
  BY DEF MInv, Good, Viewing
<1>2. ASSUME NEW i \in 1..Len(m.list)
      PROVE  LET p == m.list[i]
                 r == m.reg[p.data]
             IN  /\ r.live /\ p.len > 0 /\ p.base + p.len <= r.len
                 /\ r.off = BlockOf(r.off) /\ r.len <= Block
                 /\ i > 1 => StartOf(m, p) = EndOf(m, m.list[i - 1])
  <2>1. m.reg[m.list[i].data].live /\ m.list[i].len > 0
        /\ m.list[i].base + m.list[i].len = m.reg[m.list[i].data].len
    BY <1>1 DEF Windowed
  <2>2. m.list[i].data \in Live(m) /\ m.list[i].base \in Nat /\ m.list[i].len \in Nat
    BY <1>1, <2>1, PlaceFacts DEF Live
  <2>3. m.list[i].base + m.list[i].len <= m.reg[m.list[i].data].len
    <3>1. m.list[i].base + m.list[i].len \in Nat
      BY <2>2
    <3> QED BY <3>1, <2>1
  <2>4. ASSUME i > 1 PROVE StartOf(m, m.list[i]) = EndOf(m, m.list[i - 1])
    <3>1. i - 1 \in 1..Len(m.list) /\ i = (i - 1) + 1
      BY <2>4, <1>1, StoreFacts
    <3> QED BY <3>1, <1>1 DEF Gapless
  <2> QED BY <2>1, <2>2, <2>3, <2>4, <1>1 DEF Placed
<1>3. m.list # << >> => head <= StartOf(m, m.list[1])
  BY <1>1 DEF Starting
<1>4. \A d \in DataIds : m.reg[d].live => m.reg[d].off + m.reg[d].len <= FileSize
  BY <1>1 DEF Placed, Live
<1> QED BY <1>2, <1>3, <1>4 DEF PagesShowTheFile

\* What read_data returns, from what its loop leaves.
LEMMA ReadRight ==
    ASSUME MInv, UsualClient, CountsFit, NEW len \in 1..MaxFile, NEW fails \in WalkFaults,
           ReadData(len, fails)
    PROVE  LET n == Lower(out'.len, DataSize)
           IN  /\ Len(out'.dat) <= n
               /\ n > 0 => out'.dat = SubSeq(file, head + 1, head + Len(out'.dat))
               /\ NoFailure(out'.failed) => Len(out'.dat) = n
<1> DEFINE w == Walk(len, fails, Nat)
           c == Len(w.dat)
<1>1. /\ Called /\ MayMap /\ FromHead /\ m' = w.s
      /\ out' = [len |-> len, dat |-> w.dat, failed |-> \E k \in DOMAIN fails : fails[k] # "none"]
  BY DEF ReadData
<1>2. len \in Nat /\ len <= MaxFile /\ MaxFile \in Nat
  BY MmapAssumption
<1>3. Reading(len, fails, Nat, w, MaxFile + 1)
  BY <1>1, <1>2, WalkReads
<1> HIDE DEF w
<1>4. /\ w \in LoopStates /\ Ready(w.s) /\ w.left + c = len /\ ~w.cut
      /\ w.dat # << >> => /\ Setting /\ w.s.list # << >> /\ head + c <= FileSize
                          /\ w.dat = SubSeq(file, head + 1, head + c)
      /\ w.i = 0 /\ w.left # 0 /\ Flawless(w.s, fails) => head + c = FileSize
      /\ w.i = 0 \/ w.left = 0 \/ c >= MaxFile + 1
  BY <1>3 DEF Reading
<1>5. w.left \in Nat /\ w.dat \in Seq(Byte) /\ c \in Nat /\ w.s \in Store /\ (c # 0 <=> w.dat # << >>)
  BY <1>4, LenProperties, EmptySeq DEF LoopStates
<1>6. DataSize \in Nat /\ head \in Nat
  BY DataSizeFacts DEF MInv, MTypeOK
<1>7. mode \in {"read", "rw"} => DataSize = FileSize - head /\ FileSize \in Nat /\ file \in Seq(Byte)
  BY LenProperties DEF DataSize, MInv, FileSize
<1>8. w.dat # << >> => mode = "rw"
  <2>1. ASSUME w.dat # << >> PROVE mode = "rw"
    <3>1. w.s.list # << >> /\ Windowed(w.s) /\ Serving(w.s)
      BY <1>4, <2>1 DEF Ready, Fine, Good, Viewing
    <3>2. 1 \in 1..Len(w.s.list)
      BY <3>1, <1>5, StoreFacts
    <3>3. w.s.list[1].data \in Live(w.s)
      BY <3>1, <3>2, <1>5, PlaceFacts DEF Windowed, Live
    <3> QED BY <3>1, <3>3 DEF Serving
  <2> QED BY <2>1
<1> HIDE DEF c
<1>9. c <= len /\ c <= DataSize
  <2>1. c <= len
    BY <1>2, <1>4, <1>5
  <2>2. CASE c = 0
    BY <2>1, <2>2, <1>6
  <2>3. CASE c # 0
    BY <2>1, <2>3, <1>4, <1>5, <1>6, <1>7, <1>8
  <2> QED BY <2>1, <2>2, <2>3
<1> DEFINE n == Lower(len, DataSize)
<1>10. c <= n /\ n \in Nat /\ (n = len \/ n = DataSize) /\ n <= DataSize /\ n <= len
  BY <1>2, <1>6, <1>9 DEF Lower
<1> HIDE DEF n
<1>11. ASSUME n > 0 PROVE w.dat = SubSeq(file, head + 1, head + c)
  <2>1. CASE w.dat # << >>
    BY <2>1, <1>4
  <2>2. CASE w.dat = << >>
    <3>1. mode \in {"read", "rw"}
      BY <1>10, <1>11, <1>6 DEF DataSize
    <3>2. file \in Seq(Byte) /\ c = 0
      BY <3>1, <1>7, <2>2, <1>5
    <3>3. head + 1 \in Int /\ head + 0 \in Int /\ (head + 1)..(head + 0) = {} /\ ~(head + 1 <= head + 0)
      BY <1>6
    <3>4. SubSeq(file, head + 1, head + 0) \in Seq(Byte) /\ Len(SubSeq(file, head + 1, head + 0)) = 0
      BY <3>2, <3>3, SubSeqProperties
    <3>5. SubSeq(file, head + 1, head + 0) = << >>
      BY <3>4, EmptySeq
    <3> QED BY <3>2, <3>5, <2>2
  <2> QED BY <2>1, <2>2
<1>12. ASSUME NoFailure(out'.failed) PROVE c = n
  <2>1. Flawless(w.s, fails) /\ mode = "rw"
    <3>1. DOMAIN fails = 0..LastBlock
      BY DEF WalkFaults
    <3> QED BY <1>1, <1>12, <3>1 DEF NoFailure, Flawless
  <2>2. CASE w.left = 0
    BY <2>2, <1>2, <1>4, <1>5, <1>10
  <2>3. CASE w.left # 0
    <3>1. ~(c >= MaxFile + 1)
      BY <1>2, <1>5, <1>9
    <3>2. head + c = FileSize
      BY <3>1, <2>1, <2>3, <1>4
    <3>3. c = DataSize
      BY <3>2, <2>1, <1>5, <1>6, <1>7
    <3> QED BY <3>3, <1>10, <1>6, <1>5
  <2> QED BY <2>2, <2>3
<1>13. out'.len = len /\ out'.dat = w.dat
  BY <1>1
<1> QED BY <1>10, <1>11, <1>12, <1>13 DEF c, n

\* What the iterator functions arrive at.
LEMMA WalksRight ==
    ASSUME MInv, UsualClient, CountsFit, NEW fail \in Faults
    PROVE  /\ it' = END /\ NextIterator(fail) /\ NoFailure(fail # "none")
                => EndOf(m', m'.list[Len(m'.list)]) = FileSize
           /\ it' = END /\ PrevIterator(fail) /\ NoFailure(fail # "none")
                => m'.list = << >> \/ StartOf(m', m'.list[1]) = head
           /\ it = END /\ it' \notin {NULL, END} /\ PrevIterator(fail)
                => EndOf(m', it') = FileSize
<1>1. ASSUME it' = END, NextIterator(fail), NoFailure(fail # "none")
      PROVE  EndOf(m', m'.list[Len(m'.list)]) = FileSize
  <2> DEFINE i == IndexOf(it)
             R == NextOf(m, i, fail)
  <2>1. Called /\ MayMap /\ it \notin {NULL, END} /\ m' = R.s /\ it' = At(R.s, R.i)
    BY <1>1 DEF NextIterator, Arrive
  <2>2. Fine(m) /\ Serving(m) /\ Replaceable(m) /\ i \in 1..Len(m.list)
    BY <2>1, CalledFacts, UsualFacts, IndexFacts
  <2>3. Setting
    BY <2>1, <2>2, CalledFacts
  <2>4. Follows(m, i, fail, R)
    BY <2>2, <2>3, NextReaches, FaultsAre DEF Ready
  <2> HIDE DEF R, i
  <2>5. Ready(R.s) /\ Carries(m, R.s, 0)
    BY <2>4 DEF Follows
  <2>6. R.s \in Store
    BY <2>5 DEF Ready, Fine, Good
  <2>7. R.i = 0
    <3>1. SUFFICES ASSUME R.i # 0 PROVE FALSE
      OBVIOUS
    <3>2. R.i \in 1..Len(R.s.list)
      BY <3>1, <2>4 DEF Follows
    <3>3. R.s.list[R.i] \in Page
      BY <3>2, <2>6, StoreFacts
    <3> QED BY <3>1, <3>3, <2>1, <1>1, PageAssumption DEF At
  <2>8. Whole(R.s, fail)
    BY <2>1, <1>1 DEF NoFailure, Whole
  <2>9. EndOf(m, m.list[i]) = FileSize /\ i = Len(R.s.list)
    <3>1. i + 1 # 0
      BY <2>2
    <3> QED BY <3>1, <2>4, <2>7, <2>8 DEF Follows
  <2>10. EndOf(R.s, R.s.list[i + 0]) = EndOf(m, m.list[i]) /\ i + 0 = i
    BY <2>2, <2>5 DEF Carries
  <2> QED BY <2>1, <2>9, <2>10
<1>2. ASSUME PrevIterator(fail), it' # END \/ NoFailure(fail # "none")
      PROVE  /\ it' = END => m'.list = << >> \/ StartOf(m', m'.list[1]) = head
             /\ it = END /\ it' \notin {NULL, END} => EndOf(m', it') = FileSize
  <2> DEFINE i == IndexOf(it)
             R == PrevOf(m, i, fail)
  <2>1. /\ Called /\ MayMap /\ it # NULL /\ (it = END => ToEnd) /\ m' = R.s
        /\ it' = At(R.s, R.i)
    BY <1>2 DEF PrevIterator, Arrive
  <2>2. Fine(m) /\ Serving(m) /\ Replaceable(m) /\ i \in 0..Len(m.list) /\ (it = END => i = 0)
    BY <2>1, CalledFacts, UsualFacts, IndexFacts
  <2>3. Setting
    <3>1. SUFFICES ASSUME mode = "failed", m.list = << >> PROVE FALSE
      BY <2>1, CalledFacts
    <3>2. i = 0
      BY <3>1, <2>2
    <3>3. R = [s |-> m, i |-> 0]
      BY <3>1, <3>2, FailedMapsNothing
    <3>4. it' = END
      BY <3>3, <2>1 DEF At
    <3> QED BY <3>1, <3>4, <1>2 DEF NoFailure
  <2>4. Precedes(m, i, fail, R)
    BY <2>2, <2>3, PrevReaches, FaultsAre DEF Ready
  <2> HIDE DEF R, i
  <2>5. R.s \in Store /\ R.i \in 0..Len(R.s.list) /\ Len(R.s.list) \in Nat
    BY <2>4, StoreFacts DEF Precedes, Ready, Fine, Good
  <2>6. R.i = 0 <=> it' = END
    <3>1. ASSUME R.i # 0 PROVE it' # END
      <4>1. R.i \in 1..Len(R.s.list)
        BY <3>1, <2>5
      <4>2. R.s.list[R.i] \in Page
        BY <4>1, <2>5, StoreFacts
      <4> QED BY <3>1, <4>2, <2>1, PageAssumption DEF At
    <3> QED BY <3>1, <2>1 DEF At
  <2>7. ASSUME it' = END PROVE m'.list = << >> \/ StartOf(m', m'.list[1]) = head
    <3>1. Whole(R.s, fail)
      BY <2>1, <2>7, <1>2 DEF NoFailure, Whole
    <3> QED BY <3>1, <2>1, <2>4, <2>6, <2>7 DEF Precedes
  <2>8. ASSUME it = END, it' \notin {NULL, END} PROVE EndOf(m', it') = FileSize
    <3>1. i = 0 /\ R.i # 0 /\ it' = R.s.list[R.i]
      BY <2>1, <2>2, <2>6, <2>8 DEF At
    <3>2. CASE R.s = m /\ m.list # << >> /\ R.i = Len(m.list)
      <4>1. EndOf(m, m.list[Len(m.list)]) = FileSize
        BY <3>2, <2>1, <2>8 DEF ToEnd, UsualClient
      <4> QED BY <4>1, <3>1, <3>2, <2>1
    <3>3. CASE EndOf(R.s, R.s.list[R.i]) = FileSize
      BY <3>1, <3>3, <2>1
    <3> QED BY <3>1, <3>2, <3>3, <2>4 DEF Precedes
  <2> QED BY <2>7, <2>8
<1> QED BY <1>1, <1>2

\* No other function returns what it read.
LEMMA OnlyReadDataReads ==
    ASSUME MInv, Next, out' # NULL
    PROVE  \E len \in 1..MaxFile, fails \in WalkFaults : ReadData(len, fails)
<1>1. trim # NULL => out = NULL
  BY DEF MInv, Trimming
<1>2. ASSUME NEW fail \in Faults PROVE ~TrimStep(fail)
  BY <1>1 DEF TrimStep
<1>3. ~TrimEnd
  BY <1>1 DEF TrimEnd
<1>4. \A how \in {"read", "append", "overwrite"}, rm \in BOOLEAN : ~Open(how, rm)
  BY DEF Open
<1>5. \A rm \in BOOLEAN : ~SetCloseAction(rm)
  BY DEF SetCloseAction
<1>6. ~GetEndIterator /\ \A fail \in Faults :
         ~GetIterator(fail) /\ ~NextIterator(fail) /\ ~PrevIterator(fail)
  BY DEF GetEndIterator, GetIterator, NextIterator, PrevIterator, Arrive
<1>7. \A fails \in WalkFaults : \A ps \in Inputs : ~OverwriteData(Gather(ps, Len(ps)), fails)
  BY DEF OverwriteData
<1>8. \A n \in 1..MaxFile :
         /\ ~Extend(n) /\ ~Reserve(n) /\ ~Rewind(n) /\ ~Seek(n) /\ ~TrimBegin(n)
         /\ \A ps \in Inputs : ~WriteBuffer(ps, n)
  <2>1. \A n \in 1..MaxFile : ~Extend(n) /\ ~Reserve(n)
    BY DEF Extend, Reserve, FileOnly, Abort
  <2>2. \A n \in 1..MaxFile : ~Rewind(n) /\ ~Seek(n) /\ ~TrimBegin(n)
    BY DEF Rewind, Seek, TrimBegin, MoveHead
  <2>3. \A t : ~Write(t)
    BY DEF Write, FileOnly, Abort
  <2> QED BY <2>1, <2>2, <2>3 DEF WriteBuffer
<1>9. \A ps \in Inputs : ~WriteData(Gather(ps, Len(ps)))
  BY DEF WriteData, Write, FileOnly, Abort
<1>10. ~Clear /\ ~Destroy /\ \A d \in DataIds : ~Share(d) /\ ~Drop(d)
  BY DEF Clear, MoveHead, Destroy, Share, Drop
<1> QED BY <1>2, <1>3, <1>4, <1>5, <1>6, <1>7, <1>8, <1>9, <1>10 DEF Next

-----------------------------------------------------------------------------
(* The theorems.                                                           *)

\* Every variable keeps its type.
THEOREM MmapTypes ==
    ASSUME UsualClient, CountsFit
    PROVE  Spec => []MTypeOK
<1>1. MInv => MTypeOK
  BY DEF MInv
<1> QED BY <1>1, MmapInvariant, PTL

\* The page list is a gapless run of the file: mapping block by block in both
\* directions, and anew when the file has grown, never leaves a gap, an overlap, or a
\* page beyond the end of the file.
THEOREM PagesAreTheFile ==
    ASSUME UsualClient, CountsFit
    PROVE  Spec => []PagesShowTheFile
<1>1. MInv => PagesShowTheFile
  BY PagesFollow
<1> QED BY <1>1, MmapInvariant, PTL

\* The use counts of the mappings and of the allocator are exact: pb_mmap_data_put
\* and pb_mmap_allocator_put free when the last reference goes, and not before.
THEOREM MappingsCounted ==
    ASSUME UsualClient, CountsFit
    PROVE  Spec => []UseCountsExact
<1>1. MInv => UseCountsExact
  BY CountsFollow
<1> QED BY <1>1, MmapInvariant, PTL

\* The table of mappings has what is alive and not obsolete, one for each block.
THEOREM TableStaysCurrent ==
    ASSUME UsualClient, CountsFit
    PROVE  Spec => []TableIsCurrent
<1>1. MInv => TableIsCurrent
  BY DEF MInv, Good, Tabled, TableIsCurrent
<1> QED BY <1>1, MmapInvariant, PTL

\* A valid iterator stands on a page of the list: whatever takes pages out of it
\* raises the data revision.
THEOREM IteratorsStay ==
    ASSUME UsualClient, CountsFit
    PROVE  Spec => []IteratorsStayInList
<1>1. MInv => IteratorsStayInList
  BY DEF MInv
<1> QED BY <1>1, MmapInvariant, PTL

\* read_data returns the bytes of the file from the head on, and all of them unless
\* something fails; fstat does not.
THEOREM ReadingIsRight ==
    ASSUME UsualClient, CountsFit
    PROVE  Spec => ReadsTheFile
<1> DEFINE A == out' # NULL =>
                   LET n == Lower(out'.len, DataSize)
                   IN  /\ Len(out'.dat) <= n
                       /\ n > 0 => out'.dat = SubSeq(file, head + 1, head + Len(out'.dat))
                       /\ NoFailure(out'.failed) => Len(out'.dat) = n
<1>1. MInv /\ [Next]_vars => [A]_vars
  <2> SUFFICES ASSUME MInv, Next, ~ UNCHANGED vars, out' # NULL PROVE A
    OBVIOUS
  <2>1. PICK len \in 1..MaxFile, fails \in WalkFaults : ReadData(len, fails)
    BY OnlyReadDataReads
  <2> QED BY <2>1, ReadRight
<1> HIDE DEF A
<1>2. Spec => [][A]_vars
  BY <1>1, MmapInvariant, PTL DEF Spec
<1> QED BY <1>2 DEF A, ReadsTheFile

\* An iterator arrives at the end only when the pages reach as far as the data does.
THEOREM WalkingIsComplete ==
    ASSUME UsualClient, CountsFit
    PROVE  Spec => WalksAreComplete
<1> DEFINE A == \A fail \in Faults :
          /\ it' = END /\ NextIterator(fail) /\ NoFailure(fail # "none")
                => EndOf(m', m'.list[Len(m'.list)]) = FileSize
          /\ it' = END /\ PrevIterator(fail) /\ NoFailure(fail # "none")
                => m'.list = << >> \/ StartOf(m', m'.list[1]) = head
          /\ it = END /\ it' \notin {NULL, END} /\ PrevIterator(fail)
                => EndOf(m', it') = FileSize
<1>1. MInv => A
  BY WalksRight
<1> HIDE DEF A
<1>2. MInv /\ [Next]_vars => [A]_vars
  BY <1>1
<1>3. Spec => [][A]_vars
  BY <1>2, MmapInvariant, PTL DEF Spec
<1> QED BY <1>3 DEF A, WalksAreComplete

=============================================================================
