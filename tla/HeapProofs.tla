----------------------------- MODULE HeapProofs -----------------------------
(***************************************************************************)
(* What the operators of PageHeap do to a well-formed heap.                *)
(*                                                                         *)
(* The first part says of each operator on data and pages which fields it  *)
(* changes and to what.  The second part defines a well-formed heap and    *)
(* shows that each step of a list operation leads from one to another.     *)
(***************************************************************************)
EXTENDS PageHeap, FiniteSetTheorems, SequenceTheorems, TLAPS

RegionIs(r, live, owned, use, mem) ==
    r.live = live /\ r.owned = owned /\ r.use = use /\ r.mem = mem

PageIs(r, live, d, base, len, own) ==
    r.live = live /\ r.data = d /\ r.base = base /\ r.len = len /\ r.own = own

OnlyRegion(g, h, d) ==
    /\ \A e \in DataIds \ {d} : g.reg[e] = h.reg[e]
    /\ g.page = h.page /\ g.nxt = h.nxt /\ g.prv = h.prv

OnlyPage(g, h, p) ==
    /\ \A q \in PageIds \ {p} : g.page[q] = h.page[q]
    /\ g.reg = h.reg /\ g.nxt = h.nxt /\ g.prv = h.prv

LEMMA RegionUse ==
    ASSUME NEW r \in Region, NEW u \in Nat
    PROVE  /\ [r EXCEPT !.use = u] \in Region
           /\ RegionIs([r EXCEPT !.use = u], r.live, r.owned, u, r.mem)
  BY DEF Region, RegionIs

LEMMA RegionAt ==
    ASSUME NEW h \in Heap, NEW d \in DataIds, NEW r \in Region,
           NEW g, g = [h EXCEPT !.reg[d] = r]
    PROVE  g \in Heap /\ g.reg[d] = r /\ OnlyRegion(g, h, d)
  BY DEF Heap, OnlyRegion

LEMMA PageAt ==
    ASSUME NEW h \in Heap, NEW p \in PageIds, NEW r \in PageRec,
           NEW g, g = [h EXCEPT !.page[p] = r]
    PROVE  g \in Heap /\ g.page[p] = r /\ OnlyPage(g, h, p)
  BY DEF Heap, OnlyPage

Got(g, h, d) ==
    /\ g \in Heap
    /\ RegionIs(g.reg[d], h.reg[d].live, h.reg[d].owned, h.reg[d].use + 1, h.reg[d].mem)
    /\ OnlyRegion(g, h, d)

LEMMA DataGetForm ==
    ASSUME NEW h \in Heap, NEW d \in DataIds, h.reg[d].use + 1 # UseCountMod,
           NEW g, g = DataGet(h, d)
    PROVE  Got(g, h, d)
<1> DEFINE r == [h.reg[d] EXCEPT !.use = h.reg[d].use + 1]
<1>1. h.reg[d] \in Region /\ h.reg[d].use + 1 \in Nat
  BY DEF Heap, Region
<1>2. r \in Region
      /\ RegionIs(r, h.reg[d].live, h.reg[d].owned, h.reg[d].use + 1, h.reg[d].mem)
  BY <1>1, RegionUse
<1>3. g = [h EXCEPT !.reg[d] = r]
  BY <1>1 DEF DataGet, CountUp, Region
<1> HIDE DEF r
<1> QED
  BY <1>2, <1>3, RegionAt DEF Got

PutBack(g, h, d) ==
    /\ g \in Heap
    /\ h.reg[d].use = 1 => g.reg[d] = NoRegion
    /\ h.reg[d].use # 1 =>
          RegionIs(g.reg[d], h.reg[d].live, h.reg[d].owned, h.reg[d].use - 1, h.reg[d].mem)
    /\ OnlyRegion(g, h, d)

LEMMA DataPutForm ==
    ASSUME NEW h \in Heap, NEW d \in DataIds, h.reg[d].use # 0,
           NEW g, g = DataPut(h, d)
    PROVE  PutBack(g, h, d)
<1> DEFINE r == IF h.reg[d].use = 1 THEN NoRegion
                ELSE [h.reg[d] EXCEPT !.use = h.reg[d].use - 1]
<1>1. h.reg[d] \in Region /\ h.reg[d].use \in Nat
  BY DEF Heap, Region
<1>2. g = [h EXCEPT !.reg[d] = r]
  BY <1>1 DEF DataPut, CountDown
<1>3. NoRegion \in Region
  BY DEF Region, NoRegion
<1>4. /\ r \in Region
      /\ h.reg[d].use = 1 => r = NoRegion
      /\ h.reg[d].use # 1 =>
            RegionIs(r, h.reg[d].live, h.reg[d].owned, h.reg[d].use - 1, h.reg[d].mem)
  <2>1. CASE h.reg[d].use = 1
    BY <2>1, <1>3
  <2>2. CASE h.reg[d].use # 1
    <3>1. h.reg[d].use - 1 \in Nat
      BY <1>1
    <3> QED BY <2>2, <3>1, <1>1, RegionUse
  <2> QED BY <2>1, <2>2
<1> HIDE DEF r
<1>5. g \in Heap /\ g.reg[d] = r /\ OnlyRegion(g, h, d)
  BY <1>2, <1>4, RegionAt
<1> QED
  BY <1>4, <1>5 DEF PutBack

LEMMA DataCreateForm ==
    ASSUME NEW h \in Heap, NEW d \in DataIds, NEW owned \in BOOLEAN, NEW m \in Seq(Byte),
           NEW g, g = DataCreate(h, d, owned, m)
    PROVE  /\ g \in Heap
           /\ RegionIs(g.reg[d], TRUE, owned, 1, m)
           /\ OnlyRegion(g, h, d)
<1> DEFINE r == [live |-> TRUE, owned |-> owned, use |-> 1, mem |-> m]
<1>1. r \in Region /\ RegionIs(r, TRUE, owned, 1, m)
  BY DEF Region, RegionIs
<1>2. g = [h EXCEPT !.reg[d] = r]
  BY DEF DataCreate
<1> HIDE DEF r
<1> QED
  BY <1>1, <1>2, RegionAt

LEMMA PageWindow ==
    ASSUME NEW r \in PageRec, NEW d \in DataIds, NEW base \in Nat, NEW len \in Nat,
           NEW s, s = [r EXCEPT !.data = d, !.base = base, !.len = len]
    PROVE  s \in PageRec /\ PageIs(s, r.live, d, base, len, r.own)
  BY DEF PageRec, PageIs

PageCreated(g, h, p, d) ==
    /\ g \in Heap
    /\ RegionIs(g.reg[d], h.reg[d].live, h.reg[d].owned, h.reg[d].use + 1, h.reg[d].mem)
    /\ \A e \in DataIds \ {d} : g.reg[e] = h.reg[e]
    /\ PageIs(g.page[p], TRUE, d, 0, Len(h.reg[d].mem), NULL)
    /\ \A q \in PageIds \ {p} : g.page[q] = h.page[q]
    /\ g.nxt = h.nxt /\ g.prv = h.prv

\* pb_page_create: the new page shows the whole of d, which counts it.
LEMMA PageCreateForm ==
    ASSUME NEW h \in Heap, NEW p \in PageIds, NEW d \in DataIds,
           h.reg[d].use + 1 # UseCountMod,
           NEW g, g = PageCreate(h, p, d)
    PROVE  PageCreated(g, h, p, d)
<1> DEFINE r0 == [NoPage EXCEPT !.live = TRUE]
           h1 == [h EXCEPT !.page[p] = r0]
           r1 == [h1.page[p] EXCEPT !.data = d, !.base = 0, !.len = Len(h1.reg[d].mem)]
           h2 == [h1 EXCEPT !.page[p] = r1]
<1>1. r0 \in PageRec /\ PageIs(r0, TRUE, NULL, 0, 0, NULL)
  BY DEF PageRec, NoPage, PageIs
<1>2. h1 \in Heap /\ h1.page[p] = r0 /\ OnlyPage(h1, h, p)
  <2> HIDE DEF r0
  <2> QED BY <1>1, PageAt
<1>3. g = PageSetData(h1, p, d)
  BY DEF PageCreate
<1> HIDE DEF h1, r0
<1>4. g = DataGet(h2, d)
  BY <1>1, <1>2, <1>3 DEF PageSetData, PageIs
<1>5. h1.reg[d] = h.reg[d] /\ h.reg[d] \in Region /\ Len(h.reg[d].mem) \in Nat
  BY <1>2 DEF OnlyPage, Heap, Region
<1>6. r1 \in PageRec /\ PageIs(r1, TRUE, d, 0, Len(h.reg[d].mem), NULL)
  <2>1. r1 = [r0 EXCEPT !.data = d, !.base = 0, !.len = Len(h.reg[d].mem)]
    BY <1>2, <1>5
  <2>2. r1 \in PageRec /\ PageIs(r1, r0.live, d, 0, Len(h.reg[d].mem), r0.own)
    <3> HIDE DEF r1
    <3> QED BY <2>1, <1>1, <1>5, PageWindow
  <2> QED BY <2>2, <1>1 DEF PageIs
<1> HIDE DEF r1
<1>7. h2 \in Heap /\ h2.page[p] = r1 /\ OnlyPage(h2, h1, p)
  BY <1>2, <1>6, PageAt
<1> HIDE DEF h2
<1>8. h2.reg[d] = h.reg[d]
  BY <1>7, <1>5 DEF OnlyPage
<1>9. /\ g \in Heap
      /\ RegionIs(g.reg[d], h.reg[d].live, h.reg[d].owned, h.reg[d].use + 1, h.reg[d].mem)
      /\ OnlyRegion(g, h2, d)
  <2>1. Got(g, h2, d)
    BY <1>4, <1>7, <1>8, DataGetForm
  <2> QED BY <1>8, <2>1 DEF Got
<1> QED
  BY <1>2, <1>6, <1>7, <1>9 DEF OnlyPage, OnlyRegion, PageCreated

PageMade(g, h, p, d, owned, m) ==
    /\ g \in Heap
    /\ RegionIs(g.reg[d], TRUE, owned, 1, m)
    /\ \A e \in DataIds \ {d} : g.reg[e] = h.reg[e]
    /\ PageIs(g.page[p], TRUE, d, 0, Len(m), NULL)
    /\ \A q \in PageIds \ {p} : g.page[q] = h.page[q]
    /\ g.nxt = h.nxt /\ g.prv = h.prv

\* page_create and page_create_ref: a page and its own region, counted once.
LEMMA BufferPageCreateForm ==
    ASSUME NEW h \in Heap, NEW p \in PageIds, NEW d \in DataIds,
           NEW owned \in BOOLEAN, NEW m \in Seq(Byte),
           NEW g, g = BufferPageCreate(h, p, d, owned, m)
    PROVE  PageMade(g, h, p, d, owned, m)
<1> DEFINE h1 == DataCreate(h, d, owned, m)
           h2 == PageCreate(h1, p, d)
<1>1. h1 \in Heap /\ RegionIs(h1.reg[d], TRUE, owned, 1, m) /\ OnlyRegion(h1, h, d)
  BY DataCreateForm
<1>2. g = DataPut(h2, d)
  BY DEF BufferPageCreate
<1>5. h2 = PageCreate(h1, p, d)
  OBVIOUS
<1> HIDE DEF h1, h2
<1>3. /\ h2 \in Heap
      /\ RegionIs(h2.reg[d], TRUE, owned, 2, m)
      /\ \A e \in DataIds \ {d} : h2.reg[e] = h1.reg[e]
      /\ PageIs(h2.page[p], TRUE, d, 0, Len(m), NULL)
      /\ \A q \in PageIds \ {p} : h2.page[q] = h1.page[q]
      /\ h2.nxt = h1.nxt /\ h2.prv = h1.prv
  <2>1. h1.reg[d].use + 1 # UseCountMod
    BY <1>1, HeapAssumption DEF RegionIs
  <2>2. PageCreated(h2, h1, p, d)
    BY <1>1, <1>5, <2>1, PageCreateForm
  <2>3. RegionIs(h2.reg[d], TRUE, owned, 2, m)
    BY <1>1, <2>2 DEF RegionIs, PageCreated
  <2>4. Len(h1.reg[d].mem) = Len(m)
    BY <1>1 DEF RegionIs
  <2> QED BY <2>2, <2>3, <2>4 DEF PageCreated
<1>4. /\ g \in Heap
      /\ RegionIs(g.reg[d], TRUE, owned, 1, m)
      /\ OnlyRegion(g, h2, d)
  <2>1. h2.reg[d].use # 0 /\ h2.reg[d].use = 2
    BY <1>3 DEF RegionIs
  <2>2. PutBack(g, h2, d)
    BY <1>2, <1>3, <2>1, DataPutForm
  <2> QED BY <1>3, <2>1, <2>2 DEF PutBack, RegionIs
<1> QED
  BY <1>1, <1>3, <1>4 DEF OnlyRegion, PageMade

-----------------------------------------------------------------------------
(* Well-formed heaps.                                                      *)

Linked(h, n) == h.nxt[n] # NULL

Counted(h) ==
    \A d \in DataIds :
        /\ h.reg[d].use = Cardinality(Refs(h, d))
        /\ h.reg[d].live <=> Refs(h, d) # {}
        /\ Refs(h, d) = {} => h.reg[d] = NoRegion

Shown(h) ==
    \A p \in LivePages(h) :
        h.page[p].data \in DataIds /\ InBounds(h, p, 0, h.page[p].len)

Threaded(h) ==
    \A n \in Nodes :
        /\ h.nxt[n] = NULL <=> h.prv[n] = NULL
        /\ Linked(h, n) =>
              /\ h.prv[h.nxt[n]] = n
              /\ h.nxt[h.prv[n]] = n
              /\ Owner(h, h.nxt[n]) = Owner(h, n)
              /\ n \in PageIds => h.page[n].live

HeapOK(h) == h \in Heap /\ Counted(h) /\ Shown(h) /\ Threaded(h)

SamePagesBut(g, h, p) == \A q \in PageIds \ {p} : g.page[q] = h.page[q]

\* The number of references changes with the one page that changes.
LEMMA RefsFinite ==
    ASSUME NEW h, NEW d
    PROVE  IsFiniteSet(Refs(h, d)) /\ Refs(h, d) \subseteq PageIds
  BY HeapAssumption, FS_Subset DEF Refs

LEMMA RefsSame ==
    ASSUME NEW g, NEW h, NEW p \in PageIds, NEW d, SamePagesBut(g, h, p),
           p \in Refs(g, d) <=> p \in Refs(h, d)
    PROVE  Refs(g, d) = Refs(h, d)
  BY DEF Refs, SamePagesBut

LEMMA RefsAdded ==
    ASSUME NEW g, NEW h, NEW p \in PageIds, NEW d, SamePagesBut(g, h, p),
           p \in Refs(g, d), p \notin Refs(h, d)
    PROVE  Cardinality(Refs(g, d)) = Cardinality(Refs(h, d)) + 1
<1>1. Refs(g, d) = Refs(h, d) \cup {p}
  BY DEF Refs, SamePagesBut
<1>2. IsFiniteSet(Refs(h, d))
  BY RefsFinite
<1> QED BY <1>1, <1>2, FS_AddElement

LEMMA RefsRemoved ==
    ASSUME NEW g, NEW h, NEW p \in PageIds, NEW d, SamePagesBut(g, h, p),
           p \notin Refs(g, d), p \in Refs(h, d)
    PROVE  Cardinality(Refs(g, d)) = Cardinality(Refs(h, d)) - 1
<1>1. Refs(g, d) = Refs(h, d) \ {p}
  BY DEF Refs, SamePagesBut
<1>2. IsFiniteSet(Refs(h, d))
  BY RefsFinite
<1> QED BY <1>1, <1>2, FS_RemoveElement

LEMMA RefsBound ==
    ASSUME NEW h, NEW d
    PROVE  /\ Cardinality(Refs(h, d)) \in Nat
           /\ Cardinality(Refs(h, d)) = 0 <=> Refs(h, d) = {}
           /\ Cardinality(Refs(h, d)) <= Cardinality(PageIds)
<1>1. Refs(h, d) \subseteq PageIds
  BY DEF Refs
<1>2. IsFiniteSet(Refs(h, d)) /\ Cardinality(Refs(h, d)) <= Cardinality(PageIds)
  BY <1>1, HeapAssumption, FS_Subset
<1> QED BY <1>2, FS_CardinalityType, FS_EmptySet

\* The links do not depend on the data, nor on pages in no list.
LEMMA ThreadedSame ==
    ASSUME NEW h \in Heap, NEW g \in Heap, Threaded(h),
           g.nxt = h.nxt, g.prv = h.prv,
           \A q \in PageIds : Linked(h, q) =>
               g.page[q].live = h.page[q].live /\ g.page[q].own = h.page[q].own
    PROVE  Threaded(g) /\ \A n \in Nodes : Linked(h, n) => Owner(g, n) = Owner(h, n)
<1>1. \A n \in Nodes : Linked(h, n) => Owner(g, n) = Owner(h, n)
  BY DEF Owner, Nodes
<1>2. ASSUME NEW n \in Nodes, Linked(h, n)
      PROVE  h.nxt[n] \in Nodes /\ Linked(h, h.nxt[n])
  BY <1>2, HeapAssumption DEF Heap, Linked, Threaded, Nodes
<1> QED BY <1>1, <1>2 DEF Threaded, Linked

LEMMA OneMore ==
    ASSUME NEW h, NEW d, NEW p \in PageIds, p \notin Refs(h, d)
    PROVE  Cardinality(Refs(h, d)) + 1 <= Cardinality(PageIds)
<1>1. Refs(h, d) \cup {p} \subseteq PageIds
  BY DEF Refs
<1>2. IsFiniteSet(Refs(h, d))
  BY HeapAssumption, FS_Subset DEF Refs
<1>3. Cardinality(Refs(h, d) \cup {p}) = Cardinality(Refs(h, d)) + 1
  BY <1>2, FS_AddElement
<1> QED BY <1>1, <1>3, HeapAssumption, FS_Subset

-----------------------------------------------------------------------------
(* Making pages.                                                           *)

\* p is new in g, of n bytes and in no list, and nothing else differs from h.
Fresh(g, h, p, n) ==
    /\ HeapOK(g)
    /\ p \in LivePages(g) /\ g.page[p].len = n /\ ~Linked(g, p)
    /\ \A q \in PageIds \ {p} : g.page[q] = h.page[q]
    /\ g.nxt = h.nxt /\ g.prv = h.prv

LEMMA NewPage ==
    ASSUME NEW h, HeapOK(h), NEW p \in FreePages(h), NEW d \in FreeData(h),
           NEW owned \in BOOLEAN, NEW m \in Seq(Byte),
           NEW g, g = BufferPageCreate(h, p, d, owned, m)
    PROVE  Fresh(g, h, p, Len(m))
<1>1. /\ h \in Heap /\ Counted(h) /\ Shown(h) /\ Threaded(h)
      /\ p \in PageIds /\ d \in DataIds
      /\ ~h.page[p].live /\ ~h.reg[d].live
  BY DEF HeapOK, FreePages, FreeData
<1>2. PageMade(g, h, p, d, owned, m)
  BY <1>1, BufferPageCreateForm
<1>3. g \in Heap /\ SamePagesBut(g, h, p)
  BY <1>2 DEF PageMade, SamePagesBut
<1>4. PageIs(g.page[p], TRUE, d, 0, Len(m), NULL)
  BY <1>2 DEF PageMade
<1>5. Refs(h, d) = {}
  BY <1>1 DEF Counted
<1>6. Counted(g)
  <2> SUFFICES ASSUME NEW e \in DataIds
               PROVE  /\ g.reg[e].use = Cardinality(Refs(g, e))
                      /\ g.reg[e].live <=> Refs(g, e) # {}
                      /\ Refs(g, e) = {} => g.reg[e] = NoRegion
    BY DEF Counted
  <2>1. CASE e = d
    <3>1. p \in Refs(g, d) /\ p \notin Refs(h, d)
      BY <1>1, <1>4, <1>5 DEF Refs, PageIs
    <3>2. Cardinality(Refs(g, d)) = Cardinality(Refs(h, d)) + 1
      BY <3>1, <1>1, <1>3, RefsAdded
    <3>3. Cardinality(Refs(g, d)) = 1
      BY <3>2, <1>5, FS_EmptySet
    <3> QED BY <2>1, <3>1, <3>3, <1>2 DEF PageMade, RegionIs
  <2>2. CASE e # d
    <3>1. p \notin Refs(g, e) /\ p \notin Refs(h, e)
      BY <2>2, <1>1, <1>4 DEF Refs, PageIs
    <3>2. Refs(g, e) = Refs(h, e)
      BY <3>1, <1>1, <1>3, RefsSame
    <3>3. g.reg[e] = h.reg[e]
      BY <2>2, <1>2 DEF PageMade
    <3> QED BY <3>2, <3>3, <1>1 DEF Counted
  <2> QED BY <2>1, <2>2
<1>7. Shown(g)
  <2> SUFFICES ASSUME NEW q \in LivePages(g)
               PROVE  g.page[q].data \in DataIds /\ InBounds(g, q, 0, g.page[q].len)
    BY DEF Shown
  <2>1. CASE q = p
    <3>1. g.reg[d].mem = m
      BY <1>2 DEF PageMade, RegionIs
    <3> QED BY <2>1, <3>1, <1>1, <1>4 DEF PageIs, InBounds
  <2>2. CASE q # p
    <3>1. q \in LivePages(h) /\ g.page[q] = h.page[q]
      BY <2>2, <1>3 DEF LivePages, SamePagesBut
    <3>2. h.page[q].data \in DataIds /\ h.page[q].data # d
      BY <3>1, <1>1, <1>5 DEF Shown, Refs, LivePages
    <3>3. g.reg[h.page[q].data] = h.reg[h.page[q].data]
      BY <3>2, <1>2 DEF PageMade
    <3> QED BY <3>1, <3>2, <3>3, <1>1 DEF Shown, InBounds
  <2> QED BY <2>1, <2>2
<1>8. g.nxt = h.nxt /\ g.prv = h.prv
  BY <1>2 DEF PageMade
<1>9. ~Linked(h, p)
  BY <1>1 DEF Threaded, Nodes
<1>10. Threaded(g)
  BY <1>1, <1>3, <1>8, <1>9, ThreadedSame DEF SamePagesBut
<1> QED
  BY <1>1, <1>3, <1>4, <1>6, <1>7, <1>8, <1>9, <1>10
     DEF Fresh, HeapOK, SamePagesBut, LivePages, PageIs, Linked

\* Fewer than UseCountMod pages can exist at a time, so no use_count wraps.
CountSuffices == Cardinality(PageIds) < UseCountMod

PageShared(g, h, p, d, base, n) ==
    /\ g \in Heap
    /\ RegionIs(g.reg[d], h.reg[d].live, h.reg[d].owned, h.reg[d].use + 1, h.reg[d].mem)
    /\ \A e \in DataIds \ {d} : g.reg[e] = h.reg[e]
    /\ PageIs(g.page[p], TRUE, d, base, n, NULL)
    /\ SamePagesBut(g, h, p)
    /\ g.nxt = h.nxt /\ g.prv = h.prv

LEMMA PageTransferForm ==
    ASSUME NEW h \in Heap, NEW p \in PageIds, NEW src \in PageIds, p # src,
           NEW n \in Nat, NEW off \in Nat, NEW d \in DataIds, h.page[src].data = d,
           h.reg[d].use + 1 # UseCountMod,
           NEW g, g = PageTransfer(h, p, src, n, off)
    PROVE  PageShared(g, h, p, d, h.page[src].base + off, n)
<1> DEFINE g0 == PageCreate(h, p, d)
           b == h.page[src].base + off
           r == [g0.page[p] EXCEPT !.data = d, !.base = b, !.len = n]
<1>1. PageCreated(g0, h, p, d)
  BY PageCreateForm
<1>2. g = [g0 EXCEPT !.page[p] = [g0.page[p] EXCEPT !.base = b, !.len = n]]
  BY DEF PageTransfer
<1>3. b \in Nat
  BY DEF Heap, PageRec
<1> HIDE DEF g0, b
<1>4. g0 \in Heap /\ g0.page[p] \in PageRec /\ PageIs(g0.page[p], TRUE, d, 0, Len(h.reg[d].mem), NULL)
  BY <1>1 DEF PageCreated, Heap
<1>5. r = [g0.page[p] EXCEPT !.base = b, !.len = n]
  BY <1>4 DEF PageRec, PageIs
<1>6. r \in PageRec /\ PageIs(r, g0.page[p].live, d, b, n, g0.page[p].own)
  <2> HIDE DEF r
  <2>1. r = [g0.page[p] EXCEPT !.data = d, !.base = b, !.len = n]
    BY DEF r
  <2> QED BY <2>1, <1>3, <1>4, PageWindow
<1>7. PageIs(r, TRUE, d, b, n, NULL)
  BY <1>4, <1>6 DEF PageIs
<1> HIDE DEF r
<1>8. g \in Heap /\ g.page[p] = r /\ OnlyPage(g, g0, p)
  BY <1>2, <1>4, <1>5, <1>6, PageAt
<1> QED
  BY <1>1, <1>7, <1>8 DEF PageCreated, OnlyPage, PageShared, SamePagesBut, b

LEMMA SharedPage ==
    ASSUME CountSuffices, NEW h, HeapOK(h), NEW p \in FreePages(h), NEW src \in LivePages(h),
           NEW n \in Nat, NEW off \in Nat, off + n <= h.page[src].len,
           NEW g, g = PageTransfer(h, p, src, n, off)
    PROVE  Fresh(g, h, p, n)
<1> DEFINE d == h.page[src].data
           b == h.page[src].base + off
<1>1. /\ h \in Heap /\ Counted(h) /\ Shown(h) /\ Threaded(h)
      /\ p \in PageIds /\ src \in PageIds /\ p # src
      /\ ~h.page[p].live /\ h.page[src].live
  BY DEF HeapOK, FreePages, LivePages
<1>2. d \in DataIds /\ InBounds(h, src, 0, h.page[src].len)
  BY <1>1 DEF Shown
<1>3. h.page[src].base \in Nat /\ h.page[src].len \in Nat
  BY <1>1 DEF Heap, PageRec
<1>4. src \in Refs(h, d) /\ p \notin Refs(h, d)
  BY <1>1 DEF Refs
<1> HIDE DEF d
<1>5. h.reg[d].use + 1 # UseCountMod
  <2>1. Cardinality(Refs(h, d)) + 1 <= Cardinality(PageIds)
    BY <1>1, <1>4, OneMore
  <2>2. h.reg[d].use = Cardinality(Refs(h, d))
    BY <1>1, <1>2 DEF Counted
  <2>3. Cardinality(PageIds) \in Nat /\ Cardinality(Refs(h, d)) \in Nat
    BY HeapAssumption, FS_CardinalityType, RefsFinite
  <2> QED BY <2>1, <2>2, <2>3, HeapAssumption DEF CountSuffices
<1>6. PageShared(g, h, p, d, b, n)
  BY <1>1, <1>2, <1>5, PageTransferForm DEF d
<1>7. g \in Heap /\ SamePagesBut(g, h, p) /\ PageIs(g.page[p], TRUE, d, b, n, NULL)
  BY <1>6 DEF PageShared
<1> HIDE DEF b
<1>8. \A e \in DataIds : g.reg[e].mem = h.reg[e].mem /\ g.reg[e].live = h.reg[e].live
  BY <1>6 DEF PageShared, RegionIs
<1>9. Counted(g)
  <2> SUFFICES ASSUME NEW e \in DataIds
               PROVE  /\ g.reg[e].use = Cardinality(Refs(g, e))
                      /\ g.reg[e].live <=> Refs(g, e) # {}
                      /\ Refs(g, e) = {} => g.reg[e] = NoRegion
    BY DEF Counted
  <2>1. CASE e = d
    <3>1. p \in Refs(g, d)
      BY <1>1, <1>7 DEF Refs, PageIs
    <3>2. Cardinality(Refs(g, d)) = Cardinality(Refs(h, d)) + 1
      BY <3>1, <1>1, <1>4, <1>7, RefsAdded
    <3>3. g.reg[d].use = h.reg[d].use + 1
      BY <1>6 DEF PageShared, RegionIs
    <3> QED BY <2>1, <3>1, <3>2, <3>3, <1>1, <1>2, <1>4, <1>8 DEF Counted
  <2>2. CASE e # d
    <3>1. p \notin Refs(g, e) /\ p \notin Refs(h, e)
      BY <2>2, <1>1, <1>7 DEF Refs, PageIs
    <3>2. Refs(g, e) = Refs(h, e)
      BY <3>1, <1>1, <1>7, RefsSame
    <3>3. g.reg[e] = h.reg[e]
      BY <2>2, <1>6 DEF PageShared
    <3> QED BY <3>2, <3>3, <1>1 DEF Counted
  <2> QED BY <2>1, <2>2
<1>10. Shown(g)
  <2> SUFFICES ASSUME NEW q \in LivePages(g)
               PROVE  g.page[q].data \in DataIds /\ InBounds(g, q, 0, g.page[q].len)
    BY DEF Shown
  <2>1. CASE q = p
    <3>1. g.reg[d].mem = h.reg[d].mem /\ Len(h.reg[d].mem) \in Nat
      BY <1>8, <1>2, <1>1 DEF Heap, Region
    <3>2. h.page[src].base + h.page[src].len <= Len(h.reg[d].mem)
      BY <1>2, <1>3 DEF InBounds, d
    <3>3. b \in Nat /\ b + n <= Len(h.reg[d].mem)
      <4> DEFINE base == h.page[src].base
                 len == h.page[src].len
                 top == Len(h.reg[d].mem)
      <4>1. base \in Nat /\ len \in Nat /\ top \in Nat /\ base + len <= top /\ off + n <= len
        BY <3>1, <3>2, <1>3
      <4>2. b = base + off
        BY DEF b
      <4> HIDE DEF base, len, top
      <4>3. b \in Nat /\ b + n <= top
        BY <4>1, <4>2
      <4> QED BY <4>3 DEF top
    <3>4. g.page[q].data = d /\ g.page[q].base = b /\ g.page[q].len = n
      BY <2>1, <1>7 DEF PageIs
    <3> QED BY <3>1, <3>3, <3>4, <1>2 DEF InBounds
  <2>2. CASE q # p
    <3>1. q \in LivePages(h) /\ g.page[q] = h.page[q]
      BY <2>2, <1>7 DEF LivePages, SamePagesBut
    <3> QED BY <3>1, <1>8, <1>1 DEF Shown, InBounds
  <2> QED BY <2>1, <2>2
<1>11. g.nxt = h.nxt /\ g.prv = h.prv
  BY <1>6 DEF PageShared
<1>12. ~Linked(h, p)
  BY <1>1 DEF Threaded, Nodes
<1>13. Threaded(g)
  BY <1>1, <1>7, <1>11, <1>12, ThreadedSame DEF SamePagesBut
<1> QED
  BY <1>1, <1>7, <1>9, <1>10, <1>11, <1>12, <1>13
     DEF Fresh, HeapOK, SamePagesBut, LivePages, PageIs, Linked

\* A region that no page came to show leaves no trace once it is given back.
LEMMA GivenBack ==
    ASSUME NEW h, HeapOK(h), NEW d \in FreeData(h), NEW owned \in BOOLEAN, NEW m
    PROVE  PageCreateFails(h, d, owned, m) = h
<1>1. h \in Heap /\ Counted(h) /\ d \in DataIds /\ ~h.reg[d].live
  BY DEF HeapOK, FreeData
<1>2. h.reg[d] = NoRegion
  BY <1>1 DEF Counted
<1> DEFINE r == [live |-> TRUE, owned |-> owned, use |-> 1, mem |-> m]
           k == [h EXCEPT !.reg[d] = r]
<1>3. CountDown(r) = NoRegion
  BY DEF CountDown
<1> HIDE DEF r
<1>4. k.reg[d] = r /\ k = [h EXCEPT !.reg[d] = r]
  BY <1>1 DEF Heap
<1>5. [k EXCEPT !.reg[d] = CountDown(k.reg[d])] = [h EXCEPT !.reg[d] = NoRegion]
  BY <1>1, <1>3, <1>4 DEF Heap
<1>6. PageCreateFails(h, d, owned, m) = [k EXCEPT !.reg[d] = CountDown(k.reg[d])]
  BY DEF PageCreateFails, DataPut, DataCreate, r
<1>7. [h.reg EXCEPT ![d] = NoRegion] = h.reg
  BY <1>1, <1>2 DEF Heap
<1> QED BY <1>1, <1>5, <1>6, <1>7 DEF Heap

-----------------------------------------------------------------------------
(* Narrowing and linking pages.                                            *)

\* p shows in g part of what it shows in h.
Narrower(g, h, p) ==
    /\ g.page[p].live = h.page[p].live /\ g.page[p].data = h.page[p].data
    /\ g.page[p].base + g.page[p].len <= h.page[p].base + h.page[p].len

LEMMA ViewKept ==
    ASSUME NEW h \in Heap, Counted(h), Shown(h), NEW g \in Heap, NEW p \in PageIds,
           g.reg = h.reg, SamePagesBut(g, h, p), Narrower(g, h, p)
    PROVE  Counted(g) /\ Shown(g)
<1>1. ASSUME NEW d \in DataIds PROVE Refs(g, d) = Refs(h, d)
  <2>1. p \in Refs(g, d) <=> p \in Refs(h, d)
    BY DEF Refs, Narrower
  <2> QED BY <2>1, RefsSame
<1>2. Counted(g)
  BY <1>1 DEF Counted
<1>3. ASSUME NEW q \in LivePages(g)
      PROVE  g.page[q].data \in DataIds /\ InBounds(g, q, 0, g.page[q].len)
  <2>1. CASE q = p
    <3> DEFINE top == Len(h.reg[h.page[p].data].mem)
    <3>1. p \in LivePages(h)
      BY <2>1 DEF LivePages, Narrower
    <3>2. h.page[p].data \in DataIds /\ InBounds(h, p, 0, h.page[p].len)
      BY <3>1 DEF Shown
    <3>3. /\ h.page[p].base \in Nat /\ h.page[p].len \in Nat
          /\ g.page[p].base \in Nat /\ g.page[p].len \in Nat
      BY DEF Heap, PageRec
    <3>4. top \in Nat
      BY <3>2 DEF Heap, Region
    <3>5. h.page[p].base + h.page[p].len <= top
      BY <3>2, <3>3 DEF InBounds
    <3> HIDE DEF top
    <3>6. g.page[p].base + 0 + g.page[p].len <= top
      BY <3>3, <3>4, <3>5 DEF Narrower
    <3> QED BY <2>1, <3>2, <3>6 DEF InBounds, Narrower, top
  <2>2. CASE q # p
    <3>1. q \in LivePages(h) /\ g.page[q] = h.page[q]
      BY <2>2 DEF LivePages, SamePagesBut
    <3> QED BY <3>1 DEF Shown, InBounds
  <2> QED BY <2>1, <2>2
<1> QED BY <1>2, <1>3 DEF Shown

\* What is linked in h is linked in g, in the same list.
LinksKept(g, h) ==
    \A n \in Nodes : Linked(h, n) => Linked(g, n) /\ Owner(g, n) = Owner(h, n)

LEMMA NarrowedPage ==
    ASSUME NEW h, HeapOK(h), NEW g \in Heap, NEW p \in PageIds, OnlyPage(g, h, p),
           Narrower(g, h, p), g.page[p].own = h.page[p].own
    PROVE  HeapOK(g) /\ LinksKept(g, h) /\ LivePages(g) = LivePages(h)
<1>1. h \in Heap /\ Counted(h) /\ Shown(h) /\ Threaded(h)
  BY DEF HeapOK
<1>2. SamePagesBut(g, h, p) /\ g.reg = h.reg /\ g.nxt = h.nxt /\ g.prv = h.prv
  BY DEF OnlyPage, SamePagesBut
<1>3. Counted(g) /\ Shown(g)
  BY <1>1, <1>2, ViewKept
<1>4. \A q \in PageIds : g.page[q].live = h.page[q].live /\ g.page[q].own = h.page[q].own
  BY <1>2 DEF Narrower, SamePagesBut
<1>5. Threaded(g) /\ \A n \in Nodes : Linked(h, n) => Owner(g, n) = Owner(h, n)
  BY <1>1, <1>2, <1>4, ThreadedSame
<1> QED BY <1>2, <1>3, <1>4, <1>5 DEF HeapOK, LinksKept, Linked, LivePages

LinkedIn(g, h, p, x) ==
    /\ g \in Heap /\ g.reg = h.reg /\ SamePagesBut(g, h, p)
    /\ PageIs(g.page[p], h.page[p].live, h.page[p].data, h.page[p].base,
              h.page[p].len, Owner(h, x))
    /\ g.nxt = [[h.nxt EXCEPT ![h.prv[x]] = p] EXCEPT ![p] = x]
    /\ g.prv = [[h.prv EXCEPT ![x] = p] EXCEPT ![p] = h.prv[x]]

LEMMA LinkBeforeForm ==
    ASSUME NEW h \in Heap, NEW p \in PageIds, NEW x \in Nodes,
           Owner(h, x) \in Buffers \cup {NULL}, h.prv[x] \in Nodes, h.prv[x] # p, x # p,
           NEW g, g = LinkBefore(h, p, x)
    PROVE  LinkedIn(g, h, p, x)
<1> DEFINE w == h.prv[x]
           r == [h.page[p] EXCEPT !.own = Owner(h, x)]
           f == [h.nxt EXCEPT ![w] = p, ![p] = x]
           k == [h.prv EXCEPT ![x] = p, ![p] = w]
<1>1. r \in PageRec /\ PageIs(r, h.page[p].live, h.page[p].data, h.page[p].base,
                              h.page[p].len, Owner(h, x))
  BY DEF Heap, PageRec, PageIs
<1>2. f \in [Nodes -> Nodes \cup {NULL}] /\ k \in [Nodes -> Nodes \cup {NULL}]
  BY DEF Heap, Nodes
<1>3. g = [h EXCEPT !.nxt = f, !.prv = k, !.page = [h.page EXCEPT ![p] = r]]
  BY DEF LinkBefore
<1> HIDE DEF r, f, k
<1>4. /\ g \in Heap /\ g.reg = h.reg /\ g.nxt = f /\ g.prv = k /\ g.page[p] = r
      /\ SamePagesBut(g, h, p)
  <2> DEFINE pg == [h.page EXCEPT ![p] = r]
  <2>1. pg \in [PageIds -> PageRec] /\ pg[p] = r /\ \A q \in PageIds \ {p} : pg[q] = h.page[q]
    BY <1>1 DEF Heap
  <2>2. g = [h EXCEPT !.nxt = f, !.prv = k, !.page = pg]
    BY <1>3
  <2> HIDE DEF pg
  <2>3. g = [reg |-> h.reg, page |-> pg, nxt |-> f, prv |-> k]
    BY <2>2 DEF Heap
  <2>4. g \in Heap
    BY <1>2, <2>1, <2>3 DEF Heap
  <2> QED BY <2>1, <2>3, <2>4 DEF SamePagesBut
<1> QED BY <1>1, <1>4 DEF f, k, LinkedIn

\* What the neighbours of a linked node are.
LEMMA Neighbours ==
    ASSUME NEW h, HeapOK(h), NEW x \in Nodes, Linked(h, x)
    PROVE  /\ h.nxt[x] \in Nodes /\ h.prv[x] \in Nodes
           /\ Linked(h, h.nxt[x]) /\ Linked(h, h.prv[x])
           /\ Owner(h, h.nxt[x]) = Owner(h, x) /\ Owner(h, h.prv[x]) = Owner(h, x)
           /\ h.prv[h.nxt[x]] = x /\ h.nxt[h.prv[x]] = x
<1>1. /\ h.nxt \in [Nodes -> Nodes \cup {NULL}] /\ h.prv \in [Nodes -> Nodes \cup {NULL}]
      /\ NULL \notin Nodes
  BY HeapAssumption DEF HeapOK, Heap, Nodes
<1>2. h.nxt[x] \in Nodes /\ h.prv[x] \in Nodes
  BY <1>1 DEF HeapOK, Threaded, Linked
<1>3. h.prv[h.nxt[x]] = x /\ h.nxt[h.prv[x]] = x /\ Owner(h, h.nxt[x]) = Owner(h, x)
  BY DEF HeapOK, Threaded
<1>4. Linked(h, h.nxt[x]) /\ Linked(h, h.prv[x])
  BY <1>1, <1>2, <1>3 DEF HeapOK, Threaded, Linked
<1>5. Owner(h, h.prv[x]) = Owner(h, x)
  BY <1>2, <1>3, <1>4 DEF HeapOK, Threaded
<1> QED BY <1>2, <1>3, <1>4, <1>5

\* The list x is in has grown by p, and nothing else differs from h.
Relinked(g, h, p, x) ==
    /\ HeapOK(g)
    /\ \A n \in Nodes : Linked(g, n) <=> Linked(h, n) \/ n = p
    /\ \A n \in Nodes \ {p} : Owner(g, n) = Owner(h, n)
    /\ Owner(g, p) = Owner(h, x)
    /\ LivePages(g) = LivePages(h)
    /\ SamePagesBut(g, h, p) /\ g.page[p].len = h.page[p].len

LEMMA LinkedPage ==
    ASSUME NEW h, HeapOK(h), NEW p \in LivePages(h), ~Linked(h, p),
           NEW x \in Nodes, Linked(h, x), NEW g, g = LinkBefore(h, p, x)
    PROVE  Relinked(g, h, p, x)
<1> DEFINE w == h.prv[x]
<1>1. /\ h \in Heap /\ Counted(h) /\ Shown(h) /\ Threaded(h)
      /\ p \in PageIds /\ p \in Nodes /\ h.page[p].live
  BY DEF HeapOK, LivePages, Nodes
<1>2. h.nxt \in [Nodes -> Nodes \cup {NULL}] /\ h.prv \in [Nodes -> Nodes \cup {NULL}]
  BY <1>1 DEF Heap
<1>3. /\ w \in Nodes /\ Linked(h, w) /\ h.nxt[w] = x /\ Owner(h, w) = Owner(h, x)
      /\ w # p /\ x # p
  BY Neighbours
<1>4. Owner(h, x) \in Buffers \cup {NULL}
  BY <1>1 DEF Owner, Heap, PageRec, Nodes
<1>5. /\ g \in Heap /\ g.reg = h.reg /\ SamePagesBut(g, h, p)
      /\ PageIs(g.page[p], h.page[p].live, h.page[p].data, h.page[p].base,
                h.page[p].len, Owner(h, x))
      /\ g.nxt = [[h.nxt EXCEPT ![w] = p] EXCEPT ![p] = x]
      /\ g.prv = [[h.prv EXCEPT ![x] = p] EXCEPT ![p] = w]
  <2>1. LinkedIn(g, h, p, x)
    BY <1>1, <1>3, <1>4, LinkBeforeForm
  <2> QED BY <2>1 DEF LinkedIn
<1> HIDE DEF w
<1>6. Counted(g) /\ Shown(g)
  <2>1. h.page[p].base \in Nat /\ h.page[p].len \in Nat
    BY <1>1 DEF Heap, PageRec
  <2>2. Narrower(g, h, p)
    BY <1>5, <2>1 DEF Narrower, PageIs
  <2> QED BY <1>1, <1>5, <2>2, ViewKept
<1>7. /\ g.nxt[p] = x /\ g.nxt[w] = p /\ \A n \in Nodes \ {p, w} : g.nxt[n] = h.nxt[n]
      /\ g.prv[p] = w /\ g.prv[x] = p /\ \A n \in Nodes \ {p, x} : g.prv[n] = h.prv[n]
  BY <1>1, <1>2, <1>3, <1>5
<1>8. NULL \notin Nodes /\ p # NULL /\ w # NULL /\ x # NULL
  BY <1>1, <1>3, HeapAssumption DEF Nodes
<1>9. \A n \in Nodes : Linked(g, n) <=> Linked(h, n) \/ n = p
  BY <1>3, <1>7, <1>8 DEF Linked
<1>10. /\ \A n \in Nodes \ {p} : Owner(g, n) = Owner(h, n)
       /\ Owner(g, p) = Owner(h, x)
  BY <1>1, <1>5 DEF Owner, SamePagesBut, PageIs
<1>11. Threaded(g)
  <2> SUFFICES ASSUME NEW n \in Nodes, Linked(g, n) \/ g.prv[n] # NULL
               PROVE  /\ g.nxt[n] # NULL /\ g.prv[n] # NULL
                      /\ g.prv[g.nxt[n]] = n /\ g.nxt[g.prv[n]] = n
                      /\ Owner(g, g.nxt[n]) = Owner(g, n)
                      /\ n \in PageIds => g.page[n].live
    BY DEF Threaded, Linked
  <2>1. CASE n = p
    BY <2>1, <1>1, <1>3, <1>5, <1>7, <1>8, <1>10 DEF PageIs
  <2>2. CASE n # p
    <3>1. Linked(h, n)
      BY <2>2, <1>1, <1>3, <1>7, <1>8 DEF Threaded, Linked
    <3>2. /\ h.nxt[n] \in Nodes /\ h.nxt[n] # p /\ h.prv[n] \in Nodes /\ h.prv[n] # p
          /\ Owner(h, h.nxt[n]) = Owner(h, n) /\ h.prv[h.nxt[n]] = n /\ h.nxt[h.prv[n]] = n
      BY <3>1, Neighbours
    <3>3. n \in PageIds => g.page[n].live
      BY <2>2, <3>1, <1>1, <1>5 DEF Threaded, SamePagesBut
    <3>4. g.prv[g.nxt[n]] = n /\ Owner(g, g.nxt[n]) = Owner(g, n) /\ g.nxt[n] # NULL
      BY <2>2, <3>2, <1>1, <1>3, <1>7, <1>8, <1>10 DEF w
    <3>5. g.nxt[g.prv[n]] = n /\ g.prv[n] # NULL
      BY <2>2, <3>2, <1>1, <1>3, <1>7, <1>8 DEF w
    <3> QED BY <3>3, <3>4, <3>5
  <2> QED BY <2>1, <2>2
<1>12. LivePages(g) = LivePages(h) /\ g.page[p].len = h.page[p].len
  BY <1>5 DEF LivePages, SamePagesBut, PageIs
<1> QED BY <1>5, <1>6, <1>9, <1>10, <1>11, <1>12 DEF Relinked, HeapOK

\* The page x was split, its front is the page q.
Split(g, h, x, q) ==
    /\ HeapOK(g)
    /\ \A n \in Nodes : Linked(g, n) <=> Linked(h, n) \/ n = q
    /\ \A n \in Nodes \ {q} : Owner(g, n) = Owner(h, n)
    /\ LivePages(g) = LivePages(h) \cup {q}
    /\ \A r \in PageIds \ {x, q} : g.page[r] = h.page[r]

LEMMA SplitPageOK ==
    ASSUME CountSuffices, NEW h, HeapOK(h), NEW x \in LivePages(h), Linked(h, x),
           NEW off \in Nat, off <= h.page[x].len, NEW q \in FreePages(h),
           NEW g, g = SplitPage(h, x, off, q)
    PROVE  Split(g, h, x, q)
<1> DEFINE g0 == PageTransfer(h, q, x, off, 0)
           r == [g0.page[x] EXCEPT !.base = g0.page[x].base + off,
                                   !.len = g0.page[x].len - off]
           g1 == [g0 EXCEPT !.page[x] = r]
<1>1. Fresh(g0, h, q, off)
  BY SharedPage
<1>2. /\ x \in PageIds /\ q \in PageIds /\ x # q /\ x \in Nodes /\ q \in Nodes
      /\ h.page[x].live /\ h \in Heap /\ ~Linked(h, q)
  BY DEF LivePages, FreePages, HeapOK, Nodes, Threaded
<1>3. g = LinkBefore(g1, q, x)
  BY DEF SplitPage, CutFront
<1> HIDE DEF g0
<1>4. /\ HeapOK(g0) /\ g0 \in Heap /\ g0.page[x] = h.page[x] /\ SamePagesBut(g0, h, q)
      /\ g0.nxt = h.nxt /\ q \in LivePages(g0) /\ ~Linked(g0, q)
  BY <1>1, <1>2 DEF Fresh, HeapOK, SamePagesBut
<1>5. /\ h.page[x] \in PageRec /\ h.page[x].len \in Nat /\ h.page[x].base \in Nat
      /\ h.page[x].len - off \in Nat /\ h.page[x].base + off \in Nat
  BY <1>2 DEF Heap, PageRec
<1>6. /\ r \in PageRec
      /\ PageIs(r, h.page[x].live, h.page[x].data, h.page[x].base + off,
                h.page[x].len - off, h.page[x].own)
  BY <1>4, <1>5 DEF PageRec, PageIs
<1> HIDE DEF r
<1>7. g1 \in Heap /\ g1.page[x] = r /\ OnlyPage(g1, g0, x)
  BY <1>2, <1>4, <1>6, PageAt
<1> HIDE DEF g1
<1>8. Narrower(g1, g0, x) /\ g1.page[x].own = g0.page[x].own
  BY <1>4, <1>5, <1>6, <1>7 DEF Narrower, PageIs
<1>9. HeapOK(g1) /\ LivePages(g1) = LivePages(g0)
  BY <1>2, <1>4, <1>7, <1>8, NarrowedPage
<1>10. g1.nxt = h.nxt
  BY <1>4, <1>7 DEF OnlyPage
<1>11. Relinked(g, g1, q, x)
  BY <1>2, <1>3, <1>4, <1>9, <1>10, LinkedPage DEF Linked
<1>12. LivePages(g) = LivePages(h) \cup {q}
  <2>1. LivePages(g0) = LivePages(h) \cup {q}
    BY <1>2, <1>4 DEF LivePages, SamePagesBut
  <2> QED BY <2>1, <1>9, <1>11 DEF Relinked
<1>13. \A s \in PageIds \ {x, q} : g.page[s] = h.page[s]
  BY <1>4, <1>7, <1>11 DEF Relinked, SamePagesBut, OnlyPage
<1>14. \A n \in Nodes \ {q} : Owner(g, n) = Owner(h, n)
  <2>1. \A n \in Nodes \ {q} : Owner(g, n) = Owner(g1, n)
    BY <1>11 DEF Relinked
  <2>2. \A n \in Nodes \ {q} : Owner(g1, n) = Owner(h, n)
    BY <1>4, <1>7, <1>8 DEF OnlyPage, SamePagesBut, Owner
  <2> QED BY <2>1, <2>2
<1>15. \A n \in Nodes : Linked(g, n) <=> Linked(h, n) \/ n = q
  BY <1>10, <1>11 DEF Relinked, Linked
<1> QED BY <1>11, <1>12, <1>13, <1>14, <1>15 DEF Split, Relinked

-----------------------------------------------------------------------------
(* Freeing pages.                                                          *)

\* p is gone, and nothing but the links around it differs from h.
Freed(g, h, p) ==
    /\ HeapOK(g)
    /\ \A n \in Nodes : Linked(g, n) <=> Linked(h, n) /\ n # p
    /\ LivePages(g) = LivePages(h) \ {p}
    /\ SamePagesBut(g, h, p)

Destroyed(g, h, p) ==
    /\ g \in Heap /\ g.reg = DataPut(h, h.page[p].data).reg /\ SamePagesBut(g, h, p)
    /\ g.page[p] = NoPage
    /\ g.nxt = [h.nxt EXCEPT ![p] = NULL]
    /\ g.prv = [h.prv EXCEPT ![p] = NULL]

LEMMA PageDestroyForm ==
    ASSUME NEW h \in Heap, NEW p \in PageIds, h.page[p].data \in DataIds,
           h.reg[h.page[p].data].use # 0,
           NEW g, g = PageDestroy(h, p)
    PROVE  Destroyed(g, h, p)
<1> DEFINE k == DataPut(h, h.page[p].data)
           pg == [h.page EXCEPT ![p] = NoPage]
           f == [h.nxt EXCEPT ![p] = NULL]
           b == [h.prv EXCEPT ![p] = NULL]
<1>1. k \in Heap /\ OnlyRegion(k, h, h.page[p].data)
  <2>1. PutBack(k, h, h.page[p].data)
    BY DataPutForm
  <2> QED BY <2>1 DEF PutBack
<1>2. g = [k EXCEPT !.page[p] = NoPage, !.nxt[p] = NULL, !.prv[p] = NULL]
  BY DEF PageDestroy
<1> HIDE DEF k
<1>3. k.page = h.page /\ k.nxt = h.nxt /\ k.prv = h.prv
  BY <1>1 DEF OnlyRegion
<1>4. g = [k EXCEPT !.page = pg, !.nxt = f, !.prv = b]
  BY <1>2, <1>3
<1>5. /\ pg \in [PageIds -> PageRec] /\ pg[p] = NoPage
      /\ \A q \in PageIds \ {p} : pg[q] = h.page[q]
      /\ f \in [Nodes -> Nodes \cup {NULL}] /\ b \in [Nodes -> Nodes \cup {NULL}]
  BY DEF Heap, PageRec, NoPage, Nodes
<1> HIDE DEF pg, f, b
<1>6. g = [reg |-> k.reg, page |-> pg, nxt |-> f, prv |-> b] /\ k.reg \in [DataIds -> Region]
  BY <1>1, <1>4 DEF Heap
<1>7. g \in Heap
  BY <1>5, <1>6 DEF Heap
<1> QED BY <1>1, <1>5, <1>6, <1>7 DEF Destroyed, SamePagesBut, k, f, b

\* A reference less: the region goes with the last page that shows it.
LEMMA CountAfterPut ==
    ASSUME NEW h \in Heap, Counted(h), NEW g, NEW d \in DataIds, NEW p \in PageIds,
           SamePagesBut(g, h, p), p \in Refs(h, d), p \notin Refs(g, d),
           g.reg[d] = DataPut(h, d).reg[d]
    PROVE  /\ g.reg[d].use = Cardinality(Refs(g, d))
           /\ g.reg[d].live <=> Refs(g, d) # {}
           /\ Refs(g, d) = {} => g.reg[d] = NoRegion
           /\ Refs(g, d) # {} => g.reg[d].mem = h.reg[d].mem
<1> DEFINE k == DataPut(h, d)
<1>1. h.reg[d].use = Cardinality(Refs(h, d)) /\ h.reg[d].live
  BY DEF Counted
<1>2. Cardinality(Refs(h, d)) \in Nat /\ Cardinality(Refs(h, d)) # 0
  BY RefsFinite, FS_CardinalityType, FS_EmptySet
<1>3. PutBack(k, h, d)
  BY <1>1, <1>2, DataPutForm
<1>4. g.reg[d] = k.reg[d]
  OBVIOUS
<1> HIDE DEF k
<1>5. Cardinality(Refs(g, d)) = Cardinality(Refs(h, d)) - 1
  BY RefsRemoved
<1>6. Refs(g, d) = {} <=> Cardinality(Refs(g, d)) = 0
  BY RefsFinite, FS_EmptySet
<1>7. CASE h.reg[d].use = 1
  <2>1. g.reg[d] = NoRegion /\ g.reg[d].use = 0 /\ ~g.reg[d].live
    BY <1>3, <1>4, <1>7 DEF PutBack, NoRegion
  <2> QED BY <2>1, <1>1, <1>5, <1>6, <1>7
<1>8. CASE h.reg[d].use # 1
  <2>1. g.reg[d].use = h.reg[d].use - 1 /\ g.reg[d].live /\ g.reg[d].mem = h.reg[d].mem
    BY <1>1, <1>3, <1>4, <1>8 DEF PutBack, RegionIs
  <2>2. Cardinality(Refs(g, d)) # 0
    BY <1>1, <1>2, <1>5, <1>8
  <2> QED BY <2>1, <2>2, <1>1, <1>5, <1>6
<1> QED BY <1>7, <1>8

LEMMA PutTouchesOne ==
    ASSUME NEW h \in Heap, NEW d \in DataIds, h.reg[d].use # 0
    PROVE  DataPut(h, d) \in Heap /\ OnlyRegion(DataPut(h, d), h, d)
<1>1. PutBack(DataPut(h, d), h, d)
  BY DataPutForm
<1> QED BY <1>1 DEF PutBack

LEMMA ReferenceDropped ==
    ASSUME NEW h \in Heap, Counted(h), Shown(h), NEW p \in LivePages(h),
           NEW g \in Heap, g.reg = DataPut(h, h.page[p].data).reg,
           SamePagesBut(g, h, p), g.page[p] = NoPage
    PROVE  Counted(g) /\ Shown(g)
<1> DEFINE d == h.page[p].data
<1>1. /\ p \in PageIds /\ d \in DataIds /\ p \in Refs(h, d) /\ ~g.page[p].live
      /\ h.reg[d].use # 0
  <2>1. p \in PageIds /\ d \in DataIds /\ p \in Refs(h, d) /\ ~g.page[p].live
    BY DEF LivePages, Refs, Shown, NoPage
  <2> QED BY <2>1, RefsFinite, FS_EmptySet DEF Counted
<1>2. \A e \in DataIds \ {d} : g.reg[e] = h.reg[e]
  BY <1>1, PutTouchesOne DEF OnlyRegion
<1>3. g.reg[d] = DataPut(h, d).reg[d]
  OBVIOUS
<1> HIDE DEF d
<1>4. p \notin Refs(g, d)
  BY <1>1 DEF Refs
<1>5. /\ g.reg[d].use = Cardinality(Refs(g, d))
      /\ g.reg[d].live <=> Refs(g, d) # {}
      /\ Refs(g, d) = {} => g.reg[d] = NoRegion
      /\ Refs(g, d) # {} => g.reg[d].mem = h.reg[d].mem
  BY <1>1, <1>3, <1>4, CountAfterPut
<1>6. Counted(g)
  <2> SUFFICES ASSUME NEW e \in DataIds, e # d
               PROVE  /\ g.reg[e].use = Cardinality(Refs(g, e))
                      /\ g.reg[e].live <=> Refs(g, e) # {}
                      /\ Refs(g, e) = {} => g.reg[e] = NoRegion
    BY <1>5 DEF Counted
  <2>1. p \notin Refs(g, e) /\ p \notin Refs(h, e)
    BY <1>1 DEF Refs, d
  <2>2. Refs(g, e) = Refs(h, e)
    BY <2>1, <1>1, RefsSame
  <2> QED BY <2>2, <1>2 DEF Counted
<1>7. Shown(g)
  <2> SUFFICES ASSUME NEW q \in LivePages(g)
               PROVE  g.page[q].data \in DataIds /\ InBounds(g, q, 0, g.page[q].len)
    BY DEF Shown
  <2>1. q # p /\ q \in LivePages(h) /\ g.page[q] = h.page[q]
    BY <1>1 DEF LivePages, SamePagesBut
  <2>2. h.page[q].data \in DataIds /\ InBounds(h, q, 0, h.page[q].len)
    BY <2>1 DEF Shown
  <2>3. g.reg[h.page[q].data].mem = h.reg[h.page[q].data].mem
    <3>1. CASE h.page[q].data = d
      BY <2>1, <3>1, <1>5 DEF Refs, LivePages
    <3>2. CASE h.page[q].data # d
      BY <3>2, <2>2, <1>2
    <3> QED BY <3>1, <3>2
  <2> QED BY <2>1, <2>2, <2>3 DEF InBounds
<1> QED BY <1>6, <1>7

\* A page in no list is freed.
LEMMA LooseDestroyed ==
    ASSUME NEW h, HeapOK(h), NEW p \in LivePages(h), ~Linked(h, p),
           NEW g, g = PageDestroy(h, p)
    PROVE  Freed(g, h, p) /\ g.nxt = h.nxt
<1>1. /\ h \in Heap /\ Counted(h) /\ Shown(h) /\ Threaded(h) /\ p \in PageIds
      /\ p \in Nodes /\ h.page[p].data \in DataIds
  BY DEF HeapOK, LivePages, Shown, Nodes
<1>2. h.reg[h.page[p].data].use # 0
  <2>1. p \in Refs(h, h.page[p].data)
    BY DEF Refs, LivePages
  <2> QED BY <1>1, <2>1, RefsFinite, FS_EmptySet DEF Counted
<1>3. /\ g \in Heap /\ g.reg = DataPut(h, h.page[p].data).reg /\ SamePagesBut(g, h, p)
      /\ g.page[p] = NoPage
      /\ g.nxt = [h.nxt EXCEPT ![p] = NULL]
      /\ g.prv = [h.prv EXCEPT ![p] = NULL]
  <2>1. Destroyed(g, h, p)
    BY <1>1, <1>2, PageDestroyForm
  <2> QED BY <2>1 DEF Destroyed
<1>4. Counted(g) /\ Shown(g)
  BY <1>1, <1>3, ReferenceDropped
<1>5. h.nxt[p] = NULL /\ h.prv[p] = NULL
  BY <1>1 DEF Threaded, Linked
<1>6. g.nxt = h.nxt /\ g.prv = h.prv
  BY <1>1, <1>3, <1>5 DEF Heap
<1>7. Threaded(g)
  BY <1>1, <1>3, <1>6, ThreadedSame DEF SamePagesBut
<1>8. LivePages(g) = LivePages(h) \ {p}
  BY <1>3 DEF LivePages, SamePagesBut, NoPage
<1> QED BY <1>3, <1>4, <1>6, <1>7, <1>8 DEF Freed, HeapOK, Linked

\* A page leaves its list and is freed.
LEMMA UnlinkDestroyed ==
    ASSUME NEW h, HeapOK(h), NEW p \in LivePages(h), Linked(h, p),
           NEW g, g = UnlinkDestroy(h, p)
    PROVE  /\ Freed(g, h, p)
           /\ h.prv[p] # p => g.nxt[h.prv[p]] = h.nxt[p] /\ g.prv[h.nxt[p]] = h.prv[p]
           /\ \A n \in Nodes \ {p, h.prv[p]} : g.nxt[n] = h.nxt[n]
<1> DEFINE w == h.prv[p]
           y == h.nxt[p]
           h1 == [h EXCEPT !.nxt[w] = y, !.prv[y] = w]
<1>1. /\ h \in Heap /\ Counted(h) /\ Shown(h) /\ Threaded(h) /\ p \in PageIds
      /\ p \in Nodes /\ h.page[p].data \in DataIds
  BY DEF HeapOK, LivePages, Shown, Nodes
<1>2. h.reg[h.page[p].data].use # 0
  <2>1. p \in Refs(h, h.page[p].data)
    BY DEF Refs, LivePages
  <2> QED BY <1>1, <2>1, RefsFinite, FS_EmptySet DEF Counted
<1>3. /\ w \in Nodes /\ y \in Nodes /\ Linked(h, w) /\ Linked(h, y)
      /\ h.nxt[w] = p /\ h.prv[y] = p /\ Owner(h, y) = Owner(h, p) /\ Owner(h, w) = Owner(h, p)
  BY <1>1, Neighbours
<1>4. g = PageDestroy(h1, p)
  BY DEF UnlinkDestroy
<1>5. /\ h1 \in Heap /\ h1.reg = h.reg /\ h1.page = h.page
      /\ h1.nxt = [h.nxt EXCEPT ![w] = y] /\ h1.prv = [h.prv EXCEPT ![y] = w]
  <2> DEFINE f == [h.nxt EXCEPT ![w] = y]
             b == [h.prv EXCEPT ![y] = w]
  <2>1. f \in [Nodes -> Nodes \cup {NULL}] /\ b \in [Nodes -> Nodes \cup {NULL}]
    BY <1>1, <1>3 DEF Heap
  <2>2. h1 = [h EXCEPT !.nxt = f, !.prv = b]
    OBVIOUS
  <2> HIDE DEF f, b, h1
  <2>3. h1 = [reg |-> h.reg, page |-> h.page, nxt |-> f, prv |-> b]
    BY <1>1, <2>2 DEF Heap
  <2>4. h1 \in Heap
    BY <1>1, <2>1, <2>3 DEF Heap
  <2> QED BY <2>3, <2>4 DEF f, b
<1> HIDE DEF w, y, h1
<1>6. Counted(h1) /\ Shown(h1) /\ p \in LivePages(h1)
  <2>1. ASSUME NEW d PROVE Refs(h1, d) = Refs(h, d)
    BY <1>5 DEF Refs
  <2>2. Counted(h1)
    BY <1>1, <1>5, <2>1 DEF Counted
  <2>3. LivePages(h1) = LivePages(h)
    BY <1>5 DEF LivePages
  <2>4. Shown(h1)
    BY <1>1, <1>5, <2>3 DEF Shown, InBounds
  <2> QED BY <2>2, <2>3, <2>4
<1>7. /\ g \in Heap /\ g.reg = DataPut(h1, h1.page[p].data).reg /\ SamePagesBut(g, h1, p)
      /\ g.page[p] = NoPage
      /\ g.nxt = [h1.nxt EXCEPT ![p] = NULL]
      /\ g.prv = [h1.prv EXCEPT ![p] = NULL]
  <2>1. Destroyed(g, h1, p)
    BY <1>1, <1>2, <1>4, <1>5, PageDestroyForm
  <2> QED BY <2>1 DEF Destroyed
<1>8. Counted(g) /\ Shown(g)
  BY <1>5, <1>6, <1>7, ReferenceDropped
<1>9. h.nxt \in [Nodes -> Nodes \cup {NULL}] /\ h.prv \in [Nodes -> Nodes \cup {NULL}]
  BY <1>1 DEF Heap
<1>10. /\ g.nxt[p] = NULL /\ g.prv[p] = NULL
       /\ w # p => g.nxt[w] = y
       /\ y # p => g.prv[y] = w
       /\ \A n \in Nodes \ {p, w} : g.nxt[n] = h.nxt[n]
       /\ \A n \in Nodes \ {p, y} : g.prv[n] = h.prv[n]
  BY <1>1, <1>3, <1>5, <1>7, <1>9
<1>11. NULL \notin Nodes /\ y # NULL /\ w # NULL
  BY <1>3, HeapAssumption DEF Nodes
<1>12. \A n \in Nodes : Linked(g, n) <=> Linked(h, n) /\ n # p
  BY <1>3, <1>10, <1>11 DEF Linked
<1>13. SamePagesBut(g, h, p) /\ LivePages(g) = LivePages(h) \ {p}
  BY <1>5, <1>7 DEF LivePages, SamePagesBut, NoPage
<1>14. \A n \in Nodes \ {p} : Owner(g, n) = Owner(h, n)
  BY <1>13 DEF Owner, SamePagesBut
<1>15. Threaded(g)
  <2> SUFFICES ASSUME NEW n \in Nodes, Linked(g, n) \/ g.prv[n] # NULL
               PROVE  /\ g.nxt[n] # NULL /\ g.prv[n] # NULL
                      /\ g.prv[g.nxt[n]] = n /\ g.nxt[g.prv[n]] = n
                      /\ Owner(g, g.nxt[n]) = Owner(g, n)
                      /\ n \in PageIds => g.page[n].live
    BY DEF Threaded, Linked
  <2>1. n # p
    BY <1>10 DEF Linked
  <2>2. Linked(h, n)
    BY <2>1, <1>3, <1>10, <1>11, <1>1 DEF Threaded, Linked
  <2>3. /\ h.nxt[n] \in Nodes /\ h.prv[n] \in Nodes
        /\ Owner(h, h.nxt[n]) = Owner(h, n) /\ h.prv[h.nxt[n]] = n /\ h.nxt[h.prv[n]] = n
    BY <2>2, Neighbours
  <2>4. n \in PageIds => g.page[n].live
    BY <2>1, <2>2, <1>1, <1>13 DEF Threaded, SamePagesBut
  <2>5. g.prv[g.nxt[n]] = n /\ Owner(g, g.nxt[n]) = Owner(g, n) /\ g.nxt[n] # NULL
    <3>1. CASE n = w
      <4>1. y # p
        BY <3>1, <2>1, <2>3, <1>3 DEF w, y
      <4> QED BY <3>1, <4>1, <2>1, <1>3, <1>10, <1>11, <1>14
    <3>2. CASE n # w
      <4>1. h.nxt[n] # p /\ h.nxt[n] # y
        BY <3>2, <2>1, <2>3, <1>3 DEF w, y
      <4> QED BY <3>2, <4>1, <2>1, <2>3, <1>10, <1>11, <1>14
    <3> QED BY <3>1, <3>2
  <2>6. g.nxt[g.prv[n]] = n /\ g.prv[n] # NULL
    <3>1. CASE n = y
      <4>1. w # p
        BY <3>1, <2>1, <2>3, <1>3 DEF w, y
      <4> QED BY <3>1, <4>1, <2>1, <1>3, <1>10, <1>11
    <3>2. CASE n # y
      <4>1. h.prv[n] # p /\ h.prv[n] # w
        BY <3>2, <2>1, <2>3, <1>3 DEF w, y
      <4> QED BY <3>2, <4>1, <2>1, <2>3, <1>10, <1>11
    <3> QED BY <3>1, <3>2
  <2> QED BY <2>4, <2>5, <2>6
<1>16. w # p => y # p
  BY <1>3 DEF w, y
<1> QED BY <1>7, <1>8, <1>10, <1>12, <1>13, <1>15, <1>16 DEF Freed, HeapOK, w, y

-----------------------------------------------------------------------------
(* Reading and writing bytes.                                              *)

LEMMA PageBytesType ==
    ASSUME NEW h \in Heap, NEW p \in PageIds, h.page[p].data \in DataIds,
           NEW off \in Nat, NEW n \in Nat, InBounds(h, p, off, n)
    PROVE  PageBytes(h, p, off, n) \in Seq(Byte) /\ Len(PageBytes(h, p, off, n)) = n
<1> DEFINE m == h.reg[h.page[p].data].mem
           at == h.page[p].base + off
<1>1. m \in Seq(Byte) /\ at \in Nat /\ Len(m) \in Nat
  BY DEF Heap, Region, PageRec
<1>2. at + n <= Len(m)
  BY DEF InBounds
<1>3. PageBytes(h, p, off, n) = SubSeq(m, at + 1, at + n)
  BY DEF PageBytes
<1> HIDE DEF m, at
<1>4. SubSeq(m, at + 1, at + n) \in Seq(Byte) /\ Len(SubSeq(m, at + 1, at + n)) = n
  BY <1>1, <1>2, SubSeqProperties
<1> QED BY <1>3, <1>4

\* Only bytes differ.
Rewritten(g, h) ==
    /\ HeapOK(g)
    /\ g.page = h.page /\ g.nxt = h.nxt /\ g.prv = h.prv

LEMMA PageWriteOK ==
    ASSUME NEW h, HeapOK(h), NEW p \in LivePages(h), NEW off \in Nat,
           NEW s \in Seq(Byte), NEW g, g = PageWrite(h, p, off, s)
    PROVE  Rewritten(g, h)
<1> DEFINE d == h.page[p].data
           at == h.page[p].base + off
           m == h.reg[d].mem
           v == [i \in 1..Len(m) |-> IF i > at /\ i <= at + Len(s) THEN s[i - at] ELSE m[i]]
           r == [h.reg[d] EXCEPT !.mem = v]
<1>1. h \in Heap /\ p \in PageIds /\ d \in DataIds
  BY DEF HeapOK, Shown, LivePages
<1>2. m \in Seq(Byte) /\ at \in Nat /\ Len(m) \in Nat /\ h.reg[d] \in Region
  BY <1>1 DEF Heap, Region, PageRec
<1>3. g = [h EXCEPT !.reg[d] = r]
  BY DEF PageWrite
<1> HIDE DEF d, at, m
<1>4. v \in Seq(Byte) /\ Len(v) = Len(m)
  <2>1. \A i \in 1..Len(m) : v[i] \in Byte
    <3> SUFFICES ASSUME NEW i \in 1..Len(m)
                 PROVE  (IF i > at /\ i <= at + Len(s) THEN s[i - at] ELSE m[i]) \in Byte
      OBVIOUS
    <3>1. CASE i > at /\ i <= at + Len(s)
      <4>1. i - at \in 1..Len(s)
        BY <1>2, <3>1
      <4>2. s[i - at] \in Byte
        BY <4>1
      <4> QED BY <3>1, <4>2
    <3>2. CASE ~(i > at /\ i <= at + Len(s))
      <4>1. m[i] \in Byte
        BY <1>2
      <4> QED BY <3>2, <4>1
    <3> QED BY <3>1, <3>2
  <2>2. v \in [1..Len(m) -> Byte]
    BY <2>1
  <2> HIDE DEF v
  <2> QED BY <2>2, <1>2
<1> HIDE DEF v
<1>5. r \in Region /\ RegionIs(r, h.reg[d].live, h.reg[d].owned, h.reg[d].use, v)
  BY <1>2, <1>4 DEF Region, RegionIs
<1> HIDE DEF r
<1>6. g \in Heap /\ g.reg[d] = r /\ OnlyRegion(g, h, d)
  BY <1>1, <1>3, <1>5, RegionAt
<1>7. g.page = h.page /\ g.nxt = h.nxt /\ g.prv = h.prv
  BY <1>6 DEF OnlyRegion
<1>8. \A e \in DataIds : /\ g.reg[e].use = h.reg[e].use /\ g.reg[e].live = h.reg[e].live
                         /\ Len(g.reg[e].mem) = Len(h.reg[e].mem)
  BY <1>4, <1>5, <1>6 DEF OnlyRegion, RegionIs, m
<1>9. Counted(g)
  <2>1. \A e \in DataIds : Refs(g, e) = Refs(h, e)
    BY <1>7 DEF Refs
  <2>2. Refs(h, d) # {}
    BY DEF LivePages, Refs, d
  <2>3. \A e \in DataIds \ {d} : g.reg[e] = h.reg[e]
    BY <1>6 DEF OnlyRegion
  <2> QED BY <1>8, <2>1, <2>2, <2>3 DEF Counted, HeapOK
<1>10. Shown(g)
  <2>1. LivePages(g) = LivePages(h)
    BY <1>7 DEF LivePages
  <2> QED BY <1>7, <1>8, <2>1 DEF Shown, HeapOK, InBounds
<1>11. Threaded(g)
  BY <1>1, <1>6, <1>7, ThreadedSame DEF HeapOK
<1> QED BY <1>6, <1>7, <1>9, <1>10, <1>11 DEF Rewritten, HeapOK

\* p has a private copy in the region e of what it showed in the region d.
Copied(g, h, p, d, e, m) ==
    /\ g \in Heap
    /\ RegionIs(g.reg[e], TRUE, TRUE, 1, m)
    /\ g.reg[d] = DataPut(h, d).reg[d]
    /\ \A c \in DataIds \ {d, e} : g.reg[c] = h.reg[c]
    /\ PageIs(g.page[p], h.page[p].live, e, 0, Len(m), h.page[p].own)
    /\ SamePagesBut(g, h, p)
    /\ g.nxt = h.nxt /\ g.prv = h.prv

LEMMA PutCongruent ==
    ASSUME NEW h \in Heap, NEW k \in Heap, NEW d \in DataIds, k.reg[d] = h.reg[d]
    PROVE  DataPut(k, d).reg[d] = DataPut(h, d).reg[d]
  BY DEF DataPut, CountDown, Heap

LEMMA DupPageDataForm ==
    ASSUME NEW h \in Heap, NEW p \in PageIds, NEW d \in DataIds, NEW e \in DataIds,
           h.page[p].data = d, d # e, h.reg[d].use # 0,
           NEW m \in Seq(Byte), m = PageBytes(h, p, 0, h.page[p].len),
           NEW g, g = DupPageData(h, p, e)
    PROVE  Copied(g, h, p, d, e, m)
<1> DEFINE h1 == DataCreate(h, e, TRUE, m)
           k == DataPut(h1, d)
           r == [k.page[p] EXCEPT !.data = e, !.base = 0, !.len = Len(m)]
           k1 == [k EXCEPT !.page[p] = r]
           k2 == DataGet(k1, e)
<1>1. h1 \in Heap /\ RegionIs(h1.reg[e], TRUE, TRUE, 1, m) /\ OnlyRegion(h1, h, e)
  BY DataCreateForm
<1>2. g = DataPut(PageSetData(h1, p, e), e)
  BY DEF DupPageData
<1> HIDE DEF h1
<1>3. h1.reg[d] = h.reg[d] /\ h1.page[p].data = d /\ d # NULL
  BY <1>1, HeapAssumption DEF OnlyRegion
<1>4. k \in Heap /\ OnlyRegion(k, h1, d) /\ k.reg[d] = DataPut(h, d).reg[d]
  BY <1>1, <1>3, PutTouchesOne, PutCongruent
<1>5. PageSetData(h1, p, e) =
          DataGet([k EXCEPT !.page[p] =
                      [k.page[p] EXCEPT !.data = e, !.base = 0, !.len = Len(k.reg[e].mem)]], e)
  BY <1>3 DEF PageSetData
<1> HIDE DEF k
<1>6. k.reg[e] = h1.reg[e] /\ k.page = h.page /\ k.nxt = h.nxt /\ k.prv = h.prv
  BY <1>1, <1>4 DEF OnlyRegion
<1>7. k.reg[e].mem = m /\ Len(m) \in Nat
  BY <1>1, <1>6 DEF RegionIs
<1>8. g = DataPut(k2, e)
  BY <1>2, <1>5, <1>7
<1>9. r \in PageRec /\ PageIs(r, h.page[p].live, e, 0, Len(m), h.page[p].own)
  <2>1. k.page[p] \in PageRec /\ k.page[p] = h.page[p]
    BY <1>6 DEF Heap
  <2>2. r \in PageRec /\ PageIs(r, k.page[p].live, e, 0, Len(m), k.page[p].own)
    BY <2>1, <1>7, PageWindow
  <2> QED BY <2>1, <2>2
<1> HIDE DEF r
<1>10. k1 \in Heap /\ k1.page[p] = r /\ OnlyPage(k1, k, p)
  BY <1>4, <1>9, PageAt
<1> HIDE DEF k1
<1>11. RegionIs(k1.reg[e], TRUE, TRUE, 1, m) /\ k1.reg = k.reg
  BY <1>1, <1>6, <1>10 DEF OnlyPage
<1>12. /\ k2 \in Heap
       /\ RegionIs(k2.reg[e], TRUE, TRUE, 2, m)
       /\ OnlyRegion(k2, k1, e)
  <2>1. k1.reg[e].use + 1 # UseCountMod /\ k1.reg[e].use + 1 = 2
    BY <1>11, HeapAssumption DEF RegionIs
  <2>2. Got(k2, k1, e)
    BY <1>10, <2>1, DataGetForm
  <2> QED BY <1>11, <2>1, <2>2 DEF Got, RegionIs
<1> HIDE DEF k2
<1>13. /\ g \in Heap
       /\ RegionIs(g.reg[e], TRUE, TRUE, 1, m)
       /\ OnlyRegion(g, k2, e)
  <2>1. k2.reg[e].use # 0 /\ k2.reg[e].use = 2
    BY <1>12 DEF RegionIs
  <2>2. PutBack(g, k2, e)
    BY <1>8, <1>12, <2>1, DataPutForm
  <2> QED BY <1>12, <2>1, <2>2 DEF PutBack, RegionIs
<1>14. \A c \in DataIds \ {e} : g.reg[c] = k.reg[c]
  BY <1>11, <1>12, <1>13 DEF OnlyRegion
<1>15. g.page = k1.page /\ g.nxt = h.nxt /\ g.prv = h.prv
  BY <1>6, <1>10, <1>12, <1>13 DEF OnlyRegion, OnlyPage
<1>16. \A c \in DataIds \ {d, e} : g.reg[c] = h.reg[c]
  BY <1>1, <1>4, <1>14 DEF OnlyRegion
<1>17. SamePagesBut(g, h, p) /\ g.page[p] = r
  BY <1>6, <1>10, <1>15 DEF OnlyPage, SamePagesBut
<1> QED BY <1>4, <1>9, <1>13, <1>14, <1>15, <1>16, <1>17 DEF Copied

\* p shows the same number of bytes in another region.
Duplicated(g, h, p) ==
    /\ HeapOK(g)
    /\ SamePagesBut(g, h, p) /\ g.page[p].live
    /\ g.page[p].len = h.page[p].len /\ g.page[p].own = h.page[p].own
    /\ g.nxt = h.nxt /\ g.prv = h.prv

LEMMA DupPageDataOK ==
    ASSUME NEW h, HeapOK(h), NEW p \in LivePages(h), NEW e \in FreeData(h),
           NEW g, g = DupPageData(h, p, e)
    PROVE  Duplicated(g, h, p)
<1> DEFINE d == h.page[p].data
           m == PageBytes(h, p, 0, h.page[p].len)
<1>1. /\ h \in Heap /\ Counted(h) /\ Shown(h) /\ Threaded(h)
      /\ p \in PageIds /\ h.page[p].live /\ d \in DataIds /\ e \in DataIds
      /\ ~h.reg[e].live
  BY DEF HeapOK, LivePages, FreeData, Shown
<1>2. m \in Seq(Byte) /\ Len(m) = h.page[p].len
  <2>1. h.page[p].len \in Nat /\ InBounds(h, p, 0, h.page[p].len)
    BY <1>1 DEF Heap, PageRec, Shown
  <2> QED BY <1>1, <2>1, PageBytesType
<1>3. p \in Refs(h, d) /\ Refs(h, e) = {} /\ d # e
  BY <1>1 DEF Refs, Counted
<1>4. h.reg[d].use # 0
  BY <1>1, <1>3, RefsFinite, FS_EmptySet DEF Counted
<1>5. Copied(g, h, p, d, e, m)
  <2> HIDE DEF m
  <2>1. m = PageBytes(h, p, 0, h.page[p].len)
    BY DEF m
  <2>2. d = h.page[p].data
    OBVIOUS
  <2> HIDE DEF d
  <2> QED BY <1>1, <1>2, <1>3, <1>4, <2>1, <2>2, DupPageDataForm
<1> HIDE DEF d, m
<1>6. /\ g \in Heap /\ SamePagesBut(g, h, p) /\ g.nxt = h.nxt /\ g.prv = h.prv
      /\ PageIs(g.page[p], TRUE, e, 0, Len(m), h.page[p].own)
  BY <1>1, <1>5 DEF Copied
<1>7. p \notin Refs(g, d) /\ p \in Refs(g, e)
  BY <1>1, <1>3, <1>6 DEF Refs, PageIs
<1>8. /\ g.reg[d].use = Cardinality(Refs(g, d))
      /\ g.reg[d].live <=> Refs(g, d) # {}
      /\ Refs(g, d) = {} => g.reg[d] = NoRegion
      /\ Refs(g, d) # {} => g.reg[d].mem = h.reg[d].mem
  <2>1. g.reg[d] = DataPut(h, d).reg[d]
    BY <1>5 DEF Copied
  <2> QED BY <1>1, <1>3, <1>6, <1>7, <2>1, CountAfterPut
<1>9. Counted(g)
  <2> SUFFICES ASSUME NEW c \in DataIds, c # d
               PROVE  /\ g.reg[c].use = Cardinality(Refs(g, c))
                      /\ g.reg[c].live <=> Refs(g, c) # {}
                      /\ Refs(g, c) = {} => g.reg[c] = NoRegion
    BY <1>8 DEF Counted
  <2>1. CASE c = e
    <3>1. Cardinality(Refs(g, e)) = Cardinality(Refs(h, e)) + 1
      <4>1. p \notin Refs(h, e)
        BY <1>3
      <4> QED BY <4>1, <1>1, <1>6, <1>7, RefsAdded
    <3>2. Cardinality(Refs(g, e)) = 1
      BY <3>1, <1>3, FS_EmptySet
    <3> QED BY <2>1, <3>2, <1>5, <1>7 DEF Copied, RegionIs
  <2>2. CASE c # e
    <3>1. p \notin Refs(g, c) /\ p \notin Refs(h, c)
      BY <2>2, <1>6 DEF Refs, PageIs, d
    <3>2. Refs(g, c) = Refs(h, c)
      BY <3>1, <1>1, <1>6, RefsSame
    <3>3. g.reg[c] = h.reg[c]
      BY <2>2, <1>5 DEF Copied
    <3> QED BY <3>2, <3>3, <1>1 DEF Counted
  <2> QED BY <2>1, <2>2
<1>10. Shown(g)
  <2> SUFFICES ASSUME NEW q \in LivePages(g)
               PROVE  g.page[q].data \in DataIds /\ InBounds(g, q, 0, g.page[q].len)
    BY DEF Shown
  <2>1. CASE q = p
    <3>1. g.reg[e].mem = m /\ Len(m) \in Nat
      BY <1>2, <1>5 DEF Copied, RegionIs
    <3> QED BY <2>1, <3>1, <1>1, <1>6 DEF PageIs, InBounds
  <2>2. CASE q # p
    <3>1. q \in LivePages(h) /\ g.page[q] = h.page[q]
      BY <2>2, <1>6 DEF LivePages, SamePagesBut
    <3>2. h.page[q].data \in DataIds /\ InBounds(h, q, 0, h.page[q].len)
      BY <3>1, <1>1 DEF Shown
    <3>3. h.page[q].data # e
      BY <3>1, <1>3 DEF Refs, LivePages
    <3>4. g.reg[h.page[q].data].mem = h.reg[h.page[q].data].mem
      <4>1. CASE h.page[q].data = d
        <5>1. q \in Refs(g, d)
          BY <3>1, <4>1 DEF Refs, LivePages
        <5> QED BY <4>1, <5>1, <1>8
      <4>2. CASE h.page[q].data # d
        BY <4>2, <3>2, <3>3, <1>5 DEF Copied
      <4> QED BY <4>1, <4>2
    <3> QED BY <3>1, <3>2, <3>4 DEF InBounds
  <2> QED BY <2>1, <2>2
<1>11. Threaded(g)
  <2>1. \A q \in PageIds : Linked(h, q) =>
           g.page[q].live = h.page[q].live /\ g.page[q].own = h.page[q].own
    BY <1>1, <1>6 DEF SamePagesBut, PageIs
  <2> QED BY <1>1, <1>6, <2>1, ThreadedSame
<1> QED BY <1>2, <1>6, <1>9, <1>10, <1>11 DEF Duplicated, HeapOK, PageIs

-----------------------------------------------------------------------------
(* Buffers.                                                                *)

LEMMA EmptyHeapOK == HeapOK(EmptyHeap) /\ LivePages(EmptyHeap) = {}
<1>1. EmptyHeap \in Heap
  <2>1. NoRegion \in Region /\ NoPage \in PageRec
    BY DEF NoRegion, Region, NoPage, PageRec
  <2> QED BY <2>1 DEF EmptyHeap, Heap
<1>2. \A d \in DataIds : Refs(EmptyHeap, d) = {}
  BY DEF EmptyHeap, Refs, NoPage
<1>3. LivePages(EmptyHeap) = {}
  BY DEF EmptyHeap, LivePages, NoPage
<1>4. Counted(EmptyHeap)
  <2>1. \A d \in DataIds : /\ EmptyHeap.reg[d] = NoRegion
                            /\ EmptyHeap.reg[d].use = 0 /\ ~EmptyHeap.reg[d].live
    BY DEF EmptyHeap, NoRegion
  <2> QED BY <1>2, <2>1, FS_EmptySet DEF Counted
<1>5. Threaded(EmptyHeap)
  BY DEF Threaded, EmptyHeap, Linked
<1> QED BY <1>1, <1>3, <1>4, <1>5 DEF HeapOK, Shown

\* Only the anchor of the buffer b differs.
Reanchored(g, h, b) ==
    /\ HeapOK(g)
    /\ g.page = h.page
    /\ \A n \in Nodes \ {b} : g.nxt[n] = h.nxt[n]

LEMMA BufferCreateOK ==
    ASSUME NEW h, HeapOK(h), NEW b \in Buffers, ~Linked(h, b),
           NEW g, g = BufferCreate(h, b)
    PROVE  Reanchored(g, h, b)
<1> DEFINE f == [h.nxt EXCEPT ![b] = b]
           k == [h.prv EXCEPT ![b] = b]
<1>1. /\ h \in Heap /\ Counted(h) /\ Shown(h) /\ Threaded(h) /\ b \in Nodes
      /\ b \notin PageIds /\ b # NULL
  BY HeapAssumption DEF HeapOK, Nodes
<1>2. f \in [Nodes -> Nodes \cup {NULL}] /\ k \in [Nodes -> Nodes \cup {NULL}]
  BY <1>1 DEF Heap
<1>3. /\ f[b] = b /\ \A n \in Nodes \ {b} : f[n] = h.nxt[n]
      /\ k[b] = b /\ \A n \in Nodes \ {b} : k[n] = h.prv[n]
  BY <1>1 DEF Heap
<1>4. g = [h EXCEPT !.nxt = f, !.prv = k]
  BY DEF BufferCreate
<1> HIDE DEF f, k
<1>5. g = [reg |-> h.reg, page |-> h.page, nxt |-> f, prv |-> k]
  BY <1>1, <1>4 DEF Heap
<1>6. g \in Heap
  BY <1>1, <1>2, <1>5 DEF Heap
<1>7. g.reg = h.reg /\ g.page = h.page /\ g.nxt = f /\ g.prv = k
  BY <1>5
<1>8. Counted(g) /\ Shown(g)
  <2>1. \A d \in DataIds : Refs(g, d) = Refs(h, d)
    BY <1>7 DEF Refs
  <2>2. LivePages(g) = LivePages(h)
    BY <1>7 DEF LivePages
  <2> QED BY <1>1, <1>7, <2>1, <2>2 DEF Counted, Shown, InBounds
<1>9. Threaded(g)
  <2> SUFFICES ASSUME NEW n \in Nodes
               PROVE  /\ g.nxt[n] = NULL <=> g.prv[n] = NULL
                      /\ Linked(g, n) =>
                            /\ g.prv[g.nxt[n]] = n
                            /\ g.nxt[g.prv[n]] = n
                            /\ Owner(g, g.nxt[n]) = Owner(g, n)
                            /\ n \in PageIds => g.page[n].live
    BY DEF Threaded
  <2>1. CASE n = b
    BY <2>1, <1>1, <1>3, <1>7
  <2>2. CASE n # b
    <3>1. g.nxt[n] = h.nxt[n] /\ g.prv[n] = h.prv[n]
      BY <2>2, <1>3, <1>7
    <3>2. h.nxt[n] = NULL <=> h.prv[n] = NULL
      BY <1>1 DEF Threaded
    <3>3. ASSUME Linked(h, n)
          PROVE  /\ h.nxt[n] \in Nodes \ {b} /\ h.prv[n] \in Nodes \ {b}
                 /\ h.prv[h.nxt[n]] = n /\ h.nxt[h.prv[n]] = n
                 /\ Owner(h, h.nxt[n]) = Owner(h, n)
      BY <3>3, Neighbours
    <3>4. \A x : Owner(g, x) = Owner(h, x)
      BY <1>7 DEF Owner
    <3>5. Linked(h, n) /\ n \in PageIds => g.page[n].live
      BY <1>1, <1>7 DEF Threaded
    <3> QED BY <3>1, <3>2, <3>3, <3>4, <3>5, <1>3, <1>7 DEF Linked
  <2> QED BY <2>1, <2>2
<1> QED BY <1>3, <1>6, <1>7, <1>8, <1>9 DEF Reanchored, HeapOK

LEMMA BufferFreeOK ==
    ASSUME NEW h, HeapOK(h), NEW b \in Buffers, h.nxt[b] = b,
           NEW g, g = BufferFree(h, b)
    PROVE  Reanchored(g, h, b)
<1> DEFINE f == [h.nxt EXCEPT ![b] = NULL]
           k == [h.prv EXCEPT ![b] = NULL]
<1>1. /\ h \in Heap /\ Counted(h) /\ Shown(h) /\ Threaded(h) /\ b \in Nodes
      /\ b # NULL /\ Linked(h, b) /\ h.prv[b] = b
  <2>1. h \in Heap /\ Counted(h) /\ Shown(h) /\ Threaded(h) /\ b \in Nodes /\ b # NULL
    BY HeapAssumption DEF HeapOK, Nodes
  <2>2. Linked(h, b)
    BY <2>1 DEF Linked
  <2>3. h.prv[h.nxt[b]] = b
    BY <2>1, <2>2, Neighbours
  <2> QED BY <2>1, <2>2, <2>3
<1>2. f \in [Nodes -> Nodes \cup {NULL}] /\ k \in [Nodes -> Nodes \cup {NULL}]
  BY <1>1 DEF Heap
<1>3. /\ f[b] = NULL /\ \A n \in Nodes \ {b} : f[n] = h.nxt[n]
      /\ k[b] = NULL /\ \A n \in Nodes \ {b} : k[n] = h.prv[n]
  BY <1>1 DEF Heap
<1>4. g = [h EXCEPT !.nxt = f, !.prv = k]
  BY DEF BufferFree
<1> HIDE DEF f, k
<1>5. g = [reg |-> h.reg, page |-> h.page, nxt |-> f, prv |-> k]
  BY <1>1, <1>4 DEF Heap
<1>6. g \in Heap
  BY <1>1, <1>2, <1>5 DEF Heap
<1>7. g.reg = h.reg /\ g.page = h.page /\ g.nxt = f /\ g.prv = k
  BY <1>5
<1>8. Counted(g) /\ Shown(g)
  <2>1. \A d \in DataIds : Refs(g, d) = Refs(h, d)
    BY <1>7 DEF Refs
  <2>2. LivePages(g) = LivePages(h)
    BY <1>7 DEF LivePages
  <2> QED BY <1>1, <1>7, <2>1, <2>2 DEF Counted, Shown, InBounds
<1>9. Threaded(g)
  <2> SUFFICES ASSUME NEW n \in Nodes
               PROVE  /\ g.nxt[n] = NULL <=> g.prv[n] = NULL
                      /\ Linked(g, n) =>
                            /\ g.prv[g.nxt[n]] = n
                            /\ g.nxt[g.prv[n]] = n
                            /\ Owner(g, g.nxt[n]) = Owner(g, n)
                            /\ n \in PageIds => g.page[n].live
    BY DEF Threaded
  <2>1. CASE n = b
    BY <2>1, <1>3, <1>7 DEF Linked
  <2>2. CASE n # b
    <3>1. g.nxt[n] = h.nxt[n] /\ g.prv[n] = h.prv[n]
      BY <2>2, <1>3, <1>7
    <3>2. h.nxt[n] = NULL <=> h.prv[n] = NULL
      BY <1>1 DEF Threaded
    <3>3. ASSUME Linked(h, n)
          PROVE  /\ h.nxt[n] \in Nodes \ {b} /\ h.prv[n] \in Nodes \ {b}
                 /\ h.prv[h.nxt[n]] = n /\ h.nxt[h.prv[n]] = n
                 /\ Owner(h, h.nxt[n]) = Owner(h, n)
      BY <2>2, <3>3, <1>1, Neighbours
    <3>4. \A x : Owner(g, x) = Owner(h, x)
      BY <1>7 DEF Owner
    <3>5. Linked(h, n) /\ n \in PageIds => g.page[n].live
      BY <1>1, <1>7 DEF Threaded
    <3> QED BY <3>1, <3>2, <3>3, <3>4, <3>5, <1>3, <1>7 DEF Linked
  <2> QED BY <2>1, <2>2
<1> QED BY <1>3, <1>6, <1>7, <1>8, <1>9 DEF Reanchored, HeapOK

-----------------------------------------------------------------------------
(* One insertion.                                                          *)

AllLinked(h) == \A p \in LivePages(h) : Linked(h, p)

\* The list of b may have grown, the others are as they were.
Grown(g, h, b) ==
    /\ HeapOK(g) /\ AllLinked(g)
    /\ LinksKept(g, h)
    /\ \A r \in LivePages(h) : h.page[r].own # b => g.page[r] = h.page[r]

LEMMA PlacedPage ==
    ASSUME CountSuffices, NEW h, HeapOK(h), AllLinked(h), NEW p \in FreePages(h),
           NEW n, NEW k, Fresh(k, h, p, n),
           NEW x \in Nodes, Linked(h, x),
           NEW off \in Nat, off <= NodeLen(k, x), NEW q, off # 0 => q \in FreePages(k),
           NEW g, g = LinkBefore(IF off # 0 THEN SplitPage(k, x, off, q) ELSE k, p, x)
    PROVE  Grown(g, h, Owner(h, x)) /\ g.page[p].len = n
<1>1. /\ p \in PageIds /\ p \in Nodes /\ ~h.page[p].live /\ ~Linked(h, p) /\ h \in Heap
      /\ x # p
  BY DEF FreePages, Nodes, HeapOK, Threaded
<1>2. /\ HeapOK(k) /\ p \in LivePages(k) /\ ~Linked(k, p) /\ k.page[p].len = n
      /\ SamePagesBut(k, h, p) /\ k.nxt = h.nxt
  BY DEF Fresh, SamePagesBut
<1>3. /\ \A m \in Nodes : Linked(k, m) <=> Linked(h, m)
      /\ \A m \in Nodes \ {p} : Owner(k, m) = Owner(h, m)
      /\ LivePages(k) = LivePages(h) \cup {p}
  BY <1>1, <1>2 DEF Linked, Owner, SamePagesBut, LivePages
<1>4. CASE off = 0
  <2>1. Relinked(g, k, p, x)
    BY <1>2, <1>3, <1>4, LinkedPage
  <2>2. /\ HeapOK(g) /\ LivePages(g) = LivePages(k) /\ SamePagesBut(g, k, p)
        /\ \A m \in Nodes : Linked(g, m) <=> Linked(k, m) \/ m = p
        /\ \A m \in Nodes \ {p} : Owner(g, m) = Owner(k, m)
        /\ g.page[p].len = k.page[p].len
    BY <2>1 DEF Relinked
  <2>3. AllLinked(g)
    BY <1>1, <1>3, <2>2 DEF AllLinked, LivePages, Nodes
  <2>4. LinksKept(g, h)
    BY <1>1, <1>3, <2>2 DEF LinksKept
  <2>5. \A r \in LivePages(h) : g.page[r] = h.page[r]
    BY <1>1, <1>2, <2>2 DEF SamePagesBut, LivePages
  <2> QED BY <1>2, <2>2, <2>3, <2>4, <2>5 DEF Grown
<1>5. CASE off # 0
  <2> DEFINE s == SplitPage(k, x, off, q)
  <2>1. x \in LivePages(k) /\ off <= k.page[x].len
    <3>1. x \in PageIds
      BY <1>5 DEF NodeLen
    <3>2. h.page[x].live
      BY <3>1 DEF HeapOK, Threaded
    <3> QED BY <3>1, <3>2, <1>1, <1>2 DEF LivePages, SamePagesBut, NodeLen
  <2>2. q \in FreePages(k) /\ q \in PageIds /\ q \in Nodes /\ ~k.page[q].live
    BY <1>5 DEF FreePages, Nodes
  <2>3. Split(s, k, x, q)
    BY <2>1, <2>2, <1>2, <1>3, SplitPageOK
  <2>4. g = LinkBefore(s, p, x)
    BY <1>5
  <2> HIDE DEF s
  <2>5. /\ HeapOK(s) /\ LivePages(s) = LivePages(k) \cup {q}
        /\ \A m \in Nodes : Linked(s, m) <=> Linked(k, m) \/ m = q
        /\ \A m \in Nodes \ {q} : Owner(s, m) = Owner(k, m)
        /\ \A r \in PageIds \ {x, q} : s.page[r] = k.page[r]
    BY <2>3 DEF Split
  <2>6. q # p /\ q # x /\ ~Linked(h, q) /\ ~h.page[q].live
    <3>1. q # p
      BY <1>2, <2>2 DEF LivePages
    <3>2. q # x
      BY <2>1, <2>2 DEF LivePages
    <3>3. ~h.page[q].live
      BY <3>1, <1>2, <2>2 DEF SamePagesBut
    <3> QED BY <3>1, <3>2, <3>3, <2>2 DEF HeapOK, Threaded
  <2>7. p \in LivePages(s) /\ ~Linked(s, p) /\ Linked(s, x) /\ s.page[p] = k.page[p]
    BY <1>1, <1>2, <1>3, <2>5, <2>6
  <2>8. Relinked(g, s, p, x)
    BY <2>4, <2>5, <2>7, LinkedPage
  <2>9. /\ HeapOK(g) /\ LivePages(g) = LivePages(s) /\ SamePagesBut(g, s, p)
        /\ \A m \in Nodes : Linked(g, m) <=> Linked(s, m) \/ m = p
        /\ \A m \in Nodes \ {p} : Owner(g, m) = Owner(s, m)
        /\ g.page[p].len = s.page[p].len
    BY <2>8 DEF Relinked
  <2>10. AllLinked(g)
    BY <1>1, <1>3, <2>2, <2>5, <2>9 DEF AllLinked, LivePages, Nodes
  <2>11. LinksKept(g, h)
    <3>1. ASSUME NEW m \in Nodes, Linked(h, m)
          PROVE  Linked(g, m) /\ Owner(g, m) = Owner(h, m)
      <4>1. m # p /\ m # q
        BY <3>1, <1>1, <2>6
      <4> QED BY <3>1, <4>1, <1>3, <2>5, <2>9
    <3> QED BY <3>1 DEF LinksKept
  <2>12. ASSUME NEW r \in LivePages(h), h.page[r].own # Owner(h, x)
         PROVE  g.page[r] = h.page[r]
    <3>1. r \in PageIds /\ r # p /\ r # q /\ r # x
      BY <2>12, <1>1, <2>6 DEF LivePages, Owner
    <3> QED BY <3>1, <1>2, <2>5, <2>9 DEF SamePagesBut
  <2> QED BY <1>2, <2>7, <2>9, <2>10, <2>11, <2>12 DEF Grown
<1> QED BY <1>4, <1>5

\* The page made for an insertion that then failed is given back.
LEMMA AbandonedPage ==
    ASSUME NEW h, HeapOK(h), AllLinked(h), NEW p \in FreePages(h),
           NEW n, NEW k, Fresh(k, h, p, n), NEW g, g = PageDestroy(k, p), NEW b
    PROVE  Grown(g, h, b)
<1>1. /\ p \in PageIds /\ ~h.page[p].live /\ ~Linked(h, p)
  BY DEF FreePages, Nodes, HeapOK, Threaded
<1>2. /\ HeapOK(k) /\ p \in LivePages(k) /\ ~Linked(k, p)
      /\ SamePagesBut(k, h, p) /\ k.nxt = h.nxt
  BY DEF Fresh, SamePagesBut
<1>3. Freed(g, k, p) /\ g.nxt = k.nxt
  BY <1>2, LooseDestroyed
<1>4. HeapOK(g) /\ LivePages(g) = LivePages(k) \ {p} /\ SamePagesBut(g, k, p)
  BY <1>3 DEF Freed
<1>5. \A r \in PageIds \ {p} : g.page[r] = h.page[r]
  BY <1>2, <1>4 DEF SamePagesBut
<1>6. AllLinked(g)
  BY <1>2, <1>3, <1>4, <1>5 DEF AllLinked, LivePages, Linked
<1>7. LinksKept(g, h)
  BY <1>1, <1>2, <1>3, <1>5 DEF LinksKept, Linked, Owner
<1>8. \A r \in LivePages(h) : g.page[r] = h.page[r]
  BY <1>1, <1>5 DEF LivePages
<1> QED BY <1>4, <1>6, <1>7, <1>8 DEF Grown
=============================================================================
