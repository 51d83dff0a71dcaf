--------------------------- MODULE ContractProofs ---------------------------
(***************************************************************************)
(* Theorems about TrivialBufferContract: a trivial buffer implements the   *)
(* byte string of ByteQueue, a short count means a failed allocation, and  *)
(* the data revision is all an iterator has to look at.                    *)
(*                                                                         *)
(* The iterators come first.  Then follows what each iteration of each     *)
(* loop does to the bytes of its buffer and to the positions of the        *)
(* iterators (the ...Changes lemmas), the invariant that says what a call  *)
(* has done to the string it was entered with (Working, WorkInv), and the  *)
(* refinement: an entry asks, an iteration stutters, a return answers.     *)
(***************************************************************************)
EXTENDS ContentProofs, TrivialBufferContract

-----------------------------------------------------------------------------
(* Layouts.                                                                *)

LayoutEntry(h, p) == [page |-> p, bytes |-> PageBytes(h, p, 0, h.page[p].len)]

LEMMA LayoutIs ==
    ASSUME NEW h, HeapOK(h), NEW b \in Buffers, Exists(h, b), NEW N, NEW ps, NEW acc,
           Enumerates(h, b, N, ps, acc)
    PROVE  /\ Layout(h, b) \in Seq(PageShown) /\ Len(Layout(h, b)) = N
           /\ \A i \in 1..N : Layout(h, b)[i] = LayoutEntry(h, ps[i])
<1>1. N \in Nat /\ \A i \in 1..N : ps[i] \in Mine(h, b)
  BY SumsGrow
<1>2. PagesOf(h, b) = [i \in 1..N |-> ps[i]]
  BY WalkFindsPages
<1>3. /\ Len([i \in 1..N |-> ps[i]]) = N
      /\ \A i \in 1..N : [k \in 1..N |-> ps[k]][i] = ps[i]
  BY <1>1
<1>4. \A i \in 1..N : NodeLen(h, ps[i]) = h.page[ps[i]].len
  BY <1>1, PageFacts
<1>5. Layout(h, b) = [i \in 1..N |-> LayoutEntry(h, ps[i])]
  BY <1>2, <1>3, <1>4 DEF Layout, LayoutEntry
<1>6. ASSUME NEW i \in 1..N PROVE LayoutEntry(h, ps[i]) \in PageShown
  <2>1. /\ ps[i] \in PageIds /\ h.page[ps[i]].data \in DataIds /\ h.page[ps[i]].len \in Nat
        /\ InBounds(h, ps[i], 0, h.page[ps[i]].len)
    BY <1>1, PageFacts
  <2>2. h \in Heap
    BY DEF HeapOK
  <2>3. PageBytes(h, ps[i], 0, h.page[ps[i]].len) \in Seq(Byte)
    BY <2>1, <2>2, PieceBytes
  <2> QED BY <2>1, <2>3 DEF LayoutEntry, PageShown
<1>7. [i \in 1..N |-> LayoutEntry(h, ps[i])] \in [1..N -> PageShown]
  BY <1>6
<1> HIDE DEF LayoutEntry, PageShown
<1> QED BY <1>1, <1>5, <1>7

\* What the layout shows one after the other are the bytes of the buffer.
LEMMA LayoutBytes ==
    ASSUME NEW h, HeapOK(h), NEW b \in Buffers, Exists(h, b), Listed(h, b)
    PROVE  Layout(h, b) # NULL /\ Bytes(Layout(h, b)) = Content(h, b)
<1>1. PICK N, ps, acc : Enumerates(h, b, N, ps, acc)
  BY DEF Listed
<1> DEFINE q == Layout(h, b)
<1>2. /\ q \in Seq(PageShown) /\ Len(q) = N /\ N \in Nat
      /\ \A i \in 1..N : q[i] = LayoutEntry(h, ps[i])
  BY <1>1, LayoutIs, SumsGrow
<1>3. q # NULL
  BY <1>2, ContractAssumption
<1>4. PagesOf(h, b) = [i \in 1..N |-> ps[i]]
  BY <1>1, WalkFindsPages
<1>5. Content(h, b) = FlattenSeq([i \in 1..N |-> PageBytes(h, ps[i], 0, NodeLen(h, ps[i]))])
  <2>1. /\ Len([i \in 1..N |-> ps[i]]) = N
        /\ \A i \in 1..N : [k \in 1..N |-> ps[k]][i] = ps[i]
    BY <1>2
  <2>2. [i \in 1..N |-> PageBytes(h, [k \in 1..N |-> ps[k]][i], 0,
                                   NodeLen(h, [k \in 1..N |-> ps[k]][i]))]
          = [i \in 1..N |-> PageBytes(h, ps[i], 0, NodeLen(h, ps[i]))]
    BY <2>1
  <2> QED BY <2>1, <2>2, <1>4 DEF Content
<1>6. \A i \in 1..N : q[i].bytes = PageBytes(h, ps[i], 0, NodeLen(h, ps[i]))
  <2>1. \A i \in 1..N : NodeLen(h, ps[i]) = h.page[ps[i]].len
    BY <1>1, SumsGrow, PageFacts
  <2> QED BY <2>1, <1>2 DEF LayoutEntry
<1> HIDE DEF q
<1>7. [i \in 1..Len(q) |-> q[i].bytes] = [i \in 1..N |-> PageBytes(h, ps[i], 0, NodeLen(h, ps[i]))]
  BY <1>2, <1>6
<1>8. Bytes(q) = Content(h, b)
  BY <1>3, <1>5, <1>7 DEF Bytes
<1> QED BY <1>3, <1>8 DEF q

LEMMA NoLayout ==
    ASSUME NEW h, NEW b, ~Exists(h, b)
    PROVE  Layout(h, b) = NULL /\ Bytes(Layout(h, b)) = NULL
  BY DEF Layout, Bytes

\* One layout begins with another: as IsPrefixOf, at every place.
Begins(s, t) == Len(s) <= Len(t) /\ \A i \in 1..Len(s) : t[i] = s[i]

LEMMA BeginsIsPrefix ==
    ASSUME NEW S, NEW s \in Seq(S), NEW t \in Seq(S), Begins(s, t)
    PROVE  IsPrefixOf(s, t)
<1>1. /\ SubSeq(t, 0 + 1, 0 + Len(s)) \in Seq(S) /\ Len(SubSeq(t, 0 + 1, 0 + Len(s))) = Len(s)
      /\ \A i \in 1..Len(s) : SubSeq(t, 0 + 1, 0 + Len(s))[i] = t[0 + i]
  BY PieceAt DEF Begins
<1>2. SubSeq(t, 1, Len(s)) = s
  BY <1>1, SameElements DEF Begins
<1> QED BY <1>2 DEF IsPrefixOf, Begins

LEMMA BeginsOn ==
    ASSUME NEW S, NEW s \in Seq(S), NEW t \in Seq(S), NEW u \in Seq(S), Begins(s, t), Begins(t, u)
    PROVE  Begins(s, u)
<1>1. \A i \in 1..Len(s) : i \in 1..Len(t)
  BY DEF Begins
<1> QED BY <1>1 DEF Begins

LEMMA FrontLayout ==
    ASSUME NEW h, HeapOK(h), NEW g, HeapOK(g), NEW b \in Buffers, Exists(h, b), Exists(g, b),
           NEW N, NEW ps, NEW acc, Enumerates(h, b, N, ps, acc),
           NEW M, NEW qs, NEW bcc, Enumerates(g, b, M, qs, bcc),
           GoesOn(N, ps, acc, M, qs, bcc), BytesKept(g, h, b),
           \A p \in Mine(h, b) : g.page[p].len = h.page[p].len
    PROVE  Begins(Layout(h, b), Layout(g, b))
<1>1. /\ Len(Layout(h, b)) = N /\ N \in Nat /\ Len(Layout(g, b)) = M /\ N <= M
      /\ \A i \in 1..N : Layout(h, b)[i] = LayoutEntry(h, ps[i])
      /\ \A i \in 1..M : Layout(g, b)[i] = LayoutEntry(g, qs[i])
  BY LayoutIs, SumsGrow DEF GoesOn
<1>2. ASSUME NEW i \in 1..N PROVE LayoutEntry(g, qs[i]) = LayoutEntry(h, ps[i])
  <2>1. qs[i] = ps[i] /\ i \in 1..M /\ M \in Nat
    BY <1>1 DEF GoesOn
  <2>2. ps[i] \in Mine(h, b) /\ ps[i] \in Mine(g, b)
    BY <2>1, SumsGrow
  <2> DEFINE p == ps[i]
             u == PageBytes(h, p, 0, h.page[p].len)
             v == PageBytes(g, p, 0, g.page[p].len)
  <2>3. /\ h \in Heap /\ g \in Heap /\ p \in PageIds
        /\ h.page[p].data \in DataIds /\ g.page[p].data \in DataIds
        /\ h.page[p].len \in Nat /\ g.page[p].len = h.page[p].len
        /\ InBounds(h, p, 0, h.page[p].len) /\ InBounds(g, p, 0, g.page[p].len)
    BY <2>2, PageFacts DEF HeapOK
  <2>4. /\ u \in Seq(Byte) /\ Len(u) = h.page[p].len
        /\ \A j \in 1..h.page[p].len : u[j] = ByteAt(h, p, 0 + j)
    BY <2>3, PieceBytes
  <2>5. /\ v \in Seq(Byte) /\ Len(v) = g.page[p].len
        /\ \A j \in 1..g.page[p].len : v[j] = ByteAt(g, p, 0 + j)
    BY <2>3, PieceBytes
  <2>6. \A j \in 1..h.page[p].len : ByteAt(g, p, 0 + j) = ByteAt(h, p, 0 + j)
    BY <2>2 DEF BytesKept
  <2> HIDE DEF u, v
  <2>7. u = v
    BY <2>3, <2>4, <2>5, <2>6, SameElements
  <2> QED BY <2>1, <2>7 DEF LayoutEntry, u, v
<1>3. \A i \in 1..N : i \in 1..M
  BY <1>1
<1> QED BY <1>1, <1>2, <1>3 DEF Begins

LEMMA ListedThere ==
    ASSUME NEW h, NEW s, NEW c, SizesMatch(h, s, c), NEW b \in Buffers, Exists(h, b)
    PROVE  Listed(h, b)
  BY DEF SizesMatch, Chain, Listed

LEMMA LayoutType ==
    ASSUME NEW h, HeapOK(h), NEW b \in Buffers, Exists(h, b), Listed(h, b)
    PROVE  Layout(h, b) \in Seq(PageShown)
<1>1. PICK N, ps, acc : Enumerates(h, b, N, ps, acc)
  BY DEF Listed
<1> QED BY <1>1, LayoutIs

LEMMA KeptLayout ==
    ASSUME NEW h, HeapOK(h), NEW g, HeapOK(g), NEW b \in Buffers, Exists(h, b), Exists(g, b),
           ListKept(g, h, b), BytesKept(g, h, b), Listed(h, b)
    PROVE  Begins(Layout(h, b), Layout(g, b))
<1>1. PICK N, ps, acc : Enumerates(h, b, N, ps, acc)
  BY DEF Listed
<1>2. Enumerates(g, b, N, ps, acc)
  BY <1>1, EnumSame DEF ListKept
<1>3. GoesOn(N, ps, acc, N, ps, acc)
  <2>1. N \in Nat /\ N <= N
    BY <1>1 DEF Enumerates
  <2> QED BY <2>1 DEF GoesOn
<1>4. \A p \in Mine(h, b) : g.page[p].len = h.page[p].len
  BY DEF ListKept
<1> QED BY <1>1, <1>2, <1>3, <1>4, FrontLayout

LEMMA AppendedLayout ==
    ASSUME NEW h, HeapOK(h), NEW g, HeapOK(g), NEW b \in Buffers, Exists(h, b), Exists(g, b),
           Appended(g, h, b), Listed(h, b)
    PROVE  Begins(Layout(h, b), Layout(g, b))
<1>1. PICK N, ps, acc : Enumerates(h, b, N, ps, acc)
  BY DEF Listed
<1>2. PICK qs, bcc : Enumerates(g, b, N + 1, qs, bcc) /\ GoesOn(N, ps, acc, N + 1, qs, bcc)
  BY <1>1, AppendGoesOn
<1>3. BytesKept(g, h, b) /\ \A p \in Mine(h, b) : g.page[p].len = h.page[p].len
  BY DEF Appended
<1> QED BY <1>1, <1>2, <1>3, FrontLayout

-----------------------------------------------------------------------------
(* Iterators stay valid while the revision does.                           *)

\* While a call runs, the revisions it has raised stay raised.
LEMMA BumpedGrows ==
    ASSUME CountSuffices, IInv, Library
    PROVE  bumped \subseteq bumped'
<1>1. CASE ExtendStep \/ RewindStep \/ InsertDataStep \/ InsertBufferStep
  <2>1. LeaveLoop \/ Fault("oob") \/ \E h, p, n, x : Inserts(h, p, n, x)
    BY <1>1, InsertingStep
  <2>2. ASSUME NEW h, NEW p, NEW n, NEW x, Inserts(h, p, n, x) PROVE bumped \subseteq bumped'
    BY <2>2 DEF Inserts, InsertPage
  <2> QED BY <2>1, <2>2 DEF LeaveLoop, Fault
<1>2. CASE SeekStep \/ TrimStep
  BY <1>2 DEF SeekStep, TrimStep
<1>3. CASE OverwriteDataStep \/ OverwriteBufferStep
  BY <1>3 DEF OverwriteDataStep, OverwriteBufferStep, LeaveLoop, Fault
<1>4. CASE ReadDataStep \/ ClearStep
  BY <1>4 DEF ReadDataStep, ClearStep
<1>5. CASE Return
  BY <1>5 DEF Return
<1> QED BY <1>1, <1>2, <1>3, <1>4, <1>5 DEF Library

\* The layout s is still that of the front of buffer b, or its revision is raised or will be.
Stands(h, c, B, b, s) == b \in B \/ (Moving(c) /\ c.buf = b) \/ Begins(s, Layout(h, b))

\* The inductive invariant: while a call runs, every buffer of which it has not raised the
\* revision, and whose data it has not moved, begins as it was when the call was entered.
ValidInv ==
    /\ ClearBumps
    /\ call.pc # "idle" =>
          \A b \in Buffers :
             IF Exists(heap, b)
             THEN before[b] \in Seq(PageShown) /\ Stands(heap, call, bumped, b, before[b])
             ELSE before[b] = NULL

\* A step of the running call.
LEMMA StepStands ==
    ASSUME CountSuffices, IInv, IInv', ListInv, ListInv', FillInv, ClearBumps, Library, ~Return,
           NEW b \in Buffers, Exists(heap, b), Exists(heap', b), NEW s \in Seq(PageShown),
           Stands(heap, call, bumped, b, s)
    PROVE  Stands(heap', call', bumped', b, s)
<1>1. CallGoesOn /\ OwnEffect /\ OtherListsKept(heap', heap, call.buf)
  BY LibraryEffect DEF StepEffect
<1>2. bumped \subseteq bumped' /\ call.pc # "idle"
  BY BumpedGrows, InLibrary
<1>3. HeapOK(heap) /\ HeapOK(heap') /\ Listed(heap, b)
  BY ListedIf DEF IInv
<1>4. Listed(heap', b)
  BY ListedThere DEF ListInv
<1>5. Layout(heap, b) \in Seq(PageShown) /\ Layout(heap', b) \in Seq(PageShown)
  BY <1>3, <1>4, LayoutType
<1>6. ASSUME Begins(s, Layout(heap, b)), Begins(Layout(heap, b), Layout(heap', b))
      PROVE  Stands(heap', call', bumped', b, s)
  BY <1>5, <1>6, BeginsOn DEF Stands
<1>7. CASE b \in bumped
  BY <1>2, <1>7 DEF Stands
<1>8. CASE b # call.buf
  <2>1. ListKept(heap', heap, b)
    BY <1>1, <1>8 DEF OtherListsKept
  <2>2. \A p \in Mine(heap, b) :
           /\ heap'.page[p] = heap.page[p]
           /\ PageBytes(heap', p, 0, heap.page[p].len) = PageBytes(heap, p, 0, heap.page[p].len)
    BY <1>8, StepLeavesOthers DEF Next, Mine
  <2>3. BytesKept(heap', heap, b)
    BY <1>3, <2>2, BytesKeptWhole
  <2>4. Begins(Layout(heap, b), Layout(heap', b))
    BY <1>3, <2>1, <2>3, KeptLayout
  <2> QED BY <1>6, <1>7, <1>8, <2>4 DEF Stands
<1>9. CASE b = call.buf /\ b \notin bumped
  <2>1. call'.buf = b
    BY <1>1, <1>9 DEF CallGoesOn
  <2>2. CASE b \in bumped' \/ Moving(call')
    BY <2>1, <2>2 DEF Stands
  <2>3. CASE heap' = heap /\ (Moving(call) => Moving(call'))
    BY <2>1, <2>3, <1>9 DEF Stands
  <2>4. CASE Appending(call) /\ Appended(heap', heap, call.buf)
    <3>1. ~Moving(call)
      BY <2>4 DEF Moving, ReturnBumps, Appending, AppendFns
    <3>2. Begins(Layout(heap, b), Layout(heap', b))
      BY <1>3, <1>9, <2>4, AppendedLayout
    <3> QED BY <1>6, <1>9, <3>1, <3>2 DEF Stands
  <2> QED BY <1>1, <1>9, <2>2, <2>3, <2>4 DEF OwnEffect
<1> QED BY <1>7, <1>8, <1>9

\* A call that is entered finds every buffer as it is.
LEMMA EntryStands ==
    ASSUME IInv, ListInv, Begun, before' = Layouts(heap)
    PROVE  \A b \in Buffers :
              IF Exists(heap', b)
              THEN before'[b] \in Seq(PageShown) /\ Stands(heap', call', bumped', b, before'[b])
              ELSE before'[b] = NULL
<1>1. SUFFICES ASSUME NEW b \in Buffers
      PROVE  IF Exists(heap', b)
             THEN before'[b] \in Seq(PageShown) /\ Stands(heap', call', bumped', b, before'[b])
             ELSE before'[b] = NULL
  OBVIOUS
<1>2. heap' = heap /\ before'[b] = Layout(heap, b)
  BY DEF Begun, Layouts
<1>3. CASE Exists(heap, b)
  <2>1. Layout(heap, b) \in Seq(PageShown)
    BY <1>3, ListedIf, LayoutType DEF IInv
  <2>2. Begins(Layout(heap, b), Layout(heap, b))
    <3>1. Len(Layout(heap, b)) \in Nat
      BY <2>1
    <3> QED BY <3>1 DEF Begins
  <2> QED BY <1>2, <1>3, <2>1, <2>2 DEF Stands
<1>4. CASE ~Exists(heap, b)
  BY <1>2, <1>4, NoLayout
<1> QED BY <1>3, <1>4

\* A buffer that does not exist is not made while a call runs.
LEMMA StillMissing ==
    ASSUME CountSuffices, IInv, IInv', ListInv, FillInv, ClearBumps, Library, ~Return,
           NEW b \in Buffers, ~Exists(heap, b)
    PROVE  ~Exists(heap', b)
<1>1. OtherListsKept(heap', heap, call.buf)
  BY LibraryEffect DEF StepEffect
<1>2. Exists(heap, call.buf)
  BY InLibrary DEF IInv, CallOK, Inside, Linked, Exists
<1>3. b # call.buf
  BY <1>2
<1> QED BY <1>1, <1>3, KeptChain DEF OtherListsKept

LEMMA StepKeepsValid ==
    ASSUME CountSuffices, IInv, IInv', ListInv, ListInv', FillInv, ValidInv, [CNext]_cvars
    PROVE  ValidInv'
<1>1. CASE Client /\ CNext
  <2>1. call.pc = "idle" /\ (Begun \/ Made)
    BY <1>1, ClientBegins
  <2>2. CASE Made
    <3>1. call'.pc = "idle"
      BY <2>1, <2>2 DEF Made
    <3> QED BY <3>1 DEF ValidInv, ClearBumps
  <2>3. CASE Begun
    <3>1. Entered /\ before' = Layouts(heap)
      BY <1>1, <2>1, <2>3 DEF CNext, Entered, Begun
    <3>2. ClearBumps'
      BY <2>3 DEF Begun, ClearBumps
    <3> QED BY <2>3, <3>1, <3>2, EntryStands DEF ValidInv
  <2> QED BY <2>1, <2>2, <2>3
<1>2. CASE Return
  <2>1. call'.pc = "idle"
    BY <1>2 DEF Return, Idle
  <2> QED BY <2>1 DEF ValidInv, ClearBumps
<1>3. CASE Library /\ ~Return /\ CNext
  <2>1. CallGoesOn /\ call.pc # "idle" /\ ClearBumps
    BY <1>3, LibraryEffect, InLibrary DEF StepEffect, ValidInv
  <2>2. before' = before
    BY <1>3, <2>1 DEF CNext, Entered, Returned, CallGoesOn
  <2>3. ClearBumps'
    <3>1. call.fn \in {"clear", "destroy"} => bumped' = bumped
      BY <1>3, ClearingIsClear
    <3> QED BY <2>1, <3>1 DEF CallGoesOn, ClearBumps
  <2>4. ASSUME NEW b \in Buffers
        PROVE  IF Exists(heap', b)
               THEN before'[b] \in Seq(PageShown) /\ Stands(heap', call', bumped', b, before'[b])
               ELSE before'[b] = NULL
    <3>1. CASE Exists(heap, b)
      <4>1. Exists(heap', b)
        <5>1. CASE b = call.buf
          BY <2>1, <5>1 DEF CallGoesOn, IInv, CallOK, Inside, Linked, Exists
        <5>2. CASE b # call.buf
          BY <5>2, <3>1, <1>3, <2>1, ExistsStill DEF Next
        <5> QED BY <5>1, <5>2
      <4>2. before[b] \in Seq(PageShown) /\ Stands(heap, call, bumped, b, before[b])
        BY <2>1, <3>1 DEF ValidInv
      <4> DEFINE s == before[b]
      <4>3. s \in Seq(PageShown) /\ Stands(heap, call, bumped, b, s) /\ before'[b] = s
        BY <2>2, <4>2
      <4> HIDE DEF s
      <4>4. Stands(heap', call', bumped', b, s)
        BY <1>3, <2>1, <3>1, <4>1, <4>3, StepStands
      <4> QED BY <4>1, <4>3, <4>4
    <3>2. CASE ~Exists(heap, b)
      BY <1>3, <2>1, <2>2, <3>2, StillMissing DEF ValidInv
    <3> QED BY <3>1, <3>2
  <2> QED BY <2>3, <2>4 DEF ValidInv
<1>4. CASE UNCHANGED cvars
  BY <1>4 DEF cvars, ValidInv, ClearBumps, Stands
<1> QED BY <1>1, <1>2, <1>3, <1>4 DEF CNext, Next

\* All that is true of the buffers and of the call in progress between two steps.
ContractInv == IInv /\ ListInv /\ FillInv /\ ValidInv

LEMMA CStepIsStep == [CNext]_cvars => [Next]_vars
  BY DEF CNext, cvars, vars

LEMMA StepKeepsContract ==
    ASSUME CountSuffices, NoSelfSource, NoSplitAtEnd, ContractInv, [CNext]_cvars
    PROVE  ContractInv'
<1>1. IInv /\ ListInv /\ FillInv /\ ValidInv /\ [Next]_vars
  BY CStepIsStep DEF ContractInv
<1>2. IInv'
  BY <1>1, ClientKeeps, LibraryKeeps, StutterKeeps DEF Next
<1>3. ListInv' /\ FillInv'
  BY <1>1, <1>2, StepKeepsLists, StepKeepsFilled
<1>4. ValidInv'
  BY <1>1, <1>2, <1>3, StepKeepsValid
<1> QED BY <1>2, <1>3, <1>4 DEF ContractInv

LEMMA InitContract == CInit => ContractInv
<1>1. ASSUME CInit PROVE IInv /\ ListInv /\ FillInv
  BY <1>1, InitIInv, InitLists
     DEF CInit, Init, FillInv, Filled, LivePages, EmptyHeap, NoPage, Idle
<1>2. ASSUME CInit PROVE ValidInv
  BY <1>2 DEF CInit, Init, Idle, ValidInv, ClearBumps
<1> QED BY <1>1, <1>2 DEF ContractInv

THEOREM ContractInvariant ==
    ASSUME CountSuffices, NoSelfSource, NoSplitAtEnd
    PROVE  CSpec => []ContractInv
<1>1. ContractInv /\ [CNext]_cvars => ContractInv'
  BY StepKeepsContract
<1> QED BY <1>1, InitContract, PTL DEF CSpec

\* What returns leaves the buffers as its last step did, but for the one it destroys.
LEMMA ReturnStands ==
    ASSUME ContractInv, ContractInv', Return, NEW b \in Buffers, Exists(heap, b), b \notin bumped'
    PROVE  IsPrefixOf(before[b], Layout(heap', b))
<1>1. /\ call.pc # "idle" /\ call.buf \in Buffers
      /\ before[b] \in Seq(PageShown) /\ Stands(heap, call, bumped, b, before[b])
      /\ heap' = IF call.fn = "destroy" THEN BufferFree(heap, call.buf) ELSE heap
      /\ HeapOK(heap) /\ HeapOK(heap') /\ heap \in Heap
  BY DEF ContractInv, ValidInv, Return, IInv, HeapOK, CallOK
<1>2. b \notin bumped /\ ~(Moving(call) /\ call.buf = b)
  BY DEF Return, Moving
<1>3. Begins(before[b], Layout(heap, b))
  BY <1>1, <1>2 DEF Stands
<1>4. call.fn = "destroy" => b # call.buf
  BY <1>1, <1>2 DEF ContractInv, ValidInv, ClearBumps
<1>5. heap'.page = heap.page /\ heap'.reg = heap.reg
  BY ReturnIsQuiet DEF ContractInv
<1>6. BytesKept(heap', heap, b)
  BY <1>5 DEF BytesKept, ByteAt
<1>7. \A n \in Mine(heap, b) \cup {b} : heap'.nxt[n] = heap.nxt[n]
  <2>1. CASE call.fn # "destroy"
    BY <2>1, <1>1
  <2>2. CASE call.fn = "destroy"
    <3>1. /\ call.buf \notin Mine(heap, b) \cup {b}
          /\ Mine(heap, b) \cup {b} \subseteq Nodes
      BY <1>1, <1>4, <2>2, MineFacts, HeapAssumption DEF Nodes
    <3>2. \A n \in Nodes \ {call.buf} : heap'.nxt[n] = heap.nxt[n]
      BY <1>1, <2>2 DEF BufferFree, Heap
    <3> QED BY <3>1, <3>2
  <2> QED BY <2>1, <2>2
<1>8. ListKept(heap', heap, b) /\ Exists(heap', b)
  BY <1>5, <1>7 DEF ListKept, Mine, LivePages, Exists
<1>9. Listed(heap, b) /\ Listed(heap', b)
  BY <1>8, ListedThere DEF ContractInv, ListInv
<1>10. Begins(Layout(heap, b), Layout(heap', b))
  BY <1>1, <1>6, <1>8, <1>9, KeptLayout
<1>11. Layout(heap, b) \in Seq(PageShown) /\ Layout(heap', b) \in Seq(PageShown)
  BY <1>1, <1>8, <1>9, LayoutType
<1>12. Begins(before[b], Layout(heap', b))
  BY <1>1, <1>3, <1>10, <1>11, BeginsOn
<1> QED BY <1>1, <1>11, <1>12, BeginsIsPrefix

\* What ends a call is its return.
LEMMA OnlyReturn ==
    ASSUME CountSuffices, ContractInv, IInv', Next, Returned
    PROVE  Return
<1>1. CASE Client
  BY <1>1, ClientBegins DEF ContractInv, Returned
<1>2. CASE Library /\ ~Return
  <2>1. CallGoesOn
    BY <1>2, LibraryEffect DEF StepEffect, ContractInv, ValidInv
  <2> QED BY <2>1 DEF CallGoesOn, Returned
<1> QED BY <1>1, <1>2 DEF Next

\* The data revision is honest: a call that returns with the revision of a buffer as it
\* found it has left every page of the buffer where it was with the bytes it showed, and
\* at most appended some.
THEOREM IteratorsValid ==
    ASSUME CountSuffices, NoSelfSource, NoSplitAtEnd
    PROVE  CSpec => IteratorsStayValid
<1>1. ASSUME ContractInv, ContractInv', [CNext]_cvars
      PROVE  [Returned =>
                 \A b \in Buffers :
                    Exists(heap, b) /\ b \notin bumped' =>
                       IsPrefixOf(before[b], Layout(heap', b))]_cvars
  <2>1. SUFFICES ASSUME CNext, Returned, NEW b \in Buffers, Exists(heap, b), b \notin bumped'
                 PROVE  IsPrefixOf(before[b], Layout(heap', b))
    BY <1>1
  <2>2. Return
    BY <1>1, <2>1, OnlyReturn DEF ContractInv, CNext
  <2> QED BY <1>1, <2>1, <2>2, ReturnStands
<1> QED BY <1>1, ContractInvariant, PTL DEF CSpec, IteratorsStayValid

-----------------------------------------------------------------------------
(* What putting a page into a list does to the bytes of the buffer.        *)

LEMMA ByteShown ==
    ASSUME NEW h, HeapOK(h), NEW b \in Buffers, NEW N, NEW ps, NEW acc,
           Enumerates(h, b, N, ps, acc), NEW k \in 1..N, NEW m \in 1..h.page[ps[k]].len
    PROVE  Content(h, b)[acc[k - 1] + m] = ByteAt(h, ps[k], m)
<1>1. N \in Nat
  BY SumsGrow
<1>2. Shows(h, ps, acc, N, Content(h, b))
  BY ContentShown
<1> QED BY <1>1, <1>2 DEF Shows

\* s is the string q with the string w put in behind its first t bytes.
IsPut(s, q, t, w) ==
    /\ s \in Seq(Byte) /\ Len(s) = Len(q) + Len(w)
    /\ \A i \in 1..t : s[i] = q[i]
    /\ \A i \in 1..Len(w) : s[t + i] = w[i]
    /\ \A i \in 1..(Len(q) - t) : s[(t + Len(w)) + i] = q[t + i]

\* The bytes of page p.
Reads(h, p, w) ==
    w \in Seq(Byte) /\ Len(w) = h.page[p].len /\ \A i \in 1..Len(w) : w[i] = ByteAt(h, p, i)

\* The list of b in g is that in h with the page p put behind its page j.
PutIn(g, h, b, N, ps, acc, j, p, qs, sum) ==
    /\ Enumerates(h, b, N, ps, acc) /\ Enumerates(g, b, N + 1, qs, sum)
    /\ PutAfter(N, ps, acc, j, p, g.page[p].len, qs, sum)
    /\ BytesKept(g, h, b) /\ \A q \in Mine(h, b) : g.page[q].len = h.page[q].len

\* One page more, behind page j.
LEMMA PutContent ==
    ASSUME NEW h, HeapOK(h), NEW g, HeapOK(g), NEW b \in Buffers,
           NEW N, NEW ps, NEW acc, NEW j \in 0..N, NEW p, NEW qs, NEW sum,
           PutIn(g, h, b, N, ps, acc, j, p, qs, sum), NEW w, Reads(g, p, w)
    PROVE  IsPut(Content(g, b), Content(h, b), acc[j], w)
<1> DEFINE C == Content(h, b)
           D == Content(g, b)
           t == acc[j]
           l == g.page[p].len
<1>0. /\ Enumerates(h, b, N, ps, acc) /\ Enumerates(g, b, N + 1, qs, sum)
      /\ PutAfter(N, ps, acc, j, p, l, qs, sum)
      /\ BytesKept(g, h, b) /\ \A q \in Mine(h, b) : g.page[q].len = h.page[q].len
      /\ w \in Seq(Byte) /\ Len(w) = l /\ \A i \in 1..l : w[i] = ByteAt(g, p, i)
  BY DEF PutIn, Reads
<1> USE <1>0
<1> HIDE DEF l
<1>1. /\ N \in Nat /\ j \in Nat /\ j <= N /\ l \in Nat /\ t \in Nat
      /\ \A i \in 0..N : acc[i] \in Nat
      /\ \A i \in 1..N : /\ ps[i] \in Mine(h, b) /\ h.page[ps[i]].len \in Nat
                         /\ acc[i] = acc[i - 1] + h.page[ps[i]].len
  BY SumsGrow
<1>2. C \in Seq(Byte) /\ D \in Seq(Byte) /\ Len(C) = acc[N] /\ Len(D) = sum[N + 1]
  BY ContentLen
<1>3. \A i \in 0..j : acc[i] <= t
  <2> SUFFICES ASSUME NEW i \in 0..j PROVE acc[i] <= t
    OBVIOUS
  <2>1. i \in 0..N /\ j \in i..N
    BY <1>1
  <2> QED BY <2>1, SumsOrdered
<1>4. \A i \in j..N : t <= acc[i]
  <2> SUFFICES ASSUME NEW i \in j..N PROVE t <= acc[i]
    OBVIOUS
  <2>1. j \in 0..N /\ i \in j..N
    BY <1>1
  <2> QED BY <2>1, SumsOrdered
<1>5. \A k \in (j + 1)..N : sum[k] = acc[k - 1] + l
  <2> SUFFICES ASSUME NEW k \in (j + 1)..N PROVE sum[k] = acc[k - 1] + l
    OBVIOUS
  <2>1. CASE k = j + 1
    <3>1. k - 1 = j
      BY <2>1, <1>1
    <3> QED BY <3>1, <2>1 DEF PutAfter
  <2>2. CASE k # j + 1
    <3>1. k - 1 \in (j + 1)..N /\ (k - 1) + 1 = k
      BY <2>2, <1>1
    <3> QED BY <3>1 DEF PutAfter
  <2> QED BY <2>1, <2>2
<1>6. sum[N + 1] = acc[N] + l
  <2>1. CASE j = N
    BY <2>1 DEF PutAfter
  <2>2. CASE j # N
    <3>1. N \in (j + 1)..N
      BY <2>2, <1>1
    <3> QED BY <3>1 DEF PutAfter
  <2> QED BY <2>1, <2>2
<1>7. ASSUME NEW k \in 1..N, NEW m \in 1..h.page[ps[k]].len
      PROVE  /\ C[acc[k - 1] + m] = ByteAt(h, ps[k], m)
             /\ k <= j => D[acc[k - 1] + m] = ByteAt(h, ps[k], m)
             /\ k > j => D[(acc[k - 1] + l) + m] = ByteAt(h, ps[k], m)
  <2>1. C[acc[k - 1] + m] = ByteAt(h, ps[k], m)
    BY ByteShown
  <2>2. ps[k] \in Mine(h, b) /\ g.page[ps[k]].len = h.page[ps[k]].len
    BY <1>1
  <2>3. ByteAt(g, ps[k], m) = ByteAt(h, ps[k], m)
    BY <2>2 DEF BytesKept
  <2>4. CASE k <= j
    <3>1. k \in 0..j /\ k - 1 \in 0..j /\ k \in 1..(N + 1)
      BY <2>4, <1>1
    <3>2. qs[k] = ps[k] /\ sum[k - 1] = acc[k - 1]
      BY <3>1 DEF PutAfter
    <3>3. m \in 1..g.page[qs[k]].len
      BY <2>2, <3>2
    <3>4. D[sum[k - 1] + m] = ByteAt(g, qs[k], m)
      BY <3>1, <3>3, ByteShown
    <3>5. D[acc[k - 1] + m] = ByteAt(h, ps[k], m)
      BY <3>2, <3>4, <2>3
    <3> QED BY <3>5, <2>1, <2>4, <1>1
  <2>5. CASE k > j
    <3>1. k \in (j + 1)..N /\ k + 1 \in 1..(N + 1) /\ (k + 1) - 1 = k
      BY <2>5, <1>1
    <3>2. qs[k + 1] = ps[k] /\ sum[k] = acc[k - 1] + l
      BY <3>1, <1>5 DEF PutAfter
    <3>3. m \in 1..g.page[qs[k + 1]].len
      BY <2>2, <3>2
    <3>4. D[sum[(k + 1) - 1] + m] = ByteAt(g, qs[k + 1], m)
      BY <3>1, <3>3, ByteShown
    <3>5. D[(acc[k - 1] + l) + m] = ByteAt(h, ps[k], m)
      BY <3>1, <3>2, <3>4, <2>3
    <3> QED BY <3>5, <2>1, <2>5, <1>1
  <2>6. k <= j \/ k > j
    BY <1>1
  <2> QED BY <2>4, <2>5, <2>6
<1>8. ASSUME NEW k \in 1..N, NEW m \in 1..h.page[ps[k]].len
      PROVE  /\ k \in Nat /\ m \in Nat /\ m > 0 /\ acc[k - 1] \in Nat
             /\ k <= j => acc[k - 1] + m <= t
             /\ k > j => acc[k - 1] + m > t
  <2>0. k - 1 \in 0..N /\ k \in Nat
    BY <1>1
  <2>1. /\ h.page[ps[k]].len \in Nat /\ k - 1 \in 0..N /\ k \in Nat
        /\ acc[k] = acc[k - 1] + h.page[ps[k]].len /\ acc[k - 1] \in Nat
    BY <2>0, <1>1
  <2>2. m \in Nat /\ m > 0 /\ m <= h.page[ps[k]].len
    BY <2>1
  <2>3. ASSUME k <= j PROVE acc[k - 1] + m <= t
    <3>1. k \in 0..j
      BY <2>1, <2>3, <1>1
    <3>2. acc[k - 1] + h.page[ps[k]].len <= t
      BY <3>1, <2>1, <1>3
    <3>3. t \in Nat
      BY <1>1
    <3> HIDE DEF t
    <3> QED BY <3>2, <3>3, <2>1, <2>2
  <2>4. ASSUME k > j PROVE acc[k - 1] + m > t
    <3>1. k - 1 \in j..N
      BY <2>4, <2>1, <1>1
    <3>2. t <= acc[k - 1]
      BY <3>1, <1>4
    <3> QED BY <3>2, <2>1, <2>2, <1>1
  <2> QED BY <2>1, <2>2, <2>3, <2>4
<1>9. ASSUME NEW i \in 1..t PROVE D[i] = C[i]
  <2>0. t <= acc[N] /\ acc[N] \in Nat
    <3>1. N \in j..N /\ N \in 0..N
      BY <1>1
    <3> QED BY <3>1, <1>1, <1>4
  <2>1. i \in 1..acc[N]
    BY <2>0, <1>1
  <2> PICK k \in 1..N : \E m \in 1..h.page[ps[k]].len : i = acc[k - 1] + m
    BY <2>1, Located
  <2>2. PICK m \in 1..h.page[ps[k]].len : i = acc[k - 1] + m
    OBVIOUS
  <2>3. k <= j
    BY <2>2, <1>1, <1>8
  <2> QED BY <2>2, <2>3, <1>7
<1>10. ASSUME NEW i \in 1..l PROVE D[t + i] = w[i]
  <2>1. j + 1 \in 1..(N + 1) /\ (j + 1) - 1 = j /\ j \in 0..j
    BY <1>1
  <2>2. qs[j + 1] = p /\ sum[j] = t
    BY <2>1 DEF PutAfter
  <2>3. D[sum[(j + 1) - 1] + i] = ByteAt(g, qs[j + 1], i)
    BY <2>1, <2>2, ByteShown DEF l
  <2> QED BY <2>1, <2>2, <2>3
<1>11. ASSUME NEW i \in 1..(acc[N] - t) PROVE D[(t + l) + i] = C[t + i]
  <2>1. t + i \in 1..acc[N] /\ i \in Nat /\ i > 0
    BY <1>1
  <2> PICK k \in 1..N : \E m \in 1..h.page[ps[k]].len : t + i = acc[k - 1] + m
    BY <2>1, Located
  <2>2. PICK m \in 1..h.page[ps[k]].len : t + i = acc[k - 1] + m
    OBVIOUS
  <2>3. /\ k \in Nat /\ m \in Nat /\ acc[k - 1] \in Nat
        /\ k <= j => acc[k - 1] + m <= t
    BY <1>8
  <2>4. k > j
    BY <2>1, <2>2, <2>3, <1>1
  <2>5. (t + l) + i = (acc[k - 1] + l) + m
    <3>1. t \in Nat /\ l \in Nat
      BY <1>1
    <3> HIDE DEF t
    <3>2. (t + l) + i = (t + i) + l /\ (acc[k - 1] + l) + m = (acc[k - 1] + m) + l
      BY <2>1, <2>3, <3>1
    <3> QED BY <3>2, <2>2
  <2> QED BY <2>2, <2>4, <2>5, <1>7
<1> HIDE DEF C, D, t
<1>12. IsPut(D, C, t, w)
  BY <1>2, <1>6, <1>9, <1>10, <1>11 DEF IsPut
<1> QED BY <1>12 DEF C, D, t

\* A live page shows the same bytes if it has the same window and the regions stand.
LEMMA PreservedBytes ==
    ASSUME NEW h, HeapOK(h), NEW g, Preserved(g, h), NEW p \in LivePages(h)
    PROVE  /\ h.page[p].data \in DataIds
           /\ g.reg[h.page[p].data].mem = h.reg[h.page[p].data].mem
<1>1. h.page[p].data \in DataIds /\ p \in Refs(h, h.page[p].data)
  BY DEF HeapOK, Shown, Refs, LivePages
<1>2. h.reg[h.page[p].data].live
  BY <1>1 DEF HeapOK, Counted
<1> QED BY <1>1, <1>2 DEF Preserved

\* A page split in two shows what it showed.
LEMMA SplitContent ==
    ASSUME NEW h, HeapOK(h), NEW b \in Buffers, NEW N, NEW ps, NEW acc,
           Enumerates(h, b, N, ps, acc), NEW k \in 1..N, NEW x, x = ps[k], Linked(h, x),
           NEW off \in Nat, off <= h.page[x].len, NEW q \in FreePages(h),
           NEW g, HeapOK(g), SplitInto(g, h, x, off, q)
    PROVE  /\ Content(g, b) = Content(h, b)
           /\ \E qs, sum : /\ Enumerates(g, b, N + 1, qs, sum)
                           /\ qs[k + 1] = x /\ sum[k] = acc[k - 1] + off
<1> DEFINE j == k - 1
           w == ps[j]
           r == [h.page[x] EXCEPT !.len = h.page[x].len - off]
           y == [h EXCEPT !.page[x] = r]
<1>1. /\ N \in Nat /\ k \in Nat /\ j \in 0..N /\ j + 1 = k /\ j \in Nat
      /\ \A i \in 0..N : acc[i] \in Nat
      /\ \A i \in 1..N : /\ ps[i] \in Mine(h, b) /\ h.page[ps[i]].len \in Nat
                         /\ acc[i] = acc[i - 1] + h.page[ps[i]].len
  BY SumsGrow
<1>2. /\ h \in Heap /\ x \in PageIds /\ x \in Nodes /\ q \in PageIds /\ q \in Nodes
      /\ x \in LivePages(h) /\ x \in Mine(h, b) /\ h.page[x].own = b /\ Owner(h, x) = b
      /\ h.page[x].live /\ ~h.page[q].live /\ q # x /\ q \notin Mine(h, b)
      /\ q \notin Buffers /\ x \notin Buffers /\ h.page[x].len \in Nat
  BY <1>1, HeapAssumption DEF HeapOK, LivePages, FreePages, Nodes, Owner, Mine
<1>3. w = h.prv[x] /\ w \in Nodes /\ w \in Mine(h, b) \cup {b} /\ h.nxt[w] = x
  <2>1. h.prv[ps[j + 1]] = ps[j]
    BY <1>1, EnumPrev
  <2>2. ps[j] \in Nodes /\ ps[j] \in Mine(h, b) \cup {b} /\ h.nxt[ps[j]] = ps[j + 1]
    BY <1>1, EnumNode, EnumNext
  <2> QED BY <2>1, <2>2, <1>1
<1>4. w # q
  BY <1>2, <1>3
<1>5. r \in PageRec /\ r.live = h.page[x].live /\ r.own = b /\ r.len = h.page[x].len - off
  <2>1. h.page[x] \in PageRec /\ h.page[x].len - off \in Nat
    BY <1>2 DEF Heap
  <2> QED BY <2>1, <1>2 DEF PageRec
<1>6. y.page[x] = r /\ y.nxt = h.nxt /\ \A i \in PageIds \ {x} : y.page[i] = h.page[i]
  <2> HIDE DEF r
  <2>1. y.page[x] = r /\ OnlyPage(y, h, x)
    BY <1>2 DEF Heap, OnlyPage
  <2> QED BY <2>1 DEF OnlyPage
<1> HIDE DEF y, r, w, j
<1>7. Mine(y, b) = Mine(h, b)
  BY <1>2, <1>5, <1>6 DEF Mine, LivePages
<1>8. PICK bcc : /\ Enumerates(y, b, N, ps, bcc) /\ bcc[N] = acc[N] - off
                 /\ \A i \in 0..N : bcc[i] = IF i < k THEN acc[i] ELSE acc[i] - off
  <2>1. \A i \in Mine(h, b) \ {x} : y.page[i].len = h.page[i].len
    BY <1>6, MineFacts
  <2>2. y.page[x].len = h.page[x].len - off /\ \A m \in Mine(h, b) \cup {b} : y.nxt[m] = h.nxt[m]
    BY <1>5, <1>6
  <2> QED BY <2>1, <2>2, <1>7, EnumCut
<1>9. /\ g.nxt[w] = q /\ g.nxt[q] = x
      /\ \A n \in Nodes \ {w, q} : g.nxt[n] = h.nxt[n]
  <2>1. h.nxt \in [Nodes -> Nodes \cup {NULL}] /\ g.nxt = [[h.nxt EXCEPT ![w] = q] EXCEPT ![q] = x]
    BY <1>2, <1>3 DEF SplitInto, Heap
  <2> QED BY <2>1, <1>2, <1>3, <1>4
<1>10. /\ PageIs(g.page[q], TRUE, h.page[x].data, h.page[x].base, off, b)
       /\ PageIs(g.page[x], TRUE, h.page[x].data, h.page[x].base + off, h.page[x].len - off, b)
       /\ \A i \in PageIds \ {x, q} : g.page[i] = h.page[i]
  BY <1>2 DEF SplitInto
<1>11. PICK qs, sum : /\ Enumerates(g, b, N + 1, qs, sum)
                      /\ PutAfter(N, ps, bcc, j, q, off, qs, sum)
  <2>1. g.page[q].len = off /\ g.page[q].len \in Int
    BY <1>10 DEF PageIs
  <2>2. q \notin Mine(y, b) /\ Mine(g, b) = Mine(y, b) \cup {q}
    BY <1>2, <1>7, <1>10 DEF Mine, LivePages, PageIs
  <2>3. \A i \in Mine(y, b) : g.page[i].len = y.page[i].len
    <3> SUFFICES ASSUME NEW i \in Mine(y, b) PROVE g.page[i].len = y.page[i].len
      OBVIOUS
    <3>1. i \in PageIds /\ i # q
      BY <1>2, <1>7, MineFacts
    <3> QED BY <3>1, <1>5, <1>6, <1>10 DEF PageIs
  <2>4. \A n \in (Mine(y, b) \cup {b}) \ {w} : g.nxt[n] = y.nxt[n]
    BY <1>2, <1>6, <1>7, <1>9, MineFacts DEF Nodes
  <2>5. y.nxt[w] = x
    BY <1>3, <1>6
  <2>6. \E qs, sum : /\ Enumerates(g, b, N + 1, qs, sum)
                     /\ PutAfter(N, ps, bcc, j, q, g.page[q].len, qs, sum)
    <3>1. w = ps[j]
      BY DEF w
    <3>2. Enumerates(y, b, N, ps, bcc) /\ g.nxt[w] = q /\ g.nxt[q] = y.nxt[w] /\ q \in PageIds
      BY <2>5, <1>2, <1>8, <1>9
    <3> QED BY <3>1, <3>2, <2>1, <2>2, <2>3, <2>4, <1>1, EnumInsert
  <2> QED BY <2>1, <2>6
<1>12. qs[k + 1] = x /\ sum[k] = acc[k - 1] + off
  <2>1. k \in (j + 1)..N /\ j \in 0..j /\ j \in 0..N /\ j < k /\ k - 1 = j
    BY <1>1
  <2>2. qs[k + 1] = ps[k] /\ sum[j + 1] = bcc[j] + off /\ bcc[j] = acc[j]
    BY <2>1, <1>8, <1>11 DEF PutAfter
  <2> QED BY <2>1, <2>2, <1>1
<1> DEFINE C == Content(h, b)
           D == Content(g, b)
<1>13. C \in Seq(Byte) /\ D \in Seq(Byte) /\ Len(C) = acc[N] /\ Len(D) = sum[N + 1]
  BY <1>11, ContentLen
<1>14. \A i \in k..N : sum[i + 1] = acc[i] /\ qs[i + 1] = ps[i]
  <2> SUFFICES ASSUME NEW i \in k..N PROVE sum[i + 1] = acc[i] /\ qs[i + 1] = ps[i]
    OBVIOUS
  <2>1. i \in (j + 1)..N /\ i \in 0..N /\ ~(i < k)
    BY <1>1
  <2>2. qs[i + 1] = ps[i] /\ sum[i + 1] = bcc[i] + off /\ bcc[i] = acc[i] - off /\ acc[i] \in Nat
    BY <2>1, <1>1, <1>8, <1>11 DEF PutAfter
  <2> QED BY <2>2
<1>15. Len(D) = Len(C)
  <2>1. N \in k..N
    BY <1>1
  <2> QED BY <2>1, <1>13, <1>14
<1>16. \A p \in Mine(h, b) : /\ h.page[p].data \in DataIds
                             /\ g.reg[h.page[p].data].mem = h.reg[h.page[p].data].mem
  BY PreservedBytes DEF SplitInto, Mine
<1>21. \A i \in 1..N : ps[i] = x => i = k
  BY DEF Enumerates
<1>17. ASSUME NEW i \in 1..N, i # k, NEW m PROVE ByteAt(g, ps[i], m) = ByteAt(h, ps[i], m)
  <2>1. ps[i] \in Mine(h, b) /\ ps[i] # x /\ ps[i] # q /\ ps[i] \in PageIds
    <3>1. ps[i] \in Mine(h, b)
      BY <1>1
    <3>2. ps[i] # x
      BY <1>17, <1>21
    <3> QED BY <3>1, <3>2, <1>2, MineFacts
  <2>2. g.page[ps[i]] = h.page[ps[i]]
    BY <2>1, <1>10
  <2> QED BY <2>1, <2>2, <1>16 DEF ByteAt
<1>18. ASSUME NEW i \in 1..acc[N] PROVE D[i] = C[i]
  <2> PICK n \in 1..N : \E m \in 1..h.page[ps[n]].len : i = acc[n - 1] + m
    BY Located
  <2>1. PICK m \in 1..h.page[ps[n]].len : i = acc[n - 1] + m
    OBVIOUS
  <2>2. C[i] = ByteAt(h, ps[n], m)
    BY <2>1, ByteShown
  <2>3. /\ n \in Nat /\ acc[n - 1] \in Nat /\ h.page[ps[n]].len \in Nat
        /\ m \in Nat /\ m > 0 /\ m <= h.page[ps[n]].len /\ ps[n] \in PageIds
    <3>1. n \in Nat /\ n - 1 \in 0..N /\ h.page[ps[n]].len \in Nat /\ ps[n] \in PageIds
      BY <1>1, MineFacts
    <3> QED BY <3>1, <1>1
  <2>4. CASE n < k
    <3>1. n \in 0..j /\ n - 1 \in 0..j /\ n \in 1..(N + 1) /\ n - 1 \in 0..N /\ n - 1 < k
      BY <2>3, <2>4, <1>1
    <3>2. qs[n] = ps[n] /\ sum[n - 1] = acc[n - 1]
      BY <3>1, <1>8, <1>11 DEF PutAfter
    <3>3. ps[n] # x /\ ps[n] # q
      <4>1. n # k /\ ps[n] \in Mine(h, b)
        BY <2>3, <2>4, <1>1
      <4> QED BY <4>1, <1>2, <1>21
    <3>4. m \in 1..g.page[qs[n]].len
      BY <3>2, <3>3, <2>3, <1>10
    <3>5. D[sum[n - 1] + m] = ByteAt(g, qs[n], m)
      BY <3>1, <3>4, <1>11, ByteShown
    <3>6. ByteAt(g, ps[n], m) = ByteAt(h, ps[n], m)
      BY <2>4, <2>3, <1>1, <1>17
    <3> QED BY <3>2, <3>5, <3>6, <2>1, <2>2
  <2>5. CASE n > k
    <3>1. n \in k..N /\ n - 1 \in k..N /\ n + 1 \in 1..(N + 1) /\ (n + 1) - 1 = n /\ (n - 1) + 1 = n
      BY <2>3, <2>5, <1>1
    <3>2. qs[n + 1] = ps[n] /\ sum[n] = acc[n - 1]
      <4>1. sum[(n - 1) + 1] = acc[n - 1]
        BY <3>1, <1>14
      <4> QED BY <3>1, <4>1, <1>14
    <3>3. ps[n] # x /\ ps[n] # q
      <4>1. n # k /\ ps[n] \in Mine(h, b)
        BY <2>3, <2>5, <1>1
      <4> QED BY <4>1, <1>2, <1>21
    <3>4. m \in 1..g.page[qs[n + 1]].len
      BY <3>2, <3>3, <2>3, <1>10
    <3>5. D[sum[(n + 1) - 1] + m] = ByteAt(g, qs[n + 1], m)
      BY <3>1, <3>4, <1>11, ByteShown
    <3>6. ByteAt(g, ps[n], m) = ByteAt(h, ps[n], m)
      BY <2>5, <2>3, <1>1, <1>17
    <3> QED BY <3>1, <3>2, <3>5, <3>6, <2>1, <2>2
  <2>6. CASE n = k /\ m <= off
    <3>1. j \in 0..j /\ k \in 1..(N + 1) /\ k - 1 = j /\ j \in 0..N /\ j < k
      <4>1. j \in Nat /\ N \in Nat /\ j + 1 = k /\ k \in Nat /\ k <= N /\ k >= 1
        BY <1>1
      <4> QED BY <4>1
    <3>2. qs[k] = q /\ sum[k - 1] = acc[k - 1]
      <4>1. qs[j + 1] = q /\ sum[j] = bcc[j] /\ bcc[j] = acc[j]
        BY <3>1, <1>8, <1>11 DEF PutAfter
      <4> QED BY <4>1, <3>1, <1>1
    <3>3. m \in 1..g.page[qs[k]].len
      BY <3>2, <2>3, <2>6, <1>10 DEF PageIs
    <3>4. D[sum[k - 1] + m] = ByteAt(g, qs[k], m)
      BY <3>1, <3>3, <1>11, ByteShown
    <3>5. ByteAt(g, q, m) = ByteAt(h, x, m)
      BY <1>2, <1>10, <1>16 DEF ByteAt, PageIs
    <3> QED BY <3>2, <3>4, <3>5, <2>1, <2>2, <2>6
  <2>7. CASE n = k /\ m > off
    <3> DEFINE e == m - off
    <3>1. /\ e \in Nat /\ e > 0 /\ e <= h.page[x].len - off /\ off + e = m
          /\ h.page[x].len - off \in Nat
      BY <2>3, <2>7, <1>2
    <3>2. k + 1 \in 1..(N + 1) /\ (k + 1) - 1 = k
      BY <1>1
    <3> HIDE DEF e
    <3>3. e \in 1..g.page[qs[k + 1]].len
      BY <3>1, <1>10, <1>12 DEF PageIs
    <3>4. D[sum[(k + 1) - 1] + e] = ByteAt(g, qs[k + 1], e)
      BY <3>2, <3>3, <1>11, ByteShown
    <3>5. ByteAt(g, x, e) = ByteAt(h, x, m)
      <4>1. h.page[x].base \in Nat
        BY <1>2, PageFacts
      <4>2. (h.page[x].base + off) + e = h.page[x].base + m
        BY <4>1, <3>1
      <4> QED BY <4>2, <1>2, <1>10, <1>16 DEF ByteAt, PageIs
    <3>6. (acc[k - 1] + off) + e = acc[k - 1] + m
      BY <2>3, <2>7, <3>1
    <3> QED BY <3>2, <3>4, <3>5, <3>6, <2>1, <2>2, <2>7, <1>12
  <2> QED BY <2>3, <2>4, <2>5, <2>6, <2>7, <1>1
<1> HIDE DEF C, D
<1>19. D = C
  BY <1>13, <1>15, <1>18, SameElements
<1> QED BY <1>11, <1>12, <1>19 DEF C, D

\* The loose page p is linked in front of the node x.
LEMMA LinkContent ==
    ASSUME NEW h, HeapOK(h), NEW p \in LivePages(h), ~Linked(h, p), h.page[p].own = NULL,
           NEW b \in Buffers, NEW N, NEW ps, NEW acc, Enumerates(h, b, N, ps, acc),
           NEW k \in 1..(N + 1), NEW x \in Nodes, x = ps[k], Linked(h, x), Owner(h, x) = b,
           NEW g, HeapOK(g), LinkedIn(g, h, p, x),
           NEW w, Reads(h, p, w)
    PROVE  /\ IsPut(Content(g, b), Content(h, b), acc[k - 1], w)
           /\ \E qs, sum : /\ Enumerates(g, b, N + 1, qs, sum)
                           /\ qs[k + 1] = x /\ sum[k] = acc[k - 1] + Len(w)
<1> DEFINE v == h.prv[x]
           j == k - 1
           l == Len(w)
<1>1. /\ N \in Nat /\ k \in Nat /\ j \in 0..N /\ j + 1 = k /\ j \in Nat /\ l \in Nat
      /\ \A i \in 0..N : acc[i] \in Nat
  BY SumsGrow DEF Reads
<1>2. v = ps[j] /\ h.nxt[v] = x /\ v \in Nodes /\ Linked(h, v) /\ Owner(h, v) = b
  <2>1. h.prv[ps[j + 1]] = ps[j]
    BY <1>1, EnumPrev
  <2>2. v \in Nodes /\ Linked(h, v) /\ Owner(h, v) = b /\ h.nxt[v] = x
    BY Neighbours
  <2> QED BY <2>1, <2>2, <1>1
<1>3. v \in Mine(h, b) \cup {b} /\ v # p
  BY <1>2, InList
<1>4. /\ h \in Heap /\ p \in PageIds /\ p \in Nodes /\ h.page[p].live /\ p \notin Buffers
      /\ p # x
  BY HeapAssumption DEF HeapOK, LivePages, Nodes
<1>5. /\ g.nxt[v] = p /\ g.nxt[p] = x
      /\ \A n \in Nodes \ {v, p} : g.nxt[n] = h.nxt[n]
  <2>1. h.nxt \in [Nodes -> Nodes \cup {NULL}] /\ g.nxt = [[h.nxt EXCEPT ![v] = p] EXCEPT ![p] = x]
    BY <1>4 DEF LinkedIn, Heap
  <2> HIDE DEF v
  <2> QED BY <2>1, <1>2, <1>3, <1>4
<1>6. /\ PageIs(g.page[p], TRUE, h.page[p].data, h.page[p].base, l, b)
      /\ \A q \in PageIds \ {p} : g.page[q] = h.page[q]
      /\ g.reg = h.reg
  BY <1>4 DEF LinkedIn, SamePagesBut, Reads
<1>7. p \notin Mine(h, b) /\ Mine(g, b) = Mine(h, b) \cup {p}
  BY <1>4, <1>6, HeapAssumption DEF Mine, LivePages, PageIs
<1> HIDE DEF v, j, l
<1>8. PICK qs, sum : /\ Enumerates(g, b, N + 1, qs, sum)
                     /\ PutAfter(N, ps, acc, j, p, l, qs, sum)
  <2>1. g.page[p].len = l /\ g.page[p].len \in Int
    BY <1>1, <1>6 DEF PageIs
  <2>2. \A q \in Mine(h, b) : g.page[q].len = h.page[q].len
    BY <1>6, <1>7, MineFacts
  <2>3. \A n \in (Mine(h, b) \cup {b}) \ {v} : g.nxt[n] = h.nxt[n]
    BY <1>4, <1>5, <1>7, MineFacts DEF Nodes
  <2>4. \E qs, sum : /\ Enumerates(g, b, N + 1, qs, sum)
                     /\ PutAfter(N, ps, acc, j, p, g.page[p].len, qs, sum)
    BY <2>1, <2>2, <2>3, <1>1, <1>2, <1>4, <1>5, <1>7, EnumInsert
  <2> QED BY <2>1, <2>4
<1>9. BytesKept(g, h, b) /\ \A q \in Mine(h, b) : g.page[q].len = h.page[q].len
  <2>1. \A q \in Mine(h, b) : g.page[q] = h.page[q]
    BY <1>6, <1>7, MineFacts
  <2> QED BY <2>1, <1>6 DEF BytesKept, ByteAt
<1>10. Reads(g, p, w)
  BY <1>6 DEF ByteAt, PageIs, l, Reads
<1>11. IsPut(Content(g, b), Content(h, b), acc[j], w)
  <2>1. PutIn(g, h, b, N, ps, acc, j, p, qs, sum)
    BY <1>6, <1>8, <1>9 DEF PageIs, PutIn
  <2> QED BY <2>1, <1>1, <1>10, PutContent
<1>12. qs[k + 1] = x /\ sum[k] = acc[j] + l
  <2>1. CASE j = N
    <3>1. qs[(N + 1) + 1] = b /\ ps[N + 1] = b
      BY <1>8 DEF Enumerates
    <3>2. k = N + 1 /\ k + 1 = (N + 1) + 1 /\ sum[j + 1] = acc[j] + l
      BY <2>1, <1>1, <1>8 DEF PutAfter
    <3> QED BY <3>1, <3>2, <1>1
  <2>2. CASE j # N
    <3>1. k \in (j + 1)..N
      BY <2>2, <1>1
    <3> QED BY <3>1, <1>1, <1>8 DEF PutAfter
  <2> QED BY <2>1, <2>2
<1> QED BY <1>8, <1>11, <1>12 DEF j, l


\* A page reads the same while its window and its region stay.
LEMMA ReadsStill ==
    ASSUME NEW h, HeapOK(h), NEW g, Preserved(g, h), NEW p \in LivePages(h),
           g.page[p] = h.page[p], NEW w, Reads(h, p, w)
    PROVE  Reads(g, p, w)
<1>1. g.reg[h.page[p].data].mem = h.reg[h.page[p].data].mem
  BY PreservedBytes
<1> QED BY <1>1 DEF Reads, ByteAt

\* A page with the bytes w is made in k and inserted in front of offset off of the node x,
\* as pb_trivial_buffer_insert does: the page x is split there if the offset is not 0.
LEMMA InsertContent ==
    ASSUME CountSuffices, NEW h, HeapOK(h), NEW p \in FreePages(h), NEW n, NEW k,
           Loose(k, h, p, n), NEW w, Reads(k, p, w), NEW b \in Buffers,
           NEW x, Inside(h, x, b), NEW off, NEW t, Pos(h, b, x, off, t),
           NEW q, NEW g, Placed(g, k, p, x, off, q), HeapOK(g), Filled(g)
    PROVE  IsPut(Content(g, b), Content(h, b), t, w) /\ Pos(g, b, x, 0, t + Len(w))
<1>1. PICK N, ps, acc, i : Enumerates(h, b, N, ps, acc) /\ PosIn(h, N, ps, acc, i, x, off, t)
  BY DEF Pos
<1>2. PosFacts(h, b, N, ps, acc, i, x, off, t)
  BY <1>1, PosInFacts
<1>3. /\ x \in Nodes /\ Linked(h, x) /\ Owner(h, x) = b
      /\ i \in 1..(N + 1) /\ x = ps[i] /\ t = acc[i - 1] + off /\ N \in Nat /\ off \in Nat
      /\ acc[i - 1] \in Nat
  BY <1>2 DEF Inside, PosFacts
<1>4. /\ HeapOK(k) /\ p \in LivePages(k) /\ ~Linked(k, p) /\ k.page[p].own = NULL
      /\ Linked(k, x) /\ Owner(k, x) = b /\ x # p /\ NodeLen(k, x) = NodeLen(h, x)
      /\ p \notin LivePages(h) /\ LivePages(k) = LivePages(h) \cup {p}
      /\ SamePagesBut(k, h, p) /\ k.nxt = h.nxt
  BY <1>3, LooseFacts
<1>5. Mine(k, b) = Mine(h, b) /\ \A r \in Mine(h, b) : k.page[r] = h.page[r]
  <2>1. \A r \in LivePages(h) : k.page[r] = h.page[r]
    BY <1>4 DEF SamePagesBut, LivePages
  <2>2. b # NULL
    BY HeapAssumption
  <2> QED BY <2>1, <2>2, <1>4 DEF Mine
<1>6. Enumerates(k, b, N, ps, acc)
  BY <1>1, <1>4, <1>5, EnumSame
<1>7. Content(k, b) = Content(h, b)
  <2>1. ListKept(k, h, b) /\ Listed(h, b)
    BY <1>1, <1>4, <1>5 DEF ListKept, Listed
  <2>2. KeptBut(k, h, {})
    BY PreservedIsKept DEF Loose
  <2>3. BytesKept(k, h, b)
    BY <2>2, <1>4, <1>5, BytesKeptIf
  <2> QED BY <2>1, <2>3, <1>4, KeptContent
<1> DEFINE s == SplitAt(k, x, off, q)
<1>8. off \in Nat /\ off <= NodeLen(k, x) /\ (off # 0 => q \in FreePages(k))
  BY DEF Placed
<1>9. g = LinkBefore(s, p, x)
  BY DEF Placed
<1>10. /\ HeapOK(s) /\ p \in LivePages(s) /\ ~Linked(s, p) /\ Linked(s, x)
       /\ s.page[p] = k.page[p] /\ Owner(s, x) = Owner(k, x)
       /\ off # 0 => /\ x \in LivePages(k) /\ off <= k.page[x].len /\ q # p /\ q # x
                     /\ SplitInto(s, k, x, off, q)
       /\ off = 0 => s = k
  BY <1>3, <1>4, <1>8, SplitAtOK
<1> HIDE DEF s
<1>11. PICK M, qs, sum, j :
          /\ Enumerates(s, b, M, qs, sum) /\ j \in 1..(M + 1) /\ x = qs[j] /\ sum[j - 1] = t
          /\ Content(s, b) = Content(h, b) /\ Reads(s, p, w)
  <2>1. CASE off = 0
    <3>1. s = k /\ t = acc[i - 1]
      BY <2>1, <1>3, <1>10
    <3> QED BY <3>1, <1>3, <1>6, <1>7
  <2>2. CASE off # 0
    <3>1. q \in FreePages(k) /\ SplitInto(s, k, x, off, q) /\ off <= k.page[x].len
      BY <2>2, <1>8, <1>10
    <3>2. i \in 1..N
      BY <2>2, <1>2 DEF PosFacts
    <3>3. /\ Content(s, b) = Content(k, b)
          /\ \E qs, sum : /\ Enumerates(s, b, N + 1, qs, sum)
                          /\ qs[i + 1] = x /\ sum[i] = acc[i - 1] + off
      BY <3>1, <3>2, <1>3, <1>4, <1>6, <1>10, SplitContent
    <3>4. PICK qs, sum : /\ Enumerates(s, b, N + 1, qs, sum)
                         /\ qs[i + 1] = x /\ sum[i] = acc[i - 1] + off
      BY <3>3
    <3>5. Reads(s, p, w)
      <4>1. Preserved(s, k)
        BY <3>1 DEF SplitInto
      <4> QED BY <4>1, <1>4, <1>10, ReadsStill
    <3>6. i + 1 \in 1..((N + 1) + 1) /\ (i + 1) - 1 = i
      BY <3>2, <1>3
    <3>7. sum[(i + 1) - 1] = t
      BY <3>4, <3>6, <1>3
    <3> QED BY <3>3, <3>4, <3>5, <3>6, <3>7, <1>7
  <2> QED BY <2>1, <2>2
<1>12. LinkedIn(g, s, p, x)
  BY <1>3, <1>9, <1>10, LinkIsIn
<1>13. s.page[p].own = NULL /\ Owner(s, x) = b
  BY <1>4, <1>10
<1>14. /\ IsPut(Content(g, b), Content(s, b), sum[j - 1], w)
       /\ \E rs, tot : /\ Enumerates(g, b, M + 1, rs, tot)
                       /\ rs[j + 1] = x /\ tot[j] = sum[j - 1] + Len(w)
  BY <1>3, <1>10, <1>11, <1>12, <1>13, LinkContent
<1>15. PICK rs, tot : /\ Enumerates(g, b, M + 1, rs, tot)
                      /\ rs[j + 1] = x /\ tot[j] = sum[j - 1] + Len(w)
  BY <1>14
<1>16. Pos(g, b, x, 0, t + Len(w))
  <2>1. M \in Nat
    BY <1>11 DEF Enumerates
  <2>2. j + 1 \in 1..((M + 1) + 1) /\ (j + 1) - 1 = j
    BY <2>1, <1>11
  <2>3. Pos(g, b, rs[j + 1], 0, tot[(j + 1) - 1])
    BY <2>2, <1>15, PosAtPage
  <2> QED BY <2>2, <2>3, <1>11, <1>15
<1> QED BY <1>11, <1>14, <1>16


-----------------------------------------------------------------------------
(* The bytes an insert brings.                                             *)

\* w is what the call in progress has to insert next, as far as that is settled: the
\* next bytes of the caller's memory, or those at the source iterator.
Supplied(w) ==
    /\ call.fn \in {"insert_data", "insert_data_ref"} =>
          \A j \in 1..Len(w) : w[j] = call.dat[call.done + j]
    /\ call.fn = "insert_buffer" =>
          /\ call.sit # call.src
          /\ \A j \in 1..Len(w) : w[j] = ByteAt(heap, call.sit, call.soff + j)

\* A page made of the bytes m shows them.
LEMMA MadePageReads ==
    ASSUME CountSuffices, IInv, NEW owned \in BOOLEAN, NEW m \in Seq(Byte), NEW x,
           MakePage(owned, m, x)
    PROVE  \/ LeaveLoop
           \/ \E p, h : /\ p \in FreePages(heap) /\ Loose(h, heap, p, Len(m)) /\ Reads(h, p, m)
                        /\ InsertPage(h, p, x)
<1> DEFINE p == AnyOf(FreePages(heap))
           d == AnyOf(FreeData(heap))
           h == BufferPageCreate(heap, p, d, owned, m)
<1>1. CASE ~NoRoom /\ InsertPage(h, p, x)
  <2>1. p \in FreePages(heap) /\ d \in FreeData(heap) /\ HeapOK(heap)
    BY <1>1, SomeOf DEF NoRoom, IInv
  <2>2. p \in PageIds /\ d \in DataIds /\ heap \in Heap
    BY <2>1 DEF FreePages, FreeData, HeapOK
  <2> HIDE DEF p, d
  <2>3. Loose(h, heap, p, Len(m))
    BY <2>1, LooseNewPage
  <2>4. PageMade(h, heap, p, d, owned, m)
    BY <2>2, BufferPageCreateForm
  <2> HIDE DEF h
  <2>5. Reads(h, p, m)
    <3>1. /\ h.page[p].data = d /\ h.page[p].base = 0 /\ h.page[p].len = Len(m)
          /\ h.reg[d].mem = m
      BY <2>4 DEF PageMade, PageIs, RegionIs
    <3>2. \A i \in 1..Len(m) : ByteAt(h, p, i) = m[i]
      BY <3>1 DEF ByteAt
    <3> QED BY <3>1, <3>2 DEF Reads
  <2> QED BY <2>1, <2>3, <2>5, <1>1
<1>2. LeaveLoop \/ (~NoRoom /\ InsertPage(h, p, x))
  BY MakeOutcome
<1> QED BY <1>1, <1>2

\* A page that shares n bytes of another one from off on shows them.
LEMMA SharedPageReads ==
    ASSUME CountSuffices, NEW h, HeapOK(h), NEW p \in FreePages(h), NEW src \in LivePages(h),
           NEW n \in Nat, NEW off \in Nat, off + n <= h.page[src].len,
           NEW g, g = PageTransfer(h, p, src, n, off)
    PROVE  Reads(g, p, PageBytes(h, src, off, n))
<1> DEFINE w == PageBytes(h, src, off, n)
<1>1. /\ PageIs(g.page[p], TRUE, h.page[src].data, h.page[src].base + off, n, NULL)
      /\ Preserved(g, h)
  BY SharedRecord
<1>2. h \in Heap /\ src \in PageIds /\ h.page[src].data \in DataIds /\ h.page[src].base \in Nat
  BY DEF HeapOK, Shown, LivePages, Heap, PageRec
<1>3. InBounds(h, src, off, n)
  <2>1. NodeLen(h, src) = h.page[src].len
    BY <1>2 DEF NodeLen
  <2> QED BY <2>1, WithinPage
<1>4. w \in Seq(Byte) /\ Len(w) = n /\ \A j \in 1..n : w[j] = ByteAt(h, src, off + j)
  BY <1>2, <1>3, PieceBytes
<1>5. g.reg[h.page[src].data].mem = h.reg[h.page[src].data].mem
  BY <1>1, PreservedBytes
<1> HIDE DEF w
<1>6. ASSUME NEW i \in 1..n PROVE w[i] = ByteAt(g, p, i)
  <2>1. h.page[src].base + (off + i) = (h.page[src].base + off) + i
    BY <1>2
  <2>2. w[i] = h.reg[h.page[src].data].mem[h.page[src].base + (off + i)]
    BY <1>4 DEF ByteAt
  <2>3. ByteAt(g, p, i) = h.reg[h.page[src].data].mem[(h.page[src].base + off) + i]
    BY <1>1, <1>5 DEF ByteAt, PageIs
  <2> QED BY <2>1, <2>2, <2>3
<1>7. g.page[p].len = n
  BY <1>1 DEF PageIs
<1> QED BY <1>4, <1>6, <1>7 DEF Reads, w


Brings(h, p, n, x, w) == Inserts(h, p, n, x) /\ Reads(h, p, w) /\ Supplied(w)

LEMMA InsertingBytes ==
    ASSUME CountSuffices, IInv, FillInv,
           ExtendStep \/ RewindStep \/ InsertDataStep \/ InsertBufferStep
    PROVE  LeaveLoop \/ Fault("oob") \/ \E h, p, n, x, w : Brings(h, p, n, x, w)
<1> DEFINE k == Chunk(call.buf, call.len)
<1>1. ASSUME NEW fn \in {"extend", "rewind", "insert_data", "insert_data_ref"}, In(fn),
             NEW owned \in BOOLEAN, NEW m \in Seq(Byte), Len(m) = k, Supplied(m), NEW x,
             x = IF fn = "extend" THEN call.buf
                 ELSE IF fn = "rewind" THEN heap.nxt[call.buf] ELSE call.it,
             MakePage(owned, m, x)
      PROVE  LeaveLoop \/ \E h, p, n, y, w : Brings(h, p, n, y, w)
  <2>1. /\ call.fn = fn /\ call.pc = "loop" /\ call.len \in Nat /\ call.buf \in Buffers
        /\ Inside(heap, call.buf, call.buf) /\ Inside(heap, call.it, call.buf)
        /\ HeapOK(heap) /\ LoopGoesOn(call)
    BY <1>1, InLoop DEF In
  <2>2. k \in Nat /\ k <= call.len
    BY <2>1, ChunkType
  <2>3. Inside(heap, x, call.buf)
    BY <1>1, <2>1, InsideNext
  <2>4. CASE ~LeaveLoop
    <3>1. PICK p, h : /\ p \in FreePages(heap) /\ Loose(h, heap, p, Len(m)) /\ Reads(h, p, m)
                      /\ InsertPage(h, p, x)
      BY <1>1, <2>4, MadePageReads
    <3> HIDE DEF k
    <3>2. Inserts(h, p, k, x)
      BY <1>1, <2>1, <2>2, <2>3, <3>1 DEF Inserts, Inserting, k
    <3> QED BY <1>1, <3>1, <3>2 DEF Brings
  <2> QED BY <2>4
<1>2. ASSUME NEW fn \in {"extend", "rewind"}, In(fn), NEW m \in [1..k -> Junk]
      PROVE  m \in Seq(Byte) /\ Len(m) = k /\ Supplied(m)
  <2>1. call.len \in Nat /\ call.buf \in Buffers /\ call.fn = fn
    BY <1>2, InLoop
  <2>2. Supplied(m)
    BY <2>1 DEF Supplied
  <2> QED BY <2>1, <2>2, ChunkType, JunkType
<1>3. CASE ExtendStep
  <2>1. PICK m \in [1..k -> Junk] : In("extend") /\ MakePage(TRUE, m, call.buf)
    BY <1>3 DEF ExtendStep
  <2> HIDE DEF k
  <2> QED BY <2>1, <1>1, <1>2
<1>4. CASE RewindStep
  <2>1. PICK m \in [1..k -> Junk] : In("rewind") /\ MakePage(TRUE, m, heap.nxt[call.buf])
    BY <1>4 DEF RewindStep
  <2> HIDE DEF k
  <2> QED BY <2>1, <1>1, <1>2
<1>5. CASE InsertDataStep
  <2>1. PICK owned \in BOOLEAN, fn \in {"insert_data", "insert_data_ref"} :
           In(fn) /\ MakePage(owned, FromCaller(k), call.it)
    BY <1>5 DEF InsertDataStep
  <2>2. /\ call.fn = fn /\ call.pc = "loop" /\ call.len \in Nat /\ call.buf \in Buffers
        /\ call.dat \in Seq(Byte) /\ call.done \in Nat
    BY <2>1, InLoop
  <2>3. k \in Nat /\ k <= call.len
    BY <2>2, ChunkType
  <2> HIDE DEF k
  <2>4. FromCaller(k) \in Seq(Byte) /\ Len(FromCaller(k)) = k
    BY <2>2, <2>3, FromCallerType
  <2>5. Supplied(FromCaller(k))
    <3>1. call.len + call.done = Len(call.dat)
      BY <2>2 DEF IInv, CallOK, BytesLeftOK
    <3>2. call.done + k <= Len(call.dat)
      BY <2>2, <2>3, <3>1
    <3>3. \A j \in 1..k : FromCaller(k)[j] = call.dat[call.done + j]
      BY <2>2, <2>3, <3>2, PieceAt DEF FromCaller
    <3> QED BY <2>2, <2>4, <3>3 DEF Supplied
  <2> QED BY <2>1, <2>4, <2>5, <1>1
<1>6. CASE InsertBufferStep
  <2> DEFINE n == InsertLen(call)
             m == PageBytes(heap, call.sit, call.soff, n)
             q == AnyOf(FreePages(heap))
             g == PageTransfer(heap, q, call.sit, n, call.soff)
  <2>1. In("insert_buffer")
    BY <1>6 DEF InsertBufferStep
  <2>2. /\ call.fn = "insert_buffer" /\ call.pc = "loop" /\ call.buf \in Buffers
        /\ Inside(heap, call.it, call.buf) /\ HeapOK(heap) /\ heap \in Heap
        /\ call.soff \in Nat /\ LoopGoesOn(call) /\ call.sit # call.src
    BY <2>1, InLoop DEF In, LoopGoesOn
  <2>3. n \in Nat /\ n <= call.len /\ call.soff + n <= NodeLen(heap, call.sit)
    BY <2>1, InsertLenFits
  <2>4. /\ call.sit \in LivePages(heap) /\ call.sit \in PageIds
        /\ heap.page[call.sit].data \in DataIds
        /\ NodeLen(heap, call.sit) = heap.page[call.sit].len
    BY <2>2, AtSourcePage DEF HeapOK, Shown
  <2>5. InBounds(heap, call.sit, call.soff, n)
    BY <2>1, CopiesInBounds
  <2>6. m \in Seq(Byte) /\ Len(m) = n /\ Supplied(m)
    <3>1. /\ m \in Seq(Byte) /\ Len(m) = n
          /\ \A j \in 1..n : m[j] = ByteAt(heap, call.sit, call.soff + j)
      BY <2>2, <2>3, <2>4, <2>5, PieceBytes
    <3> HIDE DEF m, n
    <3> QED BY <2>2, <3>1 DEF Supplied
  <2>7. ASSUME NEW p \in FreePages(heap), NEW h, Loose(h, heap, p, n), Reads(h, p, m),
               InsertPage(h, p, call.it)
        PROVE  Brings(h, p, n, call.it, m)
    <3> HIDE DEF m
    <3>1. Inserts(h, p, n, call.it)
      <4> HIDE DEF n
      <4> QED BY <2>2, <2>3, <2>7 DEF Inserts, Inserting, n
    <3> QED BY <2>6, <2>7, <3>1 DEF Brings
  <2>8. CASE FreePages(heap) # {} /\ InsertPage(g, q, call.it)
    <3>1. q \in FreePages(heap)
      BY <2>8, SomeOf
    <3> HIDE DEF q, n
    <3>2. Loose(g, heap, q, n) /\ Reads(g, q, m)
      BY <2>2, <2>3, <2>4, <3>1, LooseSharedPage, SharedPageReads
    <3> HIDE DEF g, m
    <3> QED BY <2>7, <2>8, <3>1, <3>2
  <2>9. CASE MakePage(TRUE, m, call.it)
    <3> HIDE DEF m, n
    <3>1. \/ LeaveLoop
          \/ \E p, h : /\ p \in FreePages(heap) /\ Loose(h, heap, p, n) /\ Reads(h, p, m)
                       /\ InsertPage(h, p, call.it)
      BY <2>6, <2>9, MadePageReads
    <3> QED BY <2>7, <3>1
  <2>10. CASE LeaveLoop \/ Fault("oob")
    BY <2>10
  <2> QED BY <1>6, <2>8, <2>9, <2>10 DEF InsertBufferStep, SharePage
<1> QED BY <1>3, <1>4, <1>5, <1>6


\* The buffer b shows in g what it shows in h, cut into pages at the same places.
SameText(g, h, b) ==
    /\ Content(g, b) = Content(h, b)
    /\ \A x, off, t : Pos(h, b, x, off, t) => Pos(g, b, x, off, t)

LEMMA SameTextIf ==
    ASSUME NEW h, HeapOK(h), NEW g, HeapOK(g), NEW b \in Buffers, ListKept(g, h, b),
           BytesKept(g, h, b), Listed(h, b)
    PROVE  SameText(g, h, b)
  BY KeptContent, PosUnmoved DEF SameText

\* A page that is given up again leaves nothing behind.
LEMMA AbandonedText ==
    ASSUME CountSuffices, IInv, IInv', ListInv, NEW h, NEW p, NEW n, NEW x, Inserts(h, p, n, x),
           heap' = PageDestroy(h, p), Listed(heap, call.buf)
    PROVE  SameText(heap', heap, call.buf)
<1> DEFINE b == call.buf
<1>1. /\ HeapOK(heap) /\ HeapOK(heap') /\ call \in CallType /\ b \in Buffers /\ Homed(heap)
      /\ p \in FreePages(heap) /\ Loose(h, heap, p, n) /\ Fresh(h, heap, p, n)
      /\ Preserved(h, heap)
  BY DEF IInv, CallOK, Inserts, Inside, Loose, ListInv
<1>2. HeapOK(h) /\ h \in Heap /\ p \in LivePages(h) /\ ~Linked(h, p) /\ ~heap.page[p].live
  BY <1>1 DEF Fresh, FreePages, HeapOK
<1>3. Freed(heap', h, p) /\ heap'.nxt = h.nxt
  BY <1>2, LooseDestroyed
<1>4. /\ heap'.nxt = heap.nxt /\ LivePages(heap') = LivePages(heap)
      /\ \A r \in LivePages(heap) : heap'.page[r] = heap.page[r]
  BY <1>1, <1>2, <1>3 DEF Freed, Fresh, LivePages, SamePagesBut
<1>5. /\ Mine(heap', b) = Mine(heap, b)
      /\ \A r \in Mine(heap, b) : heap'.page[r] = heap.page[r]
  BY <1>4 DEF Mine
<1>6. ListKept(heap', heap, b)
  BY <1>4, <1>5 DEF ListKept
<1>7. KeptBut(heap', h, {})
  BY <1>2, DestroyKeeps
<1>8. KeptBut(heap', heap, {})
  BY <1>1, <1>7, PreservedKept
<1>9. BytesKept(heap', heap, b)
  BY <1>1, <1>5, <1>8, BytesKeptIf
<1> HIDE DEF b
<1> QED BY <1>1, <1>6, <1>9, SameTextIf DEF b

\* Where the page of an inserting call goes.
LEMMA CutWhereAsked ==
    ASSUME IInv, FillInv, NEW h, NEW p, NEW n, NEW x, Inserts(h, p, n, x)
    PROVE  Lower(call.off, NodeLen(h, x)) = call.off
<1>1. /\ call \in CallType /\ call.off \in Nat /\ call.pc = "loop" /\ call.fn \in Inserting
      /\ x \in Nodes /\ Linked(heap, x) /\ HeapOK(heap) /\ p \in FreePages(heap)
      /\ Loose(h, heap, p, n)
      /\ call.fn \notin {"extend", "rewind"} => x = call.it
  BY DEF IInv, Inserts, Inside, CallType
<1>2. NodeLen(h, x) = NodeLen(heap, x) /\ NodeLen(h, x) \in Nat
  BY <1>1, LooseFacts
<1>3. call.off = 0 \/ call.off < NodeLen(heap, x)
  BY <1>1 DEF FillInv, InsertFits
<1> QED BY <1>1, <1>2, <1>3 DEF Lower

\* An iteration of an inserting call either gives up or puts its page where it stands.
Put(n, x, w, t) ==
    /\ n > 0 /\ Len(w) = n
    /\ IsPut(Content(heap', call.buf), Content(heap, call.buf), t, w)
    /\ Pos(heap', call.buf, x, 0, t + n)
    /\ call' = AfterInsert(call, heap', n)

LEMMA InsertChanges ==
    ASSUME CountSuffices, IInv, IInv', ListInv, FillInv, FillInv',
           NEW h, NEW p, NEW n, NEW x, NEW w, Brings(h, p, n, x, w), Listed(heap, call.buf),
           NEW t, Pos(heap, call.buf, x, call.off, t)
    PROVE  \/ SameText(heap', heap, call.buf) /\ call' = [call EXCEPT !.pc = "ret"]
           \/ Put(n, x, w, t)
<1> DEFINE b == call.buf
<1>1. Inserts(h, p, n, x) /\ Reads(h, p, w)
  BY DEF Brings
<1>2. /\ HeapOK(heap) /\ HeapOK(heap') /\ b \in Buffers /\ n \in Nat
      /\ p \in FreePages(heap) /\ Loose(h, heap, p, n) /\ Inside(heap, x, b)
      /\ Filled(heap') /\ fault' # "freed_linked"
  BY <1>1 DEF IInv, CallOK, Inserts, FillInv
<1>3. Lower(call.off, NodeLen(h, x)) = call.off
  BY <1>1, CutWhereAsked
<1>4. CASE heap' = PageDestroy(h, p) /\ call' = [call EXCEPT !.pc = "ret"]
  BY <1>1, <1>4, AbandonedText
<1>5. ASSUME NEW q, Placed(heap', h, p, x, call.off, q),
             call' = IF n = 0 THEN [call EXCEPT !.pc = "ret"] ELSE AfterInsert(call, heap', n),
             fault' = IF n = 0 THEN "freed_linked" ELSE fault
      PROVE  Put(n, x, w, t)
  <2>1. n # 0
    BY <1>2, <1>5
  <2>2. Len(w) = n
    BY <1>1, <1>2 DEF Reads, Loose, Fresh
  <2> DEFINE off == call.off
  <2>3. Placed(heap', h, p, x, off, q) /\ Pos(heap, b, x, off, t)
    BY <1>5
  <2> HIDE DEF b, off
  <2>4. IsPut(Content(heap', b), Content(heap, b), t, w) /\ Pos(heap', b, x, 0, t + Len(w))
    BY <1>1, <1>2, <2>3, InsertContent
  <2> QED BY <1>2, <1>5, <2>1, <2>2, <2>4 DEF Put, b
<1>6. \/ heap' = PageDestroy(h, p) /\ call' = [call EXCEPT !.pc = "ret"]
      \/ \E q : /\ Placed(heap', h, p, x, call.off, q)
                /\ call' = IF n = 0 THEN [call EXCEPT !.pc = "ret"] ELSE AfterInsert(call, heap', n)
                /\ fault' = IF n = 0 THEN "freed_linked" ELSE fault
  BY <1>1, <1>3, InsertedPage
<1> QED BY <1>4, <1>5, <1>6


-----------------------------------------------------------------------------
(* The bytes a seek and a trim take.                                       *)

IsFront(v, s) ==
    /\ v \in Seq(Byte) /\ s \in Seq(Byte) /\ Len(v) <= Len(s)
    /\ \A i \in 1..Len(v) : v[i] = s[i]

\* The first M pages of the list are still there, and show from their start on what they
\* showed.
Shortened(g, h, N, ps, acc, M, qs, sum) ==
    /\ M \in 0..N
    /\ \A i \in 1..M : /\ qs[i] = ps[i] /\ sum[i - 1] = acc[i - 1]
                       /\ g.page[qs[i]].len <= h.page[qs[i]].len
                       /\ \A j \in 1..g.page[qs[i]].len : ByteAt(g, qs[i], j) = ByteAt(h, qs[i], j)

LEMMA BackTaken ==
    ASSUME NEW h, HeapOK(h), NEW g, HeapOK(g), NEW b \in Buffers,
           NEW N, NEW ps, NEW acc, Enumerates(h, b, N, ps, acc),
           NEW M, NEW qs, NEW sum, Enumerates(g, b, M, qs, sum),
           Shortened(g, h, N, ps, acc, M, qs, sum)
    PROVE  IsFront(Content(g, b), Content(h, b))
<1> DEFINE C == Content(h, b)
           D == Content(g, b)
<1>1. /\ C \in Seq(Byte) /\ Len(C) = acc[N] /\ acc[N] \in Nat
      /\ D \in Seq(Byte) /\ Len(D) = sum[M] /\ sum[M] \in Nat /\ N \in Nat /\ M \in 0..N
  BY ContentLen, SumsGrow DEF Shortened
<1>2. ASSUME NEW x \in 1..sum[M] PROVE x <= acc[N] /\ D[x] = C[x]
  <2>1. PICK i \in 1..M : \E j \in 1..g.page[qs[i]].len : x = sum[i - 1] + j
    BY Located
  <2>2. PICK j \in 1..g.page[qs[i]].len : x = sum[i - 1] + j
    BY <2>1
  <2>3. /\ qs[i] = ps[i] /\ sum[i - 1] = acc[i - 1] /\ g.page[qs[i]].len <= h.page[qs[i]].len
        /\ ByteAt(g, qs[i], j) = ByteAt(h, qs[i], j) /\ i \in 1..N
    BY <1>1, <2>2 DEF Shortened
  <2>4. /\ h.page[ps[i]].len \in Nat /\ acc[i] = acc[i - 1] + h.page[ps[i]].len
        /\ acc[i - 1] \in Nat /\ acc[i] \in Nat
    BY <2>3, PageSum
  <2>5. g.page[qs[i]].len \in Nat
    BY PageSum
  <2>6. j \in 1..h.page[ps[i]].len
    BY <2>2, <2>3, <2>4, <2>5
  <2>7. acc[i] <= acc[N]
    BY <1>1, <2>3, SumsOrdered
  <2>8. D[sum[i - 1] + j] = ByteAt(g, qs[i], j)
    BY <2>2, ByteShown
  <2>9. C[acc[i - 1] + j] = ByteAt(h, ps[i], j)
    BY <2>3, <2>6, ByteShown
  <2>10. x <= acc[N]
    <3>1. x = acc[i - 1] + j /\ j <= h.page[ps[i]].len /\ j \in Nat
      BY <2>2, <2>3, <2>6
    <3> DEFINE a == acc[i - 1]
               l == h.page[ps[i]].len
               e == acc[N]
    <3>2. a \in Nat /\ l \in Nat /\ e \in Nat /\ a + l <= e /\ x = a + j /\ j <= l
      BY <3>1, <2>4, <2>7, <1>1
    <3> HIDE DEF a, l, e
    <3>3. x <= e
      BY <3>1, <3>2
    <3> QED BY <3>3 DEF e
  <2> QED BY <2>2, <2>3, <2>8, <2>9, <2>10
<1>3. Len(D) <= Len(C)
  <2>1. CASE sum[M] = 0
    BY <2>1, <1>1
  <2>2. CASE sum[M] # 0
    <3>1. sum[M] \in 1..sum[M]
      BY <2>2, <1>1
    <3> QED BY <3>1, <1>1, <1>2
  <2> QED BY <2>1, <2>2
<1> HIDE DEF C, D
<1> QED BY <1>1, <1>2, <1>3 DEF IsFront, C, D

LEMMA LastPage ==
    ASSUME NEW h, HeapOK(h), NEW b \in Buffers, NEW N, NEW ps, NEW acc,
           Enumerates(h, b, N, ps, acc), NEW p, p = h.prv[b], p # b
    PROVE  /\ N \in Nat /\ N > 0 /\ ps[N] = p /\ p \in Mine(h, b)
           /\ h.prv[p] = ps[N - 1] /\ h.nxt[p] = b /\ h.prv[p] # p /\ h.nxt[ps[N - 1]] = p
<1>1. N \in Nat /\ ps[0] = b /\ ps[N + 1] = b
  BY DEF Enumerates
<1>2. h.prv[ps[N + 1]] = ps[N]
  BY <1>1, EnumPrev
<1>3. ps[N] = p /\ N > 0
  BY <1>1, <1>2
<1>4. p \in Mine(h, b) /\ h.nxt[ps[N]] = ps[N + 1]
  BY <1>1, <1>3, EnumNode, EnumNext
<1>5. N - 1 \in 0..N /\ N \in 0..N
  BY <1>1, <1>3
<1>6. h.prv[ps[(N - 1) + 1]] = ps[N - 1] /\ h.nxt[ps[N - 1]] = ps[(N - 1) + 1]
  BY <1>5, EnumPrev, EnumNext
<1>7. (N - 1) + 1 = N /\ N - 1 # N
  BY <1>1
<1>8. ps[N - 1] # ps[N]
  BY <1>5, <1>7, EnumOnce
<1> QED BY <1>1, <1>3, <1>4, <1>6, <1>7, <1>8

\* The last page loses bytes at its end.
LEMMA CutBackContent ==
    ASSUME NEW h, HeapOK(h), NEW g, HeapOK(g), NEW b \in Buffers, Listed(h, b),
           NEW p, p = h.prv[b], p # b, NEW n \in Nat, n <= h.page[p].len, OnlyPage(g, h, p),
           PageIs(g.page[p], h.page[p].live, h.page[p].data, h.page[p].base,
                  h.page[p].len - n, h.page[p].own)
    PROVE  /\ IsFront(Content(g, b), Content(h, b))
           /\ n <= Len(Content(h, b)) /\ Len(Content(g, b)) = Len(Content(h, b)) - n
<1>1. PICK N, ps, acc : Enumerates(h, b, N, ps, acc)
  BY DEF Listed
<1>2. N \in Nat /\ N \in 1..N /\ ps[N] = p /\ p \in Mine(h, b)
  BY <1>1, LastPage
<1>3. /\ \A q \in PageIds \ {p} : g.page[q] = h.page[q]
      /\ g.reg = h.reg /\ g.nxt = h.nxt /\ g.page[p].live = h.page[p].live
      /\ g.page[p].data = h.page[p].data /\ g.page[p].base = h.page[p].base
      /\ g.page[p].len = h.page[p].len - n /\ g.page[p].own = h.page[p].own
  BY DEF OnlyPage, PageIs
<1>4. Mine(g, b) = Mine(h, b) /\ Mine(h, b) \subseteq PageIds
  BY <1>3 DEF Mine, LivePages
<1>5. \A q \in Mine(h, b) \ {p} : g.page[q].len = h.page[q].len
  BY <1>3, <1>4
<1>6. PICK sum : /\ Enumerates(g, b, N, ps, sum) /\ sum[N] = acc[N] - n
                 /\ \A i \in 0..N : sum[i] = IF i < N THEN acc[i] ELSE acc[i] - n
  <2>1. /\ n \in Int /\ p = ps[N] /\ g.page[p].len = h.page[p].len - n
        /\ \A m \in Mine(h, b) \cup {b} : g.nxt[m] = h.nxt[m]
    BY <1>2, <1>3
  <2> QED BY <1>1, <1>2, <2>1, <1>4, <1>5, EnumCut
<1>7. ASSUME NEW i \in 1..N
      PROVE  /\ sum[i - 1] = acc[i - 1] /\ g.page[ps[i]].len <= h.page[ps[i]].len
             /\ \A j : ByteAt(g, ps[i], j) = ByteAt(h, ps[i], j)
  <2>1. i - 1 \in 0..N /\ i - 1 < N
    BY <1>2
  <2>2. ps[i] \in PageIds /\ h.page[ps[i]].len \in Nat
    BY <1>1, <1>4, PageSum
  <2>3. sum[i - 1] = acc[i - 1]
    BY <2>1, <1>6
  <2> DEFINE q == ps[i]
  <2>4. q \in PageIds /\ h.page[q].len \in Nat
    BY <2>2
  <2> HIDE DEF q
  <2>5. CASE q = p
    <3>1. g.page[q].data = h.page[q].data /\ g.page[q].base = h.page[q].base /\ g.reg = h.reg
      BY <2>5, <1>3
    <3>2. g.page[q].len <= h.page[q].len
      BY <2>4, <2>5, <1>3
    <3> QED BY <2>3, <3>1, <3>2 DEF ByteAt, q
  <2>6. CASE q # p
    <3>1. g.page[q] = h.page[q] /\ g.reg = h.reg
      BY <2>4, <2>6, <1>3
    <3> QED BY <2>3, <2>4, <3>1 DEF ByteAt, q
  <2> QED BY <2>5, <2>6
<1>8. Shortened(g, h, N, ps, acc, N, ps, sum)
  <2>1. N \in 0..N
    BY <1>2
  <2> QED BY <2>1, <1>7 DEF Shortened
<1>9. IsFront(Content(g, b), Content(h, b))
  BY <1>1, <1>6, <1>8, BackTaken
<1>10. /\ Len(Content(h, b)) = acc[N] /\ acc[N] \in Nat
       /\ Len(Content(g, b)) = sum[N] /\ sum[N] \in Nat
  BY <1>1, <1>6, ContentLen
<1> QED BY <1>6, <1>9, <1>10

\* The last page goes.
LEMMA LastRemovedContent ==
    ASSUME NEW h, HeapOK(h), NEW g, HeapOK(g), NEW b \in Buffers, Listed(h, b),
           NEW p, p = h.prv[b], p # b, Mine(g, b) = Mine(h, b) \ {p},
           g.nxt[h.prv[p]] = b, \A m \in Nodes \ {p, h.prv[p]} : g.nxt[m] = h.nxt[m],
           \A q \in Mine(h, b) \ {p} : g.page[q] = h.page[q], KeptBut(g, h, {})
    PROVE  /\ IsFront(Content(g, b), Content(h, b)) /\ h.page[p].len \in Nat
           /\ h.page[p].len <= Len(Content(h, b))
           /\ Len(Content(g, b)) = Len(Content(h, b)) - h.page[p].len
<1>1. PICK N, ps, acc : Enumerates(h, b, N, ps, acc)
  BY DEF Listed
<1>2. /\ N \in Nat /\ N > 0 /\ ps[N] = p /\ p \in Mine(h, b)
      /\ h.prv[p] = ps[N - 1] /\ h.nxt[p] = b /\ h.nxt[ps[N - 1]] = p
  BY <1>1, LastPage
<1>3. N - 1 \in 0..N /\ N - 1 \in Nat /\ N \in 1..N
  BY <1>2
<1>4. \A q \in Mine(g, b) : g.page[q].len = h.page[q].len
  OBVIOUS
<1>5. g.nxt[ps[N - 1]] = h.nxt[p]
  BY <1>2
<1>6. \A m \in (Mine(g, b) \cup {b}) \ {ps[N - 1]} : g.nxt[m] = h.nxt[m]
  <2>1. Mine(h, b) \subseteq Nodes /\ b \in Nodes /\ p # b
    BY MineFacts DEF Nodes
  <2> QED BY <2>1, <1>2
<1>7. PICK qs, sum : /\ Enumerates(g, b, N - 1, qs, sum)
                     /\ sum[N - 1] = acc[N] - h.page[p].len
                     /\ \A i \in 0..(N - 1) : qs[i] = ps[i] /\ sum[i] = acc[i]
  <2> DEFINE w == ps[N - 1]
  <2>1. w = ps[N - 1] /\ h.nxt[w] = p /\ g.nxt[w] = h.nxt[p]
    BY <1>2, <1>5
  <2>2. \A m \in (Mine(g, b) \cup {b}) \ {w} : g.nxt[m] = h.nxt[m]
    BY <1>6
  <2> HIDE DEF w
  <2> QED BY <1>1, <1>2, <1>3, <1>4, <2>1, <2>2, EnumRemove
<1>8. ASSUME NEW i \in 1..(N - 1)
      PROVE  /\ qs[i] = ps[i] /\ sum[i - 1] = acc[i - 1]
             /\ g.page[qs[i]].len <= h.page[qs[i]].len
             /\ \A j : ByteAt(g, qs[i], j) = ByteAt(h, qs[i], j)
  <2>1. i \in 0..(N - 1) /\ i - 1 \in 0..(N - 1)
    BY <1>3
  <2>2. qs[i] = ps[i] /\ sum[i - 1] = acc[i - 1]
    BY <2>1, <1>7
  <2>3. qs[i] \in Mine(g, b) /\ g.page[qs[i]].len \in Nat
    BY <1>7, PageSum
  <2>4. qs[i] \in Mine(h, b) /\ g.page[qs[i]] = h.page[qs[i]]
    BY <2>3
  <2>5. \A j : ByteAt(g, qs[i], j) = ByteAt(h, qs[i], j)
    BY <2>4, ByteStays
  <2> QED BY <2>2, <2>3, <2>4, <2>5
<1>9. Shortened(g, h, N, ps, acc, N - 1, qs, sum)
  BY <1>3, <1>8 DEF Shortened
<1>10. IsFront(Content(g, b), Content(h, b))
  BY <1>1, <1>7, <1>9, BackTaken
<1>11. /\ Len(Content(h, b)) = acc[N] /\ acc[N] \in Nat
       /\ Len(Content(g, b)) = sum[N - 1] /\ sum[N - 1] \in Nat
  BY <1>1, <1>7, ContentLen
<1>12. h.page[p].len \in Nat
  BY <1>1, <1>2, <1>3, PageSum
<1> QED BY <1>7, <1>10, <1>11, <1>12


\* The locals d are those of c after n more bytes.
Goes(d, c, n) ==
    /\ d.fn = c.fn /\ d.buf = c.buf /\ d.src = c.src /\ d.dat = c.dat /\ d.pc = c.pc
    /\ d.len = c.len - n /\ d.done = c.done + n

LEMMA CutGoes ==
    ASSUME NEW c \in CallType, NEW n, NEW it, NEW e, e = c \/ e = [c EXCEPT !.it = it],
           NEW d, d = Progress(e, n)
    PROVE  Goes(d, c, n)
<1>1. CASE e = c
  BY <1>1 DEF Progress, CallType, Goes
<1>2. CASE e = [c EXCEPT !.it = it]
  <2>1. d = Progress([c EXCEPT !.it = it], n)
    BY <1>2
  <2> QED BY <2>1 DEF Progress, CallType, Goes
<1> QED BY <1>1, <1>2

SeekGone(n) ==
    LET C == Content(heap, call.buf)
    IN  /\ Content(heap', call.buf) = SubSeq(C, n + 1, Len(C))
        /\ C \in Seq(Byte) /\ n <= Len(C) /\ n <= call.len
        /\ Goes(call', call, n)

LEMMA SeekChanges ==
    ASSUME IInv, IInv', ListInv, FillInv, SeekStep
    PROVE  \E n \in Nat : SeekGone(n)
<1> DEFINE p == call.it
           b == call.buf
           m == Lower(NodeLen(heap, p), call.len)
           g == DropFront(heap, p, m)
           c == IF NodeLen(g, p) = 0 THEN [call EXCEPT !.it = heap.nxt[p]] ELSE call
<1>1. PICK n \in Nat : n <= call.len /\ FrontGone(n)
  BY SeekTakesFront
<1>2. In("seek")
  BY DEF SeekStep
<1>3. /\ call \in CallType /\ HeapOK(heap) /\ b \in Buffers /\ Inside(heap, b, b)
      /\ Inside(heap, p, b) /\ p # b /\ call.len \in Nat /\ call.pc = "loop"
  BY <1>2, InLoop DEF In, LoopGoesOn
<1>4. heap.nxt[b] = p
  BY <1>2, <1>3, InLoop DEF IInv, CallOK, CursorOK
<1>5. p \in LivePages(heap) /\ p \in PageIds /\ NodeLen(heap, p) = heap.page[p].len
  BY <1>3, InsideIsPage
<1>6. Listed(heap, b)
  BY <1>3, ListedIf DEF Inside, Exists, Linked
<1>7. Pos(heap, b, p, 0, 0)
  BY <1>3, <1>4, <1>6, PosFirst DEF FillInv
<1>8. /\ heap.page[p].len \in Nat /\ Content(heap, b) \in Seq(Byte)
      /\ 0 + (heap.page[p].len - 0) <= Len(Content(heap, b))
  BY <1>3, <1>7, PosWithin
<1>9. m \in Nat /\ m <= heap.page[p].len
  BY <1>3, <1>5, <1>8, LowerType
<1>10. call' = IF m = 0 THEN [c EXCEPT !.pc = "ret"] ELSE Progress(c, m)
  BY DEF SeekStep
<1>11. c \in CallType /\ (c = call \/ c = [call EXCEPT !.it = heap.nxt[p]])
  <2>1. heap.nxt[p] \in Nodes
    BY <1>3, Neighbours DEF Inside
  <2> QED BY <2>1, <1>3 DEF CallType
<1> HIDE DEF c, m
<1>12. m # 0
  <2>1. call'.pc = "loop"
    BY <1>1, <1>3 DEF FrontGone
  <2>2. ASSUME m = 0 PROVE FALSE
    <3>1. call' = [c EXCEPT !.pc = "ret"]
      BY <1>10, <2>2
    <3>2. call'.pc = "ret"
      BY <1>11, <3>1 DEF CallType
    <3> QED BY <2>1, <3>2
  <2> QED BY <2>2
<1>13. Goes(call', call, m)
  <2>1. call' = Progress(c, m)
    BY <1>10, <1>12
  <2> QED BY <2>1, <1>3, <1>11, CutGoes
<1>14. n = m
  <2>1. call'.len = call.len - n /\ call'.len = call.len - m
    BY <1>1, <1>13 DEF FrontGone, Goes
  <2> QED BY <2>1, <1>3, <1>9
<1>15. n <= Len(Content(heap, b))
  BY <1>8, <1>9, <1>14
<1> QED BY <1>1, <1>8, <1>13, <1>14, <1>15 DEF SeekGone, FrontGone

TrimGone(n) ==
    LET C == Content(heap, call.buf)
        D == Content(heap', call.buf)
    IN  /\ IsFront(D, C) /\ Len(D) = Len(C) - n
        /\ n <= Len(C) /\ n <= call.len
        /\ Goes(call', call, n)

LEMMA TrimChanges ==
    ASSUME IInv, IInv', ListInv, FillInv, TrimStep
    PROVE  \E n \in Nat : TrimGone(n)
<1> DEFINE p == call.it
           b == call.buf
           r == heap.page[p]
           n == Lower(NodeLen(heap, p), call.len)
           w == [r EXCEPT !.len = r.len - n]
           g == DropBack(heap, p, n)
           c == IF NodeLen(g, p) = 0 THEN [call EXCEPT !.it = heap.prv[p]] ELSE call
<1>1. In("trim")
  BY DEF TrimStep
<1>2. /\ call \in CallType /\ HeapOK(heap) /\ heap \in Heap /\ AllLinked(heap) /\ b \in Buffers
      /\ Inside(heap, b, b) /\ Inside(heap, p, b) /\ p # b
      /\ call.len \in Nat /\ call.len > 0 /\ call.fn = "trim" /\ call.pc = "loop"
  BY <1>1, InLoop DEF In, LoopGoesOn
<1>3. p = heap.prv[b]
  BY <1>2 DEF IInv, CallOK, CursorOK
<1>4. /\ p \in PageIds /\ p \in LivePages(heap) /\ r.own = b /\ NodeLen(heap, p) = r.len
      /\ r \in PageRec /\ r.len \in Nat
  BY <1>2, InsideIsPage DEF Heap, PageRec
<1>5. r.len > 0 /\ n = Lower(r.len, call.len)
  BY <1>4 DEF FillInv, Filled
<1>6. n \in Nat /\ n <= r.len /\ n <= call.len /\ n > 0
  <2>1. Lower(r.len, call.len) > 0
    BY <1>2, <1>4, <1>5, LowerPositive
  <2> QED BY <2>1, <1>2, <1>4, <1>5, LowerType
<1>7. /\ heap' = IF NodeLen(g, p) = 0 THEN UnlinkDestroy(g, p) ELSE g
      /\ call' = IF n = 0 THEN [c EXCEPT !.pc = "ret"] ELSE Progress(c, n)
  BY DEF TrimStep
<1> HIDE DEF n
<1>8. g = [heap EXCEPT !.page[p] = w]
  BY <1>2, <1>4 DEF DropBack, Heap
<1>9. PageIs(w, r.live, r.data, r.base, r.len - n, r.own) /\ w \in PageRec
  <2> HIDE DEF r
  <2> QED BY <1>4, <1>6, DropBackOK
<1> HIDE DEF w, g
<1>10. PageCut(g, heap, p)
  BY <1>2, <1>4, <1>6, <1>8, <1>9, PageCutForm
<1>11. g.page[p] = w /\ OnlyPage(g, heap, p)
  BY <1>2, <1>4, <1>8, <1>9, PageAt
<1>12. HeapOK(g) /\ LinksKept(g, heap) /\ LivePages(g) = LivePages(heap)
  BY <1>2, <1>4, <1>10, NarrowedPage DEF PageCut
<1>13. g.page[p].len = r.len - n /\ NodeLen(g, p) = r.len - n
  BY <1>4, <1>9, <1>11 DEF PageIs, NodeLen
<1>14. Listed(heap, b)
  BY <1>2, ListedIf DEF Inside, Exists, Linked
<1>15. /\ IsFront(Content(heap', b), Content(heap, b)) /\ n <= Len(Content(heap, b))
       /\ Len(Content(heap', b)) = Len(Content(heap, b)) - n
  <2>1. CASE NodeLen(g, p) # 0
    <3>1. heap' = g
      BY <2>1, <1>7
    <3>2. PageIs(g.page[p], heap.page[p].live, heap.page[p].data, heap.page[p].base,
                 heap.page[p].len - n, heap.page[p].own)
      BY <1>9, <1>11
    <3>3. /\ IsFront(Content(g, b), Content(heap, b)) /\ n <= Len(Content(heap, b))
          /\ Len(Content(g, b)) = Len(Content(heap, b)) - n
      BY <1>2, <1>3, <1>6, <1>11, <1>12, <1>14, <3>2, CutBackContent
    <3> QED BY <3>1, <3>3
  <2>2. CASE NodeLen(g, p) = 0
    <3>1. heap' = UnlinkDestroy(g, p) /\ n = r.len
      BY <2>2, <1>4, <1>6, <1>7, <1>13
    <3>2. p \in LivePages(g) /\ Linked(g, p)
      BY <1>2, <1>4, <1>12 DEF LinksKept, Inside
    <3>3. /\ g.nxt = heap.nxt /\ g.prv = heap.prv /\ g.reg = heap.reg
          /\ SamePagesBut(g, heap, p)
      BY <1>11 DEF OnlyPage, SamePagesBut
    <3>4. heap.prv[p] # p /\ heap.nxt[p] = b
      BY <1>2, <1>3, <1>14, LastPage DEF Listed
    <3>5. /\ Freed(heap', g, p) /\ heap'.nxt[heap.prv[p]] = b
          /\ \A m \in Nodes \ {p, heap.prv[p]} : heap'.nxt[m] = heap.nxt[m]
      BY <3>1, <3>2, <3>3, <3>4, <1>12, UnlinkDestroyed
    <3>6. KeptBut(heap', heap, {})
      <4>1. KeptBut(heap', g, {})
        BY <3>1, <3>2, <1>12, UnlinkDestroyKeeps
      <4> QED BY <4>1, <3>3 DEF KeptBut
    <3>7. LivePages(heap') = LivePages(heap) \ {p}
      BY <3>5, <1>12 DEF Freed
    <3>8. \A q \in LivePages(heap) \ {p} : heap'.page[q] = heap.page[q]
      BY <3>3, <3>5 DEF Freed, SamePagesBut, LivePages
    <3>9. /\ Mine(heap', b) = Mine(heap, b) \ {p}
          /\ \A q \in Mine(heap, b) \ {p} : heap'.page[q] = heap.page[q]
      BY <3>7, <3>8 DEF Mine
    <3>10. HeapOK(heap')
      BY DEF IInv
    <3>11. /\ IsFront(Content(heap', b), Content(heap, b)) /\ heap.page[p].len <= Len(Content(heap, b))
           /\ Len(Content(heap', b)) = Len(Content(heap, b)) - heap.page[p].len
      BY <3>5, <3>6, <3>9, <3>10, <1>2, <1>3, <1>14, LastRemovedContent
    <3> QED BY <3>1, <3>11
  <2> QED BY <2>1, <2>2
<1>16. Goes(call', call, n)
  <2>1. call' = Progress(c, n)
    BY <1>6, <1>7
  <2>2. c = call \/ c = [call EXCEPT !.it = heap.prv[p]]
    OBVIOUS
  <2> HIDE DEF c
  <2> QED BY <2>1, <2>2, <1>2, CutGoes
<1> QED BY <1>6, <1>15, <1>16 DEF TrimGone


-----------------------------------------------------------------------------
(* The bytes an overwrite replaces.                                        *)

\* No other page of b shows the region of p.
Alone(h, b, p) == \A q \in Mine(h, b) \ {p} : h.page[q].data # h.page[p].data

\* The page p of b shows s and then what it showed, the others show what they showed.
Writes(g, h, b, p, s) ==
    \A q \in Mine(h, b) : \A j \in 1..h.page[q].len :
        ByteAt(g, q, j) = IF q = p /\ j <= Len(s) THEN s[j] ELSE ByteAt(h, q, j)

LEMMA PageWriteBytes ==
    ASSUME NEW h, HeapOK(h), NEW b \in Buffers, NEW p \in Mine(h, b), Alone(h, b, p),
           NEW s \in Seq(Byte), Len(s) <= h.page[p].len, NEW g, g = PageWrite(h, p, 0, s)
    PROVE  Writes(g, h, b, p, s) /\ g.page = h.page /\ g.nxt = h.nxt
<1> DEFINE d == h.page[p].data
           m == h.reg[d].mem
           base == h.page[p].base
           at == base + 0
           v == [i \in 1..Len(m) |-> IF i > at /\ i <= at + Len(s) THEN s[i - at] ELSE m[i]]
<1>1. /\ h \in Heap /\ p \in PageIds /\ d \in DataIds /\ base \in Nat /\ h.page[p].len \in Nat
      /\ InBounds(h, p, 0, h.page[p].len)
  BY PageFacts DEF HeapOK
<1>2. g = [h EXCEPT !.reg[d].mem = v]
  BY DEF PageWrite
<1>3. m \in Seq(Byte) /\ Len(m) \in Nat /\ base + h.page[p].len <= Len(m) /\ Len(s) \in Nat
  <2>1. m \in Seq(Byte)
    BY <1>1 DEF Heap, Region
  <2>2. base + 0 + h.page[p].len <= Len(m)
    BY <1>1 DEF InBounds
  <2> QED BY <2>1, <2>2, <1>1
<1>4. ASSUME NEW j \in 1..h.page[p].len
      PROVE  v[base + j] = IF j <= Len(s) THEN s[j] ELSE m[base + j]
  <2> HIDE DEF m
  <2>1. base + j \in 1..Len(m) /\ base + j > at
    BY <1>1, <1>3
  <2>2. (base + j <= at + Len(s) <=> j <= Len(s)) /\ (base + j) - at = j
    BY <1>1, <1>3
  <2>3. v[base + j] = IF base + j > at /\ base + j <= at + Len(s) THEN s[(base + j) - at]
                      ELSE m[base + j]
    BY <2>1
  <2> HIDE DEF v, at, base
  <2> QED BY <2>1, <2>2, <2>3
<1> HIDE DEF v
<1>5. /\ g.page = h.page /\ g.nxt = h.nxt /\ g.reg[d].mem = v
      /\ \A e \in DataIds \ {d} : g.reg[e] = h.reg[e]
  BY <1>1, <1>2 DEF Heap, Region
<1>6. ASSUME NEW q \in Mine(h, b), NEW j \in 1..h.page[q].len
      PROVE  ByteAt(g, q, j) = IF q = p /\ j <= Len(s) THEN s[j] ELSE ByteAt(h, q, j)
  <2>1. CASE q = p
    <3>1. ByteAt(g, p, j) = v[base + j] /\ ByteAt(h, p, j) = m[base + j]
      BY <1>5 DEF ByteAt
    <3>2. v[base + j] = IF j <= Len(s) THEN s[j] ELSE m[base + j]
      BY <2>1, <1>4
    <3> HIDE DEF base, m
    <3> QED BY <2>1, <3>1, <3>2
  <2>2. CASE q # p
    <3>1. h.page[q].data \in DataIds \ {d}
      BY <2>2, PageFacts DEF Alone
    <3> QED BY <2>2, <3>1, <1>5 DEF ByteAt
  <2> QED BY <2>1, <2>2
<1> QED BY <1>5, <1>6 DEF Writes

\* A page whose data is private shows what it showed, and alone.
LEMMA WritableShows ==
    ASSUME IInv, NEW b \in Buffers, NEW p \in Mine(heap, b), CanWrite(p),
           NEW h, h = Writable(p)
    PROVE  /\ HeapOK(h) /\ Mine(h, b) = Mine(heap, b) /\ h.nxt = heap.nxt
           /\ \A q \in Mine(heap, b) : h.page[q].len = heap.page[q].len
           /\ BytesKept(h, heap, b) /\ Alone(h, b, p)
<1>1. HeapOK(heap) /\ heap \in Heap /\ p \in LivePages(heap) /\ p \in PageIds
      /\ heap.page[p].data \in DataIds /\ heap.page[p].len \in Nat
      /\ InBounds(heap, p, 0, heap.page[p].len)
  BY PageFacts DEF IInv, HeapOK
<1>2. Duplicated(h, heap, p)
  BY <1>1, WritableOK
<1>3. /\ HeapOK(h) /\ h.nxt = heap.nxt /\ SamePagesBut(h, heap, p)
      /\ h.page[p].live /\ h.page[p].len = heap.page[p].len /\ h.page[p].own = heap.page[p].own
  BY <1>2 DEF Duplicated
<1>4. Mine(h, b) = Mine(heap, b)
  BY <1>1, <1>3 DEF Mine, LivePages, SamePagesBut
<1>5. \A q \in Mine(heap, b) : h.page[q].len = heap.page[q].len
  BY <1>3 DEF Mine, LivePages, SamePagesBut
<1>6. CASE ~MustDup(p)
  <2>1. h = heap
    BY <1>6 DEF Writable
  <2> DEFINE d == heap.page[p].data
  <2>2. d \in DataIds /\ ~(heap.reg[d].use > 1) /\ p \in Refs(heap, d)
    BY <1>1, <1>6 DEF MustDup, Refs, LivePages
  <2>3. Refs(heap, d) = {p}
    <3> HIDE DEF d
    <3> QED BY <2>2, <1>1, OnlyReference
  <2>4. Alone(heap, b, p)
    BY <2>3 DEF Alone, Refs, Mine, LivePages
  <2>5. BytesKept(heap, heap, b)
    BY DEF BytesKept
  <2> QED BY <1>1, <2>1, <2>4, <2>5
<1>7. CASE MustDup(p)
  <2> DEFINE e == AnyOf(FreeData(heap))
             d == heap.page[p].data
             m == PageBytes(heap, p, 0, heap.page[p].len)
  <2>1. e \in FreeData(heap) /\ h = DupPageData(heap, p, e)
    BY <1>7, SomeOf DEF CanWrite, Writable
  <2> HIDE DEF e
  <2>2. KeptBut(h, heap, {}) /\ h.page[p].data = e
    BY <2>1, <1>1, DupKeeps
  <2>3. Refs(heap, e) = {} /\ e \in DataIds
    BY <2>1, <1>1 DEF HeapOK, Counted, FreeData
  <2>4. Alone(h, b, p)
    <3>1. ASSUME NEW q \in Mine(h, b) \ {p} PROVE h.page[q].data # e
      <4>1. q \in PageIds \ {p} /\ q \in LivePages(heap)
        BY <1>4 DEF Mine, LivePages
      <4>2. h.page[q] = heap.page[q]
        BY <4>1, <1>3 DEF SamePagesBut
      <4> QED BY <4>1, <4>2, <2>3 DEF Refs, LivePages
    <3> QED BY <3>1, <2>2 DEF Alone
  <2>5. /\ m \in Seq(Byte) /\ Len(m) = heap.page[p].len
        /\ \A j \in 1..heap.page[p].len : m[j] = ByteAt(heap, p, 0 + j)
    BY <1>1, PieceBytes
  <2>6. p \in Refs(heap, d)
    BY <1>1 DEF Refs, LivePages
  <2>7. heap.reg[d].use # 0 /\ d # e
    BY <1>1, <2>3, <2>6, RefsFinite, FS_EmptySet DEF HeapOK, Counted
  <2>8. Copied(h, heap, p, d, e, m)
    <3>1. d = heap.page[p].data /\ m = PageBytes(heap, p, 0, heap.page[p].len)
      OBVIOUS
    <3> HIDE DEF d, m
    <3> QED BY <3>1, <2>1, <2>3, <2>5, <2>7, <1>1, DupPageDataForm
  <2>9. h.page[p].data = e /\ h.page[p].base = 0 /\ h.reg[e].mem = m
    BY <2>8 DEF Copied, PageIs, RegionIs
  <2>10. ASSUME NEW q \in Mine(heap, b), NEW j \in 1..heap.page[q].len
         PROVE  ByteAt(h, q, j) = ByteAt(heap, q, j)
    <3>1. CASE q = p
      <4>1. ByteAt(h, p, j) = m[0 + j]
        BY <2>9 DEF ByteAt
      <4>2. 0 + j = j
        OBVIOUS
      <4> HIDE DEF m
      <4> QED BY <3>1, <4>1, <4>2, <2>5
    <3>2. CASE q # p
      <4>1. h.page[q] = heap.page[q]
        BY <3>2, <1>3 DEF SamePagesBut, Mine, LivePages
      <4> QED BY <4>1, <1>1, <1>3, <2>2, ByteStays
    <3> QED BY <3>1, <3>2
  <2>11. BytesKept(h, heap, b)
    BY <2>10 DEF BytesKept
  <2> QED BY <1>3, <1>4, <1>5, <2>4, <2>11
<1> QED BY <1>6, <1>7


\* D is C with s in the place of what stood behind the first t bytes.
IsPatch(D, C, t, s) ==
    /\ D \in Seq(Byte) /\ C \in Seq(Byte) /\ Len(D) = Len(C) /\ t + Len(s) <= Len(C)
    /\ \A j \in 1..Len(s) : D[t + j] = s[j]
    /\ \A i \in 1..Len(C) : i <= t \/ i > t + Len(s) => D[i] = C[i]

LEMMA PatchContent ==
    ASSUME NEW h, HeapOK(h), NEW g, HeapOK(g), NEW b \in Buffers, NEW p, NEW t,
           Pos(h, b, p, 0, t), p # b, NEW s \in Seq(Byte), Len(s) <= h.page[p].len,
           ListKept(g, h, b), Writes(g, h, b, p, s)
    PROVE  IsPatch(Content(g, b), Content(h, b), t, s)
<1> DEFINE C == Content(h, b)
           D == Content(g, b)
           m == Len(s)
<1>1. PICK N, ps, acc, k : Enumerates(h, b, N, ps, acc) /\ PosIn(h, N, ps, acc, k, p, 0, t)
  BY DEF Pos
<1>2. PosFacts(h, b, N, ps, acc, k, p, 0, t)
  BY <1>1, PosInFacts
<1>3. k \in 1..N /\ p = ps[k] /\ p \in Mine(h, b) /\ t = acc[k - 1] /\ t \in Nat
  BY <1>2 DEF PosFacts
<1>4. Enumerates(g, b, N, ps, acc) /\ \A q \in Mine(h, b) : g.page[q].len = h.page[q].len
  BY <1>1, EnumSame DEF ListKept
<1>5. /\ C \in Seq(Byte) /\ Len(C) = acc[N] /\ D \in Seq(Byte) /\ Len(D) = acc[N]
      /\ acc[N] \in Nat /\ N \in Nat
  BY <1>1, <1>2, <1>4, ContentLen DEF PosFacts
<1>6. m \in Nat /\ m <= h.page[p].len /\ h.page[p].len \in Nat
  BY <1>1, <1>3, PageSum
<1>7. ASSUME NEW i \in 1..N, NEW j \in 1..h.page[ps[i]].len
      PROVE  /\ C[acc[i - 1] + j] = ByteAt(h, ps[i], j)
             /\ D[acc[i - 1] + j] = IF ps[i] = p /\ j <= m THEN s[j] ELSE ByteAt(h, ps[i], j)
  <2>1. ps[i] \in Mine(h, b) /\ g.page[ps[i]].len = h.page[ps[i]].len
    BY <1>1, <1>4, PageSum
  <2>2. C[acc[i - 1] + j] = ByteAt(h, ps[i], j)
    BY <1>1, ByteShown
  <2>3. D[acc[i - 1] + j] = ByteAt(g, ps[i], j)
    BY <1>4, <2>1, ByteShown
  <2>4. ByteAt(g, ps[i], j) = IF ps[i] = p /\ j <= m THEN s[j] ELSE ByteAt(h, ps[i], j)
    BY <2>1 DEF Writes
  <2> QED BY <2>2, <2>3, <2>4
<1>8. ASSUME NEW j \in 1..m PROVE D[t + j] = s[j]
  <2>1. j \in 1..h.page[ps[k]].len /\ j <= m
    BY <1>3, <1>6
  <2>2. D[acc[k - 1] + j] = IF ps[k] = p /\ j <= m THEN s[j] ELSE ByteAt(h, ps[k], j)
    BY <1>3, <1>7, <2>1
  <2> QED BY <1>3, <2>1, <2>2
<1>9. ASSUME NEW x \in 1..Len(C), x <= t \/ x > t + m PROVE D[x] = C[x]
  <2>0. x \in 1..acc[N]
    BY <1>5
  <2>1. PICK i \in 1..N : \E j \in 1..h.page[ps[i]].len : x = acc[i - 1] + j
    BY <2>0, <1>1, Located
  <2>2. PICK j \in 1..h.page[ps[i]].len : x = acc[i - 1] + j
    BY <2>1
  <2>3. /\ C[acc[i - 1] + j] = ByteAt(h, ps[i], j)
        /\ D[acc[i - 1] + j] = IF ps[i] = p /\ j <= m THEN s[j] ELSE ByteAt(h, ps[i], j)
    BY <1>7
  <2>4. ~(ps[i] = p /\ j <= m)
    <3>1. ASSUME ps[i] = p, j <= m PROVE FALSE
      <4>1. i = k
        BY <3>1, <1>1, <1>3, EnumOnce
      <4>2. x = t + j /\ j \in Nat /\ j > 0
        BY <4>1, <2>2, <1>3, <1>6
      <4> HIDE DEF m
      <4> QED BY <4>2, <3>1, <1>3, <1>6, <1>9
    <3> QED BY <3>1
  <2> QED BY <2>2, <2>3, <2>4
<1>10. t + m <= Len(C)
  <2>1. 0 + h.page[p].len <= h.page[p].len
    BY <1>6
  <2>2. t + h.page[p].len <= Len(C)
    BY <1>6, <2>1, PosBytes
  <2> HIDE DEF m, C
  <2> QED BY <2>2, <1>3, <1>5, <1>6
<1> HIDE DEF C, D
<1> QED BY <1>5, <1>8, <1>9, <1>10 DEF IsPatch, C, D, m

\* Writing into a page of the buffer changes the bytes there.
LEMMA WritePatches ==
    ASSUME IInv, IInv', ListInv, NEW b \in Buffers, NEW p \in Mine(heap, b), CanWrite(p), NEW t,
           Pos(heap, b, p, 0, t), NEW s \in Seq(Byte), Len(s) <= heap.page[p].len,
           heap' = PageWrite(Writable(p), p, 0, s)
    PROVE  /\ IsPatch(Content(heap', b), Content(heap, b), t, s)
           /\ ListKept(heap', heap, b)
<1> DEFINE h == Writable(p)
<1>1. /\ HeapOK(h) /\ Mine(h, b) = Mine(heap, b) /\ h.nxt = heap.nxt
      /\ \A q \in Mine(heap, b) : h.page[q].len = heap.page[q].len
      /\ BytesKept(h, heap, b) /\ Alone(h, b, p)
  BY WritableShows
<1> HIDE DEF h
<1>2. p \in Mine(h, b) /\ Len(s) <= h.page[p].len
  BY <1>1
<1>3. heap' = PageWrite(h, p, 0, s)
  BY DEF h
<1>4. Writes(heap', h, b, p, s) /\ heap'.page = h.page /\ heap'.nxt = h.nxt
  BY <1>1, <1>2, <1>3, PageWriteBytes
<1>5. Mine(heap', b) = Mine(heap, b)
  BY <1>1, <1>4 DEF Mine, LivePages
<1>6. ListKept(heap', heap, b)
  BY <1>1, <1>4, <1>5 DEF ListKept
<1>7. Writes(heap', heap, b, p, s)
  <2>1. ASSUME NEW q \in Mine(heap, b), NEW j \in 1..heap.page[q].len
        PROVE  ByteAt(heap', q, j) = IF q = p /\ j <= Len(s) THEN s[j] ELSE ByteAt(heap, q, j)
    <3>1. q \in Mine(h, b) /\ j \in 1..h.page[q].len
      BY <1>1
    <3>2. ByteAt(heap', q, j) = IF q = p /\ j <= Len(s) THEN s[j] ELSE ByteAt(h, q, j)
      BY <3>1, <1>4 DEF Writes
    <3>3. ByteAt(h, q, j) = ByteAt(heap, q, j)
      BY <1>1 DEF BytesKept
    <3> QED BY <3>2, <3>3
  <2> QED BY <2>1 DEF Writes
<1>8. HeapOK(heap) /\ HeapOK(heap') /\ p # b
  BY PageFacts DEF IInv
<1> QED BY <1>6, <1>7, <1>8, PatchContent

\* An iteration of an overwriting call replaces n bytes at the place t, and goes on behind
\* them.
Patch(n, s, t) ==
    /\ n > 0 /\ n <= call.len /\ Len(s) = n
    /\ IsPatch(Content(heap', call.buf), Content(heap, call.buf), t, s)
    /\ Goes(call', call, n)
    /\ call'.len # 0 => Pos(heap', call.buf, call'.it, 0, t + n)

\* The page behind a page that is used up.
LEMMA PosBehind ==
    ASSUME IInv, ListInv, FillInv, NEW b \in Buffers, NEW p, p # b, NEW t,
           Pos(heap, b, p, 0, t), ListKept(heap', heap, b)
    PROVE  Pos(heap', b, heap.nxt[p], 0, t + heap.page[p].len)
<1>1. HeapOK(heap) /\ Filled(heap)
  BY DEF IInv, FillInv
<1>2. Pos(heap, b, heap.nxt[p], 0, t + (heap.page[p].len - 0))
  BY <1>1, PosNext
<1>3. heap.page[p].len \in Nat
  BY <1>1, PosWithin
<1>4. heap.page[p].len - 0 = heap.page[p].len
  BY <1>3
<1> QED BY <1>1, <1>2, <1>4, PosUnmoved

LEMMA OverwriteDataChanges ==
    ASSUME IInv, IInv', ListInv, FillInv, OverwriteDataStep, NEW t,
           Pos(heap, call.buf, call.it, 0, t)
    PROVE  \/ LeaveLoop
           \/ \E n \in Nat, s \in Seq(Byte) :
                 Patch(n, s, t) /\ \A j \in 1..n : s[j] = call.dat[call.done + j]
<1> DEFINE p == call.it
           b == call.buf
           h == Writable(p)
           n == Lower(NodeLen(h, p), call.len)
           s == FromCaller(n)
           l == heap.page[p].len
<1>1. In("overwrite_data")
  BY DEF OverwriteDataStep
<1>2. /\ call \in CallType /\ HeapOK(heap) /\ heap \in Heap /\ b \in Buffers
      /\ Inside(heap, p, b) /\ p # b /\ call.len \in Nat /\ call.len > 0 /\ call.done \in Nat
      /\ call.fn = "overwrite_data" /\ call.pc = "loop" /\ call.dat \in Seq(Byte)
  BY <1>1, InLoop DEF In, LoopGoesOn
<1>3. p \in PageIds /\ p \in LivePages(heap) /\ p \in Mine(heap, b) /\ l \in Nat /\ l > 0
  BY <1>2, InsideIsPage DEF Heap, PageRec, FillInv, Filled, Mine
<1>4. CASE CanWrite(p) /\ ~LeaveLoop
  <2>1. /\ heap' = PageWrite(h, p, 0, s)
        /\ call' = IF n = 0 THEN [call EXCEPT !.pc = "ret"]
                   ELSE [Progress(call, n) EXCEPT !.it = h.nxt[p]]
    BY <1>4 DEF OverwriteDataStep
  <2>2. Duplicated(h, heap, p)
    BY <1>3, <1>4, WritableOK
  <2>3. NodeLen(h, p) = l /\ h.nxt = heap.nxt
    BY <2>2, <1>3 DEF Duplicated, NodeLen
  <2>4. n = Lower(l, call.len)
    BY <2>3
  <2> HIDE DEF n
  <2>5. n \in Nat /\ n <= l /\ n <= call.len /\ n > 0 /\ (n # call.len => n = l)
    <3>1. Lower(l, call.len) \in {l, call.len}
      BY DEF Lower
    <3> QED BY <3>1, <2>4, <1>2, <1>3, LowerType, LowerPositive
  <2>6. s \in Seq(Byte) /\ Len(s) = n
    BY <1>2, <2>5, FromCallerType
  <2>7. \A j \in 1..n : s[j] = call.dat[call.done + j]
    <3>1. call.len + call.done = Len(call.dat)
      BY <1>2 DEF IInv, CallOK, BytesLeftOK
    <3>2. call.done + n <= Len(call.dat)
      BY <1>2, <2>5, <3>1
    <3> QED BY <1>2, <2>5, <3>2, PieceAt DEF FromCaller
  <2> HIDE DEF s
  <2>8. IsPatch(Content(heap', b), Content(heap, b), t, s) /\ ListKept(heap', heap, b)
    BY <1>2, <1>3, <1>4, <2>1, <2>5, <2>6, WritePatches
  <2>9. call' = [Progress(call, n) EXCEPT !.it = heap.nxt[p]]
    BY <2>1, <2>3, <2>5
  <2>10. Goes(call', call, n) /\ call'.it = heap.nxt[p]
    BY <2>9, <1>2 DEF Progress, CallType, Goes
  <2>11. ASSUME call'.len # 0 PROVE Pos(heap', b, call'.it, 0, t + n)
    <3>1. n = l
      BY <2>5, <2>10, <2>11, <1>2 DEF Goes
    <3> QED BY <3>1, <2>8, <2>10, <1>2, PosBehind
  <2> QED BY <2>5, <2>6, <2>7, <2>8, <2>10, <2>11 DEF Patch
<1> QED BY <1>4 DEF OverwriteDataStep

\* Making a page's data private changes no other page.
LEMMA WritableElsewhere ==
    ASSUME IInv, NEW p \in LivePages(heap), CanWrite(p), NEW h, h = Writable(p),
           NEW a \in Buffers, NEW q \in Mine(heap, a), q # p
    PROVE  h.page[q] = heap.page[q] /\ \A j : ByteAt(h, q, j) = ByteAt(heap, q, j)
<1>1. HeapOK(heap)
  BY DEF IInv
<1>2. HeapOK(h) /\ SamePagesBut(h, heap, p)
  BY WritableOK DEF Duplicated
<1>3. h.page[q] = heap.page[q]
  BY <1>1, <1>2, PageFacts DEF SamePagesBut
<1>4. KeptBut(h, heap, {})
  <2> DEFINE e == AnyOf(FreeData(heap))
  <2>1. CASE MustDup(p)
    <3>1. e \in FreeData(heap) /\ h = DupPageData(heap, p, e)
      BY <2>1, SomeOf DEF CanWrite, Writable
    <3> HIDE DEF e
    <3> QED BY <3>1, <1>1, DupKeeps
  <2>2. CASE ~MustDup(p)
    <3>1. h = heap
      BY <2>2 DEF Writable
    <3> QED BY <3>1 DEF KeptBut
  <2> QED BY <2>1, <2>2
<1> QED BY <1>1, <1>2, <1>3, <1>4, ByteStays

\* The bytes at the start of a page.
LEMMA HeadBytes ==
    ASSUME NEW h, HeapOK(h), NEW b \in Buffers, NEW x, NEW off, NEW t, Pos(h, b, x, off, t),
           x # b, NEW n \in Nat, off + n <= h.page[x].len
    PROVE  \A j \in 1..n : ByteAt(h, x, off + j) = Content(h, b)[t + j]
<1>1. \A j \in 1..n : PageBytes(h, x, off, n)[j] = Content(h, b)[t + j]
  BY PosBytes
<1>2. /\ x \in Mine(h, b) /\ off \in Nat /\ h.page[x].len \in Nat
  BY PosWithin
<1>3. /\ h \in Heap /\ x \in PageIds /\ x \in LivePages(h) /\ h.page[x].data \in DataIds
      /\ NodeLen(h, x) = h.page[x].len
  BY <1>2, PageFacts DEF HeapOK
<1>4. InBounds(h, x, off, n)
  BY <1>2, <1>3, WithinPage
<1>5. \A j \in 1..n : PageBytes(h, x, off, n)[j] = ByteAt(h, x, off + j)
  BY <1>2, <1>3, <1>4, PieceBytes
<1> QED BY <1>1, <1>5

LEMMA AfterOverwriteGoes ==
    ASSUME NEW c \in CallType, NEW h, NEW n \in Nat, NEW d, d = AfterOverwrite(c, h, n)
    PROVE  Goes(d, c, n)
  BY DEF CallType, AfterOverwrite, Progress, Goes

LEMMA OverwriteBufferChanges ==
    ASSUME CountSuffices, IInv, IInv', ListInv, FillInv, FaultInv, OverwriteBufferStep, NEW t,
           Pos(heap, call.buf, call.it, 0, t), NEW u, Pos(heap, call.src, call.sit, 0, u)
    PROVE  \/ LeaveLoop
           \/ \E n \in Nat, s \in Seq(Byte) :
                 /\ Patch(n, s, t)
                 /\ u + n <= Len(Content(heap, call.src))
                 /\ \A j \in 1..n : s[j] = Content(heap, call.src)[u + j]
                 /\ call'.len # 0 =>
                       Pos(heap', call.src, call'.sit, 0, u + n)
<1> DEFINE b == call.buf
           p == call.it
           src == call.src
           q == call.sit
           h == Writable(p)
           n == Lower(Lower(NodeLen(h, p), call.len), NodeLen(h, q))
           s == PageBytes(h, q, 0, n)
           l == heap.page[p].len
           m == heap.page[q].len
<1>1. In("overwrite_buffer")
  BY DEF OverwriteBufferStep
<1>2. /\ call.fn = "overwrite_buffer" /\ call.pc = "loop" /\ HeapOK(heap) /\ heap \in Heap
      /\ b \in Buffers /\ call \in CallType /\ fault = "none"
      /\ Inside(heap, p, b) /\ call.len \in Nat /\ call.len > 0 /\ p # b /\ q # src
  BY <1>1, InLoop DEF In, LoopGoesOn
<1>3. /\ p \in LivePages(heap) /\ p \in PageIds /\ q \in LivePages(heap) /\ q \in PageIds
      /\ src \in Buffers /\ src # b
      /\ p \in Mine(heap, b) /\ q \in Mine(heap, src) /\ p # q
      /\ l \in Nat /\ l > 0 /\ m \in Nat /\ m > 0
  <2>1. p \in LivePages(heap) /\ p \in PageIds /\ heap.page[p].own = b
    BY <1>2, InsideIsPage
  <2>2. /\ q \in LivePages(heap) /\ q \in PageIds /\ heap.page[q].own = src
        /\ src \in Buffers /\ src # b
    BY <1>2, AtSourcePage
  <2>3. l \in Nat /\ m \in Nat
    BY <2>1, <2>2, <1>2 DEF Heap, PageRec
  <2> QED BY <2>1, <2>2, <2>3 DEF Mine, FillInv, Filled
<1>4. /\ call.off = 0 /\ call.soff = 0
      /\ (call.len <= l /\ call.len <= m) \/ l = m
  <2>1. /\ call.off = 0 /\ call.soff = 0
        /\ \/ call.len <= NodeLen(heap, p) /\ call.len <= NodeLen(heap, q)
           \/ Twins(heap, b, src, p, q)
    BY <1>2 DEF FaultInv, InStep
  <2>2. Twins(heap, b, src, p, q) => NodeLen(heap, p) = NodeLen(heap, q)
    BY <1>2, <1>3, TwinsNext
  <2> QED BY <2>1, <2>2, <1>3 DEF NodeLen
<1>5. CASE CanWrite(p) /\ ~LeaveLoop
  <2>1. HeapOK(h) /\ Duplicated(h, heap, p)
    BY <1>3, <1>5, WritableOK DEF Duplicated
  <2>2. /\ h.page[q] = heap.page[q] /\ \A j : ByteAt(h, q, j) = ByteAt(heap, q, j)
    BY <1>3, <1>5, WritableElsewhere
  <2>3. /\ p \in LivePages(h) /\ q \in LivePages(h) /\ h.nxt = heap.nxt
        /\ NodeLen(h, p) = l /\ NodeLen(h, q) = m
    BY <2>1, <2>2, <1>3 DEF Duplicated, LivePages, NodeLen
  <2> HIDE DEF h
  <2>4. n \in Nat /\ n > 0 /\ n <= l /\ n <= m /\ n <= call.len /\ n \in {l, m, call.len}
    <3>1. n = Lower(Lower(l, call.len), m)
      BY <2>3
    <3> HIDE DEF n, l, m
    <3> QED BY <3>1, <1>2, <1>3 DEF Lower
  <2>5. n # call.len => n = l /\ n = m
    <3> HIDE DEF n, l, m
    <3> QED BY <2>4, <1>2, <1>3, <1>4
  <2> HIDE DEF n
  <2>6. InBounds(h, p, 0, n) /\ InBounds(h, q, 0, n)
    BY <2>1, <2>3, <2>4, WithinPage
  <2>7. /\ heap' = PageWrite(h, p, 0, s)
        /\ call' = IF n = 0 THEN [call EXCEPT !.pc = "ret"] ELSE AfterOverwrite(call, h, n)
    BY <2>6, <1>4, <1>5 DEF OverwriteBufferStep, h, n
  <2>8. /\ s \in Seq(Byte) /\ Len(s) = n /\ \A j \in 1..n : s[j] = ByteAt(h, q, 0 + j)
    <3>1. h \in Heap /\ h.page[q].data \in DataIds
      BY <2>1, <2>3 DEF HeapOK, Shown, LivePages
    <3> QED BY <3>1, <2>4, <2>6, <1>3, PieceBytes
  <2> HIDE DEF s
  <2>9. IsPatch(Content(heap', b), Content(heap, b), t, s) /\ ListKept(heap', heap, b)
    <3>1. Len(s) <= heap.page[p].len /\ heap' = PageWrite(Writable(p), p, 0, s)
      BY <2>4, <2>7, <2>8 DEF h
    <3> QED BY <3>1, <2>8, <1>2, <1>3, <1>5, WritePatches
  <2>10. ListKept(heap', heap, src)
    <3>1. StepEffect
      BY OverwriteBufferEffect
    <3> QED BY <3>1, <1>3 DEF StepEffect, OtherListsKept
  <2>11. call' = AfterOverwrite(call, h, n)
    BY <2>4, <2>7
  <2>12. Goes(call', call, n)
    BY <2>4, <2>11, <1>2, AfterOverwriteGoes
  <2>13. call'.len # 0 => /\ n = l /\ n = m
                          /\ call'.it = heap.nxt[p] /\ call'.sit = heap.nxt[q]
    <3>1. call'.len # 0 => n # call.len
      BY <2>4, <2>12, <1>2 DEF Goes
    <3>2. /\ call.off + n = NodeLen(h, p) => call'.it = h.nxt[p]
          /\ call.soff + n = NodeLen(h, q) => call'.sit = h.nxt[q]
      BY <2>4, <2>11, <1>2, AfterOverwriteFields
    <3>3. call.off + n = n /\ call.soff + n = n
      BY <2>4, <1>4
    <3> QED BY <3>1, <3>2, <3>3, <2>3, <2>5
  <2>14. call'.len # 0 => Pos(heap', b, call'.it, 0, t + n)
    BY <2>9, <2>13, <1>2, PosBehind
  <2>15. call'.len # 0 => Pos(heap', src, call'.sit, 0, u + n)
    BY <2>10, <2>13, <1>2, <1>3, PosBehind
  <2>16. /\ \A j \in 1..n : s[j] = Content(heap, src)[u + j]
         /\ u + n <= Len(Content(heap, src))
    <3>1. 0 + n <= heap.page[q].len
      BY <2>4
    <3>2. \A j \in 1..n : ByteAt(heap, q, 0 + j) = Content(heap, src)[u + j]
      BY <3>1, <2>4, <1>2, <1>3, HeadBytes
    <3>3. u + n <= Len(Content(heap, src))
      BY <3>1, <2>4, <1>2, <1>3, PosBytes
    <3> QED BY <3>2, <3>3, <2>2, <2>8
  <2>17. Patch(n, s, t)
    BY <2>4, <2>8, <2>9, <2>12, <2>14 DEF Patch
  <2> QED BY <2>4, <2>8, <2>15, <2>16, <2>17
<1> QED BY <1>5 DEF OverwriteBufferStep

\* Where an inserting call stands after n bytes.
LEMMA AfterInsertGoes ==
    ASSUME NEW c \in CallType, NEW h, NEW n, NEW d, d = AfterInsert(c, h, n)
    PROVE  /\ Goes(d, c, n) /\ d.it = c.it /\ d.off = 0
           /\ c.fn = "insert_buffer" =>
                 IF ~Strategy[c.buf].clone_on_write /\ ~Strategy[c.buf].fragment_as_target
                 THEN d.sit = h.nxt[c.sit] /\ d.soff = c.soff
                 ELSE IF c.soff + n = h.page[c.sit].len
                 THEN d.sit = h.nxt[c.sit] /\ d.soff = 0
                 ELSE d.sit = c.sit /\ d.soff = c.soff + n
  BY DEF CallType, AfterInsert, NextSource, Progress, Goes

LEMMA SourceMoves ==
    ASSUME IInv, FillInv, In("insert_buffer"), NEW n, n = InsertLen(call), NEW u,
           Pos(heap, call.src, call.sit, call.soff, u), ListKept(heap', heap, call.src),
           call' = AfterInsert(call, heap', n), call'.len # 0
    PROVE  Pos(heap', call.src, call'.sit, call'.soff, u + n)
<1> DEFINE src == call.src
           q == call.sit
           off == call.soff
           m == heap.page[q].len
<1>1. /\ call \in CallType /\ HeapOK(heap) /\ Filled(heap) /\ call.fn = "insert_buffer"
      /\ call.len \in Nat /\ off \in Nat /\ q # src /\ call.buf \in Buffers
  BY InLoop DEF In, LoopGoesOn, FillInv
<1>2. q \in Mine(heap, src) /\ q \in PageIds /\ src \in Buffers /\ NodeLen(heap, q) = m
  BY <1>1, AtSourcePage DEF In, Mine
<1>3. m \in Nat /\ off < m
  BY <1>1, <1>2, PosWithin
<1>4. /\ n \in Nat /\ n <= call.len /\ off + n <= m
      /\ ~Strategy[call.buf].fragment_as_target => off = 0 /\ (n = m \/ n = call.len)
  BY <1>2, InsertLenFits
<1>5. heap'.nxt[q] = heap.nxt[q] /\ heap'.page[q].len = m
  BY <1>2 DEF ListKept
<1>6. n # call.len
  <2>1. call'.len = call.len - n
    BY <1>1, AfterInsertGoes DEF Goes
  <2> QED BY <2>1, <1>1, <1>4
<1>7. CASE off + n = m
  <2>1. call'.sit = heap.nxt[q] /\ call'.soff = 0
    <3>1. ~Strategy[call.buf].fragment_as_target => off = 0
      BY <1>4
    <3> QED BY <3>1, <1>1, <1>5, <1>7, AfterInsertGoes
  <2>2. Pos(heap, src, heap.nxt[q], 0, u + (m - off))
    BY <1>1, <1>2, PosNext
  <2>3. m - off = n
    BY <1>1, <1>3, <1>4, <1>7
  <2> QED BY <2>1, <2>2, <2>3, <1>1, <1>2, PosUnmoved
<1>8. CASE off + n # m
  <2>1. off + n < m
    BY <1>1, <1>3, <1>4, <1>8
  <2>2. Strategy[call.buf].fragment_as_target
    <3>1. ASSUME ~Strategy[call.buf].fragment_as_target PROVE FALSE
      <4>1. off = 0 /\ n = m
        BY <3>1, <1>4, <1>6
      <4> QED BY <4>1, <1>3, <1>8
    <3> QED BY <3>1
  <2>3. call'.sit = q /\ call'.soff = off + n
    BY <2>2, <1>1, <1>5, <1>8, AfterInsertGoes
  <2>4. Pos(heap, src, q, off + n, u + n)
    BY <2>1, <1>1, <1>2, <1>4, PosStep
  <2> QED BY <2>3, <2>4, <1>1, <1>2, PosUnmoved
<1> QED BY <1>7, <1>8


-----------------------------------------------------------------------------
(* The strings of a call in progress, told from the string B its buffer    *)
(* was entered with and the bytes G it was given.                          *)

\* D is B with n bytes more behind the first t.
Spread(D, B, t, n) ==
    /\ D \in Seq(Byte) /\ B \in Seq(Byte) /\ n \in Nat /\ t \in 0..Len(B)
    /\ Len(D) = Len(B) + n
    /\ \A i \in 1..t : D[i] = B[i]
    /\ \A i \in 1..(Len(B) - t) : D[(t + n) + i] = B[t + i]

\* The n bytes of D behind the first t are the first of G.
Copies(D, t, G, n) ==
    /\ G \in Seq(Byte) /\ n \in 0..Len(G)
    /\ \A j \in 1..n : D[t + j] = G[j]

\* w is the next piece of G behind the first n bytes.
NextOf(w, G, n) ==
    /\ n + Len(w) <= Len(G) /\ \A j \in 1..Len(w) : w[j] = G[n + j]

LEMMA SpreadWhole ==
    ASSUME NEW B \in Seq(Byte), NEW t \in 0..Len(B)
    PROVE  Spread(B, B, t, 0)
<1>1. Len(B) \in Nat /\ t \in Nat /\ t <= Len(B)
  OBVIOUS
<1>2. ASSUME NEW i \in 1..(Len(B) - t) PROVE B[(t + 0) + i] = B[t + i]
  <2>1. t + 0 = t
    BY <1>1
  <2> QED BY <2>1
<1> QED BY <1>1, <1>2 DEF Spread

\* Bytes put among those that were spread spread them further.
LEMMA PutSpreads ==
    ASSUME NEW C, NEW B, NEW t, NEW n, Spread(C, B, t, n), NEW tt \in t..(t + n),
           NEW w \in Seq(Byte), NEW D, IsPut(D, C, tt, w)
    PROVE  Spread(D, B, t, n + Len(w))
<1> DEFINE l == Len(B)
           m == Len(w)
<1>1. /\ C \in Seq(Byte) /\ B \in Seq(Byte) /\ n \in Nat /\ t \in Nat /\ t <= l /\ l \in Nat
      /\ Len(C) = l + n /\ m \in Nat /\ tt \in Nat /\ t <= tt /\ tt <= t + n
      /\ \A i \in 1..t : C[i] = B[i]
      /\ \A i \in 1..(l - t) : C[(t + n) + i] = B[t + i]
  <2>1. t \in 0..Len(B) /\ n \in Nat
    BY DEF Spread
  <2> QED BY <2>1 DEF Spread
<1>2. /\ D \in Seq(Byte) /\ Len(D) = Len(C) + m
      /\ \A i \in 1..tt : D[i] = C[i]
      /\ \A i \in 1..(Len(C) - tt) : D[(tt + m) + i] = C[tt + i]
  BY DEF IsPut
<1> HIDE DEF l, m
<1>3. ASSUME NEW i \in 1..t PROVE D[i] = B[i]
  <2>1. i \in 1..tt
    BY <1>1
  <2> QED BY <2>1, <1>1, <1>2
<1>4. ASSUME NEW i \in 1..(l - t) PROVE D[(t + (n + m)) + i] = B[t + i]
  <2> DEFINE k == ((t + n) - tt) + i
  <2>1. /\ k \in 1..(Len(C) - tt) /\ (tt + m) + k = (t + (n + m)) + i
        /\ tt + k = (t + n) + i
    BY <1>1
  <2> HIDE DEF k
  <2>2. D[(tt + m) + k] = C[tt + k]
    BY <2>1, <1>2
  <2>3. C[(t + n) + i] = B[t + i]
    BY <1>1
  <2> QED BY <2>1, <2>2, <2>3
<1>5. Len(D) = l + (n + m) /\ n + m \in Nat
  BY <1>1, <1>2
<1> QED BY <1>1, <1>2, <1>3, <1>4, <1>5 DEF Spread, l, m

\* The next piece is put behind what was copied.
LEMMA PutCopies ==
    ASSUME NEW C, NEW t \in Nat, NEW G, NEW n, Copies(C, t, G, n), NEW w \in Seq(Byte),
           NextOf(w, G, n), NEW D, IsPut(D, C, t + n, w)
    PROVE  Copies(D, t, G, n + Len(w))
<1> DEFINE m == Len(w)
<1>1. /\ G \in Seq(Byte) /\ n \in Nat /\ n <= Len(G) /\ m \in Nat /\ n + m <= Len(G)
      /\ \A j \in 1..n : C[t + j] = G[j]
      /\ \A j \in 1..m : w[j] = G[n + j]
  <2>1. n \in 0..Len(G) /\ G \in Seq(Byte)
    BY DEF Copies
  <2> QED BY <2>1 DEF Copies, NextOf
<1>2. /\ \A i \in 1..(t + n) : D[i] = C[i]
      /\ \A i \in 1..m : D[(t + n) + i] = w[i]
  BY DEF IsPut
<1> HIDE DEF m
<1>3. ASSUME NEW j \in 1..(n + m) PROVE D[t + j] = G[j]
  <2>1. CASE j <= n
    <3>1. j \in 1..n /\ t + j \in 1..(t + n)
      BY <2>1, <1>1
    <3> QED BY <3>1, <1>1, <1>2
  <2>2. CASE j > n
    <3> DEFINE i == j - n
    <3>1. i \in 1..m /\ (t + n) + i = t + j /\ n + i = j
      BY <2>2, <1>1
    <3> HIDE DEF i
    <3> QED BY <3>1, <1>1, <1>2
  <2> QED BY <2>1, <2>2, <1>1
<1> QED BY <1>1, <1>3 DEF Copies, m

\* D is B with its first n bytes replaced by those of G.
Replaced(D, B, G, n) ==
    /\ D \in Seq(Byte) /\ B \in Seq(Byte) /\ Len(D) = Len(B) /\ n \in 0..Len(B)
    /\ Copies(D, 0, G, n)
    /\ \A i \in 1..(Len(B) - n) : D[n + i] = B[n + i]

\* The next piece replaces what stood behind the bytes replaced already.
LEMMA PatchReplaces ==
    ASSUME NEW C, NEW B, NEW G, NEW n, Replaced(C, B, G, n), NEW w \in Seq(Byte),
           NextOf(w, G, n), NEW D, IsPatch(D, C, n, w)
    PROVE  Replaced(D, B, G, n + Len(w))
<1> DEFINE m == Len(w)
           l == Len(B)
<1>1. /\ C \in Seq(Byte) /\ B \in Seq(Byte) /\ Len(C) = l /\ n \in Nat /\ n <= l /\ l \in Nat
      /\ G \in Seq(Byte) /\ n <= Len(G) /\ m \in Nat /\ n + m <= Len(G)
      /\ \A i \in 1..(l - n) : C[n + i] = B[n + i]
  <2>1. n \in 0..l
    BY DEF Replaced
  <2> QED BY <2>1 DEF Replaced, Copies, NextOf
<1>2. /\ \A j \in 1..n : C[0 + j] = G[j]
      /\ \A j \in 1..m : w[j] = G[n + j]
  BY DEF Replaced, Copies, NextOf
<1>3. /\ D \in Seq(Byte) /\ Len(D) = l /\ n + m <= l
      /\ \A j \in 1..m : D[n + j] = w[j]
      /\ \A i \in 1..l : i <= n \/ i > n + m => D[i] = C[i]
  BY <1>1 DEF IsPatch
<1> HIDE DEF m, l
<1>4. ASSUME NEW j \in 1..(n + m) PROVE D[0 + j] = G[j]
  <2>1. CASE j <= n
    <3>1. j \in 1..n /\ j \in 1..l /\ 0 + j = j
      BY <2>1, <1>1
    <3>2. D[j] = C[j]
      BY <2>1, <3>1, <1>3
    <3> QED BY <3>1, <3>2, <1>2
  <2>2. CASE j > n
    <3> DEFINE i == j - n
    <3>1. i \in 1..m /\ n + i = j /\ 0 + j = j
      BY <2>2, <1>1
    <3> HIDE DEF i
    <3> QED BY <3>1, <1>2, <1>3
  <2> QED BY <2>1, <2>2, <1>1
<1>5. ASSUME NEW i \in 1..(l - (n + m)) PROVE D[(n + m) + i] = B[(n + m) + i]
  <2> DEFINE k == m + i
  <2>1. k \in 1..(l - n) /\ n + k = (n + m) + i /\ n + k \in 1..l /\ n + k > n + m
    BY <1>1, <1>3
  <2> HIDE DEF k
  <2> QED BY <2>1, <1>1, <1>3
<1>6. n + m \in 0..l /\ n + m \in 0..Len(G)
  BY <1>1, <1>3
<1> QED BY <1>1, <1>3, <1>4, <1>5, <1>6 DEF Replaced, Copies, l, m

\* D is X and then Y.
MadeOf(D, X, Y) ==
    /\ D \in Seq(Byte) /\ X \in Seq(Byte) /\ Y \in Seq(Byte) /\ Len(D) = Len(X) + Len(Y)
    /\ \A i \in 1..Len(X) : D[i] = X[i]
    /\ \A i \in 1..Len(Y) : D[Len(X) + i] = Y[i]

LEMMA MadeOfTwo ==
    ASSUME NEW D, NEW X, NEW Y, MadeOf(D, X, Y)
    PROVE  D = X \o Y
<1> DEFINE E == X \o Y
           l == Len(X)
           m == Len(Y)
<1>1. /\ D \in Seq(Byte) /\ X \in Seq(Byte) /\ Y \in Seq(Byte) /\ Len(D) = l + m
      /\ l \in Nat /\ m \in Nat
  BY DEF MadeOf
<1>2. /\ E \in Seq(Byte) /\ Len(E) = l + m
      /\ \A i \in 1..l : E[i] = X[i]
      /\ \A i \in 1..m : E[l + i] = Y[i]
  BY <1>1, Joined
<1>3. /\ \A i \in 1..l : D[i] = X[i]
      /\ \A i \in 1..m : D[l + i] = Y[i]
  BY DEF MadeOf
<1> HIDE DEF E, l, m
<1>4. ASSUME NEW i \in 1..(l + m) PROVE D[i] = E[i]
  <2>1. CASE i <= l
    <3>1. i \in 1..l
      BY <2>1, <1>1
    <3> QED BY <3>1, <1>2, <1>3
  <2>2. CASE i > l
    <3> DEFINE k == i - l
    <3>1. k \in 1..m /\ l + k = i
      BY <2>2, <1>1
    <3> HIDE DEF k
    <3> QED BY <3>1, <1>2, <1>3
  <2> QED BY <2>1, <2>2, <1>1
<1>5. D = E
  BY <1>1, <1>2, <1>4, SameElements
<1> QED BY <1>5 DEF E

\* What an extend leaves, what a rewind leaves, and what an insert leaves.
LEMMA SpreadAtEnd ==
    ASSUME NEW D, NEW B, NEW n, Spread(D, B, Len(B), n)
    PROVE  D = B \o SubSeq(D, Len(B) + 1, Len(D)) /\ Len(D) = Len(B) + n
<1> DEFINE l == Len(B)
           Y == SubSeq(D, l + 1, Len(D))
<1>1. /\ D \in Seq(Byte) /\ B \in Seq(Byte) /\ n \in Nat /\ l \in Nat /\ Len(D) = l + n
      /\ \A i \in 1..l : D[i] = B[i]
  BY DEF Spread
<1>2. /\ Y \in Seq(Byte) /\ Len(Y) = n /\ \A i \in 1..n : Y[i] = D[l + i]
  <2> HIDE DEF l
  <2>1. l <= Len(D) /\ Len(D) - l = n
    BY <1>1
  <2> QED BY <2>1, <1>1, TailOf
<1> HIDE DEF Y
<1>3. MadeOf(D, B, Y)
  BY <1>1, <1>2 DEF MadeOf, l
<1> QED BY <1>1, <1>3, MadeOfTwo DEF Y, l

LEMMA SpreadAtStart ==
    ASSUME NEW D, NEW B, NEW n, Spread(D, B, 0, n)
    PROVE  D = SubSeq(D, 1, n) \o B
<1> DEFINE l == Len(B)
           X == SubSeq(D, 1, n)
<1>1. /\ D \in Seq(Byte) /\ B \in Seq(Byte) /\ n \in Nat /\ l \in Nat /\ Len(D) = l + n
      /\ \A i \in 1..(l - 0) : D[(0 + n) + i] = B[0 + i]
  BY DEF Spread
<1>2. \A i \in 1..l : D[n + i] = B[i]
  <2> HIDE DEF l
  <2>1. ASSUME NEW i \in 1..l PROVE D[n + i] = B[i]
    <3>1. i \in 1..(l - 0) /\ (0 + n) + i = n + i /\ 0 + i = i
      BY <1>1
    <3> QED BY <3>1, <1>1
  <2> QED BY <2>1
<1>3. X \in Seq(Byte) /\ Len(X) = n /\ \A i \in 1..n : X[i] = D[i]
  <2> HIDE DEF l
  <2>1. 0 \in Nat /\ 0 <= n /\ n <= Len(D) /\ 0 + 1 = 1 /\ n - 0 = n
    BY <1>1
  <2>2. /\ SubSeq(D, 0 + 1, n) \in Seq(Byte) /\ Len(SubSeq(D, 0 + 1, n)) = n - 0
        /\ \A i \in 1..(n - 0) : SubSeq(D, 0 + 1, n)[i] = D[0 + i]
    BY <2>1, <1>1, PieceOf
  <2> QED BY <2>1, <2>2
<1> HIDE DEF X
<1>4. MadeOf(D, X, B)
  BY <1>1, <1>2, <1>3 DEF MadeOf, l
<1> QED BY <1>4, MadeOfTwo DEF X

\* The first n bytes.
LEMMA FrontOf ==
    ASSUME NEW s \in Seq(Byte), NEW n \in 0..Len(s)
    PROVE  /\ SubSeq(s, 1, n) \in Seq(Byte) /\ Len(SubSeq(s, 1, n)) = n
           /\ \A i \in 1..n : SubSeq(s, 1, n)[i] = s[i]
<1>1. 0 \in Nat /\ n \in Nat /\ 0 <= n /\ n <= Len(s) /\ n - 0 = n
  OBVIOUS
<1>2. /\ SubSeq(s, 0 + 1, n) \in Seq(Byte) /\ Len(SubSeq(s, 0 + 1, n)) = n - 0
      /\ \A i \in 1..(n - 0) : SubSeq(s, 0 + 1, n)[i] = s[0 + i]
  BY <1>1, PieceOf
<1> QED BY <1>1, <1>2

LEMMA SpreadByCopy ==
    ASSUME NEW D, NEW B, NEW t, NEW n, NEW G, Spread(D, B, t, n), Copies(D, t, G, n)
    PROVE  D = SubSeq(B, 1, t) \o SubSeq(G, 1, n) \o SubSeq(B, t + 1, Len(B))
<1> DEFINE l == Len(B)
           X == SubSeq(B, 1, t)
           Y == SubSeq(G, 1, n)
           Z == SubSeq(B, t + 1, l)
           W == X \o Y
<1>1. /\ D \in Seq(Byte) /\ B \in Seq(Byte) /\ n \in Nat /\ l \in Nat /\ Len(D) = l + n
      /\ t \in 0..l /\ t \in Nat /\ t <= l /\ G \in Seq(Byte) /\ n \in 0..Len(G)
  <2>1. t \in 0..Len(B)
    BY DEF Spread
  <2> QED BY <2>1 DEF Spread, Copies
<1>2. /\ \A i \in 1..t : D[i] = B[i]
      /\ \A j \in 1..n : D[t + j] = G[j]
      /\ \A i \in 1..(l - t) : D[(t + n) + i] = B[t + i]
  BY DEF Spread, Copies
<1>3. X \in Seq(Byte) /\ Len(X) = t /\ \A i \in 1..t : X[i] = B[i]
  BY <1>1, FrontOf
<1>4. Y \in Seq(Byte) /\ Len(Y) = n /\ \A i \in 1..n : Y[i] = G[i]
  BY <1>1, FrontOf
<1>5. Z \in Seq(Byte) /\ Len(Z) = l - t /\ \A i \in 1..(l - t) : Z[i] = B[t + i]
  BY <1>1, TailOf
<1> HIDE DEF X, Y, Z
<1>6. /\ W \in Seq(Byte) /\ Len(W) = t + n
      /\ \A i \in 1..t : W[i] = X[i]
      /\ \A i \in 1..n : W[t + i] = Y[i]
  BY <1>3, <1>4, Joined
<1> HIDE DEF W, l
<1>7. ASSUME NEW i \in 1..(t + n) PROVE D[i] = W[i]
  <2>1. CASE i <= t
    <3>1. i \in 1..t
      BY <2>1, <1>1
    <3> QED BY <3>1, <1>2, <1>3, <1>6
  <2>2. CASE i > t
    <3> DEFINE k == i - t
    <3>1. k \in 1..n /\ t + k = i
      BY <2>2, <1>1
    <3> HIDE DEF k
    <3> QED BY <3>1, <1>2, <1>4, <1>6
  <2> QED BY <2>1, <2>2, <1>1
<1>8. MadeOf(D, W, Z)
  <2>1. Len(D) = (t + n) + (l - t)
    BY <1>1
  <2> QED BY <2>1, <1>1, <1>2, <1>5, <1>6, <1>7 DEF MadeOf
<1> QED BY <1>8, MadeOfTwo DEF W, X, Y, Z, l

LEMMA ReplacedByCopy ==
    ASSUME NEW D, NEW B, NEW n, NEW G, Replaced(D, B, G, n)
    PROVE  D = SubSeq(G, 1, n) \o SubSeq(B, n + 1, Len(B))
<1> DEFINE l == Len(B)
           X == SubSeq(G, 1, n)
           Y == SubSeq(B, n + 1, l)
<1>1. /\ D \in Seq(Byte) /\ B \in Seq(Byte) /\ Len(D) = l /\ l \in Nat /\ n \in 0..l
      /\ G \in Seq(Byte) /\ n \in 0..Len(G) /\ n \in Nat /\ n <= l
  <2>1. n \in 0..Len(B)
    BY DEF Replaced
  <2> QED BY <2>1 DEF Replaced, Copies
<1>2. /\ \A j \in 1..n : D[0 + j] = G[j]
      /\ \A i \in 1..(l - n) : D[n + i] = B[n + i]
  BY DEF Replaced, Copies
<1>3. X \in Seq(Byte) /\ Len(X) = n /\ \A i \in 1..n : X[i] = G[i]
  BY <1>1, FrontOf
<1>4. Y \in Seq(Byte) /\ Len(Y) = l - n /\ \A i \in 1..(l - n) : Y[i] = B[n + i]
  BY <1>1, TailOf
<1> HIDE DEF X, Y, l
<1>5. \A j \in 1..n : D[j] = X[j]
  BY <1>1, <1>2, <1>3
<1>6. MadeOf(D, X, Y)
  <2>1. Len(D) = n + (l - n)
    BY <1>1
  <2> QED BY <2>1, <1>1, <1>2, <1>3, <1>4, <1>5 DEF MadeOf
<1> QED BY <1>6, MadeOfTwo DEF X, Y, l

LEMMA FrontIs ==
    ASSUME NEW v, NEW s, IsFront(v, s)
    PROVE  v = SubSeq(s, 1, Len(v))
<1>1. /\ v \in Seq(Byte) /\ s \in Seq(Byte) /\ Len(v) \in 0..Len(s)
      /\ \A i \in 1..Len(v) : v[i] = s[i]
  BY DEF IsFront
<1>2. /\ SubSeq(s, 1, Len(v)) \in Seq(Byte) /\ Len(SubSeq(s, 1, Len(v))) = Len(v)
      /\ \A i \in 1..Len(v) : SubSeq(s, 1, Len(v))[i] = s[i]
  BY <1>1, FrontOf
<1> DEFINE u == SubSeq(s, 1, Len(v))
<1>3. u \in Seq(Byte) /\ Len(v) = Len(u) /\ \A i \in 1..Len(v) : v[i] = u[i]
  BY <1>1, <1>2
<1> HIDE DEF u
<1>4. v = u
  BY <1>1, <1>3, SameElements
<1> QED BY <1>4 DEF u

-----------------------------------------------------------------------------
(* A call at work: what it has done to the string B its buffer held when   *)
(* it was entered, with the bytes G it was given, at the place t.          *)

Extending(h, c, B) == Spread(Content(h, c.buf), B, Len(B), c.done)

Rewinding(h, c, B) == Spread(Content(h, c.buf), B, 0, c.done)

InLoopFor(c) == c.pc = "loop" /\ c.len # 0

Inserted(h, c, B, G, t) ==
    /\ t \in Nat
    /\ Spread(Content(h, c.buf), B, t, c.done)
    /\ Copies(Content(h, c.buf), t, G, c.done)
    /\ Pos(h, c.buf, c.it, c.off, t + c.done)
    /\ c.fn = "insert_buffer" /\ InLoopFor(c) => Pos(h, c.src, c.sit, c.soff, c.done)

Seeking(h, c, B) ==
    /\ c.pc = "loop" /\ B \in Seq(Byte) /\ c.done \in 0..Len(B)
    /\ Content(h, c.buf) = SubSeq(B, c.done + 1, Len(B))

Trimming(h, c, B) ==
    /\ c.pc = "loop" /\ IsFront(Content(h, c.buf), B)
    /\ Len(Content(h, c.buf)) = Len(B) - c.done

Overwriting(h, c, B, G) ==
    /\ Replaced(Content(h, c.buf), B, G, c.done)
    /\ InLoopFor(c) =>
          /\ Pos(h, c.buf, c.it, 0, c.done)
          /\ c.fn = "overwrite_buffer" => Pos(h, c.src, c.sit, 0, c.done)

Reading(h, c, B) ==
    /\ c.pc = "loop" /\ Content(h, c.buf) = B
    /\ c.dat \in Seq(Byte) /\ Len(c.dat) = c.done /\ IsFront(c.dat, B)
    /\ c.len # 0 => Pos(h, c.buf, c.it, 0, c.done)

Clearing(c) == c.pc = "loop" /\ c.len = 0 /\ c.done = 0

Working(h, c, B, G, t) ==
    /\ B \in Seq(Byte) /\ G \in Seq(Byte)
    /\ c.fn = "extend" => Extending(h, c, B)
    /\ c.fn = "rewind" => Rewinding(h, c, B)
    /\ c.fn \in InsertFns => Inserted(h, c, B, G, t)
    /\ c.fn = "seek" => Seeking(h, c, B)
    /\ c.fn = "trim" => Trimming(h, c, B)
    /\ c.fn \in {"overwrite_data", "overwrite_buffer"} => Overwriting(h, c, B, G)
    /\ c.fn = "read_data" => Reading(h, c, B)
    /\ c.fn \in {"clear", "destroy"} => Clearing(c)

\* The bytes the call in progress was given: its own, or those of its source.
GivenNow ==
    IF call.fn \in {"insert_buffer", "overwrite_buffer"} THEN Content(heap, call.src)
    ELSE call.dat

\* The request a call answers stays the same.
SameRequest ==
    /\ call'.fn = call.fn /\ call'.buf = call.buf /\ call'.src = call.src
    /\ call.fn # "read_data" => call'.dat = call.dat
    /\ call'.len + call'.done = call.len + call.done

\* The node the call in progress inserts in front of.
InsertNode ==
    IF call.fn = "extend" THEN call.buf
    ELSE IF call.fn = "rewind" THEN heap.nxt[call.buf] ELSE call.it

Stopped == call' = [call EXCEPT !.pc = "ret"] /\ SameText(heap', heap, call.buf)

PutOf(n, w, t) ==
    /\ Put(n, InsertNode, w, t) /\ Supplied(w) /\ w \in Seq(Byte) /\ n \in Nat /\ n <= call.len
    /\ call.fn = "insert_buffer" => n = InsertLen(call)

\* An iteration of an insert loop at the place t of the buffer.
LEMMA InsertWorks ==
    ASSUME CountSuffices, IInv, IInv', ListInv, FillInv, FillInv', FaultInv',
           ExtendStep \/ RewindStep \/ InsertDataStep \/ InsertBufferStep,
           Listed(heap, call.buf), NEW t, Pos(heap, call.buf, InsertNode, call.off, t)
    PROVE  /\ call.pc = "loop" /\ call.fn \in Inserting
           /\ Stopped \/ \E n, w : PutOf(n, w, t)
<1>1. call.pc = "loop" /\ call.fn \in Inserting
  BY DEF ExtendStep, RewindStep, InsertDataStep, InsertBufferStep, In, Inserting
<1>2. CASE LeaveLoop
  BY <1>1, <1>2 DEF LeaveLoop, Stopped, SameText
<1>3. ~Fault("oob")
  BY DEF Fault, FaultInv
<1>4. ASSUME NEW h, NEW p, NEW n, NEW x, NEW w, Brings(h, p, n, x, w)
      PROVE  Stopped \/ PutOf(n, w, t)
  <2>1. Inserts(h, p, n, x) /\ Reads(h, p, w) /\ Supplied(w)
    BY <1>4 DEF Brings
  <2>2. x = InsertNode /\ n \in Nat /\ n <= call.len /\ w \in Seq(Byte)
        /\ (call.fn = "insert_buffer" => n = InsertLen(call))
    BY <2>1 DEF Inserts, InsertNode, Reads
  <2>3. Pos(heap, call.buf, x, call.off, t)
    BY <2>2
  <2>4. \/ SameText(heap', heap, call.buf) /\ call' = [call EXCEPT !.pc = "ret"]
        \/ Put(n, x, w, t)
    BY <1>4, <2>3, InsertChanges
  <2> QED BY <2>1, <2>2, <2>4 DEF Stopped, PutOf
<1> QED BY <1>1, <1>2, <1>3, <1>4, InsertingBytes

LEMMA GoesSameRequest ==
    ASSUME IInv, NEW n \in Nat, Goes(call', call, n)
    PROVE  SameRequest
<1>1. call.len \in Nat /\ call.done \in Nat
  BY DEF IInv, CallType
<1> QED BY <1>1 DEF Goes, SameRequest

LEMMA StoppedSameRequest ==
    ASSUME IInv, Stopped
    PROVE  /\ SameRequest /\ call'.pc = "ret" /\ call'.done = call.done /\ call'.len = call.len
           /\ call'.it = call.it /\ call'.off = call.off
<1>1. call \in CallType
  BY DEF IInv
<1> QED BY <1>1 DEF Stopped, SameRequest, CallType

\* What an insert loop did to the locals.
LEMMA PutGoes ==
    ASSUME IInv, NEW n, NEW w, NEW t, PutOf(n, w, t)
    PROVE  /\ SameRequest /\ call'.pc = call.pc /\ call'.done = call.done + n
           /\ call'.it = call.it /\ call'.off = 0 /\ Len(w) = n /\ n \in Nat
           /\ w \in Seq(Byte) /\ call.done \in Nat
           /\ IsPut(Content(heap', call.buf), Content(heap, call.buf), t, w)
           /\ Pos(heap', call.buf, InsertNode, 0, t + n)
<1>1. call \in CallType /\ call.done \in Nat
  BY DEF IInv, CallType
<1>2. /\ n \in Nat /\ call' = AfterInsert(call, heap', n) /\ Len(w) = n /\ w \in Seq(Byte)
      /\ IsPut(Content(heap', call.buf), Content(heap, call.buf), t, w)
      /\ Pos(heap', call.buf, InsertNode, 0, t + n)
  BY DEF PutOf, Put
<1>3. Goes(call', call, n) /\ call'.it = call.it /\ call'.off = 0
  BY <1>1, <1>2, AfterInsertGoes
<1> QED BY <1>1, <1>2, <1>3, GoesSameRequest DEF Goes

LEMMA ListedCall ==
    ASSUME IInv, ListInv, call.pc # "idle"
    PROVE  /\ call.buf \in Buffers /\ HeapOK(heap) /\ Exists(heap, call.buf)
           /\ Listed(heap, call.buf)
<1>1. call.buf \in Buffers /\ HeapOK(heap) /\ Inside(heap, call.buf, call.buf)
  BY DEF IInv, CallOK
<1>2. Exists(heap, call.buf)
  BY <1>1 DEF Inside, Linked, Exists
<1> QED BY <1>1, <1>2, ListedIf

\* extend appends what it adds.
LEMMA ExtendWorks ==
    ASSUME CountSuffices, IInv, IInv', ListInv, FillInv, FillInv', FaultInv',
           ExtendStep, NEW B, Extending(heap, call, B)
    PROVE  Extending(heap', call', B) /\ SameRequest
<1> DEFINE C == Content(heap, call.buf)
<1>1. call.pc = "loop" /\ call.fn = "extend"
  BY DEF ExtendStep, In
<1>2. HeapOK(heap) /\ call.buf \in Buffers /\ Listed(heap, call.buf) /\ InsertNode = call.buf
  BY <1>1, ListedCall DEF InsertNode
<1>3. call.off = 0
  BY <1>1 DEF FillInv, InsertFits, Inserting
<1>4. Pos(heap, call.buf, InsertNode, call.off, Len(C))
  BY <1>2, <1>3, PosEnd
<1>5. Spread(C, B, Len(B), call.done) /\ Len(C) = Len(B) + call.done /\ Len(B) \in Nat
      /\ call.done \in Nat
  BY DEF Extending, Spread
<1>6. CASE Stopped
  BY <1>5, <1>6, StoppedSameRequest DEF Stopped, SameText, Extending, SameRequest
<1>7. ASSUME NEW n, NEW w, PutOf(n, w, Len(C)) PROVE Extending(heap', call', B) /\ SameRequest
  <2>1. /\ SameRequest /\ call'.done = call.done + n /\ Len(w) = n /\ w \in Seq(Byte)
        /\ IsPut(Content(heap', call.buf), C, Len(C), w)
    BY <1>7, PutGoes
  <2> HIDE DEF C
  <2>2. Len(C) \in Len(B)..(Len(B) + call.done)
    BY <1>5
  <2>3. Spread(Content(heap', call.buf), B, Len(B), call.done + Len(w))
    BY <1>5, <2>1, <2>2, PutSpreads
  <2> QED BY <2>1, <2>3 DEF Extending, SameRequest
<1> QED BY <1>2, <1>4, <1>6, <1>7, InsertWorks

\* rewind prepends what it adds.
LEMMA RewindWorks ==
    ASSUME CountSuffices, IInv, IInv', ListInv, FillInv, FillInv', FaultInv',
           RewindStep, NEW B, Rewinding(heap, call, B)
    PROVE  Rewinding(heap', call', B) /\ SameRequest
<1> DEFINE C == Content(heap, call.buf)
<1>1. call.pc = "loop" /\ call.fn = "rewind"
  BY DEF RewindStep, In
<1>2. HeapOK(heap) /\ call.buf \in Buffers /\ Listed(heap, call.buf)
      /\ InsertNode = heap.nxt[call.buf] /\ Filled(heap)
  BY <1>1, ListedCall DEF InsertNode, FillInv
<1>3. call.off = 0
  BY <1>1 DEF FillInv, InsertFits, Inserting
<1>4. Pos(heap, call.buf, InsertNode, call.off, 0)
  BY <1>2, <1>3, PosFirst
<1>5. Spread(C, B, 0, call.done) /\ call.done \in Nat
  BY DEF Rewinding, Spread
<1>6. CASE Stopped
  BY <1>5, <1>6, StoppedSameRequest DEF Stopped, SameText, Rewinding, SameRequest
<1>7. ASSUME NEW n, NEW w, PutOf(n, w, 0) PROVE Rewinding(heap', call', B) /\ SameRequest
  <2>1. /\ SameRequest /\ call'.done = call.done + n /\ Len(w) = n /\ w \in Seq(Byte)
        /\ IsPut(Content(heap', call.buf), C, 0, w)
    BY <1>7, PutGoes
  <2> HIDE DEF C
  <2>2. 0 \in 0..(0 + call.done)
    BY <1>5
  <2>3. Spread(Content(heap', call.buf), B, 0, call.done + Len(w))
    BY <1>5, <2>1, <2>2, PutSpreads
  <2> QED BY <2>1, <2>3 DEF Rewinding, SameRequest
<1> QED BY <1>2, <1>4, <1>6, <1>7, InsertWorks

LEMMA StepIsNoReturn ==
    ASSUME ExtendStep \/ RewindStep \/ SeekStep \/ TrimStep \/ InsertDataStep \/ InsertBufferStep
           \/ OverwriteDataStep \/ OverwriteBufferStep \/ ReadDataStep \/ ClearStep
    PROVE  Library /\ ~Return /\ call.pc = "loop" /\ LoopGoesOn(call)
<1>1. \E fn : In(fn)
  BY DEF ExtendStep, RewindStep, SeekStep, TrimStep, InsertDataStep, InsertBufferStep,
         OverwriteDataStep, OverwriteBufferStep, ReadDataStep, ClearStep
<1>2. call.pc = "loop" /\ LoopGoesOn(call)
  BY <1>1 DEF In
<1> QED BY <1>2 DEF Library, Return

\* What an iteration of an insert loop puts in are the next bytes of those given.
LEMMA SuppliesNext ==
    ASSUME IInv, FillInv, InsertDataStep \/ InsertBufferStep, NEW n, NEW w, NEW t, PutOf(n, w, t),
           NEW G, G = GivenNow, G \in Seq(Byte), call.done <= Len(G),
           call.fn = "insert_buffer" => Pos(heap, call.src, call.sit, call.soff, call.done)
    PROVE  NextOf(w, G, call.done)
<1>1. Len(w) = n /\ n \in Nat /\ w \in Seq(Byte) /\ Supplied(w) /\ n <= call.len
  BY PutGoes DEF PutOf
<1>2. call.pc = "loop" /\ call.done \in Nat /\ call.len \in Nat /\ HeapOK(heap)
  BY StepIsNoReturn DEF IInv, CallType
<1>3. CASE InsertDataStep
  <2>1. call.fn \in {"insert_data", "insert_data_ref"} /\ G = call.dat
    BY <1>3 DEF InsertDataStep, In, GivenNow
  <2>2. call.len + call.done = Len(G)
    BY <1>2, <2>1 DEF IInv, CallOK, BytesLeftOK
  <2> QED BY <1>1, <1>2, <2>1, <2>2 DEF Supplied, NextOf
<1>4. CASE InsertBufferStep
  <2>1. In("insert_buffer") /\ call.fn = "insert_buffer"
    BY <1>4 DEF InsertBufferStep, In
  <2>2. n = InsertLen(call) /\ G = Content(heap, call.src)
    BY <2>1 DEF PutOf, GivenNow
  <2>3. call.soff + n <= NodeLen(heap, call.sit)
    BY <2>1, <2>2, InsertLenFits
  <2>4. call.sit # call.src /\ \A j \in 1..n : w[j] = ByteAt(heap, call.sit, call.soff + j)
    BY <1>1, <2>1 DEF Supplied
  <2>5. call.src \in Buffers /\ Pos(heap, call.src, call.sit, call.soff, call.done)
    BY <1>2, <2>1 DEF IInv, CallOK, SourceOK
  <2> DEFINE a == call.src
             x == call.sit
             off == call.soff
             k == call.done
  <2>6. a \in Buffers /\ Pos(heap, a, x, off, k) /\ x # a /\ off + n <= NodeLen(heap, x)
    BY <2>3, <2>4, <2>5
  <2> HIDE DEF a, x, off, k
  <2>7. off + n <= heap.page[x].len /\ off \in Nat /\ heap.page[x].len \in Nat
    BY <1>2, <2>6, PosWithin
  <2>8. \A j \in 1..n : ByteAt(heap, x, off + j) = Content(heap, a)[k + j]
    BY <1>1, <1>2, <2>6, <2>7, HeadBytes
  <2>9. k + n <= Len(Content(heap, a))
    BY <1>1, <1>2, <2>6, <2>7, PosBytes
  <2> QED BY <1>1, <2>2, <2>4, <2>8, <2>9 DEF NextOf, a, x, off, k
<1> QED BY <1>3, <1>4

\* The bytes inserted so far are the first of those given, at the place asked for.
LEMMA InsertedGoesOn ==
    ASSUME CountSuffices, IInv, IInv', ListInv, FillInv, FillInv', FaultInv',
           InsertDataStep \/ InsertBufferStep, NEW B, NEW G, G = GivenNow, NEW t,
           Inserted(heap, call, B, G, t)
    PROVE  Inserted(heap', call', B, G, t) /\ SameRequest
<1> DEFINE C == Content(heap, call.buf)
           k == call.done
<1>1. /\ call.pc = "loop" /\ call.fn \in {"insert_data", "insert_data_ref", "insert_buffer"}
      /\ call.len # 0 /\ Library /\ ~Return
  <2>1. Library /\ ~Return
    BY StepIsNoReturn
  <2>2. In("insert_data") \/ In("insert_data_ref") \/ In("insert_buffer")
    BY DEF InsertDataStep, InsertBufferStep
  <2> QED BY <2>1, <2>2 DEF In, LoopGoesOn
<1>2. HeapOK(heap) /\ call.buf \in Buffers /\ Listed(heap, call.buf) /\ InsertNode = call.it
  BY <1>1, ListedCall DEF InsertNode
<1>3. /\ t \in Nat /\ Spread(C, B, t, k) /\ Copies(C, t, G, k)
      /\ Pos(heap, call.buf, InsertNode, call.off, t + k)
      /\ call.fn = "insert_buffer" => Pos(heap, call.src, call.sit, call.soff, k)
  BY <1>1, <1>2 DEF Inserted, InLoopFor
<1>4. k \in Nat /\ G \in Seq(Byte) /\ k <= Len(G)
  BY <1>3 DEF Copies, Spread
<1>5. CASE Stopped
  <2>1. Pos(heap', call.buf, call.it, call.off, t + k) /\ Content(heap', call.buf) = C
    BY <1>2, <1>3, <1>5 DEF Stopped, SameText
  <2> QED BY <1>3, <1>5, <2>1, StoppedSameRequest DEF Inserted, SameRequest, InLoopFor
<1>6. ASSUME NEW n, NEW w, PutOf(n, w, t + k)
      PROVE  Inserted(heap', call', B, G, t) /\ SameRequest
  <2>1. /\ SameRequest /\ call'.done = k + n /\ Len(w) = n /\ w \in Seq(Byte) /\ n \in Nat
        /\ call'.it = call.it /\ call'.off = 0 /\ call'.pc = call.pc
        /\ IsPut(Content(heap', call.buf), C, t + k, w)
        /\ Pos(heap', call.buf, InsertNode, 0, (t + k) + n)
    BY <1>6, PutGoes
  <2>2. NextOf(w, G, k)
    BY <1>3, <1>4, <1>6, SuppliesNext
  <2>3. t + k \in t..(t + k) /\ (t + k) + n = t + (k + n)
    BY <1>3, <1>4, <2>1
  <2>4. call'.fn = "insert_buffer" /\ InLoopFor(call')
           => Pos(heap', call'.src, call'.sit, call'.soff, k + n)
    <3>1. SUFFICES ASSUME call.fn = "insert_buffer", call'.len # 0
                   PROVE  Pos(heap', call.src, call'.sit, call'.soff, k + n)
      BY <2>1 DEF SameRequest, InLoopFor
    <3>2. In("insert_buffer") /\ n = InsertLen(call) /\ call' = AfterInsert(call, heap', n)
      BY <1>6, <3>1 DEF PutOf, Put, InsertDataStep, InsertBufferStep, In
    <3>3. call.src \in Buffers \ {call.buf}
      BY <1>1, <3>1 DEF IInv, CallOK, SourceOK
    <3>4. ListKept(heap', heap, call.src)
      <4>1. ClearBumps
        BY <1>1 DEF ClearBumps
      <4> QED BY <1>1, <3>3, <4>1, LibraryEffect DEF StepEffect, OtherListsKept
    <3> QED BY <1>3, <3>1, <3>2, <3>4, SourceMoves
  <2> HIDE DEF C, k
  <2>5. Spread(Content(heap', call.buf), B, t, k + Len(w))
    BY <1>3, <2>1, <2>3, PutSpreads
  <2>6. Copies(Content(heap', call.buf), t, G, k + Len(w))
    BY <1>3, <2>1, <2>2, PutCopies
  <2>7. Pos(heap', call.buf, call'.it, call'.off, t + (k + n))
    BY <1>2, <2>1, <2>3
  <2> QED BY <1>3, <2>1, <2>4, <2>5, <2>6, <2>7 DEF Inserted, SameRequest
<1> QED BY <1>2, <1>3, <1>5, <1>6, InsertWorks

\* seek has taken the first bytes, as many as it counts.
LEMMA SeekWorks ==
    ASSUME IInv, IInv', ListInv, FillInv, SeekStep, NEW B, Seeking(heap, call, B)
    PROVE  Seeking(heap', call', B) /\ SameRequest
<1> DEFINE C == Content(heap, call.buf)
           k == call.done
<1>1. PICK n \in Nat : SeekGone(n)
  BY SeekChanges
<1>2. /\ Content(heap', call.buf) = SubSeq(C, n + 1, Len(C)) /\ C \in Seq(Byte)
      /\ n <= Len(C) /\ Goes(call', call, n)
  BY <1>1 DEF SeekGone
<1>3. call.pc = "loop" /\ B \in Seq(Byte) /\ k \in 0..Len(B) /\ C = SubSeq(B, k + 1, Len(B))
  BY DEF Seeking
<1>4. SameRequest /\ call'.pc = "loop" /\ call'.done = k + n /\ call'.buf = call.buf
  BY <1>2, <1>3, GoesSameRequest DEF Goes
<1> HIDE DEF C, k
<1>5. k \in Nat /\ k <= Len(B) /\ Len(B) \in Nat
  BY <1>3
<1>6. IsTail(C, Byte, B, k)
  BY <1>3, <1>5, TailIs
<1>7. Len(C) = Len(B) - k
  BY <1>6 DEF IsTail
<1> DEFINE m == k + n
<1>8. m \in Nat /\ k <= m /\ m <= Len(B) /\ m - k = n
  BY <1>2, <1>5, <1>7
<1> HIDE DEF m
<1>9. SubSeq(C, (m - k) + 1, Len(C)) = SubSeq(B, m + 1, Len(B))
  BY <1>3, <1>5, <1>6, <1>8, RestOfRest
<1>10. Content(heap', call.buf) = SubSeq(B, m + 1, Len(B))
  BY <1>2, <1>8, <1>9
<1> QED BY <1>3, <1>4, <1>8, <1>10 DEF Seeking, m

\* trim has taken the last bytes, as many as it counts.
LEMMA TrimWorks ==
    ASSUME IInv, IInv', ListInv, FillInv, TrimStep, NEW B, Trimming(heap, call, B)
    PROVE  Trimming(heap', call', B) /\ SameRequest
<1> DEFINE C == Content(heap, call.buf)
           D == Content(heap', call.buf)
           k == call.done
<1>1. PICK n \in Nat : TrimGone(n)
  BY TrimChanges
<1>2. IsFront(D, C) /\ Len(D) = Len(C) - n /\ n <= Len(C) /\ Goes(call', call, n)
  BY <1>1 DEF TrimGone
<1>3. call.pc = "loop" /\ IsFront(C, B) /\ Len(C) = Len(B) - k /\ k \in Nat
  BY DEF Trimming, IInv, CallType
<1>4. SameRequest /\ call'.pc = "loop" /\ call'.done = k + n /\ call'.buf = call.buf
  BY <1>2, <1>3, GoesSameRequest DEF Goes
<1> HIDE DEF C, D, k
<1>5. D \in Seq(Byte) /\ C \in Seq(Byte) /\ B \in Seq(Byte)
  BY <1>2, <1>3 DEF IsFront
<1>6. Len(D) = Len(B) - (k + n)
  BY <1>2, <1>3, <1>5
<1>7. IsFront(D, B)
  BY <1>2, <1>3, <1>5 DEF IsFront
<1> QED BY <1>4, <1>6, <1>7 DEF Trimming, D

\* read_data has read the first bytes, as many as it counts.
LEMMA ReadWorks ==
    ASSUME IInv, FillInv, ReadDataStep, NEW B, Reading(heap, call, B)
    PROVE  Reading(heap', call', B) /\ SameRequest
<1> DEFINE p == call.it
           b == call.buf
           k == call.done
           n == Lower(NodeLen(heap, p), call.len)
           l == heap.page[p].len
           s == PageBytes(heap, p, 0, n)
<1>1. In("read_data")
  BY DEF ReadDataStep
<1>2. /\ call \in CallType /\ HeapOK(heap) /\ b \in Buffers /\ p # b /\ call.len \in Nat
      /\ call.len # 0 /\ k \in Nat /\ call.fn = "read_data" /\ call.pc = "loop" /\ Filled(heap)
  BY <1>1, InLoop DEF In, LoopGoesOn, FillInv
<1>3. /\ Content(heap, b) = B /\ call.dat \in Seq(Byte) /\ Len(call.dat) = k
      /\ IsFront(call.dat, B) /\ Pos(heap, b, p, 0, k)
  BY <1>2 DEF Reading
<1>4. l \in Nat /\ NodeLen(heap, p) = l /\ B \in Seq(Byte)
  BY <1>2, <1>3, PosWithin
<1>5. n \in Nat /\ n <= l /\ n <= call.len /\ (n # call.len => n = l)
  BY <1>2, <1>4, LowerType DEF Lower
<1>6. call' = [Progress(call, n) EXCEPT !.dat = @ \o s, !.it = heap.nxt[p]] /\ heap' = heap
  BY DEF ReadDataStep
<1> HIDE DEF n
<1>7. /\ call'.fn = call.fn /\ call'.buf = b /\ call'.src = call.src /\ call'.pc = "loop"
      /\ call'.len = call.len - n /\ call'.done = k + n /\ call'.dat = call.dat \o s
      /\ call'.it = heap.nxt[p]
  BY <1>2, <1>6 DEF Progress, CallType
<1>8. SameRequest
  BY <1>2, <1>5, <1>7 DEF SameRequest
<1>9. k + n <= Len(B) /\ \A j \in 1..n : s[j] = B[k + j]
  <2>1. 0 + n <= l
    BY <1>4, <1>5
  <2> HIDE DEF p, b, k
  <2> QED BY <1>2, <1>3, <1>5, <2>1, PosBytes
<1>10. s \in Seq(Byte) /\ Len(s) = n
  <2>1. Content(heap, b) \in Seq(Byte)
    BY <1>3, <1>4
  <2>2. p \in Mine(heap, b)
    BY <1>2, <1>3, PosWithin
  <2>3. /\ p \in PageIds /\ heap.page[p].data \in DataIds /\ p \in LivePages(heap)
        /\ heap \in Heap
    BY <1>2, <2>2, PageFacts DEF HeapOK
  <2>4. InBounds(heap, p, 0, n)
    BY <1>2, <1>4, <1>5, <2>3, WithinPage
  <2> QED BY <1>5, <2>3, <2>4, PieceBytes
<1> DEFINE u == call.dat
           v == u \o s
<1>11. v \in Seq(Byte) /\ Len(v) = k + n
       /\ (\A i \in 1..k : v[i] = u[i]) /\ (\A i \in 1..n : v[k + i] = s[i])
  <2>1. u \in Seq(Byte) /\ Len(u) = k /\ s \in Seq(Byte) /\ Len(s) = n
    BY <1>3, <1>10
  <2> HIDE DEF u, s, k
  <2>2. v \in Seq(Byte) /\ Len(v) = Len(u) + Len(s)
    BY <2>1
  <2>3. \A i \in 1..Len(u) : v[i] = u[i]
    BY <2>1
  <2>4. \A i \in 1..Len(s) : v[Len(u) + i] = s[i]
    BY <2>1
  <2> HIDE DEF v
  <2> QED BY <2>1, <2>2, <2>3, <2>4
<1>12. IsFront(v, B)
  <2> HIDE DEF v
  <2>1. \A i \in 1..k : u[i] = B[i]
    BY <1>3 DEF IsFront
  <2> HIDE DEF k, s, u
  <2>2. ASSUME NEW i \in 1..(k + n) PROVE v[i] = B[i]
    <3>1. CASE i <= k
      <4>1. i \in 1..k
        BY <3>1, <1>2, <1>5
      <4> QED BY <1>11, <2>1, <4>1
    <3>2. CASE i > k
      <4> DEFINE j == i - k
      <4>1. j \in 1..n /\ k + j = i
        BY <3>2, <1>2, <1>5
      <4> HIDE DEF j
      <4> QED BY <1>9, <1>11, <4>1
    <3> QED BY <3>1, <3>2, <1>2, <1>5
  <2> QED BY <1>4, <1>9, <1>11, <2>2 DEF IsFront
<1>13. ASSUME call'.len # 0 PROVE Pos(heap', b, call'.it, 0, k + n)
  <2>1. n = l
    BY <1>2, <1>5, <1>7, <1>13
  <2>2. k + (l - 0) = k + n
    BY <1>2, <1>4, <2>1
  <2> HIDE DEF k, b, p
  <2>3. Pos(heap, b, heap.nxt[p], 0, k + (l - 0))
    BY <1>2, <1>3, PosNext
  <2> QED BY <1>6, <1>7, <2>2, <2>3
<1> QED BY <1>3, <1>6, <1>7, <1>8, <1>11, <1>12, <1>13 DEF Reading

LEMMA ClearWorks ==
    ASSUME IInv, ClearStep, Clearing(call)
    PROVE  Clearing(call') /\ SameRequest
<1>1. call \in CallType /\ call' = [call EXCEPT !.it = heap.nxt[call.it]]
  BY DEF IInv, ClearStep
<1> QED BY <1>1 DEF Clearing, SameRequest, CallType

LEMMA LeaveKeepsRequest ==
    ASSUME IInv, LeaveLoop
    PROVE  SameRequest /\ call'.pc = "ret" /\ call'.done = call.done /\ heap' = heap
<1>1. call \in CallType /\ call' = [call EXCEPT !.pc = "ret"] /\ heap' = heap
  BY DEF IInv, LeaveLoop
<1> QED BY <1>1 DEF SameRequest, CallType

LEMMA OverwriteLeaves ==
    ASSUME IInv, LeaveLoop, NEW B, NEW G, Overwriting(heap, call, B, G)
    PROVE  Overwriting(heap', call', B, G) /\ SameRequest
<1>1. SameRequest /\ call'.pc = "ret" /\ call'.done = call.done /\ heap' = heap
  BY LeaveKeepsRequest
<1>2. Replaced(Content(heap, call.buf), B, G, call.done)
  BY DEF Overwriting
<1>3. Replaced(Content(heap', call'.buf), B, G, call'.done)
  BY <1>1, <1>2 DEF SameRequest
<1> QED BY <1>1, <1>3 DEF Overwriting, InLoopFor

LEMMA PatchWorks ==
    ASSUME IInv, NEW B, NEW G, NEW n \in Nat, NEW s \in Seq(Byte), Patch(n, s, call.done),
           Replaced(Content(heap, call.buf), B, G, call.done), NextOf(s, G, call.done)
    PROVE  /\ SameRequest /\ call'.done = call.done + n
           /\ Replaced(Content(heap', call'.buf), B, G, call'.done)
           /\ call'.len # 0 => Pos(heap', call'.buf, call'.it, 0, call'.done)
<1>1. /\ IsPatch(Content(heap', call.buf), Content(heap, call.buf), call.done, s)
      /\ Goes(call', call, n) /\ Len(s) = n
      /\ call'.len # 0 => Pos(heap', call.buf, call'.it, 0, call.done + n)
  BY DEF Patch
<1>2. SameRequest /\ call'.done = call.done + n /\ call'.buf = call.buf
  BY <1>1, GoesSameRequest DEF Goes
<1>3. Replaced(Content(heap', call.buf), B, G, call.done + Len(s))
  BY <1>1, PatchReplaces
<1> QED BY <1>1, <1>2, <1>3

\* The bytes replaced so far are the first ones, by the first of those given.
LEMMA OverwriteDataWorks ==
    ASSUME IInv, IInv', ListInv, FillInv, OverwriteDataStep, NEW B, NEW G, G = GivenNow,
           Overwriting(heap, call, B, G)
    PROVE  Overwriting(heap', call', B, G) /\ SameRequest
<1>1. In("overwrite_data")
  BY DEF OverwriteDataStep
<1>2. /\ call.pc = "loop" /\ call.len \in Nat /\ call.len # 0 /\ call.done \in Nat
      /\ call.fn = "overwrite_data" /\ G = call.dat
  BY <1>1, InLoop DEF In, LoopGoesOn, GivenNow
<1>3. Replaced(Content(heap, call.buf), B, G, call.done) /\ Pos(heap, call.buf, call.it, 0, call.done)
  BY <1>2 DEF Overwriting, InLoopFor
<1>4. CASE LeaveLoop
  BY <1>4, OverwriteLeaves
<1>5. ASSUME NEW n \in Nat, NEW s \in Seq(Byte), Patch(n, s, call.done),
             \A j \in 1..n : s[j] = call.dat[call.done + j]
      PROVE  Overwriting(heap', call', B, G) /\ SameRequest
  <2>1. call.len + call.done = Len(call.dat) /\ n <= call.len /\ Len(s) = n
    BY <1>2, <1>5 DEF IInv, CallOK, BytesLeftOK, Patch
  <2>2. NextOf(s, G, call.done)
    BY <1>2, <1>5, <2>1 DEF NextOf
  <2>3. /\ SameRequest /\ call'.done = call.done + n
        /\ Replaced(Content(heap', call'.buf), B, G, call'.done)
        /\ call'.len # 0 => Pos(heap', call'.buf, call'.it, 0, call'.done)
    BY <1>3, <1>5, <2>2, PatchWorks
  <2>4. call'.fn # "overwrite_buffer"
    BY <1>2, <2>3 DEF SameRequest
  <2> QED BY <2>3, <2>4 DEF Overwriting, InLoopFor
<1> QED BY <1>3, <1>4, <1>5, OverwriteDataChanges

LEMMA OverwriteBufferWorks ==
    ASSUME CountSuffices, IInv, IInv', ListInv, FillInv, FaultInv, OverwriteBufferStep,
           NEW B, NEW G, G = GivenNow, Overwriting(heap, call, B, G)
    PROVE  Overwriting(heap', call', B, G) /\ SameRequest
<1>1. In("overwrite_buffer")
  BY DEF OverwriteBufferStep
<1>2. /\ call.pc = "loop" /\ call.len \in Nat /\ call.len # 0 /\ call.done \in Nat
      /\ call.fn = "overwrite_buffer" /\ G = Content(heap, call.src)
  BY <1>1, InLoop DEF In, LoopGoesOn, GivenNow
<1>3. /\ Replaced(Content(heap, call.buf), B, G, call.done)
      /\ Pos(heap, call.buf, call.it, 0, call.done)
      /\ Pos(heap, call.src, call.sit, 0, call.done)
  BY <1>2 DEF Overwriting, InLoopFor
<1>4. CASE LeaveLoop
  BY <1>4, OverwriteLeaves
<1>5. ASSUME NEW n \in Nat, NEW s \in Seq(Byte), Patch(n, s, call.done),
             call.done + n <= Len(Content(heap, call.src)),
             \A j \in 1..n : s[j] = Content(heap, call.src)[call.done + j],
             call'.len # 0 => Pos(heap', call.src, call'.sit, 0, call.done + n)
      PROVE  Overwriting(heap', call', B, G) /\ SameRequest
  <2>1. Len(s) = n
    BY <1>5 DEF Patch
  <2>2. NextOf(s, G, call.done)
    BY <1>2, <1>5, <2>1 DEF NextOf
  <2>3. /\ SameRequest /\ call'.done = call.done + n
        /\ Replaced(Content(heap', call'.buf), B, G, call'.done)
        /\ call'.len # 0 => Pos(heap', call'.buf, call'.it, 0, call'.done)
    BY <1>3, <1>5, <2>2, PatchWorks
  <2>4. call'.len # 0 => Pos(heap', call'.src, call'.sit, 0, call'.done)
    BY <1>5, <2>3 DEF SameRequest
  <2> QED BY <2>3, <2>4 DEF Overwriting, InLoopFor
<1> QED BY <1>3, <1>4, <1>5, OverwriteBufferChanges

PuttingFns == InsertFns \cup {"overwrite_data", "overwrite_buffer"}

\* Every iteration of every loop goes on as the call began.
LEMMA WorkGoesOn ==
    ASSUME CountSuffices, IInv, IInv', ListInv, FillInv, FillInv', FaultInv, FaultInv',
           Library, ~Return, NEW B, NEW G, call.fn \in PuttingFns => G = GivenNow,
           NEW t, Working(heap, call, B, G, t)
    PROVE  Working(heap', call', B, G, t) /\ SameRequest
<1>1. B \in Seq(Byte) /\ G \in Seq(Byte)
  BY DEF Working
<1>2. CASE ExtendStep
  <2>1. call.fn = "extend"
    BY <1>2 DEF ExtendStep, In
  <2>2. Extending(heap, call, B)
    BY <2>1 DEF Working
  <2>3. Extending(heap', call', B) /\ SameRequest /\ call'.fn = "extend"
    BY <1>2, <2>1, <2>2, ExtendWorks DEF SameRequest
  <2> QED BY <1>1, <2>3 DEF Working, InsertFns
<1>3. CASE RewindStep
  <2>1. call.fn = "rewind"
    BY <1>3 DEF RewindStep, In
  <2>2. Rewinding(heap, call, B)
    BY <2>1 DEF Working
  <2>3. Rewinding(heap', call', B) /\ SameRequest /\ call'.fn = "rewind"
    BY <1>3, <2>1, <2>2, RewindWorks DEF SameRequest
  <2> QED BY <1>1, <2>3 DEF Working, InsertFns
<1>4. CASE InsertDataStep \/ InsertBufferStep
  <2>1. call.fn \in InsertFns
    BY <1>4 DEF InsertDataStep, InsertBufferStep, In, InsertFns
  <2>2. Inserted(heap, call, B, G, t) /\ G = GivenNow
    BY <2>1 DEF Working, PuttingFns
  <2>3. Inserted(heap', call', B, G, t) /\ SameRequest /\ call'.fn \in InsertFns
    BY <1>4, <2>1, <2>2, InsertedGoesOn DEF SameRequest
  <2> QED BY <1>1, <2>3 DEF Working, InsertFns
<1>5. CASE SeekStep
  <2>1. call.fn = "seek"
    BY <1>5 DEF SeekStep, In
  <2>2. Seeking(heap, call, B)
    BY <2>1 DEF Working
  <2>3. Seeking(heap', call', B) /\ SameRequest /\ call'.fn = "seek"
    BY <1>5, <2>1, <2>2, SeekWorks DEF SameRequest
  <2> QED BY <1>1, <2>3 DEF Working, InsertFns
<1>6. CASE TrimStep
  <2>1. call.fn = "trim"
    BY <1>6 DEF TrimStep, In
  <2>2. Trimming(heap, call, B)
    BY <2>1 DEF Working
  <2>3. Trimming(heap', call', B) /\ SameRequest /\ call'.fn = "trim"
    BY <1>6, <2>1, <2>2, TrimWorks DEF SameRequest
  <2> QED BY <1>1, <2>3 DEF Working, InsertFns
<1>7. CASE OverwriteDataStep \/ OverwriteBufferStep
  <2>1. call.fn \in {"overwrite_data", "overwrite_buffer"}
    BY <1>7 DEF OverwriteDataStep, OverwriteBufferStep, In
  <2>2. Overwriting(heap, call, B, G) /\ G = GivenNow
    BY <2>1 DEF Working, PuttingFns
  <2>3. Overwriting(heap', call', B, G) /\ SameRequest
    BY <1>7, <2>2, OverwriteDataWorks, OverwriteBufferWorks
  <2>4. call'.fn \in {"overwrite_data", "overwrite_buffer"}
    BY <2>1, <2>3 DEF SameRequest
  <2> QED BY <1>1, <2>3, <2>4 DEF Working, InsertFns
<1>8. CASE ReadDataStep
  <2>1. call.fn = "read_data"
    BY <1>8 DEF ReadDataStep, In
  <2>2. Reading(heap, call, B)
    BY <2>1 DEF Working
  <2>3. Reading(heap', call', B) /\ SameRequest /\ call'.fn = "read_data"
    BY <1>8, <2>1, <2>2, ReadWorks DEF SameRequest
  <2> QED BY <1>1, <2>3 DEF Working, InsertFns
<1>9. CASE ClearStep
  <2>1. call.fn \in {"clear", "destroy"}
    BY <1>9 DEF ClearStep, In
  <2>2. Clearing(call)
    BY <2>1 DEF Working
  <2>3. Clearing(call') /\ SameRequest /\ call'.fn \in {"clear", "destroy"}
    BY <1>9, <2>1, <2>2, ClearWorks DEF SameRequest
  <2> QED BY <1>1, <2>3 DEF Working, InsertFns
<1> QED BY <1>2, <1>3, <1>4, <1>5, <1>6, <1>7, <1>8, <1>9 DEF Library

-----------------------------------------------------------------------------
(* Text(h, b) is the string a buffer shows, NULL without buffer.           *)

Text(h, b) == Bytes(Layout(h, b))

LEMMA TextIs ==
    ASSUME NEW h, HeapOK(h), NEW b \in Buffers, Exists(h, b) => Listed(h, b)
    PROVE  Text(h, b) = IF Exists(h, b) THEN Content(h, b) ELSE NULL
BY LayoutBytes, NoLayout DEF Text

\* A call leaves the strings of the other buffers alone.
LEMMA OthersText ==
    ASSUME CountSuffices, IInv, IInv', ListInv, ListInv', FillInv, FillInv', FaultInv, FaultInv',
           ClearBumps, Library, ~Return, NEW b \in Buffers, b # call.buf
    PROVE  Text(heap', b) = Text(heap, b)
<1>1. HeapOK(heap) /\ HeapOK(heap')
  BY DEF IInv
<1>2. StepEffect
  BY LibraryEffect
<1>3. ListKept(heap', heap, b)
  BY <1>2 DEF StepEffect, OtherListsKept
<1>4. Exists(heap', b) <=> Exists(heap, b)
  BY <1>3, KeptChain
<1>5. CASE ~Exists(heap, b)
  BY <1>4, <1>5, NoLayout DEF Text
<1>6. CASE Exists(heap, b)
  <2>1. Listed(heap, b) /\ Listed(heap', b)
    BY <1>4, <1>6, ListedIf, ListedThere DEF ListInv
  <2>2. \A p \in Mine(heap, b) :
           /\ heap'.page[p] = heap.page[p]
           /\ PageBytes(heap', p, 0, heap.page[p].len) = PageBytes(heap, p, 0, heap.page[p].len)
    BY StepLeavesOthers DEF Mine, Next
  <2>3. BytesKept(heap', heap, b)
    BY <1>1, <2>2, BytesKeptWhole
  <2>4. Content(heap', b) = Content(heap, b)
    BY <1>1, <1>3, <2>1, <2>3, KeptContent
  <2> QED BY <1>1, <1>4, <1>6, <2>1, <2>4, TextIs
<1> QED BY <1>5, <1>6

-----------------------------------------------------------------------------
(* How a call begins.                                                      *)

Sourced(c) == c.fn \in {"insert_buffer", "overwrite_buffer"}

Opened(c) ==
    /\ c.buf \in Buffers /\ Exists(heap, c.buf) /\ c.pc = "loop" /\ c.done = 0 /\ c.fn # "none"
    /\ IF Sourced(c)
       THEN c.src \in Buffers /\ Exists(heap, c.src) /\ c.sit = heap.nxt[c.src] /\ c.soff = 0
       ELSE c.src = NULL
    /\ c.fn \in InsertFns => Position(c.buf, c.it, c.off)
    /\ c.fn \in {"overwrite_data", "overwrite_buffer", "read_data"} => c.it = heap.nxt[c.buf]
    /\ c.fn \in {"clear", "destroy"} => c.len = 0
    /\ c.fn = "read_data" => c.dat = << >>

LEMMA ClientOpens ==
    ASSUME IInv, Client
    PROVE  (heap' = heap /\ Opened(call')) \/ Made
<1>1. ASSUME NEW b \in Buffers, NEW n, Extend(b, n) \/ Reserve(b, n) \/ Rewind(b, n)
      PROVE  heap' = heap /\ Opened(call')
  <2>1. CASE Extend(b, n)
    BY <2>1 DEF Extend, Ready, Start, Enter, Idle, Opened, Sourced, InsertFns
  <2>2. CASE Reserve(b, n)
    BY <2>2 DEF Reserve, Ready, Start, Enter, Idle, Opened, Sourced, InsertFns
  <2>3. CASE Rewind(b, n)
    BY <2>3 DEF Rewind, Ready, Start, Enter, Idle, Opened, Sourced, InsertFns
  <2> QED BY <1>1, <2>1, <2>2, <2>3
<1>2. ASSUME NEW b \in Buffers, NEW n, Seek(b, n) \/ Trim(b, n) \/ ReadData(b, n)
      PROVE  heap' = heap /\ Opened(call')
  <2>1. CASE Seek(b, n)
    BY <2>1 DEF Seek, Ready, Start, Enter, Idle, Opened, Sourced, InsertFns
  <2>2. CASE Trim(b, n)
    BY <2>2 DEF Trim, Ready, Start, Enter, Idle, Opened, Sourced, InsertFns
  <2>3. CASE ReadData(b, n)
    BY <2>3 DEF ReadData, Ready, Start, Enter, Idle, Opened, Sourced, InsertFns
  <2> QED BY <1>2, <2>1, <2>2, <2>3
<1>3. ASSUME NEW b \in Buffers, NEW src \in Buffers, NEW n, WriteBuffer(b, src, n)
      PROVE  heap' = heap /\ Opened(call')
  BY <1>3 DEF WriteBuffer, Source, Position, Ready, Start, Enter, Idle, Opened, Sourced, InsertFns
<1>4. ASSUME NEW b \in Buffers, NEW src \in Buffers, NEW n, OverwriteBuffer(b, src, n)
      PROVE  heap' = heap /\ Opened(call')
  BY <1>4 DEF OverwriteBuffer, Source, Ready, Start, Enter, Idle, Opened, Sourced, InsertFns
<1>5. ASSUME NEW b \in Buffers, NEW s, OverwriteData(b, s)
      PROVE  heap' = heap /\ Opened(call')
  BY <1>5 DEF OverwriteData, Ready, Start, Enter, Idle, Opened, Sourced, InsertFns
<1>6. ASSUME NEW b \in Buffers, NEW fn, NEW s, WriteData(b, fn, s)
      PROVE  heap' = heap /\ Opened(call')
  <2> DEFINE f == IF fn = "write_data" THEN "insert_data" ELSE "insert_data_ref"
  <2>1. /\ call' = [Enter(f, b, Len(s)) EXCEPT !.it = b, !.dat = s] /\ heap' = heap
        /\ Exists(heap, b) /\ f \in {"insert_data", "insert_data_ref"}
    BY <1>6 DEF WriteData, Ready, Start
  <2> HIDE DEF f
  <2> QED BY <2>1 DEF Position, Enter, Idle, Opened, Sourced, InsertFns
<1>7. ASSUME NEW b \in Buffers, NEW x, NEW off, NEW src \in Buffers, NEW n,
             InsertBuffer(b, x, off, src, n)
      PROVE  heap' = heap /\ Opened(call')
  BY <1>7 DEF InsertBuffer, Source, Ready, Start, Enter, Idle, Opened, Sourced, InsertFns
<1>8. ASSUME NEW b \in Buffers, NEW x, NEW off, NEW fn \in {"insert_data", "insert_data_ref"},
             NEW s, InsertData(b, x, off, fn, s)
      PROVE  heap' = heap /\ Opened(call')
  BY <1>8 DEF InsertData, Ready, Start, Enter, Idle, Opened, Sourced, InsertFns
<1>9. ASSUME NEW b \in Buffers, NEW fn \in {"clear", "destroy"}, Clear(b, fn)
      PROVE  heap' = heap /\ Opened(call')
  BY <1>9 DEF Clear, Ready, Enter, Idle, Opened, Sourced, InsertFns
<1>10. ASSUME NEW b \in Buffers, Create(b) PROVE Made
  BY <1>10 DEF Create, Made
<1>11. PICK b \in Buffers :
          \/ Create(b)
          \/ \E n \in 1..MaxLen :
                \/ Extend(b, n) \/ Reserve(b, n) \/ Rewind(b, n)
                \/ Seek(b, n) \/ Trim(b, n) \/ ReadData(b, n)
                \/ \E src \in Buffers :
                      \/ WriteBuffer(b, src, n)
                      \/ OverwriteBuffer(b, src, n)
                      \/ \E x \in PageIds \cup {b}, off \in 0..MaxSize :
                            InsertBuffer(b, x, off, src, n)
          \/ \E s \in Inputs :
                \/ OverwriteData(b, s)
                \/ \E fn \in {"write_data", "write_data_ref"} : WriteData(b, fn, s)
                \/ \E x \in PageIds \cup {b}, off \in 0..MaxSize,
                      fn \in {"insert_data", "insert_data_ref"} :
                      InsertData(b, x, off, fn, s)
          \/ \E fn \in {"clear", "destroy"} : Clear(b, fn)
  BY DEF Client
<1> QED BY <1>1, <1>2, <1>3, <1>4, <1>5, <1>6, <1>7, <1>8, <1>9, <1>10, <1>11

\* A client's position is one of a byte or the end.
LEMMA PositionAt ==
    ASSUME IInv, ListInv, NoSplitAtEnd, NEW b \in Buffers, Exists(heap, b), NEW x,
           NEW off \in Nat, Position(b, x, off)
    PROVE  \E t : Pos(heap, b, x, off, t)
<1>1. HeapOK(heap) /\ Listed(heap, b)
  BY ListedIf DEF IInv
<1>2. CASE x = b /\ off = 0
  BY <1>1, <1>2, PosEnd
<1>3. CASE ~(x = b /\ off = 0)
  <2>1. /\ x \in Mine(heap, b) /\ off <= NodeLen(heap, x) /\ off # NodeLen(heap, x)
    BY <1>3 DEF Position, NoSplitAtEnd, Mine
  <2>2. NodeLen(heap, x) = heap.page[x].len /\ heap.page[x].len \in Nat
    BY <1>1, <2>1, PageFacts
  <2>3. PICK N, ps, acc : Enumerates(heap, b, N, ps, acc)
    BY <1>1 DEF Listed
  <2>4. N \in Nat /\ \E i \in 1..N : ps[i] = x
    BY <2>1, <2>3 DEF Enumerates
  <2>5. PICK i \in 1..N : ps[i] = x
    BY <2>4
  <2>6. i \in 1..(N + 1) /\ i # N + 1
    BY <2>4, <2>5
  <2>7. PosIn(heap, N, ps, acc, i, x, off, acc[i - 1] + off)
    BY <2>1, <2>2, <2>5, <2>6 DEF PosIn
  <2> QED BY <2>3, <2>7 DEF Pos
<1> QED BY <1>2, <1>3

\* A call that has just been entered has done nothing yet.
LEMMA OpenedWorks ==
    ASSUME IInv, IInv', ListInv, FillInv, NoSplitAtEnd, heap' = heap, Opened(call'),
           NEW B, B = Content(heap, call'.buf), NEW G \in Seq(Byte)
    PROVE  \E t \in Nat : Working(heap', call', B, G, t)
<1> DEFINE c == call'
           b == call'.buf
<1>1. /\ c \in CallType /\ HeapOK(heap) /\ Filled(heap) /\ b \in Buffers /\ Listed(heap, b)
      /\ c.pc = "loop" /\ c.done = 0 /\ c.off \in Nat
  BY ListedIf DEF IInv, Opened, FillInv, CallType
<1>2. B \in Seq(Byte) /\ Len(B) \in Nat
  BY <1>1, PosEnd, PosWithin
<1>3. Pos(heap, b, heap.nxt[b], 0, 0)
  BY <1>1, PosFirst
<1>4. Sourced(c) => Pos(heap, c.src, c.sit, 0, 0) /\ c.soff = 0
  <2>1. Sourced(c) => Listed(heap, c.src) /\ c.src \in Buffers /\ c.sit = heap.nxt[c.src] /\ c.soff = 0
    BY <1>1, ListedIf DEF Opened
  <2> QED BY <1>1, <2>1, PosFirst
<1>5. Copies(B, 0, G, 0) /\ \A t \in Nat : Copies(B, t, G, 0)
  BY DEF Copies
<1>6. CASE c.fn = "extend"
  <2>1. Spread(B, B, Len(B), 0)
    BY <1>2, SpreadWhole
  <2>2. Working(heap', c, B, G, 0)
    BY <1>1, <1>2, <1>6, <2>1 DEF Working, Extending, InsertFns
  <2> QED BY <2>2
<1>7. CASE c.fn = "rewind"
  <2>1. Spread(B, B, 0, 0)
    BY <1>2, SpreadWhole
  <2>2. Working(heap', c, B, G, 0)
    BY <1>1, <1>2, <1>7, <2>1 DEF Working, Rewinding, InsertFns
  <2> QED BY <2>2
<1>8. CASE c.fn \in InsertFns
  <2>1. Position(b, c.it, c.off) /\ Exists(heap, b)
    BY <1>8 DEF Opened
  <2>2. PICK t : Pos(heap, b, c.it, c.off, t)
    BY <1>1, <2>1, PositionAt
  <2>3. t \in Nat /\ t <= Len(B)
    BY <1>1, <2>2, PosWithin
  <2>4. Spread(B, B, t, 0)
    BY <1>2, <2>3, SpreadWhole
  <2>5. t + 0 = t /\ Copies(B, t, G, 0)
    BY <1>5, <2>3
  <2>6. Inserted(heap', c, B, G, t)
    BY <1>1, <1>4, <2>2, <2>3, <2>4, <2>5 DEF Inserted, Sourced
  <2>7. Working(heap', c, B, G, t)
    BY <1>2, <1>8, <2>6 DEF Working, InsertFns
  <2> QED BY <2>3, <2>7
<1>9. CASE c.fn = "seek"
  <2>1. SubSeq(B, 0 + 1, Len(B)) = B
    BY <1>2
  <2>2. Seeking(heap', c, B)
    BY <1>1, <1>2, <2>1 DEF Seeking
  <2>3. Working(heap', c, B, G, 0)
    BY <1>2, <1>9, <2>2 DEF Working, InsertFns
  <2> QED BY <2>3
<1>10. CASE c.fn = "trim"
  <2>1. IsFront(B, B) /\ Len(B) = Len(B) - 0
    BY <1>2 DEF IsFront
  <2>2. Trimming(heap', c, B)
    BY <1>1, <1>2, <2>1 DEF Trimming
  <2>3. Working(heap', c, B, G, 0)
    BY <1>2, <1>10, <2>2 DEF Working, InsertFns
  <2> QED BY <2>3
<1>11. CASE c.fn \in {"overwrite_data", "overwrite_buffer"}
  <2>1. Replaced(B, B, G, 0)
    BY <1>2, <1>5 DEF Replaced
  <2>2. c.it = heap.nxt[b]
    BY <1>11 DEF Opened
  <2>3. Overwriting(heap', c, B, G)
    BY <1>1, <1>3, <1>4, <2>1, <2>2 DEF Overwriting, Sourced
  <2>4. Working(heap', c, B, G, 0)
    BY <1>2, <1>11, <2>3 DEF Working, InsertFns
  <2> QED BY <2>4
<1>12. CASE c.fn = "read_data"
  <2>1. c.it = heap.nxt[b] /\ c.dat = << >>
    BY <1>12 DEF Opened
  <2>2. IsFront(<< >>, B) /\ << >> \in Seq(Byte) /\ Len(<< >>) = 0
    BY <1>2 DEF IsFront
  <2>3. Reading(heap', c, B)
    BY <1>1, <1>3, <2>1, <2>2 DEF Reading
  <2>4. Working(heap', c, B, G, 0)
    BY <1>2, <1>12, <2>3 DEF Working, InsertFns
  <2> QED BY <2>4
<1>13. CASE c.fn \in {"clear", "destroy"}
  <2>1. Clearing(c)
    BY <1>1, <1>13 DEF Clearing, Opened
  <2>2. Working(heap', c, B, G, 0)
    BY <1>2, <1>13, <2>1 DEF Working, InsertFns
  <2> QED BY <2>2
<1>14. c.fn \in Loops
  BY <1>1 DEF CallType, Opened
<1> QED BY <1>6, <1>7, <1>8, <1>9, <1>10, <1>11, <1>12, <1>13, <1>14 DEF Loops, InsertFns

-----------------------------------------------------------------------------
(* The call in progress and the strings of its request.                    *)

\* The bytes the call was given, as they were when it was entered.
GivenThen ==
    IF Sourced(call) THEN Bytes(before[call.src])
    ELSE IF call.fn = "read_data" THEN << >> ELSE call.dat

WorkInv ==
    IF call.pc = "idle" THEN call = Idle
    ELSE /\ call.fn # "none" /\ (~Sourced(call) => call.src = NULL)
         /\ \A b \in Buffers \ {call.buf} : Bytes(before[b]) = Text(heap, b)
         /\ \E t \in Nat : Working(heap, call, Bytes(before[call.buf]), GivenThen, t)

\* The source of a call is another buffer, and there.
LEMMA SourceThere ==
    ASSUME IInv, ListInv, call.pc # "idle", Sourced(call)
    PROVE  /\ call.src \in Buffers \ {call.buf} /\ Exists(heap, call.src)
           /\ Listed(heap, call.src) /\ Text(heap, call.src) = Content(heap, call.src)
<1>1. call.src \in Buffers /\ call.src # call.buf /\ Inside(heap, call.sit, call.src)
      /\ HeapOK(heap)
  BY DEF IInv, CallOK, SourceOK, Sourced
<1>2. Exists(heap, call.src)
  <2>1. CASE call.sit = call.src
    BY <1>1, <2>1 DEF Inside, Linked, Exists
  <2>2. CASE call.sit # call.src
    <3>1. call.sit \in LivePages(heap) /\ heap.page[call.sit].own = call.src
      BY <1>1, <2>2, InsideIsPage
    <3> QED BY <3>1 DEF ListInv, Homed
  <2> QED BY <2>1, <2>2
<1>3. Listed(heap, call.src)
  BY <1>1, <1>2, ListedIf
<1> QED BY <1>1, <1>2, <1>3, TextIs

LEMMA GivenStays ==
    ASSUME IInv, ListInv, WorkInv, call.pc # "idle", call.fn \in PuttingFns
    PROVE  GivenThen = GivenNow
<1>1. CASE Sourced(call)
  BY <1>1, SourceThere DEF GivenThen, GivenNow, Sourced, WorkInv
<1>2. CASE ~Sourced(call)
  BY <1>2 DEF GivenThen, GivenNow, Sourced, PuttingFns, InsertFns
<1> QED BY <1>1, <1>2

LEMMA OpenedWorkInv ==
    ASSUME IInv, IInv', ListInv, FillInv, NoSplitAtEnd, heap' = heap, Opened(call'),
           before' = Layouts(heap)
    PROVE  WorkInv'
<1> DEFINE b == call'.buf
           B == Content(heap, b)
           G == GivenThen'
<1>1. b \in Buffers /\ Exists(heap, b) /\ HeapOK(heap) /\ call' \in CallType /\ call'.pc = "loop"
  BY DEF Opened, IInv
<1>2. \A x \in Buffers : Bytes(before'[x]) = Text(heap, x)
  BY DEF Layouts, Text
<1>3. \A x \in Buffers : Exists(heap, x) => Text(heap, x) = Content(heap, x)
                                           /\ Content(heap, x) \in Seq(Byte)
  <2>1. SUFFICES ASSUME NEW x \in Buffers, Exists(heap, x)
                 PROVE  Text(heap, x) = Content(heap, x) /\ Content(heap, x) \in Seq(Byte)
    OBVIOUS
  <2>2. Listed(heap, x)
    BY <2>1, ListedIf
  <2>3. Content(heap, x) \in Seq(Byte)
    BY <1>1, <2>2, PosEnd, PosWithin
  <2> QED BY <1>1, <2>1, <2>2, <2>3, TextIs
<1>4. G \in Seq(Byte)
  <2>1. CASE Sourced(call')
    <3>1. call'.src \in Buffers /\ Exists(heap, call'.src)
      BY <2>1 DEF Opened
    <3> QED BY <1>2, <1>3, <2>1, <3>1 DEF GivenThen
  <2>2. CASE ~Sourced(call')
    <3>1. call'.dat \in Seq(Byte) /\ << >> \in Seq(Byte)
      BY <1>1 DEF CallType
    <3> QED BY <2>2, <3>1 DEF GivenThen
  <2> QED BY <2>1, <2>2
<1> HIDE DEF G
<1>5. \E t \in Nat : Working(heap', call', B, G, t)
  BY <1>4, OpenedWorks
<1>6. B = Bytes(before'[b])
  BY <1>1, <1>2, <1>3
<1>7. \A x \in Buffers : Bytes(before'[x]) = Text(heap', x)
  BY <1>2
<1> QED BY <1>1, <1>5, <1>6, <1>7 DEF WorkInv, G, Opened

LEMMA LoopKeepsWork ==
    ASSUME CountSuffices, IInv, IInv', ListInv, ListInv', FillInv, FillInv', FaultInv, FaultInv',
           ClearBumps, WorkInv, Library, ~Return, before' = before
    PROVE  WorkInv' /\ SameRequest /\ call'.pc # "idle" /\ call.pc # "idle"
           /\ \A B, G, t : Working(heap, call, B, G, t) /\ G = GivenThen =>
                              Working(heap', call', B, G, t)
<1>1. call.pc # "idle" /\ call'.pc # "idle"
  BY InLibrary, LibraryEffect DEF StepEffect, CallGoesOn
<1>2. PICK t \in Nat : Working(heap, call, Bytes(before[call.buf]), GivenThen, t)
  BY <1>1 DEF WorkInv
<1>3. call.fn \in PuttingFns => GivenThen = GivenNow
  BY <1>1, GivenStays
<1>4. ASSUME NEW B, NEW G, NEW tt, Working(heap, call, B, G, tt), G = GivenThen
      PROVE  Working(heap', call', B, G, tt) /\ SameRequest
  BY <1>3, <1>4, WorkGoesOn
<1> DEFINE B == Bytes(before[call.buf])
           G == GivenThen
<1>5. Working(heap, call, B, G, t) /\ G = GivenThen
  BY <1>2
<1> HIDE DEF B, G
<1>6. Working(heap', call', B, G, t) /\ SameRequest
  BY <1>4, <1>5
<1>7. B = Bytes(before'[call'.buf]) /\ G = GivenThen'
  BY <1>6 DEF B, G, GivenThen, SameRequest, Sourced
<1>8. \A b \in Buffers \ {call.buf} : Bytes(before'[b]) = Text(heap', b)
  BY <1>1, OthersText DEF WorkInv
<1>9. call'.fn # "none" /\ (~Sourced(call') => call'.src = NULL)
  BY <1>1, <1>6 DEF WorkInv, SameRequest, Sourced
<1>10. WorkInv'
  BY <1>1, <1>6, <1>7, <1>8, <1>9 DEF WorkInv, SameRequest
<1> QED BY <1>1, <1>4, <1>6, <1>10

LEMMA StepKeepsWork ==
    ASSUME CountSuffices, NoSplitAtEnd, IInv, IInv', ListInv, ListInv', FillInv, FillInv',
           FaultInv, FaultInv', ClearBumps, WorkInv, [CNext]_cvars
    PROVE  WorkInv'
<1>1. CASE Client /\ CNext
  <2>1. call.pc = "idle" /\ call = Idle
    BY <1>1, ClientBegins DEF WorkInv
  <2>2. CASE Made
    <3>1. call' = Idle
      BY <2>1, <2>2 DEF Made
    <3> QED BY <3>1 DEF WorkInv, Idle
  <2>3. CASE heap' = heap /\ Opened(call')
    <3>1. before' = Layouts(heap)
      BY <1>1, <2>1, <2>3 DEF CNext, Entered, Opened
    <3> QED BY <2>3, <3>1, OpenedWorkInv
  <2> QED BY <1>1, <2>2, <2>3, ClientOpens
<1>2. CASE Return
  <2>1. call' = Idle
    BY <1>2 DEF Return
  <2> QED BY <2>1 DEF WorkInv, Idle
<1>3. CASE Library /\ ~Return /\ CNext
  <2>1. CallGoesOn /\ call.pc # "idle"
    BY <1>3, LibraryEffect, InLibrary DEF StepEffect
  <2>2. before' = before
    BY <1>3, <2>1 DEF CNext, Entered, Returned, CallGoesOn
  <2> QED BY <1>3, <2>2, LoopKeepsWork
<1>4. CASE UNCHANGED cvars
  BY <1>4 DEF cvars, WorkInv, GivenThen
<1> QED BY <1>1, <1>2, <1>3, <1>4 DEF CNext, Next

\* With it, the bytes are known at every step of every loop.
TextInv == ContractInv /\ FaultInv /\ WorkInv

LEMMA StepKeepsText ==
    ASSUME CountSuffices, NoSelfSource, NoSplitAtEnd, NoMisaligned, TextInv, [CNext]_cvars
    PROVE  TextInv'
<1>1. ContractInv /\ ContractInv' /\ FaultInv /\ WorkInv /\ [Next]_vars
  BY StepKeepsContract, CStepIsStep DEF TextInv
<1>2. IInv /\ ListInv /\ FillInv /\ ClearBumps /\ IInv' /\ ListInv' /\ FillInv'
  BY <1>1 DEF ContractInv, ValidInv
<1>3. FaultInv'
  BY <1>1, <1>2, StepInStep
<1>4. WorkInv'
  BY <1>1, <1>2, <1>3, StepKeepsWork
<1> QED BY <1>1, <1>3, <1>4 DEF TextInv

LEMMA InitText == CInit => TextInv
  BY InitContract DEF TextInv, CInit, Init, FaultInv, WorkInv, Idle

\* At every iteration of every loop, the bytes of the buffer are those it held when the
\* call was entered, with exactly what the count of the call says done to them, at the
\* place the call was made for; the iterators of the call stand where that count ends.
THEOREM TextInvariant ==
    ASSUME CountSuffices, NoSelfSource, NoSplitAtEnd, NoMisaligned
    PROVE  CSpec => []TextInv
<1>1. TextInv /\ [CNext]_cvars => TextInv'
  BY StepKeepsText
<1> QED BY <1>1, InitText, PTL DEF CSpec

-----------------------------------------------------------------------------
(* What a call returns.                                                    *)

LEMMA LowerIs ==
    ASSUME NEW m \in Nat, NEW n \in Nat, NEW d, d <= m, d <= n, d = m \/ d = n
    PROVE  Lower(m, n) = d
BY DEF Lower

LEMMA NothingLeft ==
    ASSUME NEW h, HeapOK(h), NEW b \in Buffers, Listed(h, b), h.nxt[b] = b \/ h.prv[b] = b
    PROVE  Content(h, b) \in Seq(Byte) /\ Len(Content(h, b)) = 0
<1>1. CASE h.nxt[b] = b
  BY <1>1, NothingListed
<1>2. CASE h.prv[b] = b
  <2>1. PICK N, ps, acc : Enumerates(h, b, N, ps, acc)
    BY DEF Listed
  <2>2. N \in Nat /\ N \in 0..N /\ ps[N + 1] = b
    BY <2>1 DEF Enumerates
  <2>3. ps[N] = b
    BY <1>2, <2>1, <2>2, EnumPrev
  <2>4. N = 0
    <3>1. b \notin Mine(h, b)
      BY MineFacts
    <3>2. N # 0 => N \in 1..N /\ ps[N] \in Mine(h, b)
      BY <2>1, <2>2 DEF Enumerates
    <3> QED BY <2>3, <3>1, <3>2
  <2>5. h.nxt[b] = b
    BY <2>1, <2>3, <2>4, EnumNext, <2>2
  <2> QED BY <2>5, NothingListed
<1> QED BY <1>1, <1>2

\* A loop that ended did what was asked, or reached the end of a buffer.
Ended(B, G) ==
    /\ call.done \in Nat /\ call.len \in Nat
    /\ call.fn \in {"seek", "trim", "read_data"} =>
          call.done <= Len(B) /\ (call.len = 0 \/ call.done = Len(B))
    /\ call.fn \in {"overwrite_data", "overwrite_buffer"} =>
          /\ call.done <= Len(B) /\ call.done <= Len(G)
          /\ \/ call.len = 0 \/ call.done = Len(B)
             \/ call.fn = "overwrite_buffer" /\ call.done = Len(G)
    /\ call.fn = "insert_buffer" =>
          call.done <= Len(G) /\ (call.len = 0 \/ call.done = Len(G))
    /\ call.fn \in {"extend", "rewind", "insert_data", "insert_data_ref",
                    "clear", "destroy"} => call.len = 0

LEMMA LoopEnds ==
    ASSUME TextInv, Return, call.pc = "loop",
           NEW B, B = Bytes(before[call.buf]), NEW G, G = GivenThen,
           NEW t \in Nat, Working(heap, call, B, G, t)
    PROVE  Ended(B, G)
<1> DEFINE b == call.buf
           k == call.done
<1>1. /\ IInv /\ ListInv /\ FillInv /\ WorkInv /\ call.pc # "idle" /\ ~LoopGoesOn(call)
      /\ HeapOK(heap) /\ call \in CallType /\ CallOK(heap, call)
  BY DEF TextInv, ContractInv, Return, IInv
<1>2. k \in Nat /\ call.len \in Nat
  BY <1>1 DEF CallType
<1>3. b \in Buffers /\ Listed(heap, b) /\ B \in Seq(Byte) /\ G \in Seq(Byte)
  BY <1>1, ListedCall DEF Working
<1>4. Sourced(call) => call.src \in Buffers /\ (call.fn \in PuttingFns => G = Content(heap, call.src))
  BY <1>1, SourceThere, GivenStays DEF GivenNow, Sourced
<1>5. CASE call.fn = "seek"
  <2>1. k <= Len(B) /\ Content(heap, b) = SubSeq(B, k + 1, Len(B))
    BY <1>5 DEF Working, Seeking
  <2>2. Len(Content(heap, b)) = Len(B) - k
    BY <1>2, <1>3, <2>1, TailIs DEF IsTail
  <2>3. call.len = 0 \/ heap.nxt[b] = b
    BY <1>1, <1>2, <1>5 DEF LoopGoesOn, CallOK, CursorOK
  <2>4. call.len = 0 \/ Len(Content(heap, b)) = 0
    BY <1>1, <1>3, <2>3, NothingLeft
  <2> QED BY <1>2, <1>3, <1>5, <2>1, <2>2, <2>4 DEF Ended
<1>6. CASE call.fn = "trim"
  <2>1. IsFront(Content(heap, b), B) /\ Len(Content(heap, b)) = Len(B) - k
    BY <1>6 DEF Working, Trimming
  <2>2. call.len = 0 \/ heap.prv[b] = b
    BY <1>1, <1>2, <1>6 DEF LoopGoesOn, CallOK, CursorOK
  <2>3. call.len = 0 \/ Len(Content(heap, b)) = 0
    BY <1>1, <1>3, <2>2, NothingLeft
  <2>4. Len(Content(heap, b)) \in Nat
    BY <2>1 DEF IsFront
  <2> QED BY <1>2, <1>3, <1>6, <2>1, <2>3, <2>4 DEF Ended
<1>7. CASE call.fn = "read_data"
  <2>1. /\ Content(heap, b) = B /\ Len(call.dat) = k /\ IsFront(call.dat, B)
        /\ call.len # 0 => Pos(heap, b, call.it, 0, k)
    BY <1>7 DEF Working, Reading
  <2>2. call.len = 0 \/ call.it = b
    BY <1>1, <1>2, <1>7 DEF LoopGoesOn
  <2>3. call.len # 0 => k = Len(B)
    BY <1>1, <1>3, <2>1, <2>2, PosWithin
  <2> QED BY <1>2, <1>3, <1>7, <2>1, <2>3 DEF IsFront, Ended
<1>8. CASE call.fn \in {"overwrite_data", "overwrite_buffer"}
  <2>1. /\ Replaced(Content(heap, b), B, G, k)
        /\ call.len # 0 =>
              /\ Pos(heap, b, call.it, 0, k)
              /\ call.fn = "overwrite_buffer" => Pos(heap, call.src, call.sit, 0, k)
    BY <1>8 DEF Working, Overwriting, InLoopFor
  <2>2. k <= Len(B) /\ k <= Len(G) /\ Len(Content(heap, b)) = Len(B)
    BY <2>1 DEF Replaced, Copies
  <2>3. \/ call.len = 0 \/ call.it = b
        \/ call.fn = "overwrite_buffer" /\ call.sit = call.src
    BY <1>1, <1>2, <1>8 DEF LoopGoesOn
  <2>4. CASE call.len # 0 /\ call.it = b
    <3>1. Pos(heap, b, call.it, 0, k)
      BY <2>1, <2>4
    <3>2. k = Len(Content(heap, b))
      BY <1>1, <1>3, <2>4, <3>1, PosWithin
    <3> QED BY <1>2, <1>8, <2>2, <3>2 DEF Ended
  <2>5. CASE call.len # 0 /\ call.fn = "overwrite_buffer" /\ call.sit = call.src
    <3>1. Pos(heap, call.src, call.sit, 0, k) /\ call.src \in Buffers /\ G = Content(heap, call.src)
      BY <1>4, <2>1, <2>5 DEF Sourced, PuttingFns
    <3>2. k = Len(Content(heap, call.src))
      BY <1>1, <2>5, <3>1, PosWithin
    <3> QED BY <1>2, <1>8, <2>2, <2>5, <3>1, <3>2 DEF Ended
  <2> QED BY <1>2, <1>8, <2>2, <2>3, <2>4, <2>5 DEF Ended
<1>9. CASE call.fn = "insert_buffer"
  <2>1. Copies(Content(heap, b), t, G, k)
        /\ (call.len # 0 => Pos(heap, call.src, call.sit, call.soff, k))
    BY <1>9 DEF Working, Inserted, InsertFns, InLoopFor
  <2>2. k <= Len(G)
    BY <2>1 DEF Copies
  <2>3. call.len = 0 \/ call.sit = call.src
    BY <1>1, <1>2, <1>9 DEF LoopGoesOn
  <2>4. CASE call.len # 0
    <3>1. Pos(heap, call.src, call.sit, call.soff, k) /\ call.sit = call.src
          /\ call.src \in Buffers /\ G = Content(heap, call.src)
      BY <1>4, <1>9, <2>1, <2>3, <2>4 DEF Sourced, PuttingFns, InsertFns
    <3>2. k = Len(Content(heap, call.src))
      BY <1>1, <3>1, PosWithin
    <3> QED BY <1>2, <1>9, <2>2, <3>1, <3>2 DEF Ended
  <2> QED BY <1>2, <1>9, <2>2, <2>4 DEF Ended
<1>10. CASE call.fn \in {"extend", "rewind", "insert_data", "insert_data_ref"}
  BY <1>1, <1>2, <1>10 DEF LoopGoesOn, Ended
<1>11. CASE call.fn \in {"clear", "destroy"}
  BY <1>2, <1>11 DEF Working, Clearing, Ended
<1>12. call.fn \in Loops
  BY <1>1 DEF CallType, WorkInv
<1> QED BY <1>2, <1>5, <1>6, <1>7, <1>8, <1>9, <1>10, <1>11, <1>12 DEF Loops, Ended

\* The locals of a call agree with the bytes it was given.
LEMMA GivenBytes ==
    ASSUME TextInv, call.pc # "idle", NEW G, G = GivenThen
    PROVE  IF Sourced(call) THEN call.src # NULL /\ G = Bytes(before[call.src])
           ELSE call.src = NULL
<1>1. IInv /\ ListInv /\ WorkInv
  BY DEF TextInv, ContractInv
<1>2. CASE Sourced(call)
  <2>1. call.src \in Buffers
    BY <1>1, <1>2, SourceThere
  <2> QED BY <1>2, <2>1, HeapAssumption DEF GivenThen
<1>3. CASE ~Sourced(call)
  BY <1>1, <1>3 DEF WorkInv
<1> QED BY <1>2, <1>3

LEMMA ReturnsAll ==
    ASSUME TextInv, Return, call.pc = "loop",
           NEW all, all = call.len + call.done,
           NEW have, have = Len(Bytes(before[call.buf])),
           NEW given, given = IF call.src = NULL THEN all ELSE Len(Bytes(before[call.src]))
    PROVE  /\ call.fn \in {"seek", "trim", "read_data"} => call.done = Lower(all, have)
           /\ call.fn \in {"overwrite_data", "overwrite_buffer"} =>
                 call.done = Lower(Lower(all, have), given)
           /\ call.fn \notin {"seek", "trim", "read_data", "overwrite_data", "overwrite_buffer"} =>
                 call.done = Lower(all, given)
<1> DEFINE B == Bytes(before[call.buf])
           G == GivenThen
           k == call.done
           l == call.len
<1>1. /\ IInv /\ call.pc # "idle" /\ call \in CallType
      /\ call.fn \in Loops
  BY DEF TextInv, ContractInv, IInv, WorkInv, CallType
<1>2. PICK t \in Nat : Working(heap, call, B, G, t)
  BY <1>1 DEF TextInv, WorkInv
<1>3. Ended(B, G) /\ B \in Seq(Byte) /\ G \in Seq(Byte)
  BY <1>2, LoopEnds DEF Working
<1>4. /\ IF Sourced(call) THEN given = Len(G) ELSE given = all
      /\ have = Len(B)
  <2>1. IF Sourced(call) THEN call.src # NULL /\ G = Bytes(before[call.src])
        ELSE call.src = NULL
    BY <1>1, GivenBytes
  <2> QED BY <2>1
<1> HIDE DEF B, G
<1>5. Len(B) \in Nat /\ Len(G) \in Nat
  BY <1>3
<1>6. k \in Nat /\ l \in Nat /\ all = l + k
  BY <1>3 DEF Ended
<1>7. CASE call.fn \in {"seek", "trim", "read_data"}
  <2>1. k <= have /\ (l = 0 \/ k = have)
    BY <1>3, <1>4, <1>7 DEF Ended
  <2>2. have \in Nat
    BY <1>4, <1>5
  <2>3. k = Lower(all, have)
    BY <1>6, <2>1, <2>2 DEF Lower
  <2> QED BY <1>7, <2>3
<1>8. CASE call.fn \in {"overwrite_data", "overwrite_buffer"}
  <2>1. /\ k <= have /\ k <= Len(G)
        /\ l = 0 \/ k = have \/ (call.fn = "overwrite_buffer" /\ k = Len(G))
    BY <1>3, <1>4, <1>8 DEF Ended
  <2>2. have \in Nat
    BY <1>4, <1>5
  <2>3. given \in Nat /\ k <= given /\ (l = 0 \/ k = have \/ k = given)
    <3>1. CASE Sourced(call)
      BY <1>4, <1>5, <2>1, <3>1
    <3>2. CASE ~Sourced(call)
      <4>1. given = all /\ call.fn # "overwrite_buffer"
        BY <1>4, <3>2 DEF Sourced
      <4> QED BY <1>6, <2>1, <4>1
    <3> QED BY <3>1, <3>2
  <2>4. k = Lower(Lower(all, have), given)
    BY <1>6, <2>1, <2>2, <2>3 DEF Lower
  <2> QED BY <1>8, <2>4
<1>9. CASE call.fn = "insert_buffer"
  <2>1. k <= Len(G) /\ (l = 0 \/ k = Len(G)) /\ given = Len(G)
    BY <1>3, <1>4, <1>9 DEF Ended, Sourced
  <2>2. k = Lower(all, given)
    BY <1>5, <1>6, <2>1 DEF Lower
  <2> QED BY <1>9, <2>2
<1>10. CASE call.fn \in {"extend", "rewind", "insert_data", "insert_data_ref", "clear", "destroy"}
  <2>1. l = 0 /\ given = all
    BY <1>3, <1>4, <1>10 DEF Ended, Sourced
  <2>2. k = Lower(all, given)
    BY <1>6, <2>1 DEF Lower
  <2> QED BY <1>10, <2>2
<1> QED BY <1>1, <1>7, <1>8, <1>9, <1>10 DEF Loops

\* A call whose loop came to its end returns everything the lengths allowed: it does less
\* only when it left its loop early, which it does when an allocation fails.
THEOREM ShortReturns ==
    ASSUME CountSuffices, NoSelfSource, NoSplitAtEnd, NoMisaligned
    PROVE  CSpec => ShortOnlyOnFailure
<1> DEFINE AllDone ==
        LET all == call.len + call.done
            have == Len(Bytes(before[call.buf]))
            given == IF call.src = NULL THEN all ELSE Len(Bytes(before[call.src]))
        IN  CASE call.fn \in {"seek", "trim", "read_data"} -> call.done = Lower(all, have)
              [] call.fn \in {"overwrite_data", "overwrite_buffer"} ->
                    call.done = Lower(Lower(all, have), given)
              [] OTHER -> call.done = Lower(all, given)
<1>1. ASSUME TextInv, TextInv', [CNext]_cvars
      PROVE  [Returned /\ call.pc = "loop" => AllDone]_cvars
  <2>1. SUFFICES ASSUME CNext, Returned, call.pc = "loop" PROVE AllDone
    BY <1>1
  <2>2. ContractInv /\ IInv' /\ Next
    BY <1>1, <2>1 DEF TextInv, ContractInv, CNext
  <2>3. Return
    BY <2>1, <2>2, OnlyReturn
  <2> DEFINE all == call.len + call.done
             have == Len(Bytes(before[call.buf]))
             given == IF call.src = NULL THEN all ELSE Len(Bytes(before[call.src]))
  <2>4. /\ call.fn \in {"seek", "trim", "read_data"} => call.done = Lower(all, have)
        /\ call.fn \in {"overwrite_data", "overwrite_buffer"} =>
              call.done = Lower(Lower(all, have), given)
        /\ call.fn \notin {"seek", "trim", "read_data", "overwrite_data", "overwrite_buffer"} =>
              call.done = Lower(all, given)
    BY <1>1, <2>1, <2>3, ReturnsAll
  <2> HIDE DEF all, have, given
  <2>5. CASE call.fn \in {"seek", "trim", "read_data"}
    BY <2>4, <2>5 DEF all, have, given
  <2>6. CASE call.fn \in {"overwrite_data", "overwrite_buffer"}
    BY <2>4, <2>6 DEF all, have, given
  <2>7. CASE call.fn \notin {"seek", "trim", "read_data", "overwrite_data", "overwrite_buffer"}
    BY <2>4, <2>7 DEF all, have, given
  <2> QED BY <2>5, <2>6, <2>7
<1> QED BY <1>1, TextInvariant, PTL DEF CSpec, ShortOnlyOnFailure

-----------------------------------------------------------------------------
(* The refinement.  The request of a call in progress is made of the       *)
(* locals and the place t the call was made for; the strings are those the *)
(* buffers had when it was entered.                                        *)

\* Between two answers there is none.
TextInvQ == TextInv /\ (call.pc # "idle" => out = [n |-> 0, dat |-> << >>])

LEMMA TextInvariantQ ==
    ASSUME CountSuffices, NoSelfSource, NoSplitAtEnd, NoMisaligned
    PROVE  CSpec => []TextInvQ
<1>1. TextInvQ /\ [CNext]_cvars => TextInvQ'
  <2> SUFFICES ASSUME TextInvQ, [CNext]_cvars PROVE TextInvQ'
    OBVIOUS
  <2>1. TextInv'
    BY StepKeepsText DEF TextInvQ
  <2>2. (call.pc # "idle" => out = [n |-> 0, dat |-> << >>])'
    BY DEF TextInvQ, CNext, Returned, cvars
  <2> QED BY <2>1, <2>2 DEF TextInvQ
<1>2. CInit => TextInvQ
  BY InitText DEF TextInvQ, CInit, Init, Idle
<1> QED BY <1>1, <1>2, PTL DEF CSpec

\* The request at state h, c, and with the place of an insert given.
AskedIn(h, c) ==
    [fn |-> c.fn, buf |-> c.buf, src |-> c.src,
     at |-> IF c.fn \in InsertFns THEN BytesBefore(h, c.buf, c.it) + c.off - c.done ELSE 0,
     dat |-> IF c.fn = "read_data" THEN << >> ELSE c.dat,
     len |-> c.len + c.done]

AskedAt(c, t) ==
    [fn |-> c.fn, buf |-> c.buf, src |-> c.src, at |-> IF c.fn \in InsertFns THEN t ELSE 0,
     dat |-> IF c.fn = "read_data" THEN << >> ELSE c.dat, len |-> c.len + c.done]

LEMMA AskedIs ==
    ASSUME NEW h, HeapOK(h), NEW c \in CallType, c.buf \in Buffers,
           NEW B, NEW G, NEW t \in Nat, Working(h, c, B, G, t)
    PROVE  AskedIn(h, c) = AskedAt(c, t)
<1>1. CASE c.fn \in InsertFns
  <2> DEFINE a == BytesBefore(h, c.buf, c.it)
             o == c.off
             k == c.done
  <2>1. Pos(h, c.buf, c.it, o, t + k)
    BY <1>1 DEF Working, Inserted
  <2>2. a \in Nat /\ a + o = t + k
    BY <2>1, PosBefore
  <2>3. k \in Nat /\ o \in Nat
    BY DEF CallType
  <2> HIDE DEF a, o, k
  <2>4. a + o - k = t
    BY <2>2, <2>3
  <2> QED BY <1>1, <2>4 DEF AskedIn, AskedAt, a, o, k
<1>2. CASE c.fn \notin InsertFns
  BY <1>2 DEF AskedIn, AskedAt
<1> QED BY <1>1, <1>2

LEMMA AskedOf == Asked = AskedIn(heap, call) /\ Asked' = AskedIn(heap', call')
BY DEF Asked, AskedIn

LEMMA NotAsking == AskedIn(heap, Idle) = Queue!NoRequest /\ AskedIn(heap', Idle) = Queue!NoRequest
BY DEF AskedIn, Queue!NoRequest, Idle, InsertFns

\* The strings at both ends of a step.
LEMMA StringsAre ==
    /\ \A b \in Buffers : Strings[b] = IF call.pc = "idle" THEN Text(heap, b) ELSE Bytes(before[b])
    /\ \A b \in Buffers :
          Strings'[b] = IF call'.pc = "idle" THEN Text(heap', b) ELSE Bytes(before'[b])
    /\ Strings = [b \in Buffers |-> Strings[b]] /\ Strings' = [b \in Buffers |-> Strings'[b]]
BY DEF Strings, Text

LEMMA SameStrings ==
    ASSUME \A b \in Buffers : Strings'[b] = Strings[b]
    PROVE  Strings' = Strings
<1> DEFINE f == Strings
           g == Strings'
<1>1. f = [b \in Buffers |-> f[b]] /\ g = [b \in Buffers |-> g[b]] /\ \A b \in Buffers : g[b] = f[b]
  BY StringsAre
<1> HIDE DEF f, g
<1>2. g = f
  BY <1>1
<1> QED BY <1>2 DEF f, g

LEMMA OneString ==
    ASSUME NEW x \in Buffers, \A b \in Buffers \ {x} : Strings'[b] = Strings[b]
    PROVE  Strings' = [Strings EXCEPT ![x] = Strings'[x]]
<1> DEFINE f == Strings
           g == Strings'
<1>1. /\ f = [b \in Buffers |-> f[b]] /\ g = [b \in Buffers |-> g[b]]
      /\ \A b \in Buffers \ {x} : g[b] = f[b]
  BY StringsAre
<1> HIDE DEF f, g
<1>2. g = [f EXCEPT ![x] = g[x]]
  BY <1>1
<1> QED BY <1>2 DEF f, g

\* An iteration of a loop changes neither the request nor the strings nor the answer.
LEMMA LoopStutters ==
    ASSUME CountSuffices, NoSelfSource, NoSplitAtEnd, NoMisaligned, TextInvQ, TextInv',
           Library, ~Return, CNext
    PROVE  UNCHANGED << Strings, Asked, out >>
<1>1. /\ IInv /\ IInv' /\ ListInv /\ ListInv' /\ FillInv /\ FillInv' /\ FaultInv /\ FaultInv'
      /\ ClearBumps /\ WorkInv /\ call \in CallType /\ call' \in CallType
      /\ HeapOK(heap) /\ HeapOK(heap')
  BY DEF TextInvQ, TextInv, ContractInv, ValidInv, IInv
<1>2. call.pc # "idle" /\ call'.pc # "idle"
  BY <1>1, InLibrary, LibraryEffect DEF StepEffect, CallGoesOn
<1>3. before' = before /\ out' = out
  BY <1>2 DEF CNext, Entered, Returned, TextInvQ
<1>4. /\ SameRequest
      /\ \A B, G, t : Working(heap, call, B, G, t) /\ G = GivenThen =>
                         Working(heap', call', B, G, t)
  BY <1>1, <1>3, LoopKeepsWork
<1> DEFINE B == Bytes(before[call.buf])
           G == GivenThen
<1>5. PICK t \in Nat : Working(heap, call, B, G, t)
  BY <1>1, <1>2 DEF WorkInv
<1>6. Working(heap', call', B, G, t)
  BY <1>4, <1>5
<1>7. call.buf \in Buffers /\ call'.buf \in Buffers
  BY <1>1, <1>2, <1>4, ListedCall DEF SameRequest
<1> HIDE DEF B, G
<1>8. Asked = AskedAt(call, t)
  BY <1>1, <1>5, <1>7, AskedIs, AskedOf
<1>9. Asked' = AskedAt(call', t)
  BY <1>1, <1>6, <1>7, AskedIs, AskedOf
<1>10. AskedAt(call', t) = AskedAt(call, t)
  BY <1>4 DEF SameRequest, AskedAt
<1>11. \A b \in Buffers : Strings'[b] = Strings[b]
  BY <1>2, <1>3, StringsAre
<1>12. Strings' = Strings
  BY <1>11, SameStrings
<1> QED BY <1>3, <1>8, <1>9, <1>10, <1>12

\* What a list becomes or stops being does not change the strings of other buffers.
LEMMA OtherStrings ==
    ASSUME IInv, IInv', ListInv, ListInv', NEW a \in Buffers, NEW b \in Buffers \ {a},
           heap'.page = heap.page, heap'.reg = heap.reg,
           \A n \in Nodes \ {a} : heap'.nxt[n] = heap.nxt[n]
    PROVE  Text(heap', b) = Text(heap, b)
<1>1. HeapOK(heap) /\ HeapOK(heap') /\ b \in Buffers
  BY DEF IInv
<1>2. a \notin Mine(heap, b) \cup {b} /\ Mine(heap, b) \cup {b} \subseteq Nodes
  BY <1>1, MineFacts, HeapAssumption DEF Nodes
<1>3. ListKept(heap', heap, b)
  BY <1>2 DEF ListKept, Mine, LivePages
<1>4. BytesKept(heap', heap, b)
  BY DEF BytesKept, ByteAt
<1>5. Exists(heap', b) <=> Exists(heap, b)
  BY <1>3, KeptChain
<1>6. CASE ~Exists(heap, b)
  BY <1>5, <1>6, NoLayout DEF Text
<1>7. CASE Exists(heap, b)
  <2>1. Listed(heap, b) /\ Listed(heap', b)
    BY <1>1, <1>5, <1>7, ListedThere DEF ListInv
  <2>2. Content(heap', b) = Content(heap, b)
    BY <1>1, <1>3, <1>4, <2>1, KeptContent
  <2> QED BY <1>1, <1>5, <1>7, <2>1, <2>2, TextIs
<1> QED BY <1>6, <1>7

\* A buffer that is made is an empty string.
LEMMA MadeCreates ==
    ASSUME TextInvQ, TextInv', call = Idle, Made, CNext
    PROVE  \E b \in Buffers : Queue!Create(b)
<1>1. /\ IInv /\ IInv' /\ ListInv /\ ListInv' /\ HeapOK(heap) /\ HeapOK(heap') /\ heap \in Heap
  BY DEF TextInvQ, TextInv, ContractInv, IInv, HeapOK
<1>2. call' = Idle /\ call.pc = "idle" /\ call'.pc = "idle"
  BY DEF Made, Idle
<1>3. PICK b \in Buffers : ~Exists(heap, b) /\ heap' = BufferCreate(heap, b)
  BY DEF Made
<1>4. /\ heap'.page = heap.page /\ heap'.reg = heap.reg /\ heap'.nxt[b] = b
      /\ \A n \in Nodes \ {b} : heap'.nxt[n] = heap.nxt[n]
  BY <1>1, <1>3 DEF BufferCreate, Heap, Nodes
<1>5. Text(heap', b) = << >>
  <2>1. Exists(heap', b)
    BY <1>4, HeapAssumption DEF Exists
  <2>2. Listed(heap', b)
    BY <1>1, <2>1, ListedThere DEF ListInv
  <2>3. Content(heap', b) \in Seq(Byte) /\ Len(Content(heap', b)) = 0
    BY <1>1, <1>4, <2>2, NothingListed
  <2>4. Content(heap', b) = << >>
    BY <2>3
  <2> QED BY <1>1, <2>1, <2>2, <2>4, TextIs
<1>6. \A x \in Buffers \ {b} : Text(heap', x) = Text(heap, x)
  BY <1>1, <1>4, OtherStrings
<1>7. Strings[b] = NULL
  BY <1>2, <1>3, NoLayout, StringsAre DEF Text
<1>8. Strings' = [Strings EXCEPT ![b] = << >>]
  <2>1. \A x \in Buffers \ {b} : Strings'[x] = Strings[x]
    BY <1>2, <1>6, StringsAre
  <2>2. Strings'[b] = << >>
    BY <1>2, <1>5, StringsAre
  <2> QED BY <2>1, <2>2, OneString
<1>9. Asked = Queue!NoRequest /\ Asked' = Asked
  BY <1>2, AskedOf, NotAsking
<1>10. out' = [n |-> 0, dat |-> << >>]
  BY <1>2 DEF CNext, Returned
<1> QED BY <1>7, <1>8, <1>9, <1>10 DEF Queue!Create, Queue!NoAnswer

\* A call that is entered is asked.
LEMMA OpenedAsks ==
    ASSUME TextInvQ, TextInv', call = Idle, heap' = heap, Opened(call'), CNext
    PROVE  Queue!Ask
<1>1. /\ IInv /\ ListInv /\ ListInv' /\ HeapOK(heap) /\ HeapOK(heap') /\ WorkInv'
      /\ call' \in CallType
  BY DEF TextInvQ, TextInv, ContractInv, IInv
<1>2. /\ call.pc = "idle" /\ call'.pc # "idle" /\ call'.buf \in Buffers /\ Exists(heap, call'.buf)
      /\ call'.fn \in Loops
  BY <1>1 DEF Opened, Idle, CallType
<1>3. before' = Layouts(heap) /\ out' = [n |-> 0, dat |-> << >>]
  BY <1>2 DEF CNext, Entered, Returned
<1>4. \E B, G : \E t \in Nat : Working(heap', call', B, G, t)
  BY <1>1, <1>2 DEF WorkInv
<1>5. PICK t \in Nat : \E B, G : Working(heap', call', B, G, t)
  BY <1>4
<1>6. Asked' = AskedAt(call', t)
  BY <1>1, <1>2, <1>5, AskedIs, AskedOf
<1>7. AskedAt(call', t) \in Queue!Request
  <2> DEFINE c == call'
  <2>1. /\ c.fn \in Queue!Calls /\ c.buf \in Buffers /\ c.src \in Buffers \cup {NULL}
        /\ c.dat \in Seq(Byte) /\ << >> \in Seq(Byte) /\ c.len \in Nat /\ c.done \in Nat
        /\ t \in Nat
    BY <1>1, <1>2 DEF CallType, Loops, Queue!Calls
  <2>2. c.len + c.done \in Nat /\ (IF c.fn \in InsertFns THEN t ELSE 0) \in Nat
        /\ (IF c.fn = "read_data" THEN << >> ELSE c.dat) \in Seq(Byte)
    BY <2>1
  <2> QED BY <2>1, <2>2 DEF AskedAt, Queue!Request
<1>8. Strings' = Strings
  <2>1. \A b \in Buffers : Strings'[b] = Strings[b]
    BY <1>2, <1>3, StringsAre DEF Layouts, Text
  <2> QED BY <2>1, SameStrings
<1>9. Strings[call'.buf] # NULL
  <2>1. Listed(heap, call'.buf)
    BY <1>1, <1>2, ListedIf
  <2>2. Content(heap, call'.buf) \in Seq(Byte)
    BY <1>1, <1>2, <2>1, PosEnd, PosWithin
  <2>3. Text(heap, call'.buf) = Content(heap, call'.buf)
    BY <1>1, <1>2, <2>1, TextIs
  <2> QED BY <1>2, <2>2, <2>3, StringsAre, ContractAssumption
<1>10. Asked = Queue!NoRequest
  BY AskedOf, NotAsking
<1>11. Asked'.buf = call'.buf
  BY <1>6 DEF AskedAt
<1> QED BY <1>3, <1>6, <1>7, <1>8, <1>9, <1>10, <1>11 DEF Queue!Ask, Queue!NoAnswer

\* The answer to a request at the place t, put together from what a return does.
Answering(t) ==
    /\ Working(heap, call, Bytes(before[call.buf]), GivenThen, t)
    /\ call.buf \in Buffers /\ call.done \in Nat /\ call.len \in Nat
    /\ Asked = AskedAt(call, t) /\ Asked' = Queue!NoRequest
    /\ Strings[call.buf] = Bytes(before[call.buf])
    /\ Strings'[call.buf] = IF call.fn = "destroy" THEN NULL ELSE Content(heap, call.buf)
    /\ Strings' = [Strings EXCEPT ![call.buf] = Strings'[call.buf]]
    /\ out' = [n |-> call.done, dat |-> IF call.fn = "read_data" THEN call.dat ELSE << >>]

LEMMA ReturnAnswers ==
    ASSUME TextInvQ, TextInv', Return, CNext
    PROVE  \E t \in Nat : Answering(t)
<1> DEFINE b == call.buf
<1>1. /\ IInv /\ IInv' /\ ListInv /\ ListInv' /\ HeapOK(heap) /\ HeapOK(heap') /\ heap \in Heap
      /\ WorkInv /\ call \in CallType /\ FaultInv
  BY DEF TextInvQ, TextInv, ContractInv, IInv, HeapOK
<1>2. /\ call.pc # "idle" /\ call' = Idle /\ call'.pc = "idle"
      /\ heap' = IF call.fn = "destroy" THEN BufferFree(heap, b) ELSE heap
  BY DEF Return, Idle
<1>3. b \in Buffers /\ Exists(heap, b) /\ Listed(heap, b)
  BY <1>1, <1>2, ListedCall
<1>4. PICK t \in Nat : Working(heap, call, Bytes(before[b]), GivenThen, t)
  BY <1>1, <1>2 DEF WorkInv
<1>5. call.done \in Nat /\ call.len \in Nat
  BY <1>1 DEF CallType
<1>6. Asked = AskedAt(call, t)
  BY <1>1, <1>3, <1>4, AskedIs, AskedOf
<1>7. Asked' = Queue!NoRequest
  BY <1>2, AskedOf, NotAsking
<1>8. Strings[b] = Bytes(before[b])
  BY <1>2, <1>3, StringsAre
<1>9. Text(heap', b) = IF call.fn = "destroy" THEN NULL ELSE Content(heap, b)
  <2>1. CASE call.fn # "destroy"
    BY <1>1, <1>2, <1>3, <2>1, TextIs
  <2>2. CASE call.fn = "destroy"
    <3>1. ~Exists(heap', b)
      BY <1>1, <1>2, <1>3, <2>2 DEF BufferFree, Exists, Heap, Nodes
    <3> QED BY <2>2, <3>1, NoLayout DEF Text
  <2> QED BY <2>1, <2>2
<1>10. \A x \in Buffers \ {b} : Text(heap', x) = Text(heap, x)
  <2>1. CASE call.fn # "destroy"
    BY <1>2, <2>1
  <2>2. CASE call.fn = "destroy"
    <3>1. /\ heap'.page = heap.page /\ heap'.reg = heap.reg
          /\ \A n \in Nodes \ {b} : heap'.nxt[n] = heap.nxt[n]
      BY <1>1, <1>2, <2>2 DEF BufferFree, Heap
    <3> QED BY <1>1, <1>3, <3>1, OtherStrings
  <2> QED BY <2>1, <2>2
<1>11. \A x \in Buffers \ {b} : Strings'[x] = Strings[x]
  BY <1>1, <1>2, <1>10, StringsAre DEF WorkInv
<1>12. Strings' = [Strings EXCEPT ![b] = Strings'[b]]
  BY <1>3, <1>11, OneString
<1>13. Strings'[b] = IF call.fn = "destroy" THEN NULL ELSE Content(heap, b)
  BY <1>2, <1>3, <1>9, StringsAre
<1>14. out' = [n |-> call.done, dat |-> IF call.fn = "read_data" THEN call.dat ELSE << >>]
  BY <1>2 DEF CNext, Returned
<1> QED BY <1>3, <1>4, <1>5, <1>6, <1>7, <1>8, <1>12, <1>13, <1>14 DEF Answering

LEMMA Answers ==
    ASSUME NEW t \in Nat, Answering(t), call.fn # "read_data", NEW q, q = Strings'[call.buf]
    PROVE  Queue!Answer(call.fn, out'.n, q) /\ out'.n = call.done
<1>1. Asked.fn = call.fn /\ Asked.buf = call.buf /\ Asked.len = call.len + call.done
  BY DEF Answering, AskedAt
<1>2. out'.n = call.done /\ out' = [n |-> call.done, dat |-> << >>]
  BY DEF Answering
<1>3. call.done <= call.len + call.done
  BY DEF Answering
<1>4. Strings' = [Strings EXCEPT ![Asked.buf] = q] /\ Asked' = Queue!NoRequest
  BY <1>1 DEF Answering
<1> QED BY <1>1, <1>2, <1>3, <1>4 DEF Queue!Answer

LEMMA GivenIs ==
    ASSUME TextInv, call.pc # "idle", NEW t \in Nat, Answering(t), call.fn \in PuttingFns
    PROVE  Queue!Given = GivenThen
<1>1. Asked.src = call.src /\ Asked.dat = call.dat
  BY DEF Answering, AskedAt, PuttingFns, InsertFns
<1>2. IF Sourced(call) THEN call.src # NULL /\ GivenThen = Bytes(before[call.src])
      ELSE call.src = NULL
  BY GivenBytes
<1>3. CASE Sourced(call)
  <2>1. call.src \in Buffers
    BY <1>3, SourceThere DEF TextInv, ContractInv
  <2>2. Strings[call.src] = Bytes(before[call.src])
    BY <2>1, StringsAre
  <2> QED BY <1>1, <1>2, <1>3, <2>2 DEF Queue!Given
<1>4. CASE ~Sourced(call)
  <2>1. GivenThen = call.dat
    BY <1>4 DEF GivenThen, PuttingFns, InsertFns
  <2> QED BY <1>1, <1>2, <1>4, <2>1 DEF Queue!Given
<1> QED BY <1>3, <1>4

\* Each call is answered as the interface says.
LEMMA GrowAnswers ==
    ASSUME NEW t \in Nat, Answering(t), call.fn \in {"extend", "rewind"}
    PROVE  Queue!Extend \/ Queue!Rewind
<1> DEFINE B == Strings[call.buf]
           D == Strings'[call.buf]
           k == call.done
<1>1. /\ Working(heap, call, B, GivenThen, t) /\ D = Content(heap, call.buf)
      /\ Asked.buf = call.buf
  BY DEF Answering, AskedAt
<1>2. Queue!Answer(call.fn, out'.n, D) /\ out'.n = k
  BY Answers
<1>3. CASE call.fn = "extend"
  <2>1. Spread(D, B, Len(B), k)
    BY <1>1, <1>3 DEF Working, Extending
  <2>2. D = B \o SubSeq(D, Len(B) + 1, Len(D)) /\ Len(D) = Len(B) + k
    <3> HIDE DEF B, D, k
    <3> QED BY <2>1, SpreadAtEnd
  <2>3. Queue!Answer("extend", out'.n, B \o SubSeq(D, Len(B) + 1, Len(D)))
    BY <1>2, <1>3, <2>2
  <2>4. Queue!Extend
    BY <1>1, <1>2, <2>2, <2>3 DEF Queue!Extend, Queue!Done, Queue!Rest
  <2> QED BY <2>4
<1>4. CASE call.fn = "rewind"
  <2>1. Spread(D, B, 0, k)
    BY <1>1, <1>4 DEF Working, Rewinding
  <2>2. D = SubSeq(D, 1, k) \o B
    BY <2>1, SpreadAtStart
  <2>3. Queue!Answer("rewind", out'.n, SubSeq(D, 1, out'.n) \o B)
    BY <1>2, <1>4, <2>2
  <2>4. Queue!Rewind
    BY <1>1, <2>3 DEF Queue!Rewind, Queue!Done, Queue!Front
  <2> QED BY <2>4
<1> QED BY <1>3, <1>4

LEMMA InsertAnswers ==
    ASSUME TextInv, call.pc # "idle", NEW t \in Nat, Answering(t), call.fn \in InsertFns
    PROVE  Queue!Insert(call.fn)
<1> DEFINE B == Strings[call.buf]
           D == Strings'[call.buf]
           G == GivenThen
           k == call.done
<1>1. /\ Working(heap, call, B, G, t) /\ D = Content(heap, call.buf)
      /\ Asked.buf = call.buf /\ Asked.at = t
  BY DEF Answering, AskedAt, InsertFns
<1>2. Queue!Answer(call.fn, out'.n, D) /\ out'.n = k
  BY Answers DEF InsertFns
<1>3. Spread(D, B, t, k) /\ Copies(D, t, G, k)
  BY <1>1 DEF Working, Inserted
<1>4. D = SubSeq(B, 1, t) \o SubSeq(G, 1, k) \o SubSeq(B, t + 1, Len(B))
  BY <1>3, SpreadByCopy
<1>5. k <= Len(G)
  BY <1>3 DEF Copies
<1>6. Queue!Given = G
  BY GivenIs DEF PuttingFns
<1>7. Queue!Answer(call.fn, out'.n,
                   SubSeq(B, 1, t) \o SubSeq(G, 1, out'.n) \o SubSeq(B, t + 1, Len(B)))
  BY <1>2, <1>4
<1> HIDE DEF G
<1> QED BY <1>1, <1>2, <1>5, <1>6, <1>7 DEF Queue!Insert, Queue!Done, Queue!Front, Queue!Rest

LEMMA OverwriteAnswers ==
    ASSUME TextInv, call.pc # "idle", NEW t \in Nat, Answering(t),
           call.fn \in {"overwrite_data", "overwrite_buffer"}
    PROVE  Queue!Overwrite(call.fn)
<1> DEFINE B == Strings[call.buf]
           D == Strings'[call.buf]
           G == GivenThen
           k == call.done
<1>1. /\ Working(heap, call, B, G, t) /\ D = Content(heap, call.buf)
      /\ Asked.buf = call.buf
  BY DEF Answering, AskedAt
<1>2. Queue!Answer(call.fn, out'.n, D) /\ out'.n = k
  BY Answers
<1>3. Replaced(D, B, G, k)
  BY <1>1 DEF Working, Overwriting
<1>4. D = SubSeq(G, 1, k) \o SubSeq(B, k + 1, Len(B))
  <2> HIDE DEF B, D, G, k
  <2> QED BY <1>3, ReplacedByCopy
<1>5. k <= Len(B) /\ k <= Len(G) /\ Len(B) \in Nat /\ Len(G) \in Nat /\ k \in Nat
  BY <1>1, <1>3 DEF Replaced, Copies, Working
<1>6. Queue!Given = G
  BY GivenIs DEF PuttingFns
<1>7. Queue!Answer(call.fn, out'.n, SubSeq(G, 1, out'.n) \o SubSeq(B, out'.n + 1, Len(B)))
  BY <1>2, <1>4
<1> HIDE DEF G
<1>8. out'.n <= Queue!Least(Len(B), Len(G))
  BY <1>2, <1>5 DEF Queue!Least
<1> QED BY <1>1, <1>6, <1>7, <1>8 DEF Queue!Overwrite, Queue!Done, Queue!Front, Queue!Rest

\* What is left of a call whose loop ended.
LEMMA LeastIs ==
    ASSUME TextInv, Return, NEW t \in Nat, Answering(t), call.pc = "loop",
           call.fn \in {"seek", "trim", "read_data"}
    PROVE  /\ Queue!Least(Asked.len, Len(Strings[call.buf])) = call.done
           /\ call.done <= Len(Strings[call.buf]) /\ Strings[call.buf] \in Seq(Byte)
<1> DEFINE B == Strings[call.buf]
           G == GivenThen
           k == call.done
           l == call.len
<1>1. /\ Working(heap, call, B, G, t) /\ B = Bytes(before[call.buf])
      /\ Asked.len = l + k
  BY DEF Answering, AskedAt
<1>2. Ended(B, G) /\ B \in Seq(Byte)
  BY <1>1, LoopEnds DEF Working
<1>3. k <= Len(B) /\ (l = 0 \/ k = Len(B)) /\ k \in Nat /\ l \in Nat /\ Len(B) \in Nat
  BY <1>2 DEF Ended
<1> HIDE DEF B
<1>4. Queue!Least(l + k, Len(B)) = k
  BY <1>3 DEF Queue!Least
<1> QED BY <1>1, <1>2, <1>3, <1>4 DEF B

LEMMA TakeAnswers ==
    ASSUME TextInv, Return, NEW t \in Nat, Answering(t), call.fn \in {"seek", "trim", "read_data"}
    PROVE  Queue!Seek \/ Queue!Trim \/ Queue!Read
<1> DEFINE B == Strings[call.buf]
           D == Strings'[call.buf]
           k == call.done
           n == Queue!Least(Asked.len, Len(B))
<1>1. /\ Working(heap, call, B, GivenThen, t) /\ D = Content(heap, call.buf)
      /\ Asked.buf = call.buf /\ Asked.fn = call.fn
  BY DEF Answering, AskedAt
<1>2. call.pc = "loop"
  BY <1>1 DEF Working, Seeking, Trimming, Reading
<1>3. n = k /\ k <= Len(B) /\ B \in Seq(Byte)
  BY <1>2, LeastIs
<1>4. CASE call.fn = "seek"
  <2>1. D = SubSeq(B, k + 1, Len(B))
    BY <1>1, <1>4 DEF Working, Seeking
  <2>2. Queue!Answer("seek", k, SubSeq(B, k + 1, Len(B)))
    BY <1>4, <2>1, Answers
  <2>3. Queue!Answer("seek", n, SubSeq(B, n + 1, Len(B)))
    BY <1>3, <2>2
  <2>4. Queue!Seek
    BY <1>1, <2>3 DEF Queue!Seek, Queue!Rest
  <2> QED BY <2>4
<1>5. CASE call.fn = "trim"
  <2>1. IsFront(D, B) /\ Len(D) = Len(B) - k
    BY <1>1, <1>5 DEF Working, Trimming
  <2>2. D = SubSeq(B, 1, Len(B) - k)
    BY <2>1, FrontIs
  <2>3. Queue!Answer("trim", k, SubSeq(B, 1, Len(B) - k))
    BY <1>5, <2>2, Answers
  <2>4. Queue!Answer("trim", n, SubSeq(B, 1, Len(B) - n))
    BY <1>3, <2>3
  <2>5. Queue!Trim
    BY <1>1, <2>4 DEF Queue!Trim, Queue!Front
  <2> QED BY <2>5
<1>6. CASE call.fn = "read_data"
  <2>1. D = B /\ Len(call.dat) = k /\ IsFront(call.dat, B)
    BY <1>1, <1>6 DEF Working, Reading
  <2>2. call.dat = SubSeq(B, 1, k)
    BY <2>1, FrontIs
  <2>3. out' = [n |-> n, dat |-> SubSeq(B, 1, n)]
    BY <1>3, <1>6, <2>2 DEF Answering
  <2>4. Strings' = Strings
    <3>1. \A b \in Buffers \ {call.buf} : Strings'[b] = Strings[b]
      BY StringsAre DEF Answering
    <3> QED BY <2>1, <3>1, SameStrings
  <2>5. Queue!Read
    BY <1>1, <1>6, <2>3, <2>4 DEF Queue!Read, Queue!Front, Answering
  <2> QED BY <2>5
<1> QED BY <1>4, <1>5, <1>6

LEMMA ClearAnswers ==
    ASSUME TextInv, Return, NEW t \in Nat, Answering(t), call.fn \in {"clear", "destroy"}
    PROVE  Queue!Clear \/ Queue!Destroy
<1> DEFINE b == call.buf
           D == Strings'[b]
<1>1. call.pc = "loop" /\ call.len = 0 /\ call.done = 0 /\ ~LoopGoesOn(call)
  BY DEF Answering, Working, Clearing, Return
<1>2. Queue!Answer(call.fn, 0, D)
  BY <1>1, Answers
<1>3. CASE call.fn = "clear"
  <2>1. /\ IInv /\ ListInv /\ HeapOK(heap) /\ CallOK(heap, call) /\ call.pc # "idle"
    BY <1>1 DEF TextInv, ContractInv, IInv
  <2>2. heap.nxt[b] = b
    BY <1>1, <1>3, <2>1 DEF LoopGoesOn, CallOK, CursorOK
  <2>3. b \in Buffers /\ Listed(heap, b)
    BY <2>1, ListedCall
  <2>4. Content(heap, b) \in Seq(Byte) /\ Len(Content(heap, b)) = 0
    BY <2>1, <2>2, <2>3, NothingListed
  <2>5. D = << >>
    BY <1>3, <2>4 DEF Answering
  <2>6. Queue!Clear
    BY <1>2, <1>3, <2>5 DEF Queue!Clear
  <2> QED BY <2>6
<1>4. CASE call.fn = "destroy"
  <2>1. D = NULL
    BY <1>4 DEF Answering
  <2>2. Queue!Destroy
    BY <1>2, <1>4, <2>1 DEF Queue!Destroy
  <2> QED BY <2>2
<1> QED BY <1>3, <1>4

\* Every step of the buffers is one of the byte strings, or none.
LEMMA StepOfQueue ==
    ASSUME CountSuffices, NoSelfSource, NoSplitAtEnd, NoMisaligned, TextInvQ, TextInv',
           [CNext]_cvars
    PROVE  [Queue!Next]_(Queue!vars)
<1>1. /\ IInv /\ TextInv /\ WorkInv
  BY DEF TextInvQ, TextInv, ContractInv
<1>2. CASE Client /\ CNext
  <2>1. call.pc = "idle" /\ call = Idle
    BY <1>1, <1>2, ClientBegins DEF WorkInv
  <2>2. (heap' = heap /\ Opened(call')) \/ Made
    BY <1>1, <1>2, ClientOpens
  <2>3. Queue!Ask \/ \E b \in Buffers : Queue!Create(b)
    BY <1>2, <2>1, <2>2, MadeCreates, OpenedAsks
  <2> QED BY <2>3 DEF Queue!Next
<1>3. CASE Return /\ CNext
  <2>1. PICK t \in Nat : Answering(t)
    BY <1>3, ReturnAnswers
  <2>2. call.pc # "idle" /\ call.fn \in Loops
    BY <1>1, <1>3 DEF Return, WorkInv, IInv, CallType
  <2>3. CASE call.fn \in {"extend", "rewind"}
    BY <2>1, <2>3, GrowAnswers DEF Queue!Next
  <2>4. CASE call.fn \in InsertFns
    <3>1. Queue!Insert(call.fn)
      BY <1>1, <2>1, <2>2, <2>4, InsertAnswers
    <3> QED BY <2>4, <3>1 DEF Queue!Next, InsertFns
  <2>5. CASE call.fn \in {"overwrite_data", "overwrite_buffer"}
    <3>1. Queue!Overwrite(call.fn)
      BY <1>1, <2>1, <2>2, <2>5, OverwriteAnswers
    <3> QED BY <2>5, <3>1 DEF Queue!Next
  <2>6. CASE call.fn \in {"seek", "trim", "read_data"}
    BY <1>1, <1>3, <2>1, <2>6, TakeAnswers DEF Queue!Next
  <2>7. CASE call.fn \in {"clear", "destroy"}
    BY <1>1, <1>3, <2>1, <2>7, ClearAnswers DEF Queue!Next
  <2> QED BY <2>2, <2>3, <2>4, <2>5, <2>6, <2>7 DEF Loops, InsertFns
<1>4. CASE Library /\ ~Return /\ CNext
  <2>1. UNCHANGED << Strings, Asked, out >>
    BY <1>4, LoopStutters
  <2> QED BY <2>1 DEF Queue!vars
<1>5. CASE UNCHANGED cvars
  <2>1. UNCHANGED << Strings, Asked, out >>
    BY <1>5 DEF cvars, Strings, Asked
  <2> QED BY <2>1 DEF Queue!vars
<1> QED BY <1>2, <1>3, <1>4, <1>5 DEF CNext, Next

LEMMA InitOfQueue == CInit => Queue!Init
<1> SUFFICES ASSUME CInit PROVE Queue!Init
  OBVIOUS
<1>1. call = Idle /\ call.pc = "idle" /\ heap = EmptyHeap /\ out = Queue!NoAnswer
  BY DEF CInit, Init, Idle, Queue!NoAnswer
<1>2. \A b \in Buffers : Strings[b] = NULL
  <2> SUFFICES ASSUME NEW b \in Buffers PROVE Strings[b] = NULL
    OBVIOUS
  <2>1. ~Exists(heap, b)
    BY <1>1 DEF Exists, EmptyHeap, Nodes
  <2> QED BY <1>1, <2>1, NoLayout, StringsAre DEF Text
<1>3. Strings = [b \in Buffers |-> NULL]
  <2> DEFINE f == Strings
  <2>1. f = [b \in Buffers |-> f[b]] /\ \A b \in Buffers : f[b] = NULL
    BY <1>2, StringsAre
  <2> HIDE DEF f
  <2>2. f = [b \in Buffers |-> NULL]
    BY <2>1
  <2> QED BY <2>2 DEF f
<1>4. Asked = Queue!NoRequest
  BY <1>1, AskedOf, NotAsking
<1> QED BY <1>1, <1>3, <1>4 DEF Queue!Init

\* A trivial buffer is a byte string: whatever the pages, the strategies, the sharing of
\* regions and the allocations that fail, every call is answered by exactly the change of
\* one string that the interface promises for the count it returns.
THEOREM BufferIsByteQueue ==
    ASSUME CountSuffices, NoSelfSource, NoSplitAtEnd, NoMisaligned
    PROVE  CSpec => ImplementsByteQueue
<1>1. TextInvQ /\ TextInvQ' /\ [CNext]_cvars => [Queue!Next]_(Queue!vars)
  BY StepOfQueue DEF TextInvQ
<1> QED BY <1>1, InitOfQueue, TextInvariantQ, PTL DEF CSpec, ImplementsByteQueue, Queue!Spec

====
