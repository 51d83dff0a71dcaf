------------------------ MODULE TrivialBufferProofs ------------------------
(***************************************************************************)
(* Theorems about TrivialBuffer, for every set of buffers, pages, regions, *)
(* inputs and strategies.  They assume what the run that counts too far    *)
(* shows to be necessary, that there are fewer pages than use_count can    *)
(* count, and that no buffer is its own source.                            *)
(*                                                                         *)
(* RefCountExact and WindowsInBounds are not inductive.  A step frees the  *)
(* page its iterator names, reads the page its source iterator names and   *)
(* relies on links of pages it does not touch, so IInv adds that the lists *)
(* are doubly linked and closed, that every page that is not freed is in   *)
(* one, and where the iterators and offsets of the call in progress point. *)
(***************************************************************************)
EXTENDS TrivialBuffer, HeapProofs

\* n is the anchor or a page of the list of b.
Inside(h, n, b) == n \in Nodes /\ Linked(h, n) /\ Owner(h, n) = b

SourceOK(h, c) ==
    c.fn \in {"insert_buffer", "overwrite_buffer"} =>
        c.src \in Buffers /\ c.src # c.buf /\ Inside(h, c.sit, c.src)

OffsetOK(h, c) ==
    c.fn = "insert_buffer" /\ ~Strategy[c.buf].clone_on_write =>
        /\ c.soff <= NodeLen(h, c.sit)
        /\ ~Strategy[c.buf].fragment_as_target => c.soff = 0

BytesLeftOK(c) ==
    c.fn \in {"insert_data", "insert_data_ref", "overwrite_data"} =>
        c.len + c.done = Len(c.dat)

CursorOK(h, c) ==
    /\ c.fn \in {"seek", "clear", "destroy"} => c.it = h.nxt[c.buf]
    /\ c.fn = "trim" => c.it = h.prv[c.buf]
    /\ c.pc = "ret" => c.fn \notin {"clear", "destroy"}

CallOK(h, c) ==
    c.pc # "idle" =>
        /\ c.buf \in Buffers
        /\ Inside(h, c.buf, c.buf) /\ Inside(h, c.it, c.buf)
        /\ SourceOK(h, c) /\ OffsetOK(h, c) /\ BytesLeftOK(c) /\ CursorOK(h, c)

IInv ==
    /\ HeapOK(heap) /\ AllLinked(heap)
    /\ size \in [Buffers -> Int]
    /\ bumped \subseteq Buffers
    /\ call \in CallType /\ CallOK(heap, call)
    /\ fault \in {"none", "oob", "freed_linked"}

NoSelfSource == "self_source" \notin Usage

-----------------------------------------------------------------------------
LEMMA IInvImplies == IInv => TypeOK /\ RefCountExact /\ WindowsInBounds
  BY DEF IInv, TypeOK, RefCountExact, WindowsInBounds, HeapOK, Counted, Shown

LEMMA IdleOK == Idle \in CallType /\ \A h : CallOK(h, Idle)
<1>1. << >> \in Seq(Byte)
  OBVIOUS
<1>2. Idle \in CallType
  BY <1>1 DEF Idle, CallType
<1> QED BY <1>2 DEF Idle, CallOK

LEMMA InitIInv == Init => IInv
<1> SUFFICES ASSUME Init PROVE IInv
  OBVIOUS
<1>1. HeapOK(heap) /\ AllLinked(heap)
  BY EmptyHeapOK DEF Init, AllLinked
<1>2. call \in CallType /\ CallOK(heap, call)
  BY IdleOK DEF Init
<1> QED BY <1>1, <1>2 DEF Init, IInv

\* A node of a list other than its anchor is a page of it.
LEMMA InsideIsPage ==
    ASSUME NEW h, HeapOK(h), NEW b \in Buffers, NEW n, Inside(h, n, b), n # b
    PROVE  n \in LivePages(h) /\ n \in PageIds /\ h.page[n].own = b /\ NodeLen(h, n) = h.page[n].len
  BY DEF Inside, HeapOK, Threaded, Owner, Nodes, LivePages, NodeLen

LEMMA InsideNext ==
    ASSUME NEW h, HeapOK(h), NEW b, NEW n, Inside(h, n, b)
    PROVE  Inside(h, h.nxt[n], b) /\ Inside(h, h.prv[n], b)
  BY Neighbours DEF Inside

LEMMA NodeLenType ==
    ASSUME NEW h, HeapOK(h), NEW n
    PROVE  NodeLen(h, n) \in Nat
  BY DEF HeapOK, Heap, PageRec, NodeLen

LEMMA LowerType ==
    ASSUME NEW m \in Nat, NEW n \in Nat
    PROVE  Lower(m, n) \in Nat /\ Lower(m, n) <= m /\ Lower(m, n) <= n
  BY DEF Lower

LEMMA ChunkType ==
    ASSUME NEW b \in Buffers, NEW n \in Nat
    PROVE  Chunk(b, n) \in Nat /\ Chunk(b, n) <= n
<1>1. Strategy[b].page_size \in Nat
  BY StrategyAssumption DEF StrategyType
<1> QED BY <1>1 DEF Chunk, Lower

-----------------------------------------------------------------------------
(* The client enters a function.                                           *)

LEMMA ExistingBuffer ==
    ASSUME IInv, NEW b \in Buffers, Exists(heap, b)
    PROVE  /\ Inside(heap, b, b) /\ Inside(heap, heap.nxt[b], b)
           /\ Inside(heap, heap.prv[b], b)
<1>1. Inside(heap, b, b)
  BY HeapAssumption DEF Inside, Exists, Linked, Owner, Nodes
<1> QED BY <1>1, InsideNext DEF IInv

\* A page of b can be pointed at.
LEMMA PositionInside ==
    ASSUME IInv, NEW b \in Buffers, Exists(heap, b), NEW x, NEW off, Position(b, x, off)
    PROVE  Inside(heap, x, b)
<1>1. CASE x = b
  BY <1>1, ExistingBuffer
<1>2. CASE x \in LivePages(heap) /\ heap.page[x].own = b
  BY <1>2 DEF IInv, AllLinked, Inside, Owner, Nodes, LivePages
<1> QED BY <1>1, <1>2 DEF Position

LEMMA StartOK ==
    ASSUME IInv, NEW c \in CallType, CallOK(heap, c), Start(c)
    PROVE  IInv'
  BY DEF IInv, Start

\* c holds the locals at the entry of the loop of fn.
EntryIs(c, fn, b, src, it, off, sit, dat, n) ==
    /\ c \in CallType
    /\ c.fn = fn /\ c.buf = b /\ c.src = src /\ c.it = it /\ c.off = off /\ c.sit = sit
    /\ c.soff = 0 /\ c.dat = dat /\ c.len = n /\ c.done = 0 /\ c.pc = "loop"

LEMMA EnterIs ==
    ASSUME NEW fn \in Loops, NEW b \in Buffers, NEW n \in Nat,
           NEW c, c = Enter(fn, b, n)
    PROVE  EntryIs(c, fn, b, NULL, NULL, 0, NULL, << >>, n)
<1>1. c \in CallType
  BY IdleOK DEF Enter, CallType
<1>2. /\ c.it = NULL /\ c.off = 0 /\ c.dat = << >> /\ c.fn = fn /\ c.buf = b
      /\ c.src = NULL /\ c.sit = NULL /\ c.soff = 0 /\ c.len = n /\ c.done = 0
      /\ c.pc = "loop"
  BY DEF Enter, Idle
<1> QED BY <1>1, <1>2 DEF EntryIs

LEMMA EnterAt ==
    ASSUME NEW fn \in Loops, NEW b \in Buffers, NEW n \in Nat, NEW it \in Nodes,
           NEW c, c = [Enter(fn, b, n) EXCEPT !.it = it]
    PROVE  EntryIs(c, fn, b, NULL, it, 0, NULL, << >>, n)
<1> DEFINE e == Enter(fn, b, n)
<1>1. EntryIs(e, fn, b, NULL, NULL, 0, NULL, << >>, n)
  BY EnterIs
<1>2. c = [e EXCEPT !.it = it]
  OBVIOUS
<1> HIDE DEF e
<1> QED BY <1>1, <1>2 DEF EntryIs, CallType

\* The calls with one buffer.
LEMMA EntryOK ==
    ASSUME IInv, NEW fn \in Loops \ {"insert_buffer", "overwrite_buffer"},
           NEW b \in Buffers, NEW it, Inside(heap, b, b), Inside(heap, it, b),
           NEW off, NEW dat, NEW n,
           fn \in {"insert_data", "insert_data_ref", "overwrite_data"} => n = Len(dat),
           fn \in {"seek", "clear", "destroy"} => it = heap.nxt[b],
           fn = "trim" => it = heap.prv[b],
           NEW c, EntryIs(c, fn, b, NULL, it, off, NULL, dat, n)
    PROVE  c \in CallType /\ CallOK(heap, c)
<1>1. /\ c.fn = fn /\ c.buf = b /\ c.it = it /\ c.dat = dat /\ c.len = n /\ c.done = 0
      /\ c.pc = "loop" /\ c \in CallType
  BY DEF EntryIs
<1>2. c.len \in Nat
  BY <1>1 DEF CallType
<1>3. SourceOK(heap, c) /\ OffsetOK(heap, c)
  BY <1>1 DEF SourceOK, OffsetOK
<1>4. BytesLeftOK(c)
  BY <1>1, <1>2 DEF BytesLeftOK
<1>5. CursorOK(heap, c)
  BY <1>1 DEF CursorOK
<1> QED BY <1>1, <1>3, <1>4, <1>5 DEF CallOK

LEMMA EntryAtOK ==
    ASSUME IInv, NEW fn \in {"extend", "rewind", "seek", "trim", "read_data", "clear", "destroy"},
           NEW b \in Buffers, NEW it, Inside(heap, b, b), Inside(heap, it, b), NEW n \in Nat,
           fn \in {"seek", "clear", "destroy"} => it = heap.nxt[b],
           fn = "trim" => it = heap.prv[b],
           NEW c, c = [Enter(fn, b, n) EXCEPT !.it = it]
    PROVE  c \in CallType /\ CallOK(heap, c)
<1>1. fn \in Loops \ {"insert_buffer", "overwrite_buffer"} /\ it \in Nodes
  BY DEF Loops, Inside
<1>2. EntryIs(c, fn, b, NULL, it, 0, NULL, << >>, n)
  BY <1>1, EnterAt
<1>3. fn \notin {"insert_data", "insert_data_ref", "overwrite_data"}
  OBVIOUS
<1> QED BY <1>1, <1>2, <1>3, EntryOK

\* The calls with a source buffer.
LEMMA EntryWithSourceOK ==
    ASSUME NoSelfSource, IInv, NEW fn \in {"insert_buffer", "overwrite_buffer"},
           NEW b \in Buffers, NEW it, Inside(heap, b, b), Inside(heap, it, b),
           NEW off, NEW src \in Buffers, Source(b, src), NEW n,
           NEW c, EntryIs(c, fn, b, src, it, off, heap.nxt[src], << >>, n)
    PROVE  c \in CallType /\ CallOK(heap, c)
<1>1. src # b /\ Inside(heap, heap.nxt[src], src)
  BY ExistingBuffer DEF Source, NoSelfSource
<1>2. /\ c.fn = fn /\ c.buf = b /\ c.it = it /\ c.src = src /\ c.sit = heap.nxt[src]
      /\ c.soff = 0 /\ c.pc = "loop" /\ c \in CallType
  BY DEF EntryIs
<1>3. NodeLen(heap, c.sit) \in Nat
  BY NodeLenType DEF IInv
<1>4. SourceOK(heap, c) /\ BytesLeftOK(c) /\ CursorOK(heap, c)
  BY <1>1, <1>2 DEF SourceOK, BytesLeftOK, CursorOK
<1>5. OffsetOK(heap, c)
  BY <1>2, <1>3 DEF OffsetOK
<1> QED BY <1>2, <1>4, <1>5 DEF CallOK

LEMMA CreateKeeps == ASSUME IInv, NEW b \in Buffers, Create(b) PROVE IInv'
<1>1. HeapOK(heap) /\ ~Linked(heap, b) /\ heap' = BufferCreate(heap, b)
  BY DEF IInv, Create, Exists, Linked
<1>2. Reanchored(heap', heap, b)
  BY <1>1, BufferCreateOK
<1>3. HeapOK(heap') /\ AllLinked(heap')
  BY <1>2, HeapAssumption DEF IInv, AllLinked, Reanchored, LivePages, Linked, Nodes
<1>4. call' \in CallType /\ CallOK(heap', call')
  BY IdleOK DEF Create
<1> QED BY <1>3, <1>4 DEF IInv, Create

LEMMA ExtendKeeps == ASSUME IInv, NEW b \in Buffers, NEW n \in Nat, Extend(b, n) PROVE IInv'
<1> DEFINE c == [Enter("extend", b, n) EXCEPT !.it = b]
<1>1. Start(c) /\ Inside(heap, b, b) /\ Inside(heap, b, b)
  BY ExistingBuffer DEF Extend, Ready
<1>2. c \in CallType /\ CallOK(heap, c)
  BY <1>1, EntryAtOK
<1> QED BY <1>1, <1>2, StartOK

LEMMA ReserveKeeps == ASSUME IInv, NEW b \in Buffers, NEW n \in Nat, Reserve(b, n) PROVE IInv'
<1> DEFINE c == [Enter("extend", b, n - size[b]) EXCEPT !.it = b]
<1>1. Start(c) /\ Inside(heap, b, b) /\ n - size[b] \in Nat
  BY ExistingBuffer DEF Reserve, Ready, IInv
<1>2. c \in CallType /\ CallOK(heap, c)
  BY <1>1, EntryAtOK
<1> QED BY <1>1, <1>2, StartOK

LEMMA RewindKeeps == ASSUME IInv, NEW b \in Buffers, NEW n \in Nat, Rewind(b, n) PROVE IInv'
<1> DEFINE c == [Enter("rewind", b, n) EXCEPT !.it = heap.nxt[b]]
<1>1. Start(c) /\ Inside(heap, b, b) /\ Inside(heap, heap.nxt[b], b)
  BY ExistingBuffer DEF Rewind, Ready
<1>2. c \in CallType /\ CallOK(heap, c)
  BY <1>1, EntryAtOK
<1> QED BY <1>1, <1>2, StartOK

LEMMA SeekKeeps == ASSUME IInv, NEW b \in Buffers, NEW n \in Nat, Seek(b, n) PROVE IInv'
<1> DEFINE c == [Enter("seek", b, n) EXCEPT !.it = heap.nxt[b]]
<1>1. Start(c) /\ Inside(heap, b, b) /\ Inside(heap, heap.nxt[b], b)
  BY ExistingBuffer DEF Seek, Ready
<1>2. c \in CallType /\ CallOK(heap, c)
  BY <1>1, EntryAtOK
<1> QED BY <1>1, <1>2, StartOK

LEMMA TrimKeeps == ASSUME IInv, NEW b \in Buffers, NEW n \in Nat, Trim(b, n) PROVE IInv'
<1> DEFINE c == [Enter("trim", b, n) EXCEPT !.it = heap.prv[b]]
<1>1. Start(c) /\ Inside(heap, b, b) /\ Inside(heap, heap.prv[b], b)
  BY ExistingBuffer DEF Trim, Ready
<1>2. c \in CallType /\ CallOK(heap, c)
  BY <1>1, EntryAtOK
<1> QED BY <1>1, <1>2, StartOK

LEMMA ReadDataKeeps == ASSUME IInv, NEW b \in Buffers, NEW n \in Nat, ReadData(b, n) PROVE IInv'
<1> DEFINE c == [Enter("read_data", b, n) EXCEPT !.it = heap.nxt[b]]
<1>1. Start(c) /\ Inside(heap, b, b) /\ Inside(heap, heap.nxt[b], b)
  BY ExistingBuffer DEF ReadData, Ready
<1>2. c \in CallType /\ CallOK(heap, c)
  BY <1>1, EntryAtOK
<1> QED BY <1>1, <1>2, StartOK

LEMMA InputType == ASSUME NEW s \in Inputs PROVE s \in Seq(Byte) /\ Len(s) \in Nat
<1>1. s \in Seq(Byte)
  BY ClientAssumption
<1> QED BY <1>1

LEMMA InsertDataKeeps ==
    ASSUME IInv, NEW b \in Buffers, NEW x, NEW off \in Nat,
           NEW fn \in {"insert_data", "insert_data_ref"}, NEW s \in Inputs,
           InsertData(b, x, off, fn, s)
    PROVE  IInv'
<1> DEFINE e == Enter(fn, b, Len(s))
           c == [e EXCEPT !.it = x, !.off = off, !.dat = s]
<1>1. Start(c) /\ Inside(heap, b, b) /\ Inside(heap, x, b) /\ x \in Nodes
  BY ExistingBuffer, PositionInside DEF InsertData, Ready, Inside
<1>2. s \in Seq(Byte) /\ Len(s) \in Nat /\ fn \in Loops \ {"insert_buffer", "overwrite_buffer"}
  BY InputType DEF Loops
<1>3. EntryIs(e, fn, b, NULL, NULL, 0, NULL, << >>, Len(s))
  BY <1>2, EnterIs
<1> HIDE DEF e
<1>4. EntryIs(c, fn, b, NULL, x, off, NULL, s, Len(s))
  BY <1>1, <1>2, <1>3 DEF EntryIs, CallType
<1> HIDE DEF c
<1>5. fn \notin {"seek", "clear", "destroy", "trim"}
  OBVIOUS
<1>6. c \in CallType /\ CallOK(heap, c)
  BY <1>1, <1>2, <1>4, <1>5, EntryOK
<1> QED BY <1>1, <1>6, StartOK

LEMMA WriteDataKeeps ==
    ASSUME IInv, NEW b \in Buffers, NEW fn, NEW s \in Inputs, WriteData(b, fn, s)
    PROVE  IInv'
<1> DEFINE f == IF fn = "write_data" THEN "insert_data" ELSE "insert_data_ref"
           e == Enter(f, b, Len(s))
           c == [e EXCEPT !.it = b, !.dat = s]
<1>1. Start(c) /\ Inside(heap, b, b) /\ b \in Nodes
  BY ExistingBuffer DEF WriteData, Ready, Inside
<1>2. s \in Seq(Byte) /\ Len(s) \in Nat /\ f \in Loops \ {"insert_buffer", "overwrite_buffer"}
  BY InputType DEF Loops
<1>3. f \notin {"seek", "clear", "destroy", "trim"}
  OBVIOUS
<1> HIDE DEF f
<1>4. EntryIs(e, f, b, NULL, NULL, 0, NULL, << >>, Len(s))
  BY <1>2, EnterIs
<1> HIDE DEF e
<1>5. EntryIs(c, f, b, NULL, b, 0, NULL, s, Len(s))
  BY <1>1, <1>2, <1>4 DEF EntryIs, CallType
<1> HIDE DEF c
<1>6. c \in CallType /\ CallOK(heap, c)
  BY <1>1, <1>2, <1>3, <1>5, EntryOK
<1> QED BY <1>1, <1>6, StartOK

LEMMA InsertBufferKeeps ==
    ASSUME NoSelfSource, IInv, NEW b \in Buffers, NEW x, NEW off \in Nat,
           NEW src \in Buffers, NEW n \in Nat, InsertBuffer(b, x, off, src, n)
    PROVE  IInv'
<1> DEFINE e == Enter("insert_buffer", b, n)
           c == [e EXCEPT !.it = x, !.off = off, !.src = src, !.sit = heap.nxt[src]]
<1>1. /\ Start(c) /\ Inside(heap, b, b) /\ Inside(heap, x, b) /\ Source(b, src)
      /\ x \in Nodes /\ heap.nxt[src] \in Nodes
  BY ExistingBuffer, PositionInside DEF InsertBuffer, Ready, Source, Inside
<1>2. EntryIs(e, "insert_buffer", b, NULL, NULL, 0, NULL, << >>, n)
  BY EnterIs DEF Loops
<1> HIDE DEF e
<1>3. EntryIs(c, "insert_buffer", b, src, x, off, heap.nxt[src], << >>, n)
  BY <1>1, <1>2 DEF EntryIs, CallType
<1> HIDE DEF c
<1>4. c \in CallType /\ CallOK(heap, c)
  BY <1>1, <1>3, EntryWithSourceOK
<1> QED BY <1>1, <1>4, StartOK

LEMMA WriteBufferKeeps ==
    ASSUME NoSelfSource, IInv, NEW b \in Buffers, NEW src \in Buffers, NEW n \in Nat,
           WriteBuffer(b, src, n)
    PROVE  IInv'
<1> DEFINE e == Enter("insert_buffer", b, n)
           c == [e EXCEPT !.it = b, !.src = src, !.sit = heap.nxt[src]]
<1>1. /\ Start(c) /\ Inside(heap, b, b) /\ Source(b, src)
      /\ b \in Nodes /\ heap.nxt[src] \in Nodes
  BY ExistingBuffer DEF WriteBuffer, Ready, Source, Inside
<1>2. EntryIs(e, "insert_buffer", b, NULL, NULL, 0, NULL, << >>, n)
  BY EnterIs DEF Loops
<1> HIDE DEF e
<1>3. EntryIs(c, "insert_buffer", b, src, b, 0, heap.nxt[src], << >>, n)
  BY <1>1, <1>2 DEF EntryIs, CallType
<1> HIDE DEF c
<1>4. c \in CallType /\ CallOK(heap, c)
  BY <1>1, <1>3, EntryWithSourceOK
<1> QED BY <1>1, <1>4, StartOK

LEMMA OverwriteDataKeeps ==
    ASSUME IInv, NEW b \in Buffers, NEW s \in Inputs, OverwriteData(b, s)
    PROVE  IInv'
<1> DEFINE e == Enter("overwrite_data", b, Len(s))
           it == heap.nxt[b]
           c == [e EXCEPT !.it = it, !.dat = s]
<1>1. Start(c) /\ Inside(heap, b, b) /\ Inside(heap, it, b) /\ it \in Nodes
  BY ExistingBuffer DEF OverwriteData, Ready, Inside
<1>2. s \in Seq(Byte) /\ Len(s) \in Nat
  BY InputType
<1>3. EntryIs(e, "overwrite_data", b, NULL, NULL, 0, NULL, << >>, Len(s))
  BY <1>2, EnterIs DEF Loops
<1> HIDE DEF e, it
<1>4. EntryIs(c, "overwrite_data", b, NULL, it, 0, NULL, s, Len(s))
  BY <1>1, <1>2, <1>3 DEF EntryIs, CallType
<1> HIDE DEF c
<1>5. c \in CallType /\ CallOK(heap, c)
  <2>1. /\ "overwrite_data" \in Loops \ {"insert_buffer", "overwrite_buffer"}
        /\ "overwrite_data" \notin {"seek", "clear", "destroy", "trim"}
    BY DEF Loops
  <2> QED BY <2>1, <1>1, <1>4, EntryOK
<1> QED BY <1>1, <1>5, StartOK

LEMMA OverwriteBufferKeeps ==
    ASSUME NoSelfSource, IInv, NEW b \in Buffers, NEW src \in Buffers, NEW n \in Nat,
           OverwriteBuffer(b, src, n)
    PROVE  IInv'
<1> DEFINE e == Enter("overwrite_buffer", b, n)
           it == heap.nxt[b]
           c == [e EXCEPT !.it = it, !.src = src, !.sit = heap.nxt[src]]
<1>1. /\ Start(c) /\ Inside(heap, b, b) /\ Inside(heap, it, b) /\ Source(b, src)
      /\ it \in Nodes /\ heap.nxt[src] \in Nodes
  BY ExistingBuffer DEF OverwriteBuffer, Ready, Source, Inside
<1>2. EntryIs(e, "overwrite_buffer", b, NULL, NULL, 0, NULL, << >>, n)
  BY EnterIs DEF Loops
<1> HIDE DEF e, it
<1>3. EntryIs(c, "overwrite_buffer", b, src, it, 0, heap.nxt[src], << >>, n)
  BY <1>1, <1>2 DEF EntryIs, CallType
<1> HIDE DEF c
<1>4. c \in CallType /\ CallOK(heap, c)
  BY <1>1, <1>3, EntryWithSourceOK
<1> QED BY <1>1, <1>4, StartOK

LEMMA ClearKeeps ==
    ASSUME IInv, NEW b \in Buffers, NEW fn \in {"clear", "destroy"}, Clear(b, fn)
    PROVE  IInv'
<1> DEFINE c == [Enter(fn, b, 0) EXCEPT !.it = heap.nxt[b]]
<1>1. Inside(heap, b, b) /\ Inside(heap, heap.nxt[b], b)
  BY ExistingBuffer DEF Clear, Ready
<1>2. c \in CallType /\ CallOK(heap, c)
  BY <1>1, EntryAtOK
<1>3. call' = c
  BY DEF Clear
<1> HIDE DEF c
<1> QED BY <1>2, <1>3 DEF Clear, IInv

-----------------------------------------------------------------------------
(* The loops that insert pages.                                            *)

Inserting == {"extend", "rewind", "insert_data", "insert_data_ref", "insert_buffer"}

\* What a loop relies on, except where its cursor is.
LoopOK(h, c) ==
    /\ c.buf \in Buffers
    /\ Inside(h, c.buf, c.buf) /\ Inside(h, c.it, c.buf)
    /\ SourceOK(h, c) /\ OffsetOK(h, c) /\ BytesLeftOK(c)

LEMMA InsertingCallOK ==
    ASSUME NEW h, NEW c, c.fn \in Inserting, LoopOK(h, c)
    PROVE  CallOK(h, c)
<1>1. CursorOK(h, c)
  BY DEF CursorOK, Inserting
<1> QED BY <1>1 DEF CallOK, LoopOK

LEMMA InsideGrown ==
    ASSUME NEW h, NEW g, NEW b, Grown(g, h, b), NEW n, NEW a, Inside(h, n, a)
    PROVE  Inside(g, n, a)
  BY DEF Grown, LinksKept, Inside

\* The source of an insertion is not changed by it.
LEMMA SourceGrown ==
    ASSUME NEW h, HeapOK(h), NEW b \in Buffers, NEW g, Grown(g, h, b),
           NEW n, NEW a \in Buffers, a # b, Inside(h, n, a)
    PROVE  NodeLen(g, n) = NodeLen(h, n)
<1>1. CASE n = a
  BY <1>1, HeapAssumption DEF NodeLen
<1>2. CASE n # a
  <2>1. n \in LivePages(h) /\ h.page[n].own = a
    BY <1>2, InsideIsPage
  <2>2. g.page[n] = h.page[n]
    BY <2>1 DEF Grown
  <2> QED BY <2>2 DEF NodeLen
<1> QED BY <1>1, <1>2

LEMMA LoopGrown ==
    ASSUME NEW h, HeapOK(h), NEW c, LoopOK(h, c), NEW g, Grown(g, h, c.buf)
    PROVE  LoopOK(g, c)
<1>1. Inside(g, c.buf, c.buf) /\ Inside(g, c.it, c.buf)
  BY InsideGrown DEF LoopOK
<1>2. SourceOK(g, c)
  BY InsideGrown DEF LoopOK, SourceOK
<1>3. OffsetOK(g, c)
  <2> SUFFICES ASSUME c.fn = "insert_buffer", ~Strategy[c.buf].clone_on_write
               PROVE  /\ c.soff <= NodeLen(g, c.sit)
                      /\ ~Strategy[c.buf].fragment_as_target => c.soff = 0
    BY DEF OffsetOK
  <2>1. c.src \in Buffers /\ c.src # c.buf /\ Inside(h, c.sit, c.src) /\ c.buf \in Buffers
    BY DEF LoopOK, SourceOK
  <2>2. NodeLen(g, c.sit) = NodeLen(h, c.sit)
    BY <2>1, SourceGrown
  <2>3. /\ c.soff <= NodeLen(h, c.sit)
        /\ ~Strategy[c.buf].fragment_as_target => c.soff = 0
    BY DEF LoopOK, OffsetOK
  <2> QED BY <2>2, <2>3
<1> QED BY <1>1, <1>2, <1>3 DEF LoopOK

LEMMA LoopReturns ==
    ASSUME NEW c \in CallType, NEW d, d = [c EXCEPT !.pc = "ret"]
    PROVE  /\ d \in CallType /\ d.pc = "ret" /\ d.fn = c.fn
           /\ \A h : LoopOK(h, c) => LoopOK(h, d)
<1>1. /\ d \in CallType /\ d.pc = "ret" /\ d.fn = c.fn /\ d.buf = c.buf /\ d.it = c.it
      /\ d.src = c.src /\ d.sit = c.sit /\ d.soff = c.soff /\ d.len = c.len
      /\ d.done = c.done /\ d.dat = c.dat
  BY DEF CallType
<1> QED BY <1>1 DEF LoopOK, SourceOK, OffsetOK, BytesLeftOK

LEMMA ProgressType ==
    ASSUME NEW c \in CallType, NEW l \in Nat, NEW m \in Nat,
           NEW d, d = [c EXCEPT !.len = l, !.done = m, !.off = 0]
    PROVE  d \in CallType
  BY DEF CallType

\* d is c but for what is left and what is done.
Progressed(d, c) ==
    /\ d \in CallType /\ d.pc = c.pc /\ d.fn = c.fn /\ d.buf = c.buf
    /\ d.sit = c.sit /\ d.soff = c.soff /\ d.src = c.src
    /\ \A h : LoopOK(h, c) => LoopOK(h, d)

\* n bytes were inserted.
LEMMA LoopProgresses ==
    ASSUME NEW c \in CallType, NEW n \in Nat, n <= c.len,
           NEW d, d = [Progress(c, n) EXCEPT !.off = 0]
    PROVE  Progressed(d, c)
<1> DEFINE k == c.len
           m == c.done
<1>1. /\ d.pc = c.pc /\ d.fn = c.fn /\ d.buf = c.buf /\ d.it = c.it
      /\ d.src = c.src /\ d.sit = c.sit /\ d.soff = c.soff /\ d.len = k - n
      /\ d.done = m + n /\ d.dat = c.dat
  BY DEF CallType, Progress
<1>2. k \in Nat /\ m \in Nat
  BY DEF CallType
<1>3. k - n \in Nat /\ m + n \in Nat /\ (k - n) + (m + n) = k + m
  BY <1>2
<1>4. d \in CallType
  <2>1. d = [c EXCEPT !.len = k - n, !.done = m + n, !.off = 0]
    BY DEF Progress, CallType
  <2> HIDE DEF k, m
  <2> QED BY <2>1, <1>3, ProgressType
<1>5. BytesLeftOK(c) => BytesLeftOK(d)
  BY <1>1, <1>3 DEF BytesLeftOK
<1> QED BY <1>1, <1>4, <1>5 DEF Progressed, LoopOK, SourceOK, OffsetOK

\* What the source iterator may be moved by.
SourceStep(h, c, n) ==
    c.fn = "insert_buffer" =>
        /\ c.sit # c.src
        /\ ~Strategy[c.buf].clone_on_write => c.soff + n <= NodeLen(h, c.sit)

\* d is c but for a source iterator at the start of nx.
SourceAt(d, c, nx) ==
    /\ d \in CallType /\ d.pc = c.pc /\ d.fn = c.fn /\ d.buf = c.buf /\ d.it = c.it
    /\ d.src = c.src /\ d.sit = nx /\ d.soff = 0

LEMMA NextPageOfSource ==
    ASSUME NEW c \in CallType, NEW nx \in Nodes,
           NEW d, d = [c EXCEPT !.sit = nx, !.soff = 0]
    PROVE  SourceAt(d, c, nx)
<1>1. d \in CallType
  BY DEF CallType
<1>2. d.pc = c.pc /\ d.fn = c.fn /\ d.buf = c.buf /\ d.it = c.it /\ d.src = c.src
  BY DEF CallType
<1>3. d.sit = nx /\ d.soff = 0
  BY DEF CallType
<1> QED BY <1>1, <1>2, <1>3 DEF SourceAt

LEMMA NextSourceOK ==
    ASSUME NEW h, HeapOK(h), NEW c \in CallType, c.fn = "insert_buffer", LoopOK(h, c),
           NEW n \in Nat, SourceStep(h, c, n), NEW d, d = NextSource(c, h, n)
    PROVE  d \in CallType /\ d.pc = c.pc /\ d.fn = c.fn /\ d.buf = c.buf /\ LoopOK(h, d)
<1> DEFINE whole == ~Strategy[c.buf].clone_on_write /\ ~Strategy[c.buf].fragment_as_target
           nx == h.nxt[c.sit]
<1>1. /\ c.src \in Buffers /\ c.src # c.buf /\ Inside(h, c.sit, c.src)
      /\ c.buf \in Buffers /\ Inside(h, c.buf, c.buf) /\ Inside(h, c.it, c.buf)
  BY DEF LoopOK, SourceOK
<1>2. Inside(h, nx, c.src) /\ nx \in Nodes
  BY <1>1, InsideNext DEF Inside
<1>3. NodeLen(h, nx) \in Nat /\ c.soff \in Nat /\ NodeLen(h, c.sit) = h.page[c.sit].len
  <2>1. c.sit # c.src
    BY DEF SourceStep
  <2> QED BY <2>1, <1>1, NodeLenType, InsideIsPage DEF CallType
<1>4. whole => c.soff = 0
  BY DEF LoopOK, OffsetOK
<1>5. ~Strategy[c.buf].clone_on_write => c.soff + n <= NodeLen(h, c.sit)
  BY DEF SourceStep
<1>6. CASE whole
  <2>1. d = [c EXCEPT !.sit = nx]
    BY <1>6 DEF NextSource
  <2> HIDE DEF whole, nx
  <2>2. /\ d \in CallType /\ d.pc = c.pc /\ d.fn = c.fn /\ d.buf = c.buf /\ d.it = c.it
        /\ d.src = c.src /\ d.sit = nx /\ d.soff = c.soff
    BY <2>1, <1>2 DEF CallType
  <2>3. d.soff = 0
    BY <2>2, <1>4, <1>6
  <2> QED BY <2>2, <2>3, <1>1, <1>2, <1>3 DEF LoopOK, SourceOK, OffsetOK, BytesLeftOK
<1>7. CASE ~whole /\ c.soff + n = h.page[c.sit].len
  <2>1. d = [c EXCEPT !.sit = nx, !.soff = 0]
    BY <1>7 DEF NextSource
  <2> HIDE DEF whole, nx
  <2>2. SourceAt(d, c, nx)
    BY <2>1, <1>2, NextPageOfSource
  <2> QED BY <2>2, <1>1, <1>2, <1>3 DEF SourceAt, LoopOK, SourceOK, OffsetOK, BytesLeftOK
<1>8. CASE ~whole /\ c.soff + n # h.page[c.sit].len
  <2> DEFINE s == c.soff + n
  <2>1. d = [c EXCEPT !.soff = s]
    BY <1>8 DEF NextSource
  <2>2. s \in Nat
    BY <1>3
  <2>3. ~Strategy[c.buf].clone_on_write => s <= NodeLen(h, c.sit) /\ Strategy[c.buf].fragment_as_target
    BY <1>5, <1>8
  <2> HIDE DEF whole, nx, s
  <2>4. /\ d \in CallType /\ d.pc = c.pc /\ d.fn = c.fn /\ d.buf = c.buf /\ d.it = c.it
        /\ d.src = c.src /\ d.sit = c.sit /\ d.soff = s
    BY <2>1, <2>2 DEF CallType
  <2>5. OffsetOK(h, d)
    BY <2>3, <2>4 DEF OffsetOK
  <2> QED BY <2>4, <2>5, <1>1 DEF LoopOK, SourceOK, BytesLeftOK
<1> QED BY <1>6, <1>7, <1>8

LEMMA AfterInsertOK ==
    ASSUME NEW h, HeapOK(h), NEW c \in CallType, c.fn \in Inserting, LoopOK(h, c),
           NEW n \in Nat, n <= c.len, SourceStep(h, c, n)
    PROVE  AfterInsert(c, h, n) \in CallType /\ CallOK(h, AfterInsert(c, h, n))
<1> DEFINE d == [Progress(c, n) EXCEPT !.off = 0]
<1>0. Progressed(d, c)
  BY LoopProgresses
<1>1. /\ d \in CallType /\ d.pc = c.pc /\ d.fn = c.fn /\ d.buf = c.buf
      /\ d.sit = c.sit /\ d.soff = c.soff /\ d.src = c.src /\ LoopOK(h, d)
  BY <1>0 DEF Progressed
<1>2. AfterInsert(c, h, n) = IF c.fn = "insert_buffer" THEN NextSource(d, h, n) ELSE d
  BY DEF AfterInsert
<1> HIDE DEF d
<1>3. CASE c.fn = "insert_buffer"
  <2> DEFINE f == NextSource(d, h, n)
  <2>1. SourceStep(h, d, n)
    BY <1>1 DEF SourceStep
  <2>2. f \in CallType /\ f.fn = d.fn /\ LoopOK(h, f)
    BY <2>1, <1>1, <1>3, NextSourceOK
  <2>3. AfterInsert(c, h, n) = f
    BY <1>2, <1>3
  <2> HIDE DEF f
  <2> QED BY <2>2, <2>3, <1>1, InsertingCallOK
<1>4. CASE c.fn # "insert_buffer"
  BY <1>1, <1>2, <1>4, InsertingCallOK
<1> QED BY <1>3, <1>4

LEMMA SomeOf == ASSUME NEW S, S # {} PROVE AnyOf(S) \in S
  BY DEF AnyOf

LEMMA SourceStepGrown ==
    ASSUME NEW h, HeapOK(h), NEW c, LoopOK(h, c), NEW g, Grown(g, h, c.buf),
           NEW n, SourceStep(h, c, n)
    PROVE  SourceStep(g, c, n)
<1> SUFFICES ASSUME c.fn = "insert_buffer" PROVE SourceStep(g, c, n)
  BY DEF SourceStep
<1>1. c.src \in Buffers /\ c.src # c.buf /\ Inside(h, c.sit, c.src) /\ c.buf \in Buffers
  BY DEF LoopOK, SourceOK
<1>2. NodeLen(g, c.sit) = NodeLen(h, c.sit)
  BY <1>1, SourceGrown
<1> QED BY <1>2 DEF SourceStep

\* The iteration that inserts the page p, just made in h, in front of x.
LEMMA InsertPageKeeps ==
    ASSUME CountSuffices, IInv, call.pc = "loop", call.fn \in Inserting,
           NEW p \in FreePages(heap), NEW n \in Nat, n <= call.len,
           NEW h, Fresh(h, heap, p, n), NEW x, Inside(heap, x, call.buf),
           SourceStep(heap, call, n), InsertPage(h, p, x)
    PROVE  IInv'
<1> DEFINE b == call.buf
           off == Lower(call.off, NodeLen(h, x))
           q == AnyOf(FreePages(h))
           g == LinkBefore(IF off # 0 THEN SplitPage(h, x, off, q) ELSE h, p, x)
           w == PageDestroy(h, p)
           r == [call EXCEPT !.pc = "ret"]
<1>1. /\ HeapOK(heap) /\ AllLinked(heap) /\ call \in CallType /\ LoopOK(heap, call)
      /\ b \in Buffers /\ x \in Nodes /\ Linked(heap, x) /\ Owner(heap, x) = b
  BY DEF IInv, CallOK, LoopOK, Inside
<1>2. HeapOK(h) /\ h.page[p].len = n
  BY DEF Fresh
<1>3. off \in Nat /\ off <= NodeLen(h, x)
  <2>1. call.off \in Nat /\ NodeLen(h, x) \in Nat
    BY <1>1, <1>2, NodeLenType DEF CallType
  <2> QED BY <2>1, LowerType
<1>4. bumped' \subseteq Buffers
  BY <1>1 DEF InsertPage, IInv
<1>5. r \in CallType /\ r.pc = "ret" /\ r.fn = call.fn /\ LoopOK(heap, r) /\ r.buf = b
  BY <1>1, LoopReturns DEF CallType
<1>6. CASE /\ heap' = w /\ call' = r
           /\ UNCHANGED << size, fault >>
  <2>1. Grown(w, heap, b)
    BY <1>1, AbandonedPage
  <2> HIDE DEF r, w
  <2>2. LoopOK(w, r)
    BY <2>1, <1>1, <1>5, LoopGrown
  <2>3. CallOK(w, r)
    BY <2>2, <1>5, InsertingCallOK
  <2> QED BY <2>1, <2>3, <1>4, <1>5, <1>6 DEF IInv, Grown
<1>7. CASE /\ off # 0 => FreePages(h) # {}
           /\ heap' = g
           /\ size' = [size EXCEPT ![b] = @ + n]
           /\ call' = IF n = 0 THEN r ELSE AfterInsert(call, g, n)
           /\ fault' = IF n = 0 THEN "freed_linked" ELSE fault
  <2>1. off # 0 => q \in FreePages(h)
    BY <1>7, SomeOf
  <2> HIDE DEF off, q
  <2>2. Grown(g, heap, b)
    BY <2>1, <1>1, <1>3, PlacedPage
  <2> HIDE DEF g
  <2>3. LoopOK(g, call) /\ SourceStep(g, call, n) /\ HeapOK(g)
    BY <2>2, <1>1, LoopGrown, SourceStepGrown DEF Grown
  <2>4. AfterInsert(call, g, n) \in CallType /\ CallOK(g, AfterInsert(call, g, n))
    BY <2>3, <1>1, AfterInsertOK
  <2>5. CallOK(g, r)
    <3> HIDE DEF r
    <3>1. LoopOK(g, r)
      BY <2>2, <1>1, <1>5, LoopGrown
    <3> QED BY <3>1, <1>5, InsertingCallOK
  <2>6. call' \in CallType /\ CallOK(g, call')
    <3> HIDE DEF r
    <3> QED BY <2>4, <2>5, <1>5, <1>7
  <2>7. size' \in [Buffers -> Int]
    BY <1>1, <1>7 DEF IInv
  <2> QED BY <2>2, <2>6, <2>7, <1>4, <1>7 DEF IInv, Grown
<1> QED BY <1>2, <1>6, <1>7 DEF InsertPage

\* A call that ends with nothing but its pc changed.
LEMMA ReturnsOK ==
    ASSUME NEW h, NEW c \in CallType, CallOK(h, c), c.pc = "loop",
           c.fn \notin {"clear", "destroy"}, NEW d, d = [c EXCEPT !.pc = "ret"]
    PROVE  d \in CallType /\ CallOK(h, d)
<1>1. /\ d \in CallType /\ d.pc = "ret" /\ d.fn = c.fn /\ d.buf = c.buf /\ d.it = c.it
      /\ d.src = c.src /\ d.sit = c.sit /\ d.soff = c.soff /\ d.len = c.len
      /\ d.done = c.done /\ d.dat = c.dat
  BY DEF CallType
<1> QED BY <1>1 DEF CallOK, SourceOK, OffsetOK, BytesLeftOK, CursorOK

LEMMA LeaveLoopKeeps ==
    ASSUME IInv, call.pc = "loop", call.fn \notin {"clear", "destroy"}, LeaveLoop
    PROVE  IInv'
<1> DEFINE r == [call EXCEPT !.pc = "ret"]
<1>1. r \in CallType /\ CallOK(heap, r)
  BY ReturnsOK DEF IInv
<1>2. call' = r /\ UNCHANGED << heap, size, bumped, fault >>
  BY DEF LeaveLoop
<1> HIDE DEF r
<1> QED BY <1>1, <1>2 DEF IInv

\* What a failure of page_create leaves is what leaving the loop leaves.
LEMMA MakeOutcome ==
    ASSUME IInv, NEW owned \in BOOLEAN, NEW m, NEW x, MakePage(owned, m, x)
    PROVE  \/ LeaveLoop
           \/ /\ ~NoRoom
              /\ InsertPage(BufferPageCreate(heap, AnyOf(FreePages(heap)), AnyOf(FreeData(heap)),
                                            owned, m), AnyOf(FreePages(heap)), x)
<1> DEFINE d == AnyOf(FreeData(heap))
<1>1. CASE /\ FreeData(heap) # {} /\ heap' = PageCreateFails(heap, d, owned, m)
           /\ call' = [call EXCEPT !.pc = "ret"] /\ UNCHANGED << size, bumped, fault >>
  <2>1. HeapOK(heap) /\ d \in FreeData(heap)
    BY <1>1, SomeOf DEF IInv
  <2> HIDE DEF d
  <2>2. heap' = heap
    BY <2>1, <1>1, GivenBack
  <2> QED BY <2>2, <1>1 DEF LeaveLoop
<1> QED BY <1>1 DEF MakePage

LEMMA MakePageKeeps ==
    ASSUME CountSuffices, IInv, call.pc = "loop", call.fn \in Inserting,
           NEW owned \in BOOLEAN, NEW m \in Seq(Byte), Len(m) <= call.len,
           NEW x, Inside(heap, x, call.buf), SourceStep(heap, call, Len(m)),
           MakePage(owned, m, x)
    PROVE  IInv'
<1> DEFINE p == AnyOf(FreePages(heap))
           d == AnyOf(FreeData(heap))
           h == BufferPageCreate(heap, p, d, owned, m)
<1>1. CASE LeaveLoop
  BY <1>1, LeaveLoopKeeps DEF Inserting
<1>2. CASE ~NoRoom /\ InsertPage(h, p, x)
  <2>1. p \in FreePages(heap) /\ d \in FreeData(heap) /\ HeapOK(heap) /\ Len(m) \in Nat
    BY <1>2, SomeOf DEF NoRoom, IInv
  <2> HIDE DEF p, d
  <2>2. Fresh(h, heap, p, Len(m))
    BY <2>1, NewPage
  <2> HIDE DEF h
  <2> QED BY <2>1, <2>2, <1>2, InsertPageKeeps
<1> HIDE DEF p, d, h
<1>3. LeaveLoop \/ (~NoRoom /\ InsertPage(h, p, x))
  BY MakeOutcome DEF p, d, h
<1> QED BY <1>1, <1>2, <1>3

\* The source iterator of an insertion that goes on is at a page of the source.
LEMMA AtSourcePage ==
    ASSUME IInv, call.fn \in {"insert_buffer", "overwrite_buffer"}, call.pc # "idle",
           call.sit # call.src
    PROVE  /\ call.sit \in LivePages(heap) /\ call.sit \in PageIds
           /\ heap.page[call.sit].own = call.src /\ call.src \in Buffers
           /\ call.src # call.buf
           /\ NodeLen(heap, call.sit) = heap.page[call.sit].len
<1>1. call.src \in Buffers /\ call.src # call.buf /\ Inside(heap, call.sit, call.src)
  BY DEF IInv, CallOK, SourceOK
<1> QED BY <1>1, InsideIsPage DEF IInv

LEMMA SharePageKeeps ==
    ASSUME CountSuffices, IInv, call.pc = "loop", call.fn = "insert_buffer",
           call.sit # call.src, NEW n \in Nat, n <= call.len,
           call.soff + n <= NodeLen(heap, call.sit), SharePage(n)
    PROVE  IInv'
<1> DEFINE p == AnyOf(FreePages(heap))
           h == PageTransfer(heap, p, call.sit, n, call.soff)
<1>1. CASE LeaveLoop
  BY <1>1, LeaveLoopKeeps
<1>2. CASE FreePages(heap) # {} /\ InsertPage(h, p, call.it)
  <2>1. p \in FreePages(heap)
    BY <1>2, SomeOf
  <2>2. HeapOK(heap) /\ Inside(heap, call.it, call.buf) /\ call.soff \in Nat
    BY DEF IInv, CallOK, CallType
  <2>3. call.sit \in LivePages(heap) /\ NodeLen(heap, call.sit) = heap.page[call.sit].len
    BY AtSourcePage
  <2> HIDE DEF p
  <2>4. Fresh(h, heap, p, n)
    BY <2>1, <2>2, <2>3, SharedPage
  <2>5. SourceStep(heap, call, n) /\ call.fn \in Inserting
    BY DEF SourceStep, Inserting
  <2> HIDE DEF h
  <2> QED BY <2>1, <2>2, <2>4, <2>5, <1>2, InsertPageKeeps
<1> QED BY <1>1, <1>2 DEF SharePage

LEMMA InLoop ==
    ASSUME IInv, NEW fn, In(fn)
    PROVE  /\ call.fn = fn /\ call.pc = "loop" /\ fault = "none"
           /\ call \in CallType /\ call.len \in Nat /\ call.done \in Nat
           /\ call.soff \in Nat /\ call.off \in Nat /\ call.dat \in Seq(Byte)
           /\ HeapOK(heap) /\ heap \in Heap /\ AllLinked(heap)
           /\ call.buf \in Buffers
           /\ Inside(heap, call.buf, call.buf) /\ Inside(heap, call.it, call.buf)
<1>1. call.fn = fn /\ call.pc = "loop" /\ fault = "none"
  BY DEF In
<1>2. CallOK(heap, call) /\ call \in CallType /\ HeapOK(heap) /\ AllLinked(heap)
  BY DEF IInv
<1>3. /\ call.len \in Nat /\ call.done \in Nat /\ call.soff \in Nat /\ call.off \in Nat
      /\ call.dat \in Seq(Byte)
  BY <1>2 DEF CallType
<1>4. /\ call.buf \in Buffers
      /\ Inside(heap, call.buf, call.buf) /\ Inside(heap, call.it, call.buf)
  BY <1>1, <1>2 DEF CallOK
<1>5. heap \in Heap
  BY <1>2 DEF HeapOK
<1> QED BY <1>1, <1>2, <1>3, <1>4, <1>5

LEMMA JunkType ==
    ASSUME NEW n \in Nat, NEW m \in [1..n -> Junk]
    PROVE  m \in Seq(Byte) /\ Len(m) = n
<1>1. m \in [1..n -> Byte]
  BY ClientAssumption
<1> QED BY <1>1

LEMMA ExtendStepKeeps == ASSUME CountSuffices, IInv, ExtendStep PROVE IInv'
<1>1. In("extend")
  BY DEF ExtendStep
<1>2. /\ call.fn = "extend" /\ call.pc = "loop" /\ call.len \in Nat /\ call.buf \in Buffers
      /\ Inside(heap, call.buf, call.buf)
  BY <1>1, InLoop
<1>3. Chunk(call.buf, call.len) \in Nat /\ Chunk(call.buf, call.len) <= call.len
  BY <1>2, ChunkType
<1>4. PICK m \in [1..Chunk(call.buf, call.len) -> Junk] : MakePage(TRUE, m, call.buf)
  BY DEF ExtendStep
<1>5. m \in Seq(Byte) /\ Len(m) <= call.len
  BY <1>3, JunkType
<1>6. SourceStep(heap, call, Len(m)) /\ call.fn \in Inserting
  BY <1>2 DEF SourceStep, Inserting
<1> QED BY <1>2, <1>4, <1>5, <1>6, MakePageKeeps

LEMMA RewindStepKeeps == ASSUME CountSuffices, IInv, RewindStep PROVE IInv'
<1>1. In("rewind")
  BY DEF RewindStep
<1>2. /\ call.fn = "rewind" /\ call.pc = "loop" /\ call.len \in Nat /\ call.buf \in Buffers
      /\ Inside(heap, call.buf, call.buf) /\ HeapOK(heap)
  BY <1>1, InLoop
<1>3. Chunk(call.buf, call.len) \in Nat /\ Chunk(call.buf, call.len) <= call.len
  BY <1>2, ChunkType
<1>4. PICK m \in [1..Chunk(call.buf, call.len) -> Junk] :
         MakePage(TRUE, m, heap.nxt[call.buf])
  BY DEF RewindStep
<1>5. m \in Seq(Byte) /\ Len(m) <= call.len
  BY <1>3, JunkType
<1>6. SourceStep(heap, call, Len(m)) /\ call.fn \in Inserting
  BY <1>2 DEF SourceStep, Inserting
<1>7. Inside(heap, heap.nxt[call.buf], call.buf)
  BY <1>2, InsideNext
<1> QED BY <1>2, <1>4, <1>5, <1>6, <1>7, MakePageKeeps

\* The bytes a call takes from the caller's memory are there.
LEMMA FromCallerType ==
    ASSUME IInv, call.fn \in {"insert_data", "insert_data_ref", "overwrite_data"},
           call.pc # "idle", NEW n \in Nat, n <= call.len
    PROVE  FromCaller(n) \in Seq(Byte) /\ Len(FromCaller(n)) = n
<1>1. /\ call.dat \in Seq(Byte) /\ call.len \in Nat /\ call.done \in Nat
      /\ call.len + call.done = Len(call.dat)
  BY DEF IInv, CallType, CallOK, BytesLeftOK
<1> DEFINE i == call.done + 1
           j == call.done + n
<1>2. i \in Nat /\ j \in Nat /\ i >= 1 /\ j <= Len(call.dat) /\ j - i + 1 = n /\ j >= i - 1
  BY <1>1
<1> HIDE DEF i, j
<1>3. SubSeq(call.dat, i, j) \in Seq(Byte) /\ Len(SubSeq(call.dat, i, j)) = n
  BY <1>1, <1>2
<1> QED BY <1>3 DEF FromCaller, i, j

LEMMA InsertDataStepKeeps == ASSUME CountSuffices, IInv, InsertDataStep PROVE IInv'
<1> DEFINE n == Chunk(call.buf, call.len)
<1>1. PICK owned \in BOOLEAN, fn \in {"insert_data", "insert_data_ref"} :
         In(fn) /\ MakePage(owned, FromCaller(n), call.it)
  BY DEF InsertDataStep
<1>2. /\ call.fn = fn /\ call.pc = "loop" /\ call.len \in Nat /\ call.buf \in Buffers
      /\ Inside(heap, call.it, call.buf)
  BY <1>1, InLoop
<1>3. n \in Nat /\ n <= call.len
  BY <1>2, ChunkType
<1> HIDE DEF n
<1>4. FromCaller(n) \in Seq(Byte) /\ Len(FromCaller(n)) = n
  BY <1>2, <1>3, FromCallerType
<1>5. SourceStep(heap, call, n) /\ call.fn \in Inserting
  BY <1>2 DEF SourceStep, Inserting
<1> QED BY <1>1, <1>2, <1>3, <1>4, <1>5, MakePageKeeps

\* What an iteration takes is wanted, and is there when the page is shared.
LEMMA InsertLenType ==
    ASSUME IInv, call.pc = "loop", call.fn = "insert_buffer"
    PROVE  /\ InsertLen(call) \in Nat /\ InsertLen(call) <= call.len
           /\ ~Strategy[call.buf].clone_on_write =>
                 call.soff + InsertLen(call) <= NodeLen(heap, call.sit)
<1> DEFINE plen == NodeLen(heap, call.sit)
           len == call.len
           soff == call.soff
           b == call.buf
           frag == Strategy[b].fragment_as_target
           clone == Strategy[b].clone_on_write
<1>1. plen \in Nat /\ len \in Nat /\ soff \in Nat /\ b \in Buffers
  BY NodeLenType DEF IInv, CallType, CallOK
<1>2. ~clone => soff <= plen /\ (~frag => soff = 0)
  BY DEF IInv, CallOK, OffsetOK
<1>3. CASE ~frag
  <2>1. InsertLen(call) = Lower(plen, len)
    BY <1>3 DEF InsertLen
  <2> HIDE DEF plen, len, soff, frag, clone
  <2>2. Lower(plen, len) \in Nat /\ Lower(plen, len) <= plen /\ Lower(plen, len) <= len
    BY <1>1, LowerType
  <2>3. ~clone => soff + Lower(plen, len) <= plen
    BY <1>1, <1>2, <1>3, <2>2
  <2> QED BY <2>1, <2>2, <2>3 DEF plen, len, soff, clone
<1>4. CASE frag /\ soff <= plen
  <2> DEFINE l == Lower(plen - soff, len)
  <2>1. InsertLen(call) = Chunk(b, l)
    BY <1>4 DEF InsertLen
  <2> HIDE DEF plen, len, soff, frag, clone
  <2>2. plen - soff \in Nat
    BY <1>1, <1>4
  <2>3. l \in Nat /\ l <= plen - soff /\ l <= len
    BY <1>1, <2>2, LowerType
  <2> HIDE DEF l, b
  <2>4. Chunk(b, l) \in Nat /\ Chunk(b, l) <= l
    BY <1>1, <2>3, ChunkType
  <2>5. Chunk(b, l) <= len /\ soff + Chunk(b, l) <= plen
    BY <1>1, <2>2, <2>3, <2>4
  <2> QED BY <2>1, <2>4, <2>5 DEF plen, len, soff
<1>5. CASE frag /\ ~(soff <= plen)
  <2>1. InsertLen(call) = Chunk(b, len)
    BY <1>5 DEF InsertLen
  <2>2. clone
    BY <1>2, <1>5
  <2> HIDE DEF plen, soff, frag
  <2>3. Chunk(b, len) \in Nat /\ Chunk(b, len) <= len
    BY <1>1, ChunkType
  <2> QED BY <2>1, <2>2, <2>3
<1> QED BY <1>3, <1>4, <1>5

LEMMA FaultKeeps ==
    ASSUME IInv, NEW what \in {"oob", "freed_linked"}, Fault(what)
    PROVE  IInv'
  BY DEF IInv, Fault

LEMMA InsertBufferStepKeeps == ASSUME CountSuffices, IInv, InsertBufferStep PROVE IInv'
<1> DEFINE n == InsertLen(call)
           m == PageBytes(heap, call.sit, call.soff, n)
<1>0. In("insert_buffer")
  BY DEF InsertBufferStep
<1>1. /\ call.fn = "insert_buffer" /\ call.pc = "loop" /\ call.len \in Nat
      /\ call.buf \in Buffers /\ Inside(heap, call.it, call.buf)
      /\ HeapOK(heap) /\ heap \in Heap /\ call.soff \in Nat
  BY <1>0, InLoop
<1>2. call.sit # call.src
  BY <1>0, <1>1 DEF In, LoopGoesOn
<1>3. /\ n \in Nat /\ n <= call.len
      /\ ~Strategy[call.buf].clone_on_write => call.soff + n <= NodeLen(heap, call.sit)
  BY <1>1, InsertLenType
<1>4. CASE ~Strategy[call.buf].clone_on_write /\ SharePage(n)
  <2>1. call.soff + n <= NodeLen(heap, call.sit)
    BY <1>3, <1>4
  <2> HIDE DEF n
  <2> QED BY <2>1, <1>1, <1>2, <1>3, <1>4, SharePageKeeps
<1>5. CASE /\ Strategy[call.buf].clone_on_write
           /\ InBounds(heap, call.sit, call.soff, n)
           /\ MakePage(TRUE, m, call.it)
  <2>1. call.sit \in PageIds /\ heap.page[call.sit].data \in DataIds
    BY <1>1, <1>2, AtSourcePage DEF HeapOK, Shown
  <2> HIDE DEF n
  <2>2. m \in Seq(Byte) /\ Len(m) = n
    BY <2>1, <1>1, <1>3, <1>5, PageBytesType
  <2> HIDE DEF m
  <2>3. SourceStep(heap, call, n) /\ call.fn \in Inserting
    BY <1>1, <1>2, <1>5 DEF SourceStep, Inserting
  <2> QED BY <2>2, <2>3, <1>1, <1>3, <1>5, MakePageKeeps
<1>6. CASE Fault("oob")
  BY <1>6, FaultKeeps
<1> QED BY <1>4, <1>5, <1>6 DEF InsertBufferStep

-----------------------------------------------------------------------------
(* The loops that take bytes away.                                         *)

\* A page of a list neither follows nor precedes itself.
LEMMA NoSelfLoop ==
    ASSUME NEW h, HeapOK(h), NEW b \in Buffers, NEW p \in Nodes, Linked(h, p), p # b,
           h.nxt[b] = p \/ h.prv[b] = p, Linked(h, b)
    PROVE  h.prv[p] # p /\ h.nxt[p] # p
<1>1. b \in Nodes
  BY DEF Nodes
<1>2. /\ h.prv[h.nxt[p]] = p /\ h.nxt[h.prv[p]] = p
      /\ h.prv[h.nxt[b]] = b /\ h.nxt[h.prv[b]] = b
  BY <1>1, Neighbours
<1> QED BY <1>2

\* h is g after the first or the last page p of b was destroyed.
Removed(h, g, b, p) ==
    /\ HeapOK(h) /\ AllLinked(h) /\ Inside(h, b, b)
    /\ g.nxt[b] = p => Inside(h, g.nxt[p], b) /\ h.nxt[b] = g.nxt[p]
    /\ g.prv[b] = p => Inside(h, g.prv[p], b) /\ h.prv[b] = g.prv[p]

LEMMA PageRemoved ==
    ASSUME NEW g, HeapOK(g), AllLinked(g), NEW b \in Buffers, NEW p \in LivePages(g), p # b,
           Inside(g, b, b), Inside(g, p, b), g.nxt[b] = p \/ g.prv[b] = p,
           NEW h, h = UnlinkDestroy(g, p)
    PROVE  Removed(h, g, b, p)
<1>1. Linked(g, b) /\ Linked(g, p) /\ b \in Nodes /\ p \in Nodes
  BY DEF Inside
<1>2. g.prv[p] # p /\ g.nxt[p] # p
  BY <1>1, NoSelfLoop
<1>3. /\ Freed(h, g, p)
      /\ g.prv[p] # p => h.nxt[g.prv[p]] = g.nxt[p] /\ h.prv[g.nxt[p]] = g.prv[p]
  BY <1>1, UnlinkDestroyed
<1>4. HeapOK(h) /\ AllLinked(h)
  BY <1>3 DEF Freed, AllLinked, LivePages, Nodes
<1>5. ASSUME NEW y, Inside(g, y, b), y # p PROVE Inside(h, y, b)
  BY <1>3, <1>5, HeapAssumption DEF Freed, Inside, SamePagesBut, Owner, Nodes
<1>6. Inside(h, b, b) /\ Inside(h, g.nxt[p], b) /\ Inside(h, g.prv[p], b)
  BY <1>2, <1>5, InsideNext
<1>7. /\ g.nxt[b] = p => g.prv[p] = b
      /\ g.prv[b] = p => g.nxt[p] = b
  BY <1>1, Neighbours
<1> QED BY <1>2, <1>3, <1>4, <1>6, <1>7 DEF Removed

\* The iteration of a loop that took n bytes and, if the page is empty now, the
\* page too.
Taken(d, c, it, n) ==
    /\ d \in CallType /\ d.fn = c.fn /\ d.buf = c.buf /\ d.it = it
    /\ d.pc \in {"loop", "ret"}

LEMMA TakenOK ==
    ASSUME NEW c \in CallType, c.pc = "loop", NEW it \in Nodes, NEW n \in Nat, n <= c.len,
           NEW e, e = [c EXCEPT !.it = it],
           NEW d, d = IF n = 0 THEN [e EXCEPT !.pc = "ret"] ELSE Progress(e, n)
    PROVE  Taken(d, c, it, n)
<1>1. e \in CallType /\ e.fn = c.fn /\ e.buf = c.buf /\ e.it = it /\ e.pc = "loop" /\ e.len = c.len
  BY DEF CallType
<1>2. CASE n = 0
  BY <1>1, <1>2 DEF Taken, CallType
<1>3. CASE n # 0
  <2> DEFINE k == e.len - n
             m == e.done + n
  <2>1. k \in Nat /\ m \in Nat
    BY <1>1 DEF CallType
  <2>2. d = [e EXCEPT !.len = k, !.done = m]
    BY <1>3 DEF Progress
  <2> HIDE DEF k, m
  <2> QED BY <2>1, <2>2, <1>1 DEF Taken, CallType
<1> QED BY <1>2, <1>3

\* The page at the iterator of seek or trim is cut to a narrower window, and
\* leaves the list if nothing is left of it.
LEMMA CutPageKeeps ==
    ASSUME IInv, NEW fn \in {"seek", "trim"}, In(fn), NEW n \in Nat, n <= call.len,
           NEW g \in Heap, OnlyPage(g, heap, call.it), Narrower(g, heap, call.it),
           g.page[call.it].own = heap.page[call.it].own,
           NEW nx, nx = IF fn = "seek" THEN heap.nxt[call.it] ELSE heap.prv[call.it],
           NEW c, c = IF NodeLen(g, call.it) = 0 THEN [call EXCEPT !.it = nx] ELSE call,
           heap' = IF NodeLen(g, call.it) = 0 THEN UnlinkDestroy(g, call.it) ELSE g,
           call' = IF n = 0 THEN [c EXCEPT !.pc = "ret"] ELSE Progress(c, n),
           size' = [size EXCEPT ![call.buf] = @ - n], UNCHANGED << bumped, fault >>
    PROVE  IInv'
<1> DEFINE p == call.it
           b == call.buf
           empty == NodeLen(g, p) = 0
           it == IF empty THEN nx ELSE p
<1>1. /\ call.fn = fn /\ call.pc = "loop" /\ call \in CallType /\ HeapOK(heap)
      /\ AllLinked(heap) /\ b \in Buffers /\ b \in Nodes
      /\ Inside(heap, b, b) /\ Inside(heap, p, b)
  BY InLoop DEF Nodes
<1>2. /\ p # b
      /\ fn = "seek" => p = heap.nxt[b]
      /\ fn = "trim" => p = heap.prv[b]
  BY <1>1 DEF In, LoopGoesOn, IInv, CallOK, CursorOK
<1>3. /\ p \in LivePages(heap) /\ p \in PageIds /\ p \in Nodes /\ Linked(heap, p)
      /\ Owner(heap, p) = b
  BY <1>1, <1>2, InsideIsPage DEF Inside, Nodes
<1>4. HeapOK(g) /\ LinksKept(g, heap) /\ LivePages(g) = LivePages(heap)
  BY <1>1, <1>3, NarrowedPage
<1>5. g.nxt = heap.nxt /\ g.prv = heap.prv
  BY DEF OnlyPage
<1>6. Inside(g, b, b) /\ Inside(g, p, b) /\ Linked(g, p) /\ p \in LivePages(g)
  BY <1>1, <1>3, <1>4 DEF Inside, LinksKept
<1>7. Inside(g, nx, b)
  BY <1>4, <1>5, <1>6, InsideNext
<1>8. size' \in [Buffers -> Int]
  BY <1>1 DEF IInv
<1>9. Taken(call', call, it, n)
  <2> DEFINE e == [call EXCEPT !.it = it]
  <2>1. it \in Nodes
    BY <1>3, <1>7 DEF Inside
  <2>2. c = e
    <3>1. call = [call EXCEPT !.it = call.it]
      BY <1>1 DEF CallType
    <3> QED BY <3>1
  <2> HIDE DEF it
  <2>3. call' = IF n = 0 THEN [e EXCEPT !.pc = "ret"] ELSE Progress(e, n)
    BY <2>2
  <2> HIDE DEF e
  <2> QED BY <2>1, <2>2, <2>3, <1>1, TakenOK DEF e
<1>10. ASSUME HeapOK(heap'), AllLinked(heap'), Inside(heap', b, b), Inside(heap', it, b),
              fn = "seek" => it = heap'.nxt[b], fn = "trim" => it = heap'.prv[b]
       PROVE  IInv'
  <2> DEFINE d == call'
             h == heap'
  <2>1. /\ d \in CallType /\ d.fn = fn /\ d.buf = b /\ d.it = it
        /\ d.pc \in {"loop", "ret"}
    BY <1>1, <1>9 DEF Taken
  <2> HIDE DEF d, h
  <2>2. SourceOK(h, d) /\ OffsetOK(h, d) /\ BytesLeftOK(d)
    BY <2>1 DEF SourceOK, OffsetOK, BytesLeftOK
  <2>3. CursorOK(h, d)
    <3>1. /\ fn = "seek" => it = h.nxt[b]
          /\ fn = "trim" => it = h.prv[b]
      BY <1>10 DEF h
    <3> HIDE DEF it, b
    <3> QED BY <2>1, <3>1 DEF CursorOK
  <2>4. Inside(h, b, b) /\ Inside(h, it, b)
    BY <1>10 DEF h
  <2> HIDE DEF it
  <2>5. CallOK(h, d)
    BY <2>1, <2>2, <2>3, <2>4, <1>1 DEF CallOK
  <2> USE DEF d, h
  <2> QED BY <2>1, <2>5, <1>8, <1>10 DEF IInv
<1>11. CASE ~empty
  <2>1. heap' = g /\ it = p
    BY <1>11
  <2>2. AllLinked(g)
    BY <1>1, <1>4, <1>5 DEF AllLinked, Linked
  <2> QED BY <2>1, <2>2, <1>2, <1>4, <1>5, <1>6, <1>10
<1>12. CASE empty
  <2> DEFINE h == UnlinkDestroy(g, p)
  <2>1. heap' = h /\ it = nx
    BY <1>12
  <2>2. AllLinked(g)
    BY <1>1, <1>4, <1>5 DEF AllLinked, Linked
  <2>3. /\ fn = "seek" => g.nxt[b] = p /\ nx = g.nxt[p]
        /\ fn = "trim" => g.prv[b] = p /\ nx = g.prv[p]
    BY <1>2, <1>5
  <2> HIDE DEF b, p
  <2>4. Removed(h, g, b, p)
    BY <2>2, <2>3, <1>1, <1>2, <1>4, <1>6, PageRemoved
  <2> HIDE DEF h
  <2> QED BY <2>1, <2>3, <2>4, <1>10 DEF Removed
<1> QED BY <1>11, <1>12

\* The page record without n bytes at one of its ends.
LEMMA CutFrontOK ==
    ASSUME NEW r \in PageRec, NEW n \in Nat, n <= r.len, NEW c, c = CutFront(r, n)
    PROVE  PageIs(c, r.live, r.data, r.base + n, r.len - n, r.own) /\ c \in PageRec
<1> DEFINE k == r.base + n
           l == r.len - n
<1>1. k \in Nat /\ l \in Nat
  BY DEF PageRec
<1>2. c = [r EXCEPT !.base = k, !.len = l]
  BY DEF CutFront
<1> HIDE DEF k, l
<1>3. PageIs(c, r.live, r.data, k, l, r.own) /\ c \in PageRec
  BY <1>1, <1>2 DEF PageIs, PageRec
<1> QED BY <1>3 DEF k, l

\* g is h but for a narrower window of p.
PageCut(g, h, p) ==
    /\ g \in Heap /\ OnlyPage(g, h, p)
    /\ Narrower(g, h, p) /\ g.page[p].own = h.page[p].own

LEMMA PageCutForm ==
    ASSUME NEW h \in Heap, NEW p \in PageIds, NEW n \in Nat, n <= h.page[p].len,
           NEW base, base \in {h.page[p].base, h.page[p].base + n},
           NEW w \in PageRec,
           PageIs(w, h.page[p].live, h.page[p].data, base, h.page[p].len - n, h.page[p].own),
           NEW g, g = [h EXCEPT !.page[p] = w]
    PROVE  PageCut(g, h, p)
<1>1. g \in Heap /\ g.page[p] = w /\ OnlyPage(g, h, p)
  BY DEF Heap, OnlyPage
<1>2. h.page[p].base \in Nat /\ h.page[p].len \in Nat
  BY DEF Heap, PageRec
<1>3. base + (h.page[p].len - n) <= h.page[p].base + h.page[p].len
  BY <1>2
<1>4. w.base + w.len <= h.page[p].base + h.page[p].len
  BY <1>3 DEF PageIs
<1>5. Narrower(g, h, p) /\ g.page[p].own = h.page[p].own
  BY <1>1, <1>4 DEF Narrower, PageIs
<1> QED BY <1>1, <1>5 DEF PageCut

LEMMA SeekStepKeeps == ASSUME IInv, SeekStep PROVE IInv'
<1> DEFINE p == call.it
           n == Lower(NodeLen(heap, p), call.len)
           r == heap.page[p]
           w == CutFront(r, n)
           g == DropFront(heap, p, n)
           c == IF NodeLen(g, p) = 0 THEN [call EXCEPT !.it = heap.nxt[p]] ELSE call
<1>1. In("seek")
  BY DEF SeekStep
<1>2. /\ call.fn = "seek" /\ call.len \in Nat /\ HeapOK(heap) /\ heap \in Heap
      /\ call.buf \in Buffers /\ Inside(heap, p, call.buf)
  BY <1>1, InLoop
<1>3. p \in PageIds /\ NodeLen(heap, p) = r.len
  BY <1>1, <1>2, InsideIsPage DEF In, LoopGoesOn
<1>4. n \in Nat /\ n <= r.len /\ n <= call.len /\ r \in PageRec
  BY <1>2, <1>3, LowerType, NodeLenType DEF Heap
<1>5. /\ heap' = IF NodeLen(g, p) = 0 THEN UnlinkDestroy(g, p) ELSE g
      /\ call' = IF n = 0 THEN [c EXCEPT !.pc = "ret"] ELSE Progress(c, n)
      /\ size' = [size EXCEPT ![call.buf] = @ - n]
      /\ UNCHANGED << bumped, fault >>
  BY DEF SeekStep
<1>6. PageCut(g, heap, p)
  <2>1. g = [heap EXCEPT !.page[p] = w]
    BY DEF DropFront
  <2>2. PageIs(w, r.live, r.data, r.base + n, r.len - n, r.own) /\ w \in PageRec
    <3> HIDE DEF n, r
    <3> QED BY <1>4, CutFrontOK
  <2> HIDE DEF w, g, n
  <2> QED BY <2>1, <2>2, <1>2, <1>3, <1>4, PageCutForm
<1> DEFINE nx == IF "seek" = "seek" THEN heap.nxt[p] ELSE heap.prv[p]
<1>7. c = IF NodeLen(g, p) = 0 THEN [call EXCEPT !.it = nx] ELSE call
  OBVIOUS
<1> HIDE DEF c, g, n, nx
<1> QED BY <1>1, <1>4, <1>5, <1>6, <1>7, CutPageKeeps DEF nx, PageCut

LEMMA DropBackOK ==
    ASSUME NEW r \in PageRec, NEW n \in Nat, n <= r.len, NEW c, c = [r EXCEPT !.len = r.len - n]
    PROVE  PageIs(c, r.live, r.data, r.base, r.len - n, r.own) /\ c \in PageRec
<1> DEFINE l == r.len - n
<1>1. l \in Nat
  BY DEF PageRec
<1>2. c = [r EXCEPT !.len = l]
  OBVIOUS
<1> HIDE DEF l
<1>3. PageIs(c, r.live, r.data, r.base, l, r.own) /\ c \in PageRec
  BY <1>1, <1>2 DEF PageIs, PageRec
<1> QED BY <1>3 DEF l

LEMMA TrimStepKeeps == ASSUME IInv, TrimStep PROVE IInv'
<1> DEFINE p == call.it
           n == Lower(NodeLen(heap, p), call.len)
           r == heap.page[p]
           w == [r EXCEPT !.len = r.len - n]
           g == DropBack(heap, p, n)
           c == IF NodeLen(g, p) = 0 THEN [call EXCEPT !.it = heap.prv[p]] ELSE call
<1>1. In("trim")
  BY DEF TrimStep
<1>2. /\ call.fn = "trim" /\ call.len \in Nat /\ HeapOK(heap) /\ heap \in Heap
      /\ call.buf \in Buffers /\ Inside(heap, p, call.buf)
  BY <1>1, InLoop
<1>3. p \in PageIds /\ NodeLen(heap, p) = r.len
  BY <1>1, <1>2, InsideIsPage DEF In, LoopGoesOn
<1>4. n \in Nat /\ n <= r.len /\ n <= call.len /\ r \in PageRec
  BY <1>2, <1>3, LowerType, NodeLenType DEF Heap
<1>5. /\ heap' = IF NodeLen(g, p) = 0 THEN UnlinkDestroy(g, p) ELSE g
      /\ call' = IF n = 0 THEN [c EXCEPT !.pc = "ret"] ELSE Progress(c, n)
      /\ size' = [size EXCEPT ![call.buf] = @ - n]
      /\ UNCHANGED << bumped, fault >>
  BY DEF TrimStep
<1>6. PageCut(g, heap, p)
  <2>1. g = [heap EXCEPT !.page[p] = w]
    BY <1>2, <1>3 DEF DropBack, Heap
  <2>2. PageIs(w, r.live, r.data, r.base, r.len - n, r.own) /\ w \in PageRec
    <3> HIDE DEF n, r
    <3> QED BY <1>4, DropBackOK
  <2> HIDE DEF w, g, n
  <2> QED BY <2>1, <2>2, <1>2, <1>3, <1>4, PageCutForm
<1> DEFINE nx == IF "trim" = "seek" THEN heap.nxt[p] ELSE heap.prv[p]
<1>7. c = IF NodeLen(g, p) = 0 THEN [call EXCEPT !.it = nx] ELSE call
  OBVIOUS
<1> HIDE DEF c, g, n, nx
<1> QED BY <1>1, <1>4, <1>5, <1>6, <1>7, CutPageKeeps DEF nx, PageCut

LEMMA ClearStepKeeps == ASSUME IInv, ClearStep PROVE IInv'
<1> DEFINE p == call.it
           b == call.buf
           h == UnlinkDestroy(heap, p)
           nx == heap.nxt[p]
           c == [call EXCEPT !.it = nx]
<1>1. PICK fn \in {"clear", "destroy"} : In(fn)
  BY DEF ClearStep
<1>2. /\ call.fn = fn /\ call.pc = "loop" /\ call \in CallType /\ HeapOK(heap)
      /\ AllLinked(heap) /\ b \in Buffers /\ Inside(heap, b, b) /\ Inside(heap, p, b)
  BY <1>1, InLoop
<1>3. p # b /\ p = heap.nxt[b]
  BY <1>1, <1>2 DEF In, LoopGoesOn, IInv, CallOK, CursorOK
<1>4. p \in LivePages(heap)
  BY <1>2, <1>3, InsideIsPage
<1>5. Removed(h, heap, b, p)
  BY <1>2, <1>3, <1>4, PageRemoved
<1>6. heap' = h /\ call' = c /\ UNCHANGED << size, bumped, fault >>
  BY DEF ClearStep
<1> HIDE DEF h, nx
<1>7. HeapOK(h) /\ AllLinked(h) /\ Inside(h, b, b) /\ Inside(h, nx, b) /\ h.nxt[b] = nx
  BY <1>3, <1>5 DEF Removed, nx
<1>8. /\ c \in CallType /\ c.fn = fn /\ c.buf = b /\ c.it = nx /\ c.pc = "loop"
  BY <1>2, <1>7 DEF CallType, Inside
<1> HIDE DEF c, b
<1>9. SourceOK(h, c) /\ OffsetOK(h, c) /\ BytesLeftOK(c)
  BY <1>8 DEF SourceOK, OffsetOK, BytesLeftOK
<1>10. CursorOK(h, c)
  BY <1>7, <1>8 DEF CursorOK
<1>11. CallOK(h, c)
  BY <1>2, <1>7, <1>8, <1>9, <1>10 DEF CallOK
<1> QED BY <1>6, <1>7, <1>8, <1>11 DEF IInv

-----------------------------------------------------------------------------
(* The loops that write and read bytes.                                    *)

\* d is c with its iterator at it, as far as a loop without a source cares.
MovedTo(d, c, it) == d \in CallType /\ d.fn = c.fn /\ d.buf = c.buf /\ d.it = it

LEMMA ReadOn ==
    ASSUME NEW c \in CallType, NEW k \in Nat, NEW m \in Nat, NEW s \in Seq(Byte),
           NEW it \in Nodes,
           NEW d, d = [c EXCEPT !.len = k, !.done = m, !.dat = s, !.it = it]
    PROVE  MovedTo(d, c, it)
<1>1. d \in CallType
  BY DEF CallType
<1>2. d.fn = c.fn /\ d.buf = c.buf
  BY DEF CallType
<1>3. d.it = it
  BY DEF CallType
<1> QED BY <1>1, <1>2, <1>3 DEF MovedTo

LEMMA ReadDataStepKeeps == ASSUME IInv, ReadDataStep PROVE IInv'
<1> DEFINE p == call.it
           b == call.buf
           n == Lower(NodeLen(heap, p), call.len)
           e == Progress(call, n)
           s == e.dat \o PageBytes(heap, p, 0, n)
           nx == heap.nxt[p]
           c == [e EXCEPT !.dat = s, !.it = nx]
<1>1. In("read_data")
  BY DEF ReadDataStep
<1>2. /\ call.fn = "read_data" /\ call.pc = "loop" /\ call \in CallType /\ HeapOK(heap)
      /\ b \in Buffers /\ Inside(heap, b, b) /\ Inside(heap, p, b) /\ heap \in Heap
      /\ call.len \in Nat /\ call.done \in Nat /\ call.dat \in Seq(Byte)
  BY <1>1, InLoop
<1>3. p \in LivePages(heap) /\ p \in PageIds /\ NodeLen(heap, p) = heap.page[p].len
  BY <1>1, <1>2, InsideIsPage DEF In, LoopGoesOn
<1>4. n \in Nat /\ n <= NodeLen(heap, p) /\ n <= call.len
  BY <1>2, LowerType, NodeLenType
<1>5. heap.page[p].data \in DataIds /\ InBounds(heap, p, 0, n)
  <2>1. heap.page[p].data \in DataIds /\ InBounds(heap, p, 0, heap.page[p].len)
    BY <1>2, <1>3 DEF HeapOK, Shown
  <2>2. /\ heap.page[p].base \in Nat /\ heap.page[p].len \in Nat
        /\ Len(heap.reg[heap.page[p].data].mem) \in Nat
    BY <2>1, <1>2, <1>3 DEF Heap, PageRec, Region
  <2> DEFINE base == heap.page[p].base
             len == heap.page[p].len
             top == Len(heap.reg[heap.page[p].data].mem)
  <2>3. base + 0 + len <= top
    BY <2>1 DEF InBounds
  <2>4. base \in Nat /\ len \in Nat /\ top \in Nat /\ n \in Nat /\ n <= len
    BY <2>2, <1>3, <1>4
  <2>5. base + 0 + n <= top
    <3> HIDE DEF base, len, top, n
    <3> QED BY <2>3, <2>4
  <2> QED BY <2>1, <2>5 DEF InBounds
<1>6. s \in Seq(Byte)
  <2> HIDE DEF n
  <2>1. PageBytes(heap, p, 0, n) \in Seq(Byte)
    BY <1>2, <1>3, <1>4, <1>5, PageBytesType
  <2>2. e.dat = call.dat
    BY <1>2 DEF Progress, CallType
  <2> QED BY <2>1, <2>2, <1>2
<1>7. Inside(heap, nx, b) /\ nx \in Nodes
  BY <1>2, InsideNext DEF Inside
<1>8. MovedTo(c, call, nx)
  <2> DEFINE k == call.len - n
             m == call.done + n
  <2>1. k \in Nat /\ m \in Nat
    BY <1>2, <1>4
  <2> HIDE DEF s, nx, n
  <2>2. c = [call EXCEPT !.len = k, !.done = m, !.dat = s, !.it = nx]
    BY DEF Progress
  <2> HIDE DEF k, m, c
  <2> QED BY <2>1, <2>2, <1>2, <1>6, <1>7, ReadOn
<1>9. call' = c /\ UNCHANGED << heap, size, bumped, fault >>
  BY DEF ReadDataStep
<1> HIDE DEF c, nx
<1>10. c \in CallType /\ c.fn = "read_data" /\ c.buf = b /\ c.it = nx
  BY <1>2, <1>8 DEF MovedTo
<1>11. SourceOK(heap, c) /\ OffsetOK(heap, c) /\ BytesLeftOK(c) /\ CursorOK(heap, c)
  BY <1>10 DEF SourceOK, OffsetOK, BytesLeftOK, CursorOK
<1>12. CallOK(heap, c)
  BY <1>2, <1>7, <1>10, <1>11 DEF CallOK
<1> QED BY <1>9, <1>10, <1>12 DEF IInv

\* g is h but for what the pages show and where they show it.
Patched(g, h) ==
    /\ HeapOK(g) /\ AllLinked(g)
    /\ g.nxt = h.nxt /\ g.prv = h.prv
    /\ \A q \in PageIds : /\ g.page[q].live <=> h.page[q].live
                          /\ g.page[q].own = h.page[q].own
                          /\ g.page[q].len = h.page[q].len

LEMMA PatchedInside ==
    ASSUME NEW h, NEW g, Patched(g, h), NEW n, NEW b, Inside(h, n, b)
    PROVE  Inside(g, n, b)
  BY DEF Patched, Inside, Owner, Linked

LEMMA WritableOK ==
    ASSUME IInv, NEW p \in LivePages(heap), CanWrite(p)
    PROVE  Duplicated(Writable(p), heap, p)
<1> DEFINE e == AnyOf(FreeData(heap))
           g == DupPageData(heap, p, e)
<1>1. HeapOK(heap)
  BY DEF IInv
<1>2. CASE MustDup(p)
  <2>1. e \in FreeData(heap)
    BY <1>2, SomeOf DEF CanWrite
  <2>2. Writable(p) = g
    BY <1>2 DEF Writable
  <2> HIDE DEF e
  <2>3. Duplicated(g, heap, p)
    BY <1>1, <2>1, DupPageDataOK
  <2> QED BY <2>2, <2>3
<1>3. CASE ~MustDup(p)
  BY <1>1, <1>3 DEF Writable, Duplicated, SamePagesBut, LivePages
<1> QED BY <1>2, <1>3

LEMMA WrittenOK ==
    ASSUME IInv, NEW p \in LivePages(heap), NEW h, Duplicated(h, heap, p),
           NEW off \in Nat, NEW s \in Seq(Byte), NEW g, g = PageWrite(h, p, off, s)
    PROVE  Patched(g, heap)
<1>1. HeapOK(h) /\ p \in LivePages(h)
  BY DEF Duplicated, LivePages
<1>2. Rewritten(g, h)
  BY <1>1, PageWriteOK
<1>3. HeapOK(g) /\ g.nxt = heap.nxt /\ g.prv = heap.prv /\ g.page = h.page
  BY <1>2 DEF Rewritten, Duplicated
<1>4. ASSUME NEW q \in PageIds
      PROVE  /\ g.page[q].live <=> heap.page[q].live
             /\ g.page[q].own = heap.page[q].own
             /\ g.page[q].len = heap.page[q].len
  <2>1. CASE q = p
    BY <2>1, <1>3 DEF Duplicated, LivePages
  <2>2. CASE q # p
    BY <2>2, <1>3 DEF Duplicated, SamePagesBut
  <2> QED BY <2>1, <2>2
<1>5. AllLinked(g)
  BY <1>3, <1>4 DEF IInv, AllLinked, LivePages, Linked
<1> QED BY <1>3, <1>4, <1>5 DEF Patched

LEMMA OverwriteDataStepKeeps == ASSUME IInv, OverwriteDataStep PROVE IInv'
<1> DEFINE p == call.it
           b == call.buf
           h == Writable(p)
           n == Lower(NodeLen(h, p), call.len)
           s == FromCaller(n)
           g == PageWrite(h, p, 0, s)
           nx == h.nxt[p]
           r == [call EXCEPT !.pc = "ret"]
           e == Progress(call, n)
           c == [e EXCEPT !.it = nx]
<1>1. In("overwrite_data")
  BY DEF OverwriteDataStep
<1>2. /\ call.fn = "overwrite_data" /\ call.pc = "loop" /\ call \in CallType
      /\ HeapOK(heap) /\ AllLinked(heap) /\ b \in Buffers
      /\ Inside(heap, b, b) /\ Inside(heap, p, b)
      /\ call.len \in Nat /\ call.done \in Nat /\ call.dat \in Seq(Byte)
  BY <1>1, InLoop
<1>3. CASE LeaveLoop
  BY <1>2, <1>3, LeaveLoopKeeps
<1>4. CASE /\ CanWrite(p) /\ heap' = g
           /\ call' = IF n = 0 THEN r ELSE c
           /\ UNCHANGED << size, bumped, fault >>
  <2>1. p \in LivePages(heap)
    BY <1>1, <1>2, InsideIsPage DEF In, LoopGoesOn
  <2>2. Duplicated(h, heap, p)
    BY <2>1, <1>4, WritableOK
  <2> HIDE DEF h
  <2>3. HeapOK(h) /\ h.nxt = heap.nxt
    BY <2>2 DEF Duplicated
  <2>4. n \in Nat /\ n <= call.len
    BY <2>3, <1>2, LowerType, NodeLenType
  <2>5. s \in Seq(Byte)
    <3> HIDE DEF n
    <3> QED BY <2>4, <1>2, FromCallerType
  <2> HIDE DEF s
  <2>6. Patched(g, heap)
    BY <2>1, <2>2, <2>5, WrittenOK
  <2>7. Inside(heap, nx, b) /\ nx \in Nodes
    BY <2>3, <1>2, InsideNext DEF Inside
  <2> HIDE DEF g, nx, n
  <2>8. Inside(g, b, b) /\ Inside(g, p, b) /\ Inside(g, nx, b)
    BY <2>6, <2>7, <1>2, PatchedInside
  <2>9. r \in CallType /\ CallOK(heap, r) /\ r.it = p
    BY <1>2, ReturnsOK DEF IInv, CallType
  <2>10. r.fn = "overwrite_data" /\ r.buf = b
    BY <1>2 DEF CallType
  <2>11. r.pc = "ret"
    BY <1>2 DEF CallType
  <2>12. CallOK(g, r)
    <3> HIDE DEF r
    <3>1. BytesLeftOK(r)
      BY <2>9, <2>11 DEF CallOK
    <3>2. SourceOK(g, r) /\ OffsetOK(g, r) /\ CursorOK(g, r)
      BY <2>10, <2>11 DEF SourceOK, OffsetOK, CursorOK
    <3> QED BY <3>1, <3>2, <2>8, <2>9, <2>10, <1>2 DEF CallOK
  <2>13. /\ c \in CallType /\ c.fn = "overwrite_data" /\ c.buf = b /\ c.it = nx
         /\ c.len + c.done = Len(c.dat)
    <3> DEFINE k == call.len - n
               m == call.done + n
    <3>1. k \in Nat /\ m \in Nat /\ k + m = call.len + call.done
      BY <1>2, <2>4
    <3>2. c = [call EXCEPT !.len = k, !.done = m, !.it = nx]
      BY DEF Progress
    <3>3. call.len + call.done = Len(call.dat)
      BY <1>2 DEF IInv, CallOK, BytesLeftOK
    <3> HIDE DEF k, m, c
    <3>4. c \in CallType /\ c.fn = "overwrite_data" /\ c.buf = b /\ c.it = nx
      BY <3>1, <3>2, <2>7, <1>2 DEF CallType
    <3>5. c.len = k /\ c.done = m /\ c.dat = call.dat
      BY <3>2, <1>2 DEF CallType
    <3> QED BY <3>1, <3>3, <3>4, <3>5
  <2>14. CallOK(g, c)
    <3> HIDE DEF c
    <3>1. SourceOK(g, c) /\ OffsetOK(g, c) /\ CursorOK(g, c) /\ BytesLeftOK(c)
      BY <2>13 DEF SourceOK, OffsetOK, CursorOK, BytesLeftOK
    <3> QED BY <3>1, <2>8, <2>13, <1>2 DEF CallOK
  <2> HIDE DEF r, c
  <2> QED BY <2>6, <2>9, <2>12, <2>13, <2>14, <1>4 DEF IInv, Patched
<1> QED BY <1>3, <1>4 DEF OverwriteDataStep

\* The iterators after an iteration of overwrite_buffer.
LEMMA AfterOverwriteType ==
    ASSUME NEW c \in CallType, NEW h, NEW n \in Nat, n <= c.len,
           h.nxt[c.it] \in Nodes, h.nxt[c.sit] \in Nodes, NEW d, d = AfterOverwrite(c, h, n)
    PROVE  /\ d \in CallType /\ d.fn = c.fn /\ d.buf = c.buf /\ d.src = c.src
           /\ d.it \in {c.it, h.nxt[c.it]} /\ d.sit \in {c.sit, h.nxt[c.sit]}
<1> DEFINE to == c.off + n
           so == c.soff + n
           nx == h.nxt[c.it]
           sx == h.nxt[c.sit]
           d1 == IF to = NodeLen(h, c.it) THEN [c EXCEPT !.it = nx, !.off = 0]
                 ELSE [c EXCEPT !.off = to]
           d2 == IF so = NodeLen(h, c.sit) THEN [d1 EXCEPT !.sit = sx, !.soff = 0]
                 ELSE [d1 EXCEPT !.soff = so]
           k == d2.len - n
           m == d2.done + n
<1>1. /\ to \in Nat /\ so \in Nat /\ nx \in Nodes /\ sx \in Nodes
      /\ c.len - n \in Nat /\ c.done + n \in Nat
  BY DEF CallType
<1>2. d = Progress(d2, n)
  <2>1. /\ c.off + n = to /\ c.soff + n = so
    OBVIOUS
  <2>2. d1 = IF c.off + n = NodeLen(h, c.it) THEN [c EXCEPT !.it = h.nxt[@], !.off = 0]
             ELSE [c EXCEPT !.off = @ + n]
    OBVIOUS
  <2>3. d1.soff = c.soff /\ d1.sit = c.sit
    BY DEF CallType
  <2> QED BY <2>3 DEF AfterOverwrite
<1> HIDE DEF to, so, nx, sx
<1>3. /\ d1 \in CallType /\ d1.fn = c.fn /\ d1.buf = c.buf /\ d1.src = c.src
      /\ d1.it \in {c.it, nx} /\ d1.sit = c.sit /\ d1.len = c.len /\ d1.done = c.done
  BY <1>1 DEF CallType
<1> HIDE DEF d1
<1>4. /\ d2 \in CallType /\ d2.fn = c.fn /\ d2.buf = c.buf /\ d2.src = c.src
      /\ d2.it \in {c.it, nx} /\ d2.sit \in {c.sit, sx} /\ d2.len = c.len /\ d2.done = c.done
  BY <1>1, <1>3 DEF CallType
<1> HIDE DEF d2
<1>5. d = [d2 EXCEPT !.len = k, !.done = m] /\ k \in Nat /\ m \in Nat
  BY <1>1, <1>2, <1>4 DEF Progress
<1> HIDE DEF k, m
<1>6. /\ d \in CallType /\ d.fn = c.fn /\ d.buf = c.buf /\ d.src = c.src
      /\ d.it \in {c.it, nx} /\ d.sit \in {c.sit, sx}
  BY <1>4, <1>5 DEF CallType
<1> QED BY <1>6 DEF nx, sx

LEMMA OverwriteBufferStepKeeps == ASSUME IInv, OverwriteBufferStep PROVE IInv'
<1> DEFINE p == call.it
           b == call.buf
           src == call.src
           h == Writable(p)
           n == Lower(Lower(NodeLen(h, p), call.len), NodeLen(h, call.sit))
           s == PageBytes(h, call.sit, call.soff, n)
           g == PageWrite(h, p, call.off, s)
           r == [call EXCEPT !.pc = "ret"]
           c == AfterOverwrite(call, h, n)
<1>1. In("overwrite_buffer")
  BY DEF OverwriteBufferStep
<1>2. /\ call.fn = "overwrite_buffer" /\ call.pc = "loop" /\ call \in CallType
      /\ HeapOK(heap) /\ AllLinked(heap) /\ b \in Buffers
      /\ Inside(heap, b, b) /\ Inside(heap, p, b)
      /\ call.len \in Nat /\ call.off \in Nat /\ call.soff \in Nat
  BY <1>1, InLoop
<1>3. CASE LeaveLoop
  BY <1>2, <1>3, LeaveLoopKeeps
<1>4. CASE Fault("oob")
  BY <1>4, FaultKeeps
<1>5. CASE /\ CanWrite(p) /\ InBounds(h, call.sit, call.soff, n)
           /\ heap' = g
           /\ call' = IF n = 0 THEN r ELSE c
           /\ UNCHANGED << size, bumped, fault >>
  <2>1. p \in LivePages(heap)
    BY <1>1, <1>2, InsideIsPage DEF In, LoopGoesOn
  <2>2. /\ call.sit \in LivePages(heap) /\ call.sit \in PageIds
        /\ src \in Buffers /\ src # b /\ Inside(heap, call.sit, src)
    <3>1. call.sit # src
      BY <1>1, <1>2 DEF In, LoopGoesOn
    <3>2. Inside(heap, call.sit, src)
      BY <1>2 DEF IInv, CallOK, SourceOK
    <3> QED BY <3>1, <3>2, <1>2, AtSourcePage
  <2>3. Duplicated(h, heap, p)
    BY <2>1, <1>5, WritableOK
  <2> HIDE DEF h
  <2>4. HeapOK(h) /\ h \in Heap /\ h.nxt = heap.nxt /\ h.page[call.sit].live
    BY <2>2, <2>3 DEF Duplicated, HeapOK, SamePagesBut, LivePages
  <2>5. n \in Nat /\ n <= call.len
    <3> DEFINE l == Lower(NodeLen(h, p), call.len)
    <3>1. l \in Nat /\ l <= call.len
      BY <2>4, <1>2, LowerType, NodeLenType
    <3>2. NodeLen(h, call.sit) \in Nat
      BY <2>4, NodeLenType
    <3> HIDE DEF l
    <3>3. Lower(l, NodeLen(h, call.sit)) \in Nat /\ Lower(l, NodeLen(h, call.sit)) <= l
      BY <3>1, <3>2, LowerType
    <3> QED BY <3>1, <3>3, <1>2 DEF l
  <2>6. s \in Seq(Byte)
    <3>1. h.page[call.sit].data \in DataIds
      BY <2>2, <2>4 DEF HeapOK, Shown, LivePages
    <3> HIDE DEF n
    <3> QED BY <3>1, <2>2, <2>4, <2>5, <1>2, <1>5, PageBytesType
  <2> HIDE DEF s
  <2>7. Patched(g, heap)
    BY <2>1, <2>3, <2>6, <1>2, WrittenOK
  <2> HIDE DEF g, n
  <2>8. /\ Inside(heap, h.nxt[p], b) /\ Inside(heap, h.nxt[call.sit], src)
        /\ h.nxt[p] \in Nodes /\ h.nxt[call.sit] \in Nodes
    BY <2>2, <2>4, <1>2, InsideNext DEF Inside
  <2>9. /\ Inside(g, b, b) /\ Inside(g, p, b) /\ Inside(g, h.nxt[p], b)
        /\ Inside(g, call.sit, src) /\ Inside(g, h.nxt[call.sit], src)
    BY <2>2, <2>7, <2>8, <1>2, PatchedInside
  <2>10. /\ r \in CallType /\ r.fn = "overwrite_buffer" /\ r.buf = b /\ r.src = src
         /\ r.it = p /\ r.sit = call.sit
    BY <1>2 DEF CallType
  <2>11. /\ c \in CallType /\ c.fn = "overwrite_buffer" /\ c.buf = b /\ c.src = src
         /\ c.it \in {p, h.nxt[p]} /\ c.sit \in {call.sit, h.nxt[call.sit]}
    <3> HIDE DEF c
    <3> QED BY <2>5, <2>8, <1>2, AfterOverwriteType DEF c
  <2>12. ASSUME NEW d \in CallType, d.fn = "overwrite_buffer", d.buf = b, d.src = src,
                Inside(g, d.it, b), Inside(g, d.sit, src)
         PROVE  CallOK(g, d)
    <3>1. SourceOK(g, d) /\ OffsetOK(g, d) /\ BytesLeftOK(d) /\ CursorOK(g, d)
      BY <2>2, <2>12 DEF SourceOK, OffsetOK, BytesLeftOK, CursorOK
    <3> QED BY <3>1, <2>9, <2>12, <1>2 DEF CallOK
  <2> HIDE DEF r, c
  <2>13. CallOK(g, r) /\ CallOK(g, c)
    <3>1. CallOK(g, r)
      BY <2>9, <2>10, <2>12
    <3>2. Inside(g, c.it, b) /\ Inside(g, c.sit, src)
      BY <2>9, <2>11
    <3>3. CallOK(g, c)
      BY <3>2, <2>11, <2>12
    <3> QED BY <3>1, <3>3
  <2> QED BY <2>7, <2>10, <2>11, <2>13, <1>5 DEF IInv, Patched
<1> QED BY <1>3, <1>4, <1>5 DEF OverwriteBufferStep

-----------------------------------------------------------------------------
(* Returning to the client.                                                *)

LEMMA ReturnKeeps == ASSUME IInv, Return PROVE IInv'
<1> DEFINE b == call.buf
           g == BufferFree(heap, b)
<1>1. /\ call.pc \in {"loop", "ret"} /\ call' = Idle /\ UNCHANGED << size, fault >>
      /\ heap' = IF call.fn = "destroy" THEN g ELSE heap
  BY DEF Return
<1>2. /\ HeapOK(heap) /\ AllLinked(heap) /\ CallOK(heap, call)
      /\ b \in Buffers
  BY <1>1 DEF IInv, CallOK
<1>3. bumped' \subseteq Buffers
  BY <1>2 DEF Return, IInv
<1>4. call' \in CallType /\ \A h : CallOK(h, call')
  BY <1>1, IdleOK
<1>5. CASE call.fn # "destroy"
  BY <1>1, <1>2, <1>3, <1>4, <1>5 DEF IInv
<1>6. CASE call.fn = "destroy"
  <2>1. heap.nxt[b] = b
    <3>1. call.it = heap.nxt[b] /\ call.pc # "ret"
      BY <1>1, <1>2, <1>6 DEF CallOK, CursorOK
    <3>2. ~LoopGoesOn(call)
      BY <3>1 DEF Return
    <3> QED BY <3>1, <3>2, <1>6 DEF LoopGoesOn
  <2>2. Reanchored(g, heap, b)
    BY <2>1, <1>2, BufferFreeOK
  <2> HIDE DEF g
  <2>3. HeapOK(g) /\ AllLinked(g)
    BY <2>2, <1>2, HeapAssumption DEF AllLinked, Reanchored, LivePages, Linked, Nodes
  <2> QED BY <2>3, <1>1, <1>3, <1>4, <1>6 DEF IInv
<1> QED BY <1>5, <1>6

-----------------------------------------------------------------------------
LEMMA ClientKeeps == ASSUME NoSelfSource, IInv, Client PROVE IInv'
<1>1. PICK b \in Buffers :
         \/ Create(b)
         \/ \E n \in 1..MaxLen :
               \/ Extend(b, n) \/ Reserve(b, n) \/ Rewind(b, n)
               \/ Seek(b, n) \/ Trim(b, n) \/ ReadData(b, n)
               \/ \E src \in Buffers :
                     \/ WriteBuffer(b, src, n)
                     \/ OverwriteBuffer(b, src, n)
                     \/ \E x \in PageIds \cup {b}, off \in 0..MaxSize :
                           InsertBuffer(b, x, off, src, n)
         \/ \E s \in Inputs :
               \/ OverwriteData(b, s)
               \/ \E fn \in {"write_data", "write_data_ref"} : WriteData(b, fn, s)
               \/ \E x \in PageIds \cup {b}, off \in 0..MaxSize,
                     fn \in {"insert_data", "insert_data_ref"} :
                     InsertData(b, x, off, fn, s)
         \/ \E fn \in {"clear", "destroy"} : Clear(b, fn)
  BY DEF Client
<1>2. 1..MaxLen \subseteq Nat /\ 0..MaxSize \subseteq Nat
  BY ClientAssumption
<1>3. CASE Create(b)
  BY <1>3, CreateKeeps
<1>4. ASSUME NEW n \in 1..MaxLen,
             \/ Extend(b, n) \/ Reserve(b, n) \/ Rewind(b, n)
             \/ Seek(b, n) \/ Trim(b, n) \/ ReadData(b, n)
      PROVE  IInv'
  BY <1>2, <1>4, ExtendKeeps, ReserveKeeps, RewindKeeps, SeekKeeps, TrimKeeps, ReadDataKeeps
<1>5. ASSUME NEW n \in 1..MaxLen, NEW src \in Buffers,
             WriteBuffer(b, src, n) \/ OverwriteBuffer(b, src, n)
      PROVE  IInv'
  BY <1>2, <1>5, WriteBufferKeeps, OverwriteBufferKeeps
<1>6. ASSUME NEW n \in 1..MaxLen, NEW src \in Buffers, NEW x \in PageIds \cup {b},
             NEW off \in 0..MaxSize, InsertBuffer(b, x, off, src, n)
      PROVE  IInv'
  BY <1>2, <1>6, InsertBufferKeeps
<1>7. ASSUME NEW s \in Inputs, OverwriteData(b, s) PROVE IInv'
  BY <1>7, OverwriteDataKeeps
<1>8. ASSUME NEW s \in Inputs, NEW fn \in {"write_data", "write_data_ref"}, WriteData(b, fn, s)
      PROVE  IInv'
  BY <1>8, WriteDataKeeps
<1>9. ASSUME NEW s \in Inputs, NEW x \in PageIds \cup {b}, NEW off \in 0..MaxSize,
             NEW fn \in {"insert_data", "insert_data_ref"}, InsertData(b, x, off, fn, s)
      PROVE  IInv'
  BY <1>2, <1>9, InsertDataKeeps
<1>10. ASSUME NEW fn \in {"clear", "destroy"}, Clear(b, fn) PROVE IInv'
  BY <1>10, ClearKeeps
<1> QED BY <1>1, <1>3, <1>4, <1>5, <1>6, <1>7, <1>8, <1>9, <1>10

LEMMA LibraryKeeps == ASSUME CountSuffices, IInv, Library PROVE IInv'
  BY ExtendStepKeeps, RewindStepKeeps, SeekStepKeeps, TrimStepKeeps, InsertDataStepKeeps,
     InsertBufferStepKeeps, OverwriteDataStepKeeps, OverwriteBufferStepKeeps,
     ReadDataStepKeeps, ClearStepKeeps, ReturnKeeps DEF Library

LEMMA StutterKeeps == ASSUME IInv, UNCHANGED vars PROVE IInv'
  BY DEF IInv, vars

\* IInv is inductive: every state of the trivial buffers satisfies it.
THEOREM InductiveInvariant ==
    ASSUME CountSuffices, NoSelfSource
    PROVE  Spec => []IInv
<1>1. IInv /\ [Next]_vars => IInv'
  BY ClientKeeps, LibraryKeeps, StutterKeeps DEF Next
<1> QED BY <1>1, InitIInv, PTL DEF Spec

\* Every variable keeps its type, whatever the client calls and whichever
\* allocations fail (the functions of pagebuf.c that work on a trivial buffer).
THEOREM TypeCorrect ==
    ASSUME CountSuffices, NoSelfSource
    PROVE  Spec => []TypeOK
<1>1. IInv => TypeOK
  BY IInvImplies
<1> QED BY <1>1, InductiveInvariant, PTL

\* use_count is the number of pages that show the region, and a region lives
\* exactly as long as there is one (pb_trivial_data_get, pb_trivial_data_put and
\* every function that makes, splits, shares, copies or destroys a page).
THEOREM RefCountsExact ==
    ASSUME CountSuffices, NoSelfSource
    PROVE  Spec => []RefCountExact
<1>1. IInv => RefCountExact
  BY IInvImplies
<1> QED BY <1>1, InductiveInvariant, PTL

\* No page ever shows a byte outside its region (the windows that pb_page_transfer,
\* the split of pb_trivial_buffer_insert, seek and trim compute).
THEOREM WindowsStayInBounds ==
    ASSUME CountSuffices, NoSelfSource
    PROVE  Spec => []WindowsInBounds
<1>1. IInv => WindowsInBounds
  BY IInvImplies
<1> QED BY <1>1, InductiveInvariant, PTL

-----------------------------------------------------------------------------
(***************************************************************************)
(* What a step leaves alone: the pages and the bytes of the other buffers, *)
(* and the memory the client handed in by reference.                       *)
(*                                                                         *)
(* A region is written only by the overwrite loops, and they write only to *)
(* a copy they just made or to a region that nobody but the page at hand   *)
(* refers to, which RefCountExact lets use_count decide.                   *)
(***************************************************************************)

\* Every region of h is in g what it was, but for its use_count.
Preserved(g, h) ==
    \A d \in DataIds : h.reg[d].live =>
        g.reg[d].live /\ g.reg[d].owned = h.reg[d].owned /\ g.reg[d].mem = h.reg[d].mem

\* No region outside D that is in both holds other bytes in g.
KeptBut(g, h, D) ==
    \A d \in DataIds \ D : h.reg[d].live /\ g.reg[d].live =>
        g.reg[d].owned = h.reg[d].owned /\ g.reg[d].mem = h.reg[d].mem

LEMMA PreservedKept ==
    ASSUME NEW h, NEW k, NEW g, NEW D, Preserved(k, h), KeptBut(g, k, D)
    PROVE  KeptBut(g, h, D)
  BY DEF Preserved, KeptBut

LEMMA PreservedPreserved ==
    ASSUME NEW h, NEW k, NEW g, Preserved(k, h), Preserved(g, k)
    PROVE  Preserved(g, h)
  BY DEF Preserved

LEMMA PreservedIsKept ==
    ASSUME NEW h, NEW g, Preserved(g, h)
    PROVE  KeptBut(g, h, {})
  BY DEF Preserved, KeptBut

\* A new page is loose: in no list, owned by no buffer, n bytes long.
Loose(g, h, p, n) ==
    /\ Fresh(g, h, p, n) /\ g.page[p].own = NULL
    /\ Preserved(g, h)

LEMMA LooseNewPage ==
    ASSUME NEW h, HeapOK(h), NEW p \in FreePages(h), NEW d \in FreeData(h),
           NEW owned \in BOOLEAN, NEW m \in Seq(Byte),
           NEW g, g = BufferPageCreate(h, p, d, owned, m)
    PROVE  Loose(g, h, p, Len(m))
<1>1. h \in Heap /\ p \in PageIds /\ d \in DataIds /\ ~h.reg[d].live
  BY DEF HeapOK, FreePages, FreeData
<1>2. PageMade(g, h, p, d, owned, m)
  BY <1>1, BufferPageCreateForm
<1>3. Preserved(g, h) /\ g.page[p].own = NULL
  BY <1>1, <1>2 DEF PageMade, Preserved, PageIs
<1> QED BY <1>3, NewPage DEF Loose

\* With a free page no region counts as many pages as there are.
LEMMA CountBelow ==
    ASSUME CountSuffices, NEW h, HeapOK(h), NEW p \in FreePages(h), NEW d \in DataIds
    PROVE  h.reg[d].use + 1 # UseCountMod
<1>1. p \in PageIds /\ p \notin Refs(h, d)
  BY DEF FreePages, Refs
<1>2. Cardinality(Refs(h, d)) + 1 <= Cardinality(PageIds)
  BY <1>1, OneMore
<1>3. h.reg[d].use = Cardinality(Refs(h, d))
  BY DEF HeapOK, Counted
<1>4. Cardinality(PageIds) \in Nat /\ Cardinality(Refs(h, d)) \in Nat
  BY HeapAssumption, FS_CardinalityType, RefsFinite
<1> QED BY <1>2, <1>3, <1>4, HeapAssumption DEF CountSuffices

\* The record of a page that shares the data of src.
LEMMA SharedRecord ==
    ASSUME CountSuffices, NEW h, HeapOK(h), NEW p \in FreePages(h), NEW src \in LivePages(h),
           NEW n \in Nat, NEW off \in Nat, NEW g, g = PageTransfer(h, p, src, n, off)
    PROVE  /\ PageIs(g.page[p], TRUE, h.page[src].data, h.page[src].base + off, n, NULL)
           /\ Preserved(g, h)
<1> DEFINE d == h.page[src].data
<1>1. /\ h \in Heap /\ p \in PageIds /\ src \in PageIds /\ p # src /\ d \in DataIds
  BY DEF HeapOK, FreePages, LivePages, Shown
<1>2. h.reg[d].use + 1 # UseCountMod
  BY <1>1, CountBelow
<1>3. PageShared(g, h, p, d, h.page[src].base + off, n)
  <2>1. d = h.page[src].data
    OBVIOUS
  <2> HIDE DEF d
  <2> QED BY <1>1, <1>2, <2>1, PageTransferForm
<1> QED BY <1>1, <1>3 DEF PageShared, Preserved, RegionIs

LEMMA LooseSharedPage ==
    ASSUME CountSuffices, NEW h, HeapOK(h), NEW p \in FreePages(h), NEW src \in LivePages(h),
           NEW n \in Nat, NEW off \in Nat, off + n <= h.page[src].len,
           NEW g, g = PageTransfer(h, p, src, n, off)
    PROVE  Loose(g, h, p, n)
<1>1. g.page[p].own = NULL /\ Preserved(g, h)
  <2>1. /\ PageIs(g.page[p], TRUE, h.page[src].data, h.page[src].base + off, n, NULL)
        /\ Preserved(g, h)
    BY SharedRecord
  <2> QED BY <2>1 DEF PageIs
<1>2. Fresh(g, h, p, n)
  BY SharedPage
<1> QED BY <1>1, <1>2 DEF Loose

\* x was split: q is linked in front of it and shows its first off bytes.
SplitInto(g, h, x, off, q) ==
    /\ PageIs(g.page[q], TRUE, h.page[x].data, h.page[x].base, off, h.page[x].own)
    /\ PageIs(g.page[x], TRUE, h.page[x].data, h.page[x].base + off,
              h.page[x].len - off, h.page[x].own)
    /\ \A r \in PageIds \ {x, q} : g.page[r] = h.page[r]
    /\ g.nxt = [[h.nxt EXCEPT ![h.prv[x]] = q] EXCEPT ![q] = x]
    /\ g.prv = [[h.prv EXCEPT ![x] = q] EXCEPT ![q] = h.prv[x]]
    /\ Preserved(g, h)

LEMMA SplitPageForm ==
    ASSUME CountSuffices, NEW h, HeapOK(h), NEW x \in LivePages(h), Linked(h, x),
           NEW off \in Nat, off <= h.page[x].len, NEW q \in FreePages(h),
           NEW g, g = SplitPage(h, x, off, q)
    PROVE  SplitInto(g, h, x, off, q)
<1> DEFINE g0 == PageTransfer(h, q, x, off, 0)
           r == CutFront(g0.page[x], off)
           g1 == [g0 EXCEPT !.page[x] = r]
<1>1. Fresh(g0, h, q, off)
  BY SharedPage
<1>2. /\ x \in PageIds /\ q \in PageIds /\ x # q /\ x \in Nodes /\ q \in Nodes
      /\ h.page[x].live /\ h \in Heap /\ ~Linked(h, q)
  BY DEF LivePages, FreePages, HeapOK, Nodes, Threaded
<1>3. /\ PageIs(g0.page[q], TRUE, h.page[x].data, h.page[x].base + 0, off, NULL)
      /\ Preserved(g0, h)
  BY SharedRecord
<1>4. g = LinkBefore(g1, q, x)
  BY DEF SplitPage
<1> HIDE DEF g0
<1>5. /\ g0 \in Heap /\ g0.page[x] = h.page[x] /\ SamePagesBut(g0, h, q)
      /\ g0.nxt = h.nxt /\ g0.prv = h.prv
  BY <1>1, <1>2 DEF Fresh, HeapOK, SamePagesBut
<1>6. h.page[x] \in PageRec /\ h.page[x].base \in Nat /\ h.page[x].own \in Buffers \cup {NULL}
  BY <1>2 DEF Heap, PageRec
<1>7. /\ r \in PageRec
      /\ PageIs(r, TRUE, h.page[x].data, h.page[x].base + off,
                h.page[x].len - off, h.page[x].own)
  <2>1. r \in PageRec
        /\ PageIs(r, h.page[x].live, h.page[x].data, h.page[x].base + off,
                  h.page[x].len - off, h.page[x].own)
    BY <1>5, <1>6, CutFrontOK
  <2> QED BY <2>1, <1>2
<1> HIDE DEF r
<1>8. g1 \in Heap /\ g1.page[x] = r /\ OnlyPage(g1, g0, x)
  BY <1>2, <1>5, <1>7, PageAt
<1> HIDE DEF g1
<1>9. /\ g1.nxt = h.nxt /\ g1.prv = h.prv /\ g1.page[q] = g0.page[q]
      /\ Owner(g1, x) = h.page[x].own /\ g1.reg = g0.reg
  BY <1>2, <1>5, <1>7, <1>8 DEF OnlyPage, Owner, PageIs
<1>10. h.prv[x] \in Nodes /\ h.prv[x] # q
  <2>1. Linked(h, h.prv[x]) /\ h.prv[x] \in Nodes
    BY <1>2, Neighbours
  <2> QED BY <2>1, <1>2
<1>11. LinkedIn(g, g1, q, x)
  BY <1>2, <1>4, <1>6, <1>8, <1>9, <1>10, LinkBeforeForm
<1>12. PageIs(g.page[q], TRUE, h.page[x].data, h.page[x].base, off, h.page[x].own)
  BY <1>3, <1>6, <1>9, <1>11 DEF LinkedIn, PageIs
<1>13. g.page[x] = r /\ \A s \in PageIds \ {x, q} : g.page[s] = h.page[s]
  BY <1>2, <1>5, <1>8, <1>11 DEF LinkedIn, SamePagesBut, OnlyPage
<1>14. g.nxt = [[h.nxt EXCEPT ![h.prv[x]] = q] EXCEPT ![q] = x]
       /\ g.prv = [[h.prv EXCEPT ![x] = q] EXCEPT ![q] = h.prv[x]]
  BY <1>9, <1>11 DEF LinkedIn
<1>15. Preserved(g, h)
  BY <1>3, <1>9, <1>11 DEF Preserved, LinkedIn
<1> QED BY <1>7, <1>12, <1>13, <1>14, <1>15 DEF SplitInto

\* Destroying pages frees regions and changes none.
LEMMA DestroyKeeps ==
    ASSUME NEW h, HeapOK(h), NEW p \in LivePages(h), NEW h1 \in Heap, h1.reg = h.reg,
           h1.page[p] = h.page[p], NEW g, g = PageDestroy(h1, p)
    PROVE  KeptBut(g, h, {})
<1> DEFINE d == h.page[p].data
<1>1. p \in PageIds /\ d \in DataIds /\ p \in Refs(h, d)
  BY DEF HeapOK, LivePages, Shown, Refs
<1>2. h.reg[d].use # 0
  BY <1>1, RefsFinite, FS_EmptySet DEF HeapOK, Counted
<1>3. Destroyed(g, h1, p)
  BY <1>1, <1>2, PageDestroyForm
<1>4. PutBack(DataPut(h1, d), h1, d)
  BY <1>1, <1>2, DataPutForm
<1>5. g.reg = DataPut(h1, d).reg
  BY <1>3 DEF Destroyed
<1> QED BY <1>4, <1>5 DEF PutBack, OnlyRegion, KeptBut, RegionIs, NoRegion

LEMMA UnlinkDestroyKeeps ==
    ASSUME NEW h, HeapOK(h), NEW p \in LivePages(h), Linked(h, p),
           NEW g, g = UnlinkDestroy(h, p)
    PROVE  KeptBut(g, h, {})
<1> DEFINE w == h.prv[p]
           y == h.nxt[p]
           f == [h.nxt EXCEPT ![w] = y]
           b == [h.prv EXCEPT ![y] = w]
           h1 == [h EXCEPT !.nxt[w] = y, !.prv[y] = w]
<1>1. h \in Heap /\ p \in Nodes
  BY DEF HeapOK, LivePages, Nodes
<1>2. w \in Nodes /\ y \in Nodes
  BY <1>1, Neighbours
<1>3. g = PageDestroy(h1, p)
  BY DEF UnlinkDestroy
<1>4. f \in [Nodes -> Nodes \cup {NULL}] /\ b \in [Nodes -> Nodes \cup {NULL}]
  BY <1>1, <1>2 DEF Heap
<1>5. h1 = [h EXCEPT !.nxt = f, !.prv = b]
  OBVIOUS
<1> HIDE DEF f, b, h1
<1>6. h1 = [reg |-> h.reg, page |-> h.page, nxt |-> f, prv |-> b]
  BY <1>1, <1>5 DEF Heap
<1>7. h1 \in Heap /\ h1.reg = h.reg /\ h1.page[p] = h.page[p]
  BY <1>1, <1>4, <1>6 DEF Heap
<1> QED BY <1>3, <1>7, DestroyKeeps

-----------------------------------------------------------------------------
(* Insertions.                                                             *)

\* An iteration that has made the page p of n bytes in h and inserts it at x.
Inserts(h, p, n, x) ==
    /\ call.pc = "loop" /\ call.fn \in Inserting /\ LoopGoesOn(call)
    /\ n \in Nat /\ n <= call.len
    /\ n = IF call.fn = "insert_buffer" THEN InsertLen(call) ELSE Chunk(call.buf, call.len)
    /\ x = IF call.fn = "extend" THEN call.buf
           ELSE IF call.fn = "rewind" THEN heap.nxt[call.buf] ELSE call.it
    /\ Inside(heap, x, call.buf)
    /\ p \in FreePages(heap) /\ Loose(h, heap, p, n)
    /\ InsertPage(h, p, x)

LEMMA MadePage ==
    ASSUME CountSuffices, IInv, NEW owned \in BOOLEAN, NEW m \in Seq(Byte), NEW x,
           MakePage(owned, m, x)
    PROVE  \/ LeaveLoop
           \/ \E p, h : p \in FreePages(heap) /\ Loose(h, heap, p, Len(m)) /\ InsertPage(h, p, x)
<1> DEFINE p == AnyOf(FreePages(heap))
           d == AnyOf(FreeData(heap))
           h == BufferPageCreate(heap, p, d, owned, m)
<1>1. CASE ~NoRoom /\ InsertPage(h, p, x)
  <2>1. p \in FreePages(heap) /\ d \in FreeData(heap) /\ HeapOK(heap)
    BY <1>1, SomeOf DEF NoRoom, IInv
  <2> HIDE DEF p, d
  <2>2. Loose(h, heap, p, Len(m))
    BY <2>1, LooseNewPage
  <2> HIDE DEF h
  <2> QED BY <2>1, <2>2, <1>1
<1>2. LeaveLoop \/ (~NoRoom /\ InsertPage(h, p, x))
  BY MakeOutcome
<1> QED BY <1>1, <1>2

LEMMA InsertingStep ==
    ASSUME CountSuffices, IInv,
           ExtendStep \/ RewindStep \/ InsertDataStep \/ InsertBufferStep
    PROVE  LeaveLoop \/ Fault("oob") \/ \E h, p, n, x : Inserts(h, p, n, x)
<1> DEFINE k == Chunk(call.buf, call.len)
<1>1. ASSUME NEW fn \in {"extend", "rewind", "insert_data", "insert_data_ref"}, In(fn),
             NEW owned \in BOOLEAN, NEW m \in Seq(Byte), Len(m) = k, NEW x,
             x = IF fn = "extend" THEN call.buf
                 ELSE IF fn = "rewind" THEN heap.nxt[call.buf] ELSE call.it,
             MakePage(owned, m, x)
      PROVE  LeaveLoop \/ \E h, p, n, y : Inserts(h, p, n, y)
  <2>1. /\ call.fn = fn /\ call.pc = "loop" /\ call.len \in Nat /\ call.buf \in Buffers
        /\ Inside(heap, call.buf, call.buf) /\ Inside(heap, call.it, call.buf)
        /\ HeapOK(heap) /\ LoopGoesOn(call)
    BY <1>1, InLoop DEF In
  <2>2. k \in Nat /\ k <= call.len
    BY <2>1, ChunkType
  <2>3. Inside(heap, x, call.buf)
    BY <1>1, <2>1, InsideNext
  <2>4. CASE ~LeaveLoop
    <3>1. PICK p, h : p \in FreePages(heap) /\ Loose(h, heap, p, Len(m)) /\ InsertPage(h, p, x)
      BY <1>1, <2>4, MadePage
    <3> HIDE DEF k
    <3>2. Inserts(h, p, k, x)
      BY <1>1, <2>1, <2>2, <2>3, <3>1 DEF Inserts, Inserting, k
    <3> QED BY <3>2
  <2> QED BY <2>4
<1>2. ASSUME NEW fn \in {"extend", "rewind"}, In(fn), NEW m \in [1..k -> Junk]
      PROVE  m \in Seq(Byte) /\ Len(m) = k
  <2>1. call.len \in Nat /\ call.buf \in Buffers
    BY <1>2, InLoop
  <2> QED BY <2>1, ChunkType, JunkType
<1>3. CASE ExtendStep
  <2>1. PICK m \in [1..k -> Junk] : In("extend") /\ MakePage(TRUE, m, call.buf)
    BY <1>3 DEF ExtendStep
  <2> HIDE DEF k
  <2> QED BY <2>1, <1>1, <1>2
<1>4. CASE RewindStep
  <2>1. PICK m \in [1..k -> Junk] : In("rewind") /\ MakePage(TRUE, m, heap.nxt[call.buf])
    BY <1>4 DEF RewindStep
  <2> HIDE DEF k
  <2> QED BY <2>1, <1>1, <1>2
<1>5. CASE InsertDataStep
  <2>1. PICK owned \in BOOLEAN, fn \in {"insert_data", "insert_data_ref"} :
           In(fn) /\ MakePage(owned, FromCaller(k), call.it)
    BY <1>5 DEF InsertDataStep
  <2>2. /\ call.fn = fn /\ call.pc = "loop" /\ call.len \in Nat /\ call.buf \in Buffers
    BY <2>1, InLoop
  <2>3. k \in Nat /\ k <= call.len
    BY <2>2, ChunkType
  <2> HIDE DEF k
  <2>4. FromCaller(k) \in Seq(Byte) /\ Len(FromCaller(k)) = k
    BY <2>2, <2>3, FromCallerType
  <2> QED BY <2>1, <2>4, <1>1
<1>6. CASE InsertBufferStep
  <2> DEFINE n == InsertLen(call)
             m == PageBytes(heap, call.sit, call.soff, n)
             q == AnyOf(FreePages(heap))
             g == PageTransfer(heap, q, call.sit, n, call.soff)
  <2>1. In("insert_buffer")
    BY <1>6 DEF InsertBufferStep
  <2>2. /\ call.fn = "insert_buffer" /\ call.pc = "loop" /\ call.buf \in Buffers
        /\ Inside(heap, call.it, call.buf) /\ HeapOK(heap) /\ heap \in Heap
        /\ call.soff \in Nat /\ LoopGoesOn(call) /\ call.sit # call.src
    BY <2>1, InLoop DEF In, LoopGoesOn
  <2>3. /\ n \in Nat /\ n <= call.len
        /\ ~Strategy[call.buf].clone_on_write => call.soff + n <= NodeLen(heap, call.sit)
    BY <2>2, InsertLenType
  <2>4. /\ call.sit \in LivePages(heap) /\ call.sit \in PageIds
        /\ heap.page[call.sit].data \in DataIds
        /\ NodeLen(heap, call.sit) = heap.page[call.sit].len
    BY <2>2, AtSourcePage DEF HeapOK, Shown
  <2>5. ASSUME NEW p \in FreePages(heap), NEW h, Loose(h, heap, p, n), InsertPage(h, p, call.it)
        PROVE  Inserts(h, p, n, call.it)
    <3> HIDE DEF n
    <3> QED BY <2>2, <2>3, <2>5 DEF Inserts, Inserting, n
  <2>6. CASE /\ ~Strategy[call.buf].clone_on_write
             /\ FreePages(heap) # {} /\ InsertPage(g, q, call.it)
    <3>1. q \in FreePages(heap)
      BY <2>6, SomeOf
    <3> HIDE DEF q, n
    <3>2. Loose(g, heap, q, n)
      BY <2>2, <2>3, <2>4, <2>6, <3>1, LooseSharedPage
    <3> HIDE DEF g
    <3> QED BY <2>5, <2>6, <3>1, <3>2
  <2>7. CASE InBounds(heap, call.sit, call.soff, n) /\ MakePage(TRUE, m, call.it)
    <3> HIDE DEF n
    <3>1. m \in Seq(Byte) /\ Len(m) = n
      BY <2>2, <2>3, <2>4, <2>7, PageBytesType
    <3> HIDE DEF m
    <3>2. \/ LeaveLoop
          \/ \E p, h : p \in FreePages(heap) /\ Loose(h, heap, p, n) /\ InsertPage(h, p, call.it)
      BY <2>7, <3>1, MadePage
    <3> QED BY <2>5, <3>2
  <2>8. CASE LeaveLoop \/ Fault("oob")
    BY <2>8
  <2> QED BY <1>6, <2>6, <2>7, <2>8 DEF InsertBufferStep, SharePage
<1> QED BY <1>3, <1>4, <1>5, <1>6

-----------------------------------------------------------------------------
(* The page size.                                                          *)

Sized(r) ==
    r.own # NULL /\ Strategy[r.own].fragment_as_target => r.len = Chunk(r.own, r.len)

PageSized(h) == \A p \in LivePages(h) : Sized(h.page[p])

LEMMA SizedSmaller ==
    ASSUME NEW r \in PageRec, Sized(r), NEW s \in PageRec, s.own = r.own, s.len <= r.len
    PROVE  Sized(s)
<1>1. CASE r.own \in Buffers
  <2>1. Strategy[r.own].page_size \in Nat
    BY <1>1, StrategyAssumption DEF StrategyType
  <2>2. r.len \in Nat /\ s.len \in Nat
    BY DEF PageRec
  <2> QED BY <2>1, <2>2 DEF Sized, Chunk, Lower
<1>2. CASE r.own = NULL
  BY <1>2 DEF Sized
<1> QED BY <1>1, <1>2 DEF PageRec

\* Every page of g is a page of h, in the same list and no longer.
Shrunk(g, h) ==
    \A p \in LivePages(g) :
        /\ p \in LivePages(h)
        /\ g.page[p].own = h.page[p].own /\ g.page[p].len <= h.page[p].len

LEMMA ShrunkSized ==
    ASSUME NEW h \in Heap, NEW g \in Heap, PageSized(h), Shrunk(g, h)
    PROVE  PageSized(g)
<1> SUFFICES ASSUME NEW p \in LivePages(g) PROVE Sized(g.page[p])
  BY DEF PageSized
<1>1. p \in PageIds /\ g.page[p] \in PageRec /\ h.page[p] \in PageRec
  BY DEF LivePages, Heap
<1>2. Sized(h.page[p]) /\ g.page[p].own = h.page[p].own /\ g.page[p].len <= h.page[p].len
  BY DEF Shrunk, PageSized
<1> QED BY <1>1, <1>2, SizedSmaller

\* A new page of n bytes may be linked into the list of b.
MayHold(b, n) == Strategy[b].fragment_as_target => n = Chunk(b, n)

LEMMA ChunkHolds ==
    ASSUME NEW b \in Buffers, NEW n \in Nat
    PROVE  MayHold(b, Chunk(b, n))
<1>1. Strategy[b].page_size \in Nat
  BY StrategyAssumption DEF StrategyType
<1> QED BY <1>1 DEF MayHold, Chunk, Lower

LEMMA InsertLenHolds ==
    ASSUME IInv, call.pc = "loop", call.fn = "insert_buffer"
    PROVE  MayHold(call.buf, InsertLen(call))
<1> DEFINE plen == NodeLen(heap, call.sit)
           l == IF call.soff <= plen THEN Lower(plen - call.soff, call.len) ELSE call.len
<1>1. plen \in Nat /\ call.len \in Nat /\ call.soff \in Nat /\ call.buf \in Buffers
  BY NodeLenType DEF IInv, CallType, CallOK
<1>2. CASE Strategy[call.buf].fragment_as_target
  <2>1. l \in Nat
    BY <1>1 DEF Lower
  <2>2. InsertLen(call) = Chunk(call.buf, l)
    BY <1>2 DEF InsertLen
  <2> HIDE DEF l
  <2> QED BY <2>1, <2>2, <1>1, ChunkHolds
<1> QED BY <1>2 DEF MayHold

-----------------------------------------------------------------------------
(* What an insertion does to the pages and the regions.                    *)

LEMMA LinkIsIn ==
    ASSUME NEW h, HeapOK(h), NEW p \in LivePages(h), ~Linked(h, p),
           NEW x \in Nodes, Linked(h, x), NEW g, g = LinkBefore(h, p, x)
    PROVE  LinkedIn(g, h, p, x)
<1>1. h \in Heap /\ p \in PageIds
  BY DEF HeapOK, LivePages
<1>2. h.prv[x] \in Nodes /\ h.prv[x] # p /\ x # p
  BY Neighbours
<1>3. Owner(h, x) \in Buffers \cup {NULL}
  BY <1>1 DEF Owner, Heap, PageRec, Nodes
<1> QED BY <1>1, <1>2, <1>3, LinkBeforeForm

\* What is known of a node when a loose page was made in k from h.
LEMMA LooseFacts ==
    ASSUME NEW h, HeapOK(h), NEW p \in FreePages(h), NEW n, NEW k, Loose(k, h, p, n),
           NEW x \in Nodes, Linked(h, x)
    PROVE  /\ HeapOK(k) /\ p \in LivePages(k) /\ ~Linked(k, p) /\ k.page[p].len = n
           /\ k.page[p].own = NULL /\ Linked(k, x) /\ Owner(k, x) = Owner(h, x)
           /\ x # p /\ NodeLen(k, x) = NodeLen(h, x) /\ NodeLen(k, x) \in Nat
           /\ p \notin LivePages(h) /\ LivePages(k) = LivePages(h) \cup {p}
           /\ SamePagesBut(k, h, p) /\ k.nxt = h.nxt /\ k.prv = h.prv
           /\ x \in PageIds => x \in LivePages(k)
<1>1. /\ HeapOK(k) /\ p \in LivePages(k) /\ ~Linked(k, p) /\ k.page[p].len = n
      /\ k.page[p].own = NULL /\ SamePagesBut(k, h, p) /\ k.nxt = h.nxt /\ k.prv = h.prv
  BY DEF Loose, Fresh, SamePagesBut
<1>2. ~h.page[p].live /\ p \in PageIds /\ p \in Nodes
  BY DEF FreePages, Nodes
<1>3. ~Linked(h, p) /\ x # p
  BY <1>2 DEF HeapOK, Threaded
<1>4. Linked(k, x)
  BY <1>1 DEF Linked
<1>5. Owner(k, x) = Owner(h, x) /\ NodeLen(k, x) = NodeLen(h, x)
  BY <1>1, <1>3 DEF Owner, NodeLen, SamePagesBut
<1>6. NodeLen(k, x) \in Nat
  BY <1>1, NodeLenType
<1>7. p \notin LivePages(h) /\ LivePages(k) = LivePages(h) \cup {p}
  BY <1>1, <1>2 DEF LivePages, SamePagesBut
<1>8. x \in PageIds => x \in LivePages(k)
  BY <1>1, <1>4 DEF HeapOK, Threaded, LivePages
<1> QED BY <1>1, <1>3, <1>4, <1>5, <1>6, <1>7, <1>8

\* The page in front of which the new page goes was split where it had to be.
SplitAt(k, x, off, q) == IF off # 0 THEN SplitPage(k, x, off, q) ELSE k

LEMMA SplitAtOK ==
    ASSUME CountSuffices, NEW k, HeapOK(k), NEW p \in LivePages(k), ~Linked(k, p),
           NEW x \in Nodes, Linked(k, x), x # p, NEW off \in Nat, off <= NodeLen(k, x),
           NEW q, off # 0 => q \in FreePages(k), NEW s, s = SplitAt(k, x, off, q)
    PROVE  /\ HeapOK(s) /\ p \in LivePages(s) /\ ~Linked(s, p) /\ Linked(s, x)
           /\ s.page[p] = k.page[p] /\ Owner(s, x) = Owner(k, x)
           /\ off # 0 => /\ x \in LivePages(k) /\ off <= k.page[x].len /\ q # p /\ q # x
                         /\ Split(s, k, x, q) /\ SplitInto(s, k, x, off, q)
           /\ off = 0 => s = k
<1>1. CASE off = 0
  BY <1>1 DEF SplitAt
<1>2. CASE off # 0
  <2>1. x \in LivePages(k) /\ off <= k.page[x].len
    BY <1>2 DEF NodeLen, HeapOK, Threaded, LivePages
  <2>2. q \in FreePages(k) /\ q \in PageIds /\ ~k.page[q].live /\ s = SplitPage(k, x, off, q)
    BY <1>2 DEF FreePages, SplitAt
  <2>3. q # p /\ q # x /\ p \in PageIds /\ p \in Nodes
    BY <2>1, <2>2 DEF LivePages, Nodes
  <2>4. Split(s, k, x, q) /\ SplitInto(s, k, x, off, q)
    BY <2>1, <2>2, SplitPageOK, SplitPageForm
  <2>5. s.page[p] = k.page[p]
    BY <2>3, <2>4 DEF Split
  <2> QED BY <2>1, <2>3, <2>4, <2>5, <1>2 DEF Split
<1> QED BY <1>1, <1>2

\* The page p is in front of x.
Placed(g, k, p, x, off, q) ==
    /\ off \in Nat /\ off <= NodeLen(k, x)
    /\ off # 0 => q \in FreePages(k)
    /\ g = LinkBefore(SplitAt(k, x, off, q), p, x)

LEMMA PlacedKeeps ==
    ASSUME CountSuffices, NEW h, HeapOK(h), NEW p \in FreePages(h), NEW n, NEW k,
           Loose(k, h, p, n), NEW x \in Nodes, Linked(h, x), NEW off, NEW q, NEW g,
           Placed(g, k, p, x, off, q)
    PROVE  KeptBut(g, h, {})
<1> DEFINE s == SplitAt(k, x, off, q)
<1>1. /\ HeapOK(k) /\ p \in LivePages(k) /\ ~Linked(k, p) /\ Linked(k, x) /\ x # p
  BY LooseFacts
<1>2. /\ HeapOK(s) /\ p \in LivePages(s) /\ ~Linked(s, p) /\ Linked(s, x)
      /\ off # 0 => SplitInto(s, k, x, off, q)
      /\ off = 0 => s = k
  BY <1>1, SplitAtOK DEF Placed
<1>3. LinkedIn(g, s, p, x)
  <2>1. g = LinkBefore(s, p, x)
    BY DEF Placed
  <2> HIDE DEF s
  <2> QED BY <2>1, <1>2, LinkIsIn
<1> HIDE DEF s
<1>4. Preserved(s, k)
  <2>1. CASE off = 0
    BY <2>1, <1>2 DEF Preserved
  <2>2. CASE off # 0
    BY <2>2, <1>2 DEF SplitInto
  <2> QED BY <2>1, <2>2
<1>5. Preserved(g, s)
  BY <1>3 DEF LinkedIn, Preserved
<1>6. Preserved(k, h)
  BY DEF Loose
<1>7. Preserved(g, h)
  BY <1>4, <1>5, <1>6, PreservedPreserved
<1> QED BY <1>7, PreservedIsKept

LEMMA PlacedSized ==
    ASSUME CountSuffices, NEW h, HeapOK(h), PageSized(h), NEW p \in FreePages(h), NEW n, NEW k,
           Loose(k, h, p, n), NEW x \in Nodes, Linked(h, x), NEW off, NEW q, NEW g,
           Placed(g, k, p, x, off, q), Owner(h, x) \in Buffers, MayHold(Owner(h, x), n)
    PROVE  PageSized(g)
<1> DEFINE s == SplitAt(k, x, off, q)
           b == Owner(h, x)
<1>1. /\ HeapOK(k) /\ p \in LivePages(k) /\ ~Linked(k, p) /\ k.page[p].len = n
      /\ k.page[p].own = NULL /\ Linked(k, x) /\ Owner(k, x) = b /\ x # p
      /\ LivePages(k) = LivePages(h) \cup {p} /\ SamePagesBut(k, h, p)
  BY LooseFacts
<1>2. /\ HeapOK(s) /\ p \in LivePages(s) /\ ~Linked(s, p) /\ Linked(s, x)
      /\ s.page[p] = k.page[p] /\ Owner(s, x) = b
      /\ off # 0 => /\ x \in LivePages(k) /\ off <= k.page[x].len
                    /\ Split(s, k, x, q) /\ SplitInto(s, k, x, off, q)
      /\ off = 0 => s = k
  BY <1>1, SplitAtOK DEF Placed
<1>3. LinkedIn(g, s, p, x)
  <2>1. g = LinkBefore(s, p, x)
    BY DEF Placed
  <2> HIDE DEF s
  <2> QED BY <2>1, <1>2, LinkIsIn
<1> HIDE DEF s
<1>4. PageSized(k)
  BY <1>1 DEF PageSized, Sized, SamePagesBut, LivePages
<1>5. PageSized(s)
  <2>1. CASE off # 0
    <3> SUFFICES ASSUME NEW r \in LivePages(s) PROVE Sized(s.page[r])
      BY DEF PageSized
    <3>1. /\ r \in PageIds /\ s.page[r] \in PageRec /\ x \in PageIds /\ k.page[x] \in PageRec
          /\ k.page[x].len \in Nat
      BY <1>1, <1>2, <2>1 DEF LivePages, HeapOK, Heap, PageRec
    <3>2. Sized(k.page[x])
      BY <1>2, <1>4, <2>1 DEF PageSized
    <3>3. CASE r = q \/ r = x
      <4>1. s.page[r].own = k.page[x].own /\ s.page[r].len \in {off, k.page[x].len - off}
        BY <1>2, <2>1, <3>3 DEF SplitInto, PageIs
      <4>2. s.page[r].len <= k.page[x].len
        BY <4>1, <3>1, <1>2, <2>1 DEF Placed
      <4> QED BY <4>1, <4>2, <3>1, <3>2, SizedSmaller
    <3>4. CASE r # q /\ r # x
      BY <1>2, <1>4, <2>1, <3>1, <3>4 DEF Split, PageSized
    <3> QED BY <3>3, <3>4
  <2> QED BY <2>1, <1>2, <1>4
<1>6. g.page[p].own = b /\ g.page[p].len = n /\ SamePagesBut(g, s, p)
  BY <1>1, <1>2, <1>3 DEF LinkedIn, PageIs
<1>7. LivePages(g) = LivePages(s)
  BY <1>2, <1>3 DEF LinkedIn, PageIs, SamePagesBut, LivePages
<1>8. Sized(g.page[p])
  BY <1>6 DEF Sized, MayHold
<1>9. \A r \in LivePages(g) : r # p => g.page[r] = s.page[r]
  BY <1>6 DEF SamePagesBut, LivePages
<1> QED BY <1>5, <1>7, <1>8, <1>9 DEF PageSized

\* The two ways an insertion ends: a failed split, or a page more in the list.
LEMMA InsertedPage ==
    ASSUME IInv, NEW h, NEW p, NEW n, NEW x, Inserts(h, p, n, x)
    PROVE  \/ /\ heap' = PageDestroy(h, p) /\ call' = [call EXCEPT !.pc = "ret"]
              /\ UNCHANGED << size, fault >>
           \/ \E q :
                 /\ Placed(heap', h, p, x, Lower(call.off, NodeLen(h, x)), q)
                 /\ size' = [size EXCEPT ![call.buf] = @ + n]
                 /\ call' = IF n = 0 THEN [call EXCEPT !.pc = "ret"]
                            ELSE AfterInsert(call, heap', n)
                 /\ fault' = IF n = 0 THEN "freed_linked" ELSE fault
<1> DEFINE off == Lower(call.off, NodeLen(h, x))
           q == AnyOf(FreePages(h))
           g == LinkBefore(SplitAt(h, x, off, q), p, x)
           m == h.page[p].len
<1>1. InsertPage(h, p, x) /\ m = n /\ HeapOK(h)
  BY DEF Inserts, Loose, Fresh
<1>2. off \in Nat /\ off <= NodeLen(h, x)
  <2>1. call.off \in Nat /\ NodeLen(h, x) \in Nat
    BY <1>1, NodeLenType DEF IInv, CallType
  <2> QED BY <2>1, LowerType
<1>3. \/ /\ heap' = PageDestroy(h, p) /\ call' = [call EXCEPT !.pc = "ret"]
         /\ UNCHANGED << size, fault >>
      \/ /\ off # 0 => FreePages(h) # {}
         /\ heap' = g
         /\ size' = [size EXCEPT ![call.buf] = @ + m]
         /\ call' = IF m = 0 THEN [call EXCEPT !.pc = "ret"] ELSE AfterInsert(call, g, m)
         /\ fault' = IF m = 0 THEN "freed_linked" ELSE fault
  BY <1>1 DEF InsertPage, SplitAt
<1>4. ASSUME off # 0 => FreePages(h) # {}, heap' = g
      PROVE  Placed(heap', h, p, x, off, q)
  <2>1. off # 0 => q \in FreePages(h)
    BY <1>4, SomeOf
  <2> HIDE DEF off, q
  <2> QED BY <2>1, <1>2, <1>4 DEF Placed
<1> HIDE DEF off, q, g, m
<1> QED BY <1>1, <1>3, <1>4 DEF off

-----------------------------------------------------------------------------
(* What a step may change.                                                 *)

\* The bytes a step may rewrite are in regions the buffer has for itself.
Private(D) ==
    \A d \in D : /\ heap.reg[d].owned
                 /\ \A p \in Refs(heap, d) : heap.page[p].own = call.buf

PagesKept ==
    \A p \in LivePages(heap) : heap.page[p].own # call.buf => heap'.page[p] = heap.page[p]

\* Every step keeps what other buffers show and what the client lent.
Isolated ==
    /\ PagesKept
    /\ \E D \in SUBSET DataIds : Private(D) /\ KeptBut(heap', heap, D)

LEMMA IsolatedIf ==
    ASSUME PagesKept, KeptBut(heap', heap, {})
    PROVE  Isolated
  BY DEF Isolated, Private

\* Pages and regions did not change.
LEMMA QuietStep ==
    ASSUME IInv, heap'.page = heap.page, heap'.reg = heap.reg
    PROVE  Isolated /\ (PageSized(heap) => PageSized(heap'))
<1>1. PagesKept /\ KeptBut(heap', heap, {})
  BY DEF PagesKept, KeptBut
<1>2. PageSized(heap) => PageSized(heap')
  BY DEF PageSized, LivePages
<1> QED BY <1>1, <1>2, IsolatedIf

LEMMA InsertIsolates ==
    ASSUME CountSuffices, IInv, NEW h, NEW p, NEW n, NEW x, Inserts(h, p, n, x)
    PROVE  Isolated /\ (PageSized(heap) => PageSized(heap'))
<1>1. /\ HeapOK(heap) /\ AllLinked(heap) /\ call \in CallType /\ call.buf \in Buffers
      /\ p \in FreePages(heap) /\ Loose(h, heap, p, n) /\ Fresh(h, heap, p, n)
      /\ x \in Nodes /\ Linked(heap, x) /\ Owner(heap, x) = call.buf
      /\ call.pc = "loop" /\ n \in Nat /\ call.len \in Nat
  BY DEF IInv, CallOK, CallType, Inserts, Inside, Loose
<1>2. CASE heap' = PageDestroy(h, p)
  <2>1. Grown(heap', heap, call.buf)
    BY <1>1, <1>2, AbandonedPage
  <2>2. KeptBut(heap', heap, {})
    <3>1. HeapOK(h) /\ h \in Heap /\ p \in LivePages(h) /\ Preserved(h, heap)
      BY <1>1 DEF Loose, Fresh, HeapOK
    <3>2. KeptBut(heap', h, {})
      BY <1>2, <3>1, DestroyKeeps
    <3> QED BY <3>1, <3>2, PreservedKept
  <2>3. Shrunk(heap', heap)
    <3>1. Freed(heap', h, p)
      BY <1>1, <1>2, LooseDestroyed DEF Fresh
    <3>2. ASSUME NEW r \in LivePages(heap')
          PROVE  r \in LivePages(heap) /\ heap'.page[r] = heap.page[r] /\ heap'.page[r].len \in Nat
      <4>1. r \in LivePages(h) /\ r # p /\ r \in PageIds
        BY <3>1 DEF Freed, LivePages
      <4>2. heap'.page[r] = heap.page[r]
        BY <3>1, <4>1, <1>1 DEF Freed, SamePagesBut, Fresh
      <4>3. r \in LivePages(heap)
        BY <4>1, <1>1 DEF Fresh, LivePages
      <4> QED BY <4>1, <4>2, <4>3, <1>1 DEF HeapOK, Heap, PageRec
    <3> QED BY <3>2 DEF Shrunk
  <2>4. PagesKept
    BY <2>1 DEF Grown, PagesKept
  <2>5. heap' \in Heap /\ heap \in Heap
    BY <2>1, <1>1 DEF Grown, HeapOK
  <2> QED BY <2>2, <2>3, <2>4, <2>5, IsolatedIf, ShrunkSized
<1>3. ASSUME NEW q, Placed(heap', h, p, x, Lower(call.off, NodeLen(h, x)), q)
      PROVE  Isolated /\ (PageSized(heap) => PageSized(heap'))
  <2> DEFINE off == Lower(call.off, NodeLen(h, x))
  <2>1. Placed(heap', h, p, x, off, q)
    BY <1>3
  <2> HIDE DEF off
  <2>2. Grown(heap', heap, Owner(heap, x))
    <3>1. /\ off \in Nat /\ off <= NodeLen(h, x)
          /\ off # 0 => q \in FreePages(h)
          /\ heap' = LinkBefore(IF off # 0 THEN SplitPage(h, x, off, q) ELSE h, p, x)
      BY <2>1 DEF Placed, SplitAt
    <3> QED BY <3>1, <1>1, PlacedPage
  <2>3. KeptBut(heap', heap, {})
    BY <2>1, <1>1, PlacedKeeps
  <2>4. MayHold(call.buf, n)
    BY <1>1, ChunkHolds, InsertLenHolds DEF Inserts
  <2>5. PageSized(heap) => PageSized(heap')
    BY <2>1, <2>4, <1>1, PlacedSized
  <2>6. PagesKept
    BY <2>2, <1>1 DEF Grown, PagesKept
  <2> QED BY <2>3, <2>5, <2>6, IsolatedIf
<1> QED BY <1>2, <1>3, InsertedPage

-----------------------------------------------------------------------------
(* Seek, trim and clear.                                                   *)

\* The page at the iterator of seek or trim is n bytes shorter in g.
Cuts(g, n) ==
    LET p == call.it
        nx == IF call.fn = "seek" THEN heap.nxt[p] ELSE heap.prv[p]
        c == IF NodeLen(g, p) = 0 THEN [call EXCEPT !.it = nx] ELSE call
    IN  /\ call.fn \in {"seek", "trim"} /\ call.pc = "loop" /\ call.len \in Nat /\ call.len > 0
        /\ p \in LivePages(heap) /\ heap.page[p].own = call.buf
        /\ n = Lower(heap.page[p].len, call.len)
        /\ PageCut(g, heap, p) /\ g.page[p].len = heap.page[p].len - n
        /\ heap' = IF NodeLen(g, p) = 0 THEN UnlinkDestroy(g, p) ELSE g
        /\ call' = IF n = 0 THEN [c EXCEPT !.pc = "ret"] ELSE Progress(c, n)
        /\ size' = [size EXCEPT ![call.buf] = @ - n]
        /\ UNCHANGED << bumped, fault >>

LEMMA CutLen ==
    ASSUME NEW h \in Heap, NEW p \in PageIds, NEW w \in PageRec, NEW g,
           g = [h EXCEPT !.page[p] = w]
    PROVE  g.page[p].len = w.len
  BY DEF Heap

LEMMA CuttingStep ==
    ASSUME IInv, SeekStep \/ TrimStep
    PROVE  \E g, n : Cuts(g, n)
<1> DEFINE p == call.it
           n == Lower(NodeLen(heap, p), call.len)
           r == heap.page[p]
<1>1. PICK fn \in {"seek", "trim"} : In(fn)
  BY DEF SeekStep, TrimStep
<1>2. /\ call.fn = fn /\ call.pc = "loop" /\ call.len \in Nat /\ HeapOK(heap) /\ heap \in Heap
      /\ call.buf \in Buffers /\ Inside(heap, p, call.buf) /\ call.len > 0 /\ p # call.buf
  BY <1>1, InLoop DEF In, LoopGoesOn
<1>3. /\ p \in PageIds /\ p \in LivePages(heap) /\ r.own = call.buf /\ NodeLen(heap, p) = r.len
      /\ r \in PageRec
  BY <1>2, InsideIsPage DEF Heap
<1>4. n \in Nat /\ n <= r.len /\ n = Lower(r.len, call.len)
  BY <1>2, <1>3, LowerType, NodeLenType
<1>5. CASE SeekStep
  <2> DEFINE w == CutFront(r, n)
             g == DropFront(heap, p, n)
             c == IF NodeLen(g, p) = 0 THEN [call EXCEPT !.it = heap.nxt[p]] ELSE call
  <2>1. call.fn = "seek"
    BY <1>5 DEF SeekStep, In
  <2>2. /\ heap' = IF NodeLen(g, p) = 0 THEN UnlinkDestroy(g, p) ELSE g
        /\ call' = IF n = 0 THEN [c EXCEPT !.pc = "ret"] ELSE Progress(c, n)
        /\ size' = [size EXCEPT ![call.buf] = @ - n]
        /\ UNCHANGED << bumped, fault >>
    BY <1>5 DEF SeekStep
  <2>3. g = [heap EXCEPT !.page[p] = w]
    BY DEF DropFront
  <2>4. PageIs(w, r.live, r.data, r.base + n, r.len - n, r.own) /\ w \in PageRec
    <3> HIDE DEF n, r
    <3> QED BY <1>3, <1>4, CutFrontOK
  <2> HIDE DEF w, g, n
  <2>5. PageCut(g, heap, p)
    BY <2>3, <2>4, <1>2, <1>3, <1>4, PageCutForm
  <2>6. g.page[p].len = r.len - n
    BY <2>3, <2>4, <1>2, <1>3, CutLen DEF PageIs
  <2>7. Cuts(g, n)
    BY <2>1, <2>2, <2>5, <2>6, <1>2, <1>3, <1>4 DEF Cuts
  <2> QED BY <2>7
<1>6. CASE TrimStep
  <2> DEFINE w == [r EXCEPT !.len = r.len - n]
             g == DropBack(heap, p, n)
             c == IF NodeLen(g, p) = 0 THEN [call EXCEPT !.it = heap.prv[p]] ELSE call
  <2>1. call.fn = "trim"
    BY <1>6 DEF TrimStep, In
  <2>2. /\ heap' = IF NodeLen(g, p) = 0 THEN UnlinkDestroy(g, p) ELSE g
        /\ call' = IF n = 0 THEN [c EXCEPT !.pc = "ret"] ELSE Progress(c, n)
        /\ size' = [size EXCEPT ![call.buf] = @ - n]
        /\ UNCHANGED << bumped, fault >>
    BY <1>6 DEF TrimStep
  <2>3. g = [heap EXCEPT !.page[p] = w]
    BY <1>2, <1>3 DEF DropBack, Heap
  <2>4. PageIs(w, r.live, r.data, r.base, r.len - n, r.own) /\ w \in PageRec
    <3> HIDE DEF n, r
    <3> QED BY <1>3, <1>4, DropBackOK
  <2> HIDE DEF w, g, n
  <2>5. PageCut(g, heap, p)
    BY <2>3, <2>4, <1>2, <1>3, <1>4, PageCutForm
  <2>6. g.page[p].len = r.len - n
    BY <2>3, <2>4, <1>2, <1>3, CutLen DEF PageIs
  <2>7. Cuts(g, n)
    BY <2>1, <2>2, <2>5, <2>6, <1>2, <1>3, <1>4 DEF Cuts
  <2> QED BY <2>7
<1> QED BY <1>5, <1>6

\* A page of b is destroyed.
LEMMA RemovalIsolates ==
    ASSUME IInv, NEW g, HeapOK(g), NEW p \in LivePages(g), Linked(g, p), p \in LivePages(heap),
           SamePagesBut(g, heap, p), g.reg = heap.reg, LivePages(g) = LivePages(heap),
           heap.page[p].own = call.buf, heap' = UnlinkDestroy(g, p)
    PROVE  Isolated /\ (PageSized(heap) => PageSized(heap'))
<1>1. Freed(heap', g, p)
  BY UnlinkDestroyed
<1>2. KeptBut(heap', g, {})
  BY UnlinkDestroyKeeps
<1>3. KeptBut(heap', heap, {})
  BY <1>2 DEF KeptBut
<1>4. ASSUME NEW q \in LivePages(heap), q # p PROVE heap'.page[q] = heap.page[q]
  BY <1>1, <1>4 DEF Freed, SamePagesBut, LivePages
<1>5. PagesKept
  BY <1>4 DEF PagesKept
<1>6. heap \in Heap /\ heap' \in Heap
  BY <1>1 DEF IInv, HeapOK, Freed
<1>7. Shrunk(heap', heap)
  <2> SUFFICES ASSUME NEW q \in LivePages(heap')
               PROVE  /\ q \in LivePages(heap)
                      /\ heap'.page[q].own = heap.page[q].own
                      /\ heap'.page[q].len <= heap.page[q].len
    BY DEF Shrunk
  <2>1. q \in LivePages(heap) /\ q # p
    BY <1>1 DEF Freed
  <2>2. heap'.page[q] = heap.page[q] /\ heap.page[q].len \in Nat
    BY <2>1, <1>4, <1>6 DEF LivePages, Heap, PageRec
  <2> QED BY <2>1, <2>2
<1> QED BY <1>3, <1>5, <1>6, <1>7, IsolatedIf, ShrunkSized

LEMMA CutIsolates ==
    ASSUME IInv, NEW g, NEW n, Cuts(g, n)
    PROVE  Isolated /\ (PageSized(heap) => PageSized(heap'))
<1> DEFINE p == call.it
<1>1. /\ p \in LivePages(heap) /\ p \in PageIds /\ heap.page[p].own = call.buf
      /\ PageCut(g, heap, p) /\ g.page[p].len = heap.page[p].len - n
      /\ n = Lower(heap.page[p].len, call.len) /\ call.len \in Nat
      /\ heap' = IF NodeLen(g, p) = 0 THEN UnlinkDestroy(g, p) ELSE g
  BY DEF Cuts, LivePages
<1>2. HeapOK(heap) /\ heap \in Heap /\ AllLinked(heap)
  BY DEF IInv, HeapOK
<1>3. g \in Heap /\ OnlyPage(g, heap, p) /\ Narrower(g, heap, p)
      /\ g.page[p].own = heap.page[p].own
  BY <1>1 DEF PageCut
<1>4. HeapOK(g) /\ LivePages(g) = LivePages(heap)
  BY <1>1, <1>2, <1>3, NarrowedPage
<1>5. SamePagesBut(g, heap, p) /\ g.reg = heap.reg /\ g.nxt = heap.nxt
  BY <1>3 DEF OnlyPage, SamePagesBut
<1>6. CASE heap' = UnlinkDestroy(g, p)
  <2>1. Linked(g, p)
    BY <1>1, <1>2, <1>5 DEF AllLinked, Linked
  <2> HIDE DEF p
  <2> QED BY <1>1, <1>4, <1>5, <1>6, <2>1, RemovalIsolates
<1>7. CASE heap' = g
  <2>1. PagesKept
    BY <1>1, <1>5, <1>7 DEF PagesKept, SamePagesBut, LivePages
  <2>2. KeptBut(heap', heap, {})
    BY <1>5, <1>7 DEF KeptBut
  <2>3. Shrunk(heap', heap)
    <3> SUFFICES ASSUME NEW q \in LivePages(g)
                 PROVE  /\ q \in LivePages(heap) /\ g.page[q].own = heap.page[q].own
                        /\ g.page[q].len <= heap.page[q].len
      BY <1>7 DEF Shrunk
    <3>1. q \in LivePages(heap) /\ q \in PageIds
      BY <1>4 DEF LivePages
    <3>2. heap.page[q].len \in Nat
      BY <1>2, <3>1 DEF Heap, PageRec
    <3>3. CASE q = p
      <4>1. n \in Nat
        BY <1>1, <3>2, <3>3, LowerType
      <4> QED BY <4>1, <3>1, <3>2, <3>3, <1>1, <1>3
    <3>4. CASE q # p
      BY <3>1, <3>2, <3>4, <1>5 DEF SamePagesBut
    <3> QED BY <3>3, <3>4
  <2> QED BY <2>1, <2>2, <2>3, <1>2, <1>3, <1>7, IsolatedIf, ShrunkSized
<1> QED BY <1>1, <1>6, <1>7

LEMMA ClearIsolates ==
    ASSUME IInv, ClearStep
    PROVE  Isolated /\ (PageSized(heap) => PageSized(heap'))
<1>1. PICK fn \in {"clear", "destroy"} : In(fn)
  BY DEF ClearStep
<1>2. /\ HeapOK(heap) /\ AllLinked(heap) /\ call.buf \in Buffers
      /\ Inside(heap, call.it, call.buf) /\ call.it # call.buf
  BY <1>1, InLoop DEF In, LoopGoesOn
<1>3. call.it \in LivePages(heap) /\ heap.page[call.it].own = call.buf
  BY <1>2, InsideIsPage
<1>4. Linked(heap, call.it) /\ SamePagesBut(heap, heap, call.it)
  BY <1>2, <1>3 DEF AllLinked, SamePagesBut
<1>5. heap' = UnlinkDestroy(heap, call.it)
  BY DEF ClearStep
<1> QED BY <1>2, <1>3, <1>4, <1>5, RemovalIsolates

-----------------------------------------------------------------------------
(* Overwriting.                                                            *)

\* g is h but for the memory of the region d.
WritesOnly(g, h, d) == KeptBut(g, h, {d}) /\ g.page = h.page

LEMMA PageWriteForm ==
    ASSUME NEW h, HeapOK(h), NEW p \in LivePages(h), NEW off \in Nat,
           NEW s \in Seq(Byte), NEW g, g = PageWrite(h, p, off, s),
           NEW d, d = h.page[p].data
    PROVE  WritesOnly(g, h, d)
<1> DEFINE m == h.reg[d].mem
           at == h.page[p].base + off
           v == [i \in 1..Len(m) |-> IF i > at /\ i <= at + Len(s) THEN s[i - at] ELSE m[i]]
<1>1. h \in Heap
  BY DEF HeapOK
<1>2. g = [h EXCEPT !.reg[d].mem = v]
  BY DEF PageWrite
<1> HIDE DEF v
<1>3. g.page = h.page /\ \A e \in DataIds \ {d} : g.reg[e] = h.reg[e]
  BY <1>1, <1>2 DEF Heap
<1> QED BY <1>3 DEF KeptBut, WritesOnly

\* A private copy is made in a region that was free.
LEMMA DupKeeps ==
    ASSUME NEW h, HeapOK(h), NEW p \in LivePages(h), NEW e \in FreeData(h),
           NEW g, g = DupPageData(h, p, e)
    PROVE  KeptBut(g, h, {}) /\ g.page[p].data = e
<1> DEFINE d == h.page[p].data
           m == PageBytes(h, p, 0, h.page[p].len)
<1>1. /\ h \in Heap /\ p \in PageIds /\ d \in DataIds /\ e \in DataIds /\ ~h.reg[e].live
      /\ h.page[p].len \in Nat /\ InBounds(h, p, 0, h.page[p].len)
  BY DEF HeapOK, LivePages, FreeData, Shown, Heap, PageRec
<1>2. m \in Seq(Byte)
  BY <1>1, PageBytesType
<1>3. p \in Refs(h, d) /\ Refs(h, e) = {}
  BY <1>1 DEF Refs, HeapOK, LivePages, Counted
<1>4. h.reg[d].use # 0 /\ d # e
  BY <1>1, <1>3, RefsFinite, FS_EmptySet DEF HeapOK, Counted
<1>5. Copied(g, h, p, d, e, m)
  <2>1. d = h.page[p].data /\ m = PageBytes(h, p, 0, h.page[p].len)
    OBVIOUS
  <2> HIDE DEF d, m
  <2> QED BY <2>1, <1>1, <1>2, <1>4, DupPageDataForm
<1>6. PutBack(DataPut(h, d), h, d)
  BY <1>1, <1>4, DataPutForm
<1> HIDE DEF d, m
<1>7. ASSUME NEW c \in DataIds, h.reg[c].live, g.reg[c].live
      PROVE  g.reg[c].owned = h.reg[c].owned /\ g.reg[c].mem = h.reg[c].mem
  <2>1. c # e
    BY <1>1, <1>7
  <2>2. CASE c = d
    <3>1. g.reg[d] = DataPut(h, d).reg[d]
      BY <1>5 DEF Copied
    <3>2. g.reg[d].live
      BY <2>2, <1>7
    <3>3. h.reg[d].use # 1
      BY <3>1, <3>2, <1>6 DEF PutBack, NoRegion
    <3>4. RegionIs(g.reg[d], h.reg[d].live, h.reg[d].owned, h.reg[d].use - 1, h.reg[d].mem)
      BY <3>1, <3>3, <1>6 DEF PutBack
    <3> QED BY <2>2, <3>4 DEF RegionIs
  <2>3. CASE c # d
    BY <2>1, <2>3, <1>5 DEF Copied
  <2> QED BY <2>2, <2>3
<1>8. g.page[p].data = e
  BY <1>5 DEF Copied, PageIs
<1> QED BY <1>7, <1>8 DEF KeptBut

\* A region counted once is referred to by one page.
LEMMA OnlyReference ==
    ASSUME NEW h, HeapOK(h), NEW d \in DataIds, ~(h.reg[d].use > 1), NEW p \in Refs(h, d)
    PROVE  Refs(h, d) = {p}
<1>1. IsFiniteSet(Refs(h, d)) /\ Cardinality(Refs(h, d)) \in Nat
  BY RefsFinite, FS_CardinalityType
<1>2. Cardinality(Refs(h, d)) # 0
  BY <1>1, FS_EmptySet
<1>3. Cardinality(Refs(h, d)) = 1
  BY <1>1, <1>2 DEF HeapOK, Counted
<1>4. \E x : Refs(h, d) = {x}
  BY <1>1, <1>3, FS_Singleton
<1> QED BY <1>4

\* An iteration of overwrite_data or overwrite_buffer writes s to the page p.
LEMMA WriteIsolates ==
    ASSUME IInv, NEW p \in LivePages(heap), heap.page[p].own = call.buf, CanWrite(p),
           NEW off \in Nat, NEW s \in Seq(Byte), heap' = PageWrite(Writable(p), p, off, s)
    PROVE  Isolated /\ (PageSized(heap) => PageSized(heap'))
<1> DEFINE h == Writable(p)
           d == heap.page[p].data
           e == AnyOf(FreeData(heap))
<1>1. HeapOK(heap) /\ p \in PageIds /\ d \in DataIds /\ p \in Refs(heap, d) /\ heap \in Heap
  BY DEF IInv, HeapOK, LivePages, Shown, Refs
<1>2. Duplicated(h, heap, p)
  BY WritableOK
<1>3. HeapOK(h) /\ p \in LivePages(h)
  BY <1>2 DEF Duplicated, LivePages
<1>4. heap' = PageWrite(h, p, off, s)
  OBVIOUS
<1>5. MustDup(p) => e \in FreeData(heap) /\ h = DupPageData(heap, p, e)
  BY SomeOf DEF CanWrite, Writable
<1>6. ~MustDup(p) => h = heap
  BY DEF Writable
<1> HIDE DEF h, e
<1>7. /\ KeptBut(heap', h, {h.page[p].data})
      /\ heap'.page = h.page
  <2>1. ASSUME NEW g, g = heap', NEW c, c = h.page[p].data
        PROVE  WritesOnly(g, h, c)
    <3>1. g = PageWrite(h, p, off, s)
      BY <1>4, <2>1
    <3>2. HeapOK(h) /\ p \in LivePages(h) /\ off \in Nat /\ s \in Seq(Byte)
      BY <1>3
    <3>3. c = h.page[p].data
      BY <2>1
    <3> HIDE <1>1, <1>2, <1>3, <1>4, <1>5, <1>6, <2>1
    <3> QED BY <3>1, <3>2, <3>3, PageWriteForm
  <2> QED BY <2>1 DEF WritesOnly
<1>8. PagesKept
  BY <1>2, <1>7 DEF Duplicated, SamePagesBut, PagesKept, LivePages
<1>9. Shrunk(heap', heap)
  <2>1. ASSUME NEW q \in PageIds
        PROVE  /\ h.page[q].live <=> heap.page[q].live
               /\ h.page[q].own = heap.page[q].own /\ h.page[q].len = heap.page[q].len
               /\ heap.page[q].len \in Nat
    <3>1. heap.page[q].len \in Nat
      BY <1>1 DEF Heap, PageRec
    <3>2. CASE q = p
      BY <3>1, <3>2, <1>2 DEF Duplicated, LivePages
    <3>3. CASE q # p
      BY <3>1, <3>3, <1>2 DEF Duplicated, SamePagesBut
    <3> QED BY <3>2, <3>3
  <2> QED BY <2>1, <1>7 DEF Shrunk, LivePages
<1>10. heap' \in Heap
  <2>1. Rewritten(heap', h)
    BY <1>3, <1>4, PageWriteOK
  <2> QED BY <2>1 DEF Rewritten, HeapOK
<1>11. \E D \in SUBSET DataIds : Private(D) /\ KeptBut(heap', heap, D)
  <2>1. CASE MustDup(p)
    <3>1. KeptBut(h, heap, {}) /\ h.page[p].data = e /\ e \in DataIds /\ ~heap.reg[e].live
      BY <2>1, <1>1, <1>5, DupKeeps DEF FreeData
    <3>2. \A c \in DataIds \ {e} : heap'.reg[c].live => h.reg[c].live
      <4>1. OnlyRegion(heap', h, e)
        <5> DEFINE m == h.reg[e].mem
                   at == h.page[p].base + off
                   v == [i \in 1..Len(m) |-> IF i > at /\ i <= at + Len(s) THEN s[i - at] ELSE m[i]]
        <5>1. h \in Heap
          BY <1>3 DEF HeapOK
        <5>2. heap' = [h EXCEPT !.reg[e].mem = v]
          BY <3>1, <1>4 DEF PageWrite
        <5> HIDE DEF v
        <5> QED BY <5>1, <5>2 DEF Heap, OnlyRegion
      <4> QED BY <4>1 DEF OnlyRegion
    <3>3. KeptBut(heap', heap, {})
      BY <3>1, <3>2, <1>7 DEF KeptBut
    <3> QED BY <3>3 DEF Private
  <2>2. CASE ~MustDup(p)
    <3>1. heap.reg[d].owned /\ ~(heap.reg[d].use > 1)
      BY <2>2 DEF MustDup
    <3>2. Refs(heap, d) = {p}
      BY <3>1, <1>1, OnlyReference
    <3>3. Private({d})
      BY <3>1, <3>2 DEF Private
    <3>4. KeptBut(heap', heap, {d})
      BY <2>2, <1>6, <1>7
    <3> QED BY <3>3, <3>4, <1>1
  <2> QED BY <2>1, <2>2
<1> QED BY <1>1, <1>8, <1>9, <1>10, <1>11, ShrunkSized DEF Isolated

LEMMA OverwriteDataIsolates ==
    ASSUME IInv, OverwriteDataStep
    PROVE  Isolated /\ (PageSized(heap) => PageSized(heap'))
<1> DEFINE p == call.it
           h == Writable(p)
           n == Lower(NodeLen(h, p), call.len)
           s == FromCaller(n)
<1>1. In("overwrite_data")
  BY DEF OverwriteDataStep
<1>2. /\ call.fn = "overwrite_data" /\ call.pc = "loop"
      /\ HeapOK(heap) /\ call.buf \in Buffers
      /\ Inside(heap, p, call.buf) /\ call.len \in Nat /\ p # call.buf
  BY <1>1, InLoop DEF In, LoopGoesOn
<1>3. p \in LivePages(heap) /\ heap.page[p].own = call.buf
  BY <1>2, InsideIsPage
<1>4. CASE LeaveLoop
  BY <1>4, QuietStep DEF LeaveLoop
<1>5. CASE CanWrite(p) /\ heap' = PageWrite(h, p, 0, s)
  <2>1. HeapOK(h)
    BY <1>3, <1>5, WritableOK DEF Duplicated
  <2>2. n \in Nat /\ n <= call.len
    <3> HIDE DEF h
    <3> QED BY <2>1, <1>2, LowerType, NodeLenType
  <2>3. s \in Seq(Byte)
    <3> HIDE DEF n
    <3> QED BY <2>2, <1>2, FromCallerType
  <2> HIDE DEF s, p
  <2> QED BY <2>3, <1>3, <1>5, WriteIsolates DEF h
<1> QED BY <1>4, <1>5 DEF OverwriteDataStep

LEMMA OverwriteBufferIsolates ==
    ASSUME IInv, OverwriteBufferStep
    PROVE  Isolated /\ (PageSized(heap) => PageSized(heap'))
<1> DEFINE p == call.it
           src == call.sit
           h == Writable(p)
           n == Lower(Lower(NodeLen(h, p), call.len), NodeLen(h, src))
           s == PageBytes(h, src, call.soff, n)
           off == call.off
<1>1. In("overwrite_buffer")
  BY DEF OverwriteBufferStep
<1>2. /\ call.fn = "overwrite_buffer" /\ HeapOK(heap) /\ call.buf \in Buffers
      /\ Inside(heap, p, call.buf) /\ call.len \in Nat /\ p # call.buf
      /\ off \in Nat /\ call.soff \in Nat /\ src # call.src
  BY <1>1, InLoop DEF In, LoopGoesOn
<1>3. p \in LivePages(heap) /\ heap.page[p].own = call.buf
  BY <1>2, InsideIsPage
<1>4. CASE LeaveLoop
  BY <1>4, QuietStep DEF LeaveLoop
<1>5. CASE Fault("oob")
  BY <1>5, QuietStep DEF Fault
<1>6. CASE /\ CanWrite(p) /\ InBounds(h, src, call.soff, n)
           /\ heap' = PageWrite(h, p, off, s)
  <2>1. HeapOK(h) /\ Duplicated(h, heap, p)
    BY <1>3, <1>6, WritableOK DEF Duplicated
  <2>2. src \in LivePages(heap) /\ src \in PageIds
    BY <1>1, <1>2, AtSourcePage DEF In
  <2>3. h.page[src].data \in DataIds /\ h \in Heap
    <3>1. h.page[src].live
      BY <2>1, <2>2, <1>3 DEF Duplicated, SamePagesBut, LivePages
    <3> QED BY <2>1, <2>2, <3>1 DEF HeapOK, Shown, LivePages
  <2> HIDE DEF h
  <2>4. n \in Nat
    <3> DEFINE l == Lower(NodeLen(h, p), call.len)
    <3>1. l \in Nat /\ NodeLen(h, src) \in Nat
      BY <2>1, <1>2, LowerType, NodeLenType
    <3> HIDE DEF l
    <3>2. Lower(l, NodeLen(h, src)) \in Nat
      BY <3>1, LowerType
    <3> QED BY <3>2 DEF l
  <2>5. s \in Seq(Byte)
    <3> HIDE DEF n
    <3> QED BY <2>2, <2>3, <2>4, <1>2, <1>6, PageBytesType
  <2> HIDE DEF s, p, off
  <2> QED BY <2>5, <1>2, <1>3, <1>6, WriteIsolates DEF h
<1> QED BY <1>4, <1>5, <1>6 DEF OverwriteBufferStep

-----------------------------------------------------------------------------
(* Every step.                                                             *)

LEMMA ClientIsQuiet ==
    ASSUME IInv, Client
    PROVE  heap'.page = heap.page /\ heap'.reg = heap.reg
<1>1. heap \in Heap
  BY DEF IInv, HeapOK
<1>2. ASSUME NEW b \in Buffers, Create(b)
      PROVE  heap'.page = heap.page /\ heap'.reg = heap.reg
  BY <1>1, <1>2 DEF Create, BufferCreate, Heap
<1>3. CASE \A b \in Buffers : ~Create(b)
  <2>1. /\ \A b, n : Extend(b, n) \/ Reserve(b, n) \/ Rewind(b, n) \/ Seek(b, n) \/ Trim(b, n)
                          \/ ReadData(b, n) => UNCHANGED heap
        /\ \A b, src, n : WriteBuffer(b, src, n) \/ OverwriteBuffer(b, src, n) => UNCHANGED heap
        /\ \A b, x, off, src, n : InsertBuffer(b, x, off, src, n) => UNCHANGED heap
        /\ \A b, s : OverwriteData(b, s) => UNCHANGED heap
        /\ \A b, fn, s : WriteData(b, fn, s) => UNCHANGED heap
        /\ \A b, x, off, fn, s : InsertData(b, x, off, fn, s) => UNCHANGED heap
        /\ \A b, fn : Clear(b, fn) => UNCHANGED heap
    BY DEF Start, Extend, Reserve, Rewind, Seek, Trim, ReadData, WriteBuffer,
           OverwriteBuffer, InsertBuffer, OverwriteData, WriteData, InsertData, Clear
  <2>2. UNCHANGED heap
    BY <2>1, <1>3 DEF Client
  <2> QED BY <2>2
<1> QED BY <1>2, <1>3

LEMMA ReturnIsQuiet ==
    ASSUME IInv, Return
    PROVE  heap'.page = heap.page /\ heap'.reg = heap.reg
  BY DEF Return, IInv, HeapOK, BufferFree, Heap

LEMMA StepIsolates ==
    ASSUME CountSuffices, IInv, [Next]_vars
    PROVE  Isolated /\ (PageSized(heap) => PageSized(heap'))
<1>1. CASE Client
  BY <1>1, ClientIsQuiet, QuietStep
<1>2. CASE Return
  BY <1>2, ReturnIsQuiet, QuietStep
<1>3. CASE UNCHANGED vars \/ ReadDataStep
  BY <1>3, QuietStep DEF vars, ReadDataStep
<1>4. CASE ExtendStep \/ RewindStep \/ InsertDataStep \/ InsertBufferStep
  <2>1. CASE LeaveLoop \/ Fault("oob")
    BY <2>1, QuietStep DEF LeaveLoop, Fault
  <2>2. ASSUME NEW h, NEW p, NEW n, NEW x, Inserts(h, p, n, x)
        PROVE  Isolated /\ (PageSized(heap) => PageSized(heap'))
    BY <2>2, InsertIsolates
  <2> QED BY <2>1, <2>2, <1>4, InsertingStep
<1>5. CASE SeekStep \/ TrimStep
  BY <1>5, CuttingStep, CutIsolates
<1>6. CASE ClearStep
  BY <1>6, ClearIsolates
<1>7. CASE OverwriteDataStep \/ OverwriteBufferStep
  BY <1>7, OverwriteDataIsolates, OverwriteBufferIsolates
<1> QED BY <1>1, <1>2, <1>3, <1>4, <1>5, <1>6, <1>7 DEF Next, Library

\* A page that is in the heap before and after shows the same bytes when its region
\* was not rewritten.
LEMMA SameBytes ==
    ASSUME IInv, IInv', Isolated, NEW p \in LivePages(heap), heap.page[p].own # call.buf
    PROVE  PageBytes(heap', p, 0, heap.page[p].len) = PageBytes(heap, p, 0, heap.page[p].len)
<1> DEFINE d == heap.page[p].data
<1>1. heap'.page[p] = heap.page[p]
  BY DEF Isolated, PagesKept
<1>2. p \in PageIds /\ d \in DataIds /\ p \in Refs(heap, d) /\ p \in Refs(heap', d)
  BY <1>1 DEF IInv, HeapOK, LivePages, Shown, Refs
<1>3. heap.reg[d].live /\ heap'.reg[d].live
  BY <1>2 DEF IInv, HeapOK, Counted
<1>4. PICK D \in SUBSET DataIds : Private(D) /\ KeptBut(heap', heap, D)
  BY DEF Isolated
<1>5. d \notin D
  BY <1>2, <1>4 DEF Private
<1>6. heap'.reg[d].mem = heap.reg[d].mem
  BY <1>2, <1>3, <1>4, <1>5 DEF KeptBut
<1> QED BY <1>1, <1>6 DEF PageBytes

LEMMA StepLeavesOthers ==
    ASSUME CountSuffices, IInv, IInv', [Next]_vars
    PROVE  /\ \A p \in LivePages(heap) :
                 heap.page[p].own # call.buf =>
                    /\ heap'.page[p] = heap.page[p]
                    /\ PageBytes(heap', p, 0, heap.page[p].len)
                          = PageBytes(heap, p, 0, heap.page[p].len)
           /\ \A d \in DataIds :
                 heap.reg[d].live /\ ~heap.reg[d].owned /\ heap'.reg[d].live
                    => heap'.reg[d].mem = heap.reg[d].mem
<1>1. Isolated
  BY StepIsolates
<1>2. PICK D \in SUBSET DataIds : Private(D) /\ KeptBut(heap', heap, D)
  BY <1>1 DEF Isolated
<1>3. \A p \in LivePages(heap) :
         heap.page[p].own # call.buf => heap'.page[p] = heap.page[p]
  BY <1>1 DEF Isolated, PagesKept
<1>4. \A d \in DataIds :
         heap.reg[d].live /\ ~heap.reg[d].owned /\ heap'.reg[d].live
            => heap'.reg[d].mem = heap.reg[d].mem
  BY <1>2 DEF Private, KeptBut
<1> QED BY <1>1, <1>3, <1>4, SameBytes

\* A call on one buffer never changes a page of another one or a byte it shows,
\* whichever regions the two share (MustDup, pb_trivial_buffer_dup_page_data and
\* the overwrite loops).
THEOREM OthersNeverTouched ==
    ASSUME CountSuffices, NoSelfSource
    PROVE  Spec => OthersUntouched
<1>1. IInv /\ IInv' /\ [Next]_vars =>
         [\A p \in LivePages(heap) :
             heap.page[p].own # call.buf =>
                /\ heap'.page[p] = heap.page[p]
                /\ PageBytes(heap', p, 0, heap.page[p].len)
                      = PageBytes(heap, p, 0, heap.page[p].len)]_vars
  BY StepLeavesOthers
<1> QED BY <1>1, InductiveInvariant, PTL DEF Spec, OthersUntouched

\* Memory handed in by reference is never written (the test of responsibility in
\* the overwrite loops).
THEOREM ReferencedMemoryKept ==
    ASSUME CountSuffices, NoSelfSource
    PROVE  Spec => ReferencedNeverWritten
<1>1. IInv /\ IInv' /\ [Next]_vars =>
         [\A d \in DataIds :
             heap.reg[d].live /\ ~heap.reg[d].owned /\ heap'.reg[d].live
                => heap'.reg[d].mem = heap.reg[d].mem]_vars
  BY StepLeavesOthers
<1> QED BY <1>1, InductiveInvariant, PTL DEF Spec, ReferencedNeverWritten

\* With fragment_as_target and a page_size no page is longer than page_size,
\* whichever call made, split or shortened it (the chunk sizes of extend, rewind
\* and the insert loops).
THEOREM PagesRespectSize ==
    ASSUME CountSuffices, NoSelfSource
    PROVE  Spec => []PageSizeRespected
<1>1. Init => PageSized(heap)
  BY DEF Init, PageSized, LivePages, EmptyHeap, NoPage
<1>2. IInv /\ PageSized(heap) /\ [Next]_vars => PageSized(heap)'
  BY StepIsolates
<1>3. PageSized(heap) => PageSizeRespected
  BY DEF PageSized, Sized, PageSizeRespected
<1> QED BY <1>1, <1>2, <1>3, InductiveInvariant, PTL DEF Spec

=============================================================================
