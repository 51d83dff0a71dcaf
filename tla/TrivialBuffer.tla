--------------------------- MODULE TrivialBuffer ---------------------------
(***************************************************************************)
(* The trivial buffers of pagebuf.c and one client that calls them.  The   *)
(* library is single threaded: a Begin action is the client entering an    *)
(* API function (its early returns are the guard), a Step action is one    *)
(* iteration of the function's loop, and Return is the code after the loop *)
(* and the return to the client.  call holds the locals of that function.  *)
(*                                                                         *)
(* An allocation fails when the model has no free page or region left, and *)
(* at any time when MayFail holds.  Executing what C leaves undefined      *)
(* (touching memory outside a region, or going on with a list that holds a *)
(* freed page) sets fault, and nothing happens afterwards.                 *)
(***************************************************************************)
EXTENDS PageHeap

CONSTANTS
    Strategy,  \* struct pb_buffer_strategy of each buffer
    Ops,       \* the API functions the client calls in this instance
    Inputs,    \* the byte strings the client passes in
    Junk,      \* the bytes uninitialised memory may hold
    MaxLen,    \* bound on the len argument of a call
    MaxSize,   \* bound: no call is begun that could grow a buffer beyond this
    MayFail,   \* whether any allocation may fail
    Usage      \* unusual ways of calling the client resorts to, see below

(***************************************************************************)
(* Usage is a subset of                                                    *)
(*   "split_at_end"  an insert offset equal to the length of the page      *)
(*   "self_source"   a buffer given as its own source                      *)
(*   "misaligned"    overwrite_buffer between buffers whose page           *)
(*                   boundaries do not coincide                            *)
(***************************************************************************)
StrategyType ==
    [page_size : Nat, clone_on_write : BOOLEAN, fragment_as_target : BOOLEAN,
     rejects : SUBSET {"insert", "extend", "rewind", "seek", "trim", "write",
                       "overwrite"}]

ASSUME StrategyAssumption == Strategy \in [Buffers -> StrategyType]

ASSUME ClientAssumption ==
    /\ Inputs \subseteq Seq(Byte)
    /\ Junk \subseteq Byte
    /\ MaxLen \in Nat /\ MaxSize \in Nat
    /\ MayFail \in BOOLEAN

VARIABLES
    heap,   \* pages, regions and lists
    size,   \* data_size of each buffer
    bumped, \* the buffers whose data_revision differs from its value when the
            \* last call was entered: a revision is only ever compared with a
            \* remembered one
    call,   \* the API call in progress
    fault   \* the undefined behaviour executed, "none" while there is none

vars == << heap, size, bumped, call, fault >>

\* The functions with a loop of their own; the other calls run one of these.
Loops ==
    {"extend", "rewind", "seek", "trim", "insert_data", "insert_data_ref",
     "insert_buffer", "overwrite_data", "overwrite_buffer", "read_data", "clear",
     "destroy"}

CallType ==
    [fn : Loops \cup {"none"}, buf : Buffers \cup {NULL}, src : Buffers \cup {NULL},
     it : Nodes \cup {NULL}, off : Nat, sit : Nodes \cup {NULL}, soff : Nat,
     dat : Seq(Byte), len : Nat, done : Nat, pc : {"idle", "loop", "ret"}]

\* fn the function, buf and src its buffers, it and sit its iterators into them
\* with the offsets off and soff, dat the caller's memory, len what is left to
\* do and done the count that will be returned.
Idle ==
    [fn |-> "none", buf |-> NULL, src |-> NULL, it |-> NULL, off |-> 0,
     sit |-> NULL, soff |-> 0, dat |-> << >>, len |-> 0, done |-> 0, pc |-> "idle"]

Init ==
    /\ heap = EmptyHeap
    /\ size = [b \in Buffers |-> 0]
    /\ bumped = {}
    /\ call = Idle
    /\ fault = "none"

Lower(m, n) == IF m < n THEN m ELSE n

\* The page_size limit on the n bytes still to be placed in buffer b.
Chunk(b, n) ==
    IF Strategy[b].page_size # 0 THEN Lower(Strategy[b].page_size, n) ELSE n

-----------------------------------------------------------------------------
(* Entering a function.                                                    *)

Ready(b, fn) == fault = "none" /\ call.pc = "idle" /\ Exists(heap, b) /\ fn \in Ops

Allowed(b, what) == what \notin Strategy[b].rejects

Fits(b, n) == size[b] + n <= MaxSize

Enter(fn, b, n) == [Idle EXCEPT !.fn = fn, !.buf = b, !.len = n, !.pc = "loop"]

Start(c) ==
    /\ call' = c
    /\ bumped' = {}
    /\ UNCHANGED << heap, size, fault >>

Create(b) ==
    /\ fault = "none" /\ call = Idle /\ ~Exists(heap, b)
    /\ heap' = BufferCreate(heap, b)
    /\ size' = [size EXCEPT ![b] = 0]
    /\ bumped' = {}
    /\ UNCHANGED << call, fault >>

Extend(b, n) ==
    /\ Ready(b, "extend") /\ Allowed(b, "extend") /\ Fits(b, n)
    /\ Start([Enter("extend", b, n) EXCEPT !.it = b])

\* Extends by what is missing to n bytes.
Reserve(b, n) ==
    /\ Ready(b, "reserve") /\ Allowed(b, "extend")
    /\ n > size[b] /\ n <= MaxSize
    /\ Start([Enter("extend", b, n - size[b]) EXCEPT !.it = b])

Rewind(b, n) ==
    /\ Ready(b, "rewind") /\ Allowed(b, "rewind") /\ Fits(b, n)
    /\ Start([Enter("rewind", b, n) EXCEPT !.it = heap.nxt[b]])

Seek(b, n) ==
    /\ Ready(b, "seek") /\ Allowed(b, "seek")
    /\ Start([Enter("seek", b, n) EXCEPT !.it = heap.nxt[b]])

Trim(b, n) ==
    /\ Ready(b, "trim") /\ Allowed(b, "trim")
    /\ Start([Enter("trim", b, n) EXCEPT !.it = heap.prv[b]])

\* Where the client may point an insert: the end iterator, or an offset into
\* any page of the buffer.
Position(b, x, off) ==
    \/ x = b /\ off = 0
    \/ /\ x \in LivePages(heap) /\ heap.page[x].own = b
       /\ off <= NodeLen(heap, x)
       /\ off = NodeLen(heap, x) => "split_at_end" \in Usage

\* fn says whether the bytes are copied or referenced.
InsertData(b, x, off, fn, s) ==
    /\ Ready(b, fn) /\ Fits(b, Len(s)) /\ Position(b, x, off)
    /\ x # b => Allowed(b, "insert")
    /\ Start([Enter(fn, b, Len(s)) EXCEPT !.it = x, !.off = off, !.dat = s])

\* write_data and write_data_ref run the insert loops at the end iterator.
WriteData(b, fn, s) ==
    /\ Ready(b, fn) /\ Allowed(b, "write") /\ Fits(b, Len(s))
    /\ Start([Enter(IF fn = "write_data" THEN "insert_data" ELSE "insert_data_ref",
                    b, Len(s))
              EXCEPT !.it = b, !.dat = s])

Source(b, src) == Exists(heap, src) /\ (src = b => "self_source" \in Usage)

InsertBuffer(b, x, off, src, n) ==
    /\ Ready(b, "insert_buffer") /\ Fits(b, n) /\ Position(b, x, off)
    /\ x # b => Allowed(b, "insert")
    /\ Source(b, src)
    /\ Start([Enter("insert_buffer", b, n) EXCEPT
                !.it = x, !.off = off, !.src = src, !.sit = heap.nxt[src]])

WriteBuffer(b, src, n) ==
    /\ Ready(b, "write_buffer") /\ Allowed(b, "write") /\ Fits(b, n) /\ Source(b, src)
    /\ Start([Enter("insert_buffer", b, n) EXCEPT
                !.it = b, !.src = src, !.sit = heap.nxt[src]])

OverwriteData(b, s) ==
    /\ Ready(b, "overwrite_data") /\ Allowed(b, "overwrite")
    /\ Start([Enter("overwrite_data", b, Len(s)) EXCEPT
                !.it = heap.nxt[b], !.dat = s])

\* Both lists are cut at the same places as far as n bytes reach.
Aligned(b, src, n) ==
    \/ n <= NodeLen(heap, heap.nxt[b]) /\ n <= NodeLen(heap, heap.nxt[src])
    \/ LET ps == PagesOf(heap, b)
           qs == PagesOf(heap, src)
       IN  \A i \in 1..Lower(Len(ps), Len(qs)) :
              NodeLen(heap, ps[i]) = NodeLen(heap, qs[i])

OverwriteBuffer(b, src, n) ==
    /\ Ready(b, "overwrite_buffer") /\ Allowed(b, "overwrite") /\ Source(b, src)
    /\ "misaligned" \in Usage \/ Aligned(b, src, n)
    /\ Start([Enter("overwrite_buffer", b, n) EXCEPT
                !.it = heap.nxt[b], !.src = src, !.sit = heap.nxt[src]])

ReadData(b, n) ==
    /\ Ready(b, "read_data")
    /\ Start([Enter("read_data", b, n) EXCEPT !.it = heap.nxt[b]])

\* clear, and destroy which clears first: the size is reset and the revision
\* raised before the first page is freed.
Clear(b, fn) ==
    /\ Ready(b, fn)
    /\ call' = [Enter(fn, b, 0) EXCEPT !.it = heap.nxt[b]]
    /\ bumped' = {b}
    /\ size' = [size EXCEPT ![b] = 0]
    /\ UNCHANGED << heap, fault >>

-----------------------------------------------------------------------------
(* The loops.                                                              *)

\* Mutant of LoopGoesOn: the last byte is not worth another iteration.
LoopGoesOnForTwo(c) ==
    /\ c.fn \in {"clear", "destroy"} \/ c.len > 1
    /\ c.fn \in {"seek", "trim", "overwrite_data", "overwrite_buffer", "read_data",
                 "clear", "destroy"} => c.it # c.buf
    /\ c.fn \in {"insert_buffer", "overwrite_buffer"} => c.sit # c.src

\* The while condition of the function.
LoopGoesOn(c) ==
    /\ c.fn \in {"clear", "destroy"} \/ c.len > 0
    /\ c.fn \in {"seek", "trim", "overwrite_data", "overwrite_buffer", "read_data",
                 "clear", "destroy"} => c.it # c.buf
    /\ c.fn \in {"insert_buffer", "overwrite_buffer"} => c.sit # c.src

In(fn) == fault = "none" /\ call.pc = "loop" /\ call.fn = fn /\ LoopGoesOn(call)

\* A break or return out of the loop, nothing else having changed.
LeaveLoop ==
    /\ call' = [call EXCEPT !.pc = "ret"]
    /\ UNCHANGED << heap, size, bumped, fault >>

Fault(what) == fault' = what /\ UNCHANGED << heap, size, bumped, call >>

Progress(c, n) == [c EXCEPT !.len = @ - n, !.done = @ + n]

\* Mutant of NextSource: the next source page is entered at the old offset.
NextSourceOffsetKept(c, h, n) ==
    IF ~Strategy[c.buf].clone_on_write /\ ~Strategy[c.buf].fragment_as_target
    THEN [c EXCEPT !.sit = h.nxt[@]]
    ELSE IF c.soff + n = h.page[c.sit].len
         THEN [c EXCEPT !.sit = h.nxt[@], !.soff = @ + n]
         ELSE [c EXCEPT !.soff = @ + n]

\* The source iterator after n bytes: variant 1 (pages shared whole) goes to the
\* next page, the others do when src_offset reaches the end of the page.
NextSource(c, h, n) ==
    IF ~Strategy[c.buf].clone_on_write /\ ~Strategy[c.buf].fragment_as_target
    THEN [c EXCEPT !.sit = h.nxt[@]]
    ELSE IF c.soff + n = h.page[c.sit].len
         THEN [c EXCEPT !.sit = h.nxt[@], !.soff = 0]
         ELSE [c EXCEPT !.soff = @ + n]

\* Mutant of AfterInsert: the next piece is inserted at the offset again.
AfterInsertOffsetKept(c, h, n) ==
    IF c.fn = "insert_buffer" THEN NextSource(Progress(c, n), h, n) ELSE Progress(c, n)

\* The locals after an iteration inserted n bytes.
AfterInsert(c, h, n) ==
    LET d == [Progress(c, n) EXCEPT !.off = 0]
    IN  IF c.fn = "insert_buffer" THEN NextSource(d, h, n) ELSE d

\* Mutant of InsertBumps: an insert in the middle keeps the revision.
InsertBumpsOnlyEmpty(b, x) == size[b] = 0

\* An insert invalidates iterators unless it appends to a buffer with data.
InsertBumps(b, x) == x # b \/ size[b] = 0

\* pb_trivial_buffer_insert of the page p, just made in heap h, in front of node
\* x, and the rest of the iteration of the loop that called it.  A page of no
\* length is linked, reported as a failure, and freed by the caller.
InsertPage(h, p, x) ==
    LET b == call.buf
        n == h.page[p].len
        off == Lower(call.off, NodeLen(h, x))
        split == off # 0
        q == AnyOf(FreePages(h))
        g == LinkBefore(IF split THEN SplitPage(h, x, off, q) ELSE h, p, x)
    IN  /\ bumped' = IF InsertBumps(b, x) THEN bumped \cup {b} ELSE bumped
        /\ \/ /\ split /\ (MayFail \/ FreePages(h) = {})
              /\ heap' = PageDestroy(h, p)
              /\ call' = [call EXCEPT !.pc = "ret"]
              /\ UNCHANGED << size, fault >>
           \/ /\ split => FreePages(h) # {}
              /\ heap' = g
              /\ size' = [size EXCEPT ![b] = @ + n]
              /\ call' = IF n = 0 THEN [call EXCEPT !.pc = "ret"]
                         ELSE AfterInsert(call, g, n)
              /\ fault' = IF n = 0 THEN "freed_linked" ELSE fault

NoRoom == FreePages(heap) = {} \/ FreeData(heap) = {}

\* page_create or page_create_ref of the bytes m, then the insert; the region can
\* fail, or the page that was to show it.
MakePage(owned, m, x) ==
    \/ (MayFail \/ FreeData(heap) = {}) /\ LeaveLoop
    \/ /\ FreeData(heap) # {} /\ (MayFail \/ FreePages(heap) = {})
       /\ heap' = PageCreateFails(heap, AnyOf(FreeData(heap)), owned, m)
       /\ call' = [call EXCEPT !.pc = "ret"]
       /\ UNCHANGED << size, bumped, fault >>
    \/ /\ ~NoRoom
       /\ LET p == AnyOf(FreePages(heap))
              d == AnyOf(FreeData(heap))
          IN  InsertPage(BufferPageCreate(heap, p, d, owned, m), p, x)

\* pb_page_transfer of n bytes of the source page, then the insert.
SharePage(n) ==
    \/ (MayFail \/ FreePages(heap) = {}) /\ LeaveLoop
    \/ /\ FreePages(heap) # {}
       /\ LET p == AnyOf(FreePages(heap))
          IN  InsertPage(PageTransfer(heap, p, call.sit, n, call.soff), p, call.it)

ExtendStep ==
    /\ In("extend")
    /\ \E m \in [1..Chunk(call.buf, call.len) -> Junk] : MakePage(TRUE, m, call.buf)

\* The begin iterator is taken anew in every iteration.
RewindStep ==
    /\ In("rewind")
    /\ \E m \in [1..Chunk(call.buf, call.len) -> Junk] :
          MakePage(TRUE, m, heap.nxt[call.buf])

\* Mutant of FromCaller: every piece starts at the head of the memory.
FromCallerAgain(n) == SubSeq(call.dat, 1, n)

\* The next n bytes of the caller's memory.
FromCaller(n) == SubSeq(call.dat, call.done + 1, call.done + n)

InsertDataStep ==
    \/ /\ In("insert_data")
       /\ MakePage(TRUE, FromCaller(Chunk(call.buf, call.len)), call.it)
    \/ /\ In("insert_data_ref")
       /\ MakePage(FALSE, FromCaller(Chunk(call.buf, call.len)), call.it)

\* Mutant of InsertLen: page_size is not looked at.
InsertLenUncut(c) == Lower(NodeLen(heap, c.sit) - c.soff, c.len)

\* What one iteration takes from the source page.  Without fragment_as_target
\* the page is taken from its start on and page_size plays no part; with it,
\* pb_page_get_len(src_page) - src_offset is an unsigned difference, larger than
\* any len when the offset is beyond the page.
InsertLen(c) ==
    LET plen == NodeLen(heap, c.sit)
    IN  IF ~Strategy[c.buf].fragment_as_target THEN Lower(plen, c.len)
        ELSE Chunk(c.buf, IF c.soff <= plen THEN Lower(plen - c.soff, c.len)
                          ELSE c.len)

\* pb_trivial_buffer_insert_buffer1 to 4.
InsertBufferStep ==
    /\ In("insert_buffer")
    /\ LET n == InsertLen(call)
       IN  IF ~Strategy[call.buf].clone_on_write THEN SharePage(n)
           ELSE IF InBounds(heap, call.sit, call.soff, n)
           THEN MakePage(TRUE, PageBytes(heap, call.sit, call.soff, n), call.it)
           ELSE Fault("oob")

\* Mutant of SeekStep: a page left without bytes stays in the list.
SeekStepKeepsPage ==
    /\ In("seek")
    /\ LET n == Lower(NodeLen(heap, call.it), call.len)
       IN  /\ heap' = DropFront(heap, call.it, n)
           /\ call' = Progress(call, n)
           /\ size' = [size EXCEPT ![call.buf] = @ - n]
    /\ UNCHANGED << bumped, fault >>

SeekStep ==
    /\ In("seek")
    /\ LET p == call.it
           n == Lower(NodeLen(heap, p), call.len)
           g == DropFront(heap, p, n)
           c == IF NodeLen(g, p) = 0 THEN [call EXCEPT !.it = heap.nxt[p]] ELSE call
       IN  /\ heap' = IF NodeLen(g, p) = 0 THEN UnlinkDestroy(g, p) ELSE g
           /\ call' = IF n = 0 THEN [c EXCEPT !.pc = "ret"] ELSE Progress(c, n)
           /\ size' = [size EXCEPT ![call.buf] = @ - n]
    /\ UNCHANGED << bumped, fault >>

TrimStep ==
    /\ In("trim")
    /\ LET p == call.it
           n == Lower(NodeLen(heap, p), call.len)
           g == DropBack(heap, p, n)
           c == IF NodeLen(g, p) = 0 THEN [call EXCEPT !.it = heap.prv[p]] ELSE call
       IN  /\ heap' = IF NodeLen(g, p) = 0 THEN UnlinkDestroy(g, p) ELSE g
           /\ call' = IF n = 0 THEN [c EXCEPT !.pc = "ret"] ELSE Progress(c, n)
           /\ size' = [size EXCEPT ![call.buf] = @ - n]
    /\ UNCHANGED << bumped, fault >>

\* Mutant of MustDup: external memory is written in place.
MustDupNotReferenced(p) ==
    LET d == heap.page[p].data
    IN  ~Strategy[call.buf].clone_on_write \/ heap.reg[d].use > 1

\* Mutant of MustDup: shared memory is written in place.
MustDupNotShared(p) ==
    LET d == heap.page[p].data
    IN  ~Strategy[call.buf].clone_on_write \/ ~heap.reg[d].owned

\* overwrite_* replaces the page's data by a private copy first unless the
\* buffer clones on write and nobody else can see the region.
MustDup(p) ==
    LET d == heap.page[p].data
    IN  \/ ~Strategy[call.buf].clone_on_write
        \/ heap.reg[d].use > 1
        \/ ~heap.reg[d].owned

DupFails(p) == MustDup(p) /\ (MayFail \/ FreeData(heap) = {})

CanWrite(p) == MustDup(p) => FreeData(heap) # {}

Writable(p) ==
    IF MustDup(p) THEN DupPageData(heap, p, AnyOf(FreeData(heap))) ELSE heap

OverwriteDataStep ==
    /\ In("overwrite_data")
    /\ \/ DupFails(call.it) /\ LeaveLoop
       \/ /\ CanWrite(call.it)
          /\ LET p == call.it
                 h == Writable(p)
                 n == Lower(NodeLen(h, p), call.len)
             IN  /\ heap' = PageWrite(h, p, 0, FromCaller(n))
                 /\ call' = IF n = 0 THEN [call EXCEPT !.pc = "ret"]
                            ELSE [Progress(call, n) EXCEPT !.it = h.nxt[p]]
          /\ UNCHANGED << size, bumped, fault >>

\* The locals after n bytes went from the source page to the page.
AfterOverwrite(c, h, n) ==
    LET d == IF c.off + n = NodeLen(h, c.it) THEN [c EXCEPT !.it = h.nxt[@], !.off = 0]
             ELSE [c EXCEPT !.off = @ + n]
        e == IF c.soff + n = NodeLen(h, c.sit) THEN [d EXCEPT !.sit = h.nxt[@], !.soff = 0]
             ELSE [d EXCEPT !.soff = @ + n]
    IN  Progress(e, n)

\* The length is taken from the whole pages; neither offset is subtracted.
OverwriteBufferStep ==
    /\ In("overwrite_buffer")
    /\ \/ DupFails(call.it) /\ LeaveLoop
       \/ /\ CanWrite(call.it)
          /\ LET h == Writable(call.it)
                 n == Lower(Lower(NodeLen(h, call.it), call.len), NodeLen(h, call.sit))
             IN  IF /\ InBounds(h, call.it, call.off, n)
                    /\ InBounds(h, call.sit, call.soff, n)
                 THEN /\ heap' = PageWrite(h, call.it, call.off,
                                           PageBytes(h, call.sit, call.soff, n))
                      /\ call' = IF n = 0 THEN [call EXCEPT !.pc = "ret"]
                                 ELSE AfterOverwrite(call, h, n)
                      /\ UNCHANGED << size, bumped, fault >>
                 ELSE Fault("oob")

\* The bytes read are kept in dat.
ReadDataStep ==
    /\ In("read_data")
    /\ LET p == call.it
           n == Lower(NodeLen(heap, p), call.len)
       IN  call' = [Progress(call, n) EXCEPT
                      !.dat = @ \o PageBytes(heap, p, 0, n), !.it = heap.nxt[p]]
    /\ UNCHANGED << heap, size, bumped, fault >>

ClearStep ==
    /\ In("clear") \/ In("destroy")
    /\ heap' = UnlinkDestroy(heap, call.it)
    /\ call' = [call EXCEPT !.it = heap.nxt[call.it]]
    /\ UNCHANGED << size, bumped, fault >>

\* Mutant of ReturnBumps: only the functions that move data count.
ReturnBumpsNotOverwrite(c) == c.fn \in {"seek", "trim"} /\ c.done > 0

\* Mutant of ReturnBumps: seek does not count as a change of the data.
ReturnBumpsNotSeek(c) ==
    c.fn \in {"trim", "overwrite_data", "overwrite_buffer"} /\ c.done > 0

\* The functions that raise the revision after their loop, if they did anything.
ReturnBumps(c) ==
    /\ c.fn \in {"seek", "trim", "overwrite_data", "overwrite_buffer"}
    /\ c.done > 0

Return ==
    /\ fault = "none"
    /\ call.pc = "ret" \/ (call.pc = "loop" /\ ~LoopGoesOn(call))
    /\ bumped' = IF ReturnBumps(call) THEN bumped \cup {call.buf} ELSE bumped
    /\ heap' = IF call.fn = "destroy" THEN BufferFree(heap, call.buf) ELSE heap
    /\ call' = Idle
    /\ UNCHANGED << size, fault >>

-----------------------------------------------------------------------------
Client ==
    \E b \in Buffers :
        \/ Create(b)
        \/ \E n \in 1..MaxLen :
              \/ Extend(b, n) \/ Reserve(b, n) \/ Rewind(b, n)
              \/ Seek(b, n) \/ Trim(b, n) \/ ReadData(b, n)
              \/ \E src \in Buffers :
                    \/ WriteBuffer(b, src, n)
                    \/ OverwriteBuffer(b, src, n)
                    \/ \E x \in PageIds \cup {b}, off \in 0..MaxSize :
                          InsertBuffer(b, x, off, src, n)
        \/ \E s \in Inputs :
              \/ OverwriteData(b, s)
              \/ \E fn \in {"write_data", "write_data_ref"} : WriteData(b, fn, s)
              \/ \E x \in PageIds \cup {b}, off \in 0..MaxSize,
                    fn \in {"insert_data", "insert_data_ref"} :
                    InsertData(b, x, off, fn, s)
        \/ \E fn \in {"clear", "destroy"} : Clear(b, fn)

Library ==
    \/ ExtendStep \/ RewindStep \/ SeekStep \/ TrimStep
    \/ InsertDataStep \/ InsertBufferStep
    \/ OverwriteDataStep \/ OverwriteBufferStep
    \/ ReadDataStep \/ ClearStep
    \/ Return

Next == Client \/ Library

Spec == Init /\ [][Next]_vars

\* The library runs to the end of a call once it is entered.
FairSpec == Spec /\ WF_vars(Library)

-----------------------------------------------------------------------------
(* Properties.                                                             *)

\* Every variable, and every field of the locals of a call, has its type; that
\* size is never negative follows from SizeMatchesPages.
TypeOK ==
    /\ heap \in Heap
    /\ size \in [Buffers -> Int]
    /\ bumped \subseteq Buffers
    /\ call \in CallType
    /\ fault \in {"none", "oob", "freed_linked"}

\* use_count counts the pages that show the region, no more and no less, and a
\* region lives as long as one of them does: nothing is freed under a page and
\* nothing is leaked, whichever pages share, split, copy or give up a region and
\* whichever allocation fails (pb_trivial_data_get and _put and all their callers).
RefCountExact ==
    \A d \in DataIds :
        /\ heap.reg[d].use = Cardinality(Refs(heap, d))
        /\ heap.reg[d].live <=> Refs(heap, d) # {}

\* No page shows bytes outside its region: splits, seeks, trims and shares only
\* ever narrow a window.
WindowsInBounds ==
    \A p \in LivePages(heap) : InBounds(heap, p, 0, heap.page[p].len)

\* Following next from page_end and following prev give the same pages in the two
\* directions, the lists are disjoint, and every page that is not freed is in one:
\* a page made by a call that then failed is never left behind.
ListsIntact ==
    /\ \A b \in Buffers : Exists(heap, b) =>
          LET ps == PagesOf(heap, b)
          IN  /\ \A i \in 1..Len(ps) :
                    /\ ps[i] \in LivePages(heap) /\ heap.page[ps[i]].own = b
                    /\ heap.prv[ps[i]] = IF i = 1 THEN b ELSE ps[i - 1]
              /\ heap.prv[b] = IF ps = << >> THEN b ELSE ps[Len(ps)]
              /\ {ps[i] : i \in 1..Len(ps)}
                    = {p \in LivePages(heap) : heap.page[p].own = b}
    /\ \A p \in LivePages(heap) :
          heap.page[p].own \in Buffers /\ Exists(heap, heap.page[p].own)

\* The bytes the pages of b show.
PagesLen(b) ==
    LET ps == PagesOf(heap, b)
        sum[i \in 0..Len(ps)] == IF i = 0 THEN 0 ELSE sum[i - 1] + NodeLen(heap, ps[i])
    IN  sum[Len(ps)]

\* The audit of pb_trivial_buffer_get_data_size (assert(audit_size == data_size)),
\* at every iteration of every loop; clear resets the size before it frees pages.
SizeMatchesPages ==
    \A b \in Buffers :
        Exists(heap, b) /\ ~(call.fn \in {"clear", "destroy"} /\ call.buf = b)
            => size[b] = PagesLen(b)

\* A page of length zero ends seek, trim and overwrite early, so no call may
\* leave one behind.
NoEmptyPages == \A p \in LivePages(heap) : heap.page[p].len > 0

\* Nothing undefined is ever executed.
NoFault == fault = "none"

\* With fragment_as_target and a page_size, no page of the buffer is longer than
\* page_size, whatever it was made from.
PageSizeRespected ==
    \A p \in LivePages(heap) :
        LET b == heap.page[p].own
        IN  b # NULL /\ Strategy[b].fragment_as_target
                => heap.page[p].len = Chunk(b, heap.page[p].len)

\* A call on one buffer never changes a page of another one, nor the bytes that
\* page shows, although the two may share the region; the source of an insert or
\* an overwrite is another one too.
OthersUntouched ==
    [][\A p \in LivePages(heap) :
          heap.page[p].own # call.buf =>
             /\ heap'.page[p] = heap.page[p]
             /\ PageBytes(heap', p, 0, heap.page[p].len)
                   = PageBytes(heap, p, 0, heap.page[p].len)]_vars

\* Memory handed in by reference is never written ("we won't actually change it",
\* pb_trivial_data_create_ref).
ReferencedNeverWritten ==
    [][\A d \in DataIds :
          heap.reg[d].live /\ ~heap.reg[d].owned /\ heap'.reg[d].live
             => heap'.reg[d].mem = heap.reg[d].mem]_vars

\* What pagebuf_protected.h says of the reference count: a pb_data is destroyed
\* only when "all pb_page instances referencing the pb_data are destroyed".
RegionsOutlivePages ==
    \A p \in LivePages(heap) : heap.reg[heap.page[p].data].live

\* Every call that is entered returns, unless undefined behaviour cuts it short:
\* no loop of the library runs forever, whatever the client passes in.
CallsReturn == (call.pc # "idle") ~> (call.pc = "idle" \/ fault # "none")

=============================================================================
