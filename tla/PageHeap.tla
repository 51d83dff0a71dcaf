------------------------------ MODULE PageHeap ------------------------------
(***************************************************************************)
(* The memory of the library: reference counted data regions (struct       *)
(* pb_data), the pages that are windows onto them (struct pb_page) and the *)
(* doubly linked page lists of the trivial buffers, each closed by the     *)
(* page_end anchor of its buffer.                                          *)
(*                                                                         *)
(* The module has no variables.  A heap is one record value, and the       *)
(* functions of pagebuf.c that touch data, pages or links are operators    *)
(* from a heap to the heap they leave behind, so that a caller composes    *)
(* them in the order the code calls them.                                  *)
(*                                                                         *)
(*   h.reg[d]   the pb_data d: use is its use_count, mem the bytes of      *)
(*              data_vec (so pb_data_get_len is Len(mem)), owned its       *)
(*              responsibility; a freed pb_data is NoRegion                *)
(*   h.page[p]  the pb_page p: its pb_data and its window, base bytes from *)
(*              the start of that data and len bytes long; own is a ghost, *)
(*              the buffer whose list holds the page                       *)
(*   h.nxt[n]   page->next and page->prev, for pages and for the anchor of *)
(*   h.prv[n]   each buffer, which is named by the buffer itself; NULL for *)
(*              a page in no list and for a buffer that does not exist     *)
(***************************************************************************)
EXTENDS Integers, FiniteSets, SequencesExt

CONSTANTS
    Buffers,     \* the pb_buffer instances, and their page_end anchors
    PageIds,     \* the pb_page structs the allocator can hand out
    DataIds,     \* the pb_data structs the allocator can hand out
    Byte,        \* the byte values told apart
    UseCountMod, \* use_count counts modulo this: 2^16 in the code
    NULL

ASSUME HeapAssumption ==
    /\ IsFiniteSet(PageIds)
    /\ Buffers \cap PageIds = {}
    /\ NULL \notin Buffers \cup PageIds \cup DataIds
    /\ UseCountMod \in Nat /\ UseCountMod > 2

Nodes == PageIds \cup Buffers

Region == [live : BOOLEAN, owned : BOOLEAN, use : Nat, mem : Seq(Byte)]

PageRec == [live : BOOLEAN, data : DataIds \cup {NULL}, base : Nat, len : Nat,
            own : Buffers \cup {NULL}]

Heap == [reg : [DataIds -> Region], page : [PageIds -> PageRec],
         nxt : [Nodes -> Nodes \cup {NULL}], prv : [Nodes -> Nodes \cup {NULL}]]

NoRegion == [live |-> FALSE, owned |-> FALSE, use |-> 0, mem |-> << >>]

NoPage == [live |-> FALSE, data |-> NULL, base |-> 0, len |-> 0, own |-> NULL]

EmptyHeap == [reg |-> [d \in DataIds |-> NoRegion],
              page |-> [p \in PageIds |-> NoPage],
              nxt |-> [n \in Nodes |-> NULL],
              prv |-> [n \in Nodes |-> NULL]]

-----------------------------------------------------------------------------
(* What can be read off a heap.                                            *)

LivePages(h) == {p \in PageIds : h.page[p].live}

FreePages(h) == {p \in PageIds : ~h.page[p].live}

FreeData(h) == {d \in DataIds : ~h.reg[d].live}

\* The address malloc returns is any free one; which one makes no difference.
AnyOf(S) == CHOOSE x \in S : TRUE

\* The pages that hold a reference to d.
Refs(h, d) == {p \in PageIds : h.page[p].live /\ h.page[p].data = d}

Exists(h, b) == h.nxt[b] # NULL

\* pb_page_get_len; the data_vec of an anchor is all zero.
NodeLen(h, n) == IF n \in PageIds THEN h.page[n].len ELSE 0

Owner(h, n) == IF n \in PageIds THEN h.page[n].own ELSE n

\* n bytes at off in the window of page p stay inside its data region.
InBounds(h, p, off, n) ==
    h.page[p].base + off + n <= Len(h.reg[h.page[p].data].mem)

\* The n bytes a memcpy from pb_page_get_base_at(p, off) reads.
PageBytes(h, p, off, n) ==
    LET at == h.page[p].base + off
    IN  SubSeq(h.reg[h.page[p].data].mem, at + 1, at + n)

\* The pages from node n on to the anchor of b, following next; the walk is cut
\* after as many pages as there are.
PagesFrom(h, b, n) ==
    LET further[s \in Seq(Nodes)] ==
            LET x == IF s = << >> THEN n ELSE h.nxt[s[Len(s)]]
            IN  IF x \in {b, NULL} THEN s ELSE Append(s, x)
        walk[k \in 0..Cardinality(PageIds)] ==
            IF k = 0 THEN << >> ELSE further[walk[k - 1]]
    IN  walk[Cardinality(PageIds)]

PagesOf(h, b) == PagesFrom(h, b, h.nxt[b])

\* The bytes of buffer b in order.
Content(h, b) ==
    LET ps == PagesOf(h, b)
    IN  FlattenSeq([i \in 1..Len(ps) |-> PageBytes(h, ps[i], 0, NodeLen(h, ps[i]))])

\* The bytes in front of node x in the list of b.
BytesBefore(h, b, x) ==
    LET ps == PagesOf(h, b)
        k == CHOOSE i \in 0..Len(ps) : (IF i < Len(ps) THEN ps[i + 1] ELSE b) = x
        sum[i \in 0..k] == IF i = 0 THEN 0 ELSE sum[i - 1] + NodeLen(h, ps[i])
    IN  sum[k]

-----------------------------------------------------------------------------
(* struct pb_data.                                                         *)

\* pb_trivial_data_create and pb_trivial_data_create_ref, once malloc succeeded.
DataCreate(h, d, owned, m) ==
    [h EXCEPT !.reg[d] = [live |-> TRUE, owned |-> owned, use |-> 1, mem |-> m]]

\* pb_trivial_data_get: ++use_count, a uint16_t.
CountUp(r) ==
    LET u == r.use + 1
    IN  [r EXCEPT !.use = IF u = UseCountMod THEN 0 ELSE u]

DataGet(h, d) == [h EXCEPT !.reg[d] = CountUp(@)]

\* pb_trivial_data_put: --use_count, and the region is freed when that leaves 0.
CountDown(r) ==
    LET u == IF r.use = 0 THEN UseCountMod - 1 ELSE r.use - 1
    IN  IF u = 0 THEN NoRegion ELSE [r EXCEPT !.use = u]

DataPut(h, d) == [h EXCEPT !.reg[d] = CountDown(@)]

-----------------------------------------------------------------------------
(* struct pb_page.                                                         *)

\* pb_page_set_data: the window becomes the whole of d.
PageSetData(h, p, d) ==
    LET g == IF h.page[p].data # NULL THEN DataPut(h, h.page[p].data) ELSE h
    IN  DataGet([g EXCEPT !.page[p] =
                    [@ EXCEPT !.data = d, !.base = 0, !.len = Len(g.reg[d].mem)]], d)

\* pb_page_create, once calloc succeeded.
PageCreate(h, p, d) ==
    PageSetData([h EXCEPT !.page[p] = [NoPage EXCEPT !.live = TRUE]], p, d)

\* pb_page_transfer: p shares n bytes of the page src from off on.
PageTransfer(h, p, src, n, off) ==
    LET g == PageCreate(h, p, h.page[src].data)
    IN  [g EXCEPT !.page[p] = [@ EXCEPT !.base = h.page[src].base + off, !.len = n]]

\* pb_page_destroy: gives the reference back and frees the page.
PageDestroy(h, p) ==
    [DataPut(h, h.page[p].data) EXCEPT
        !.page[p] = NoPage, !.nxt[p] = NULL, !.prv[p] = NULL]

\* pb_trivial_buffer_page_create and _page_create_ref: a page with a region of
\* its own, whose creation reference the page takes over.
BufferPageCreate(h, p, d, owned, m) ==
    DataPut(PageCreate(DataCreate(h, d, owned, m), p, d), d)

\* Mutant of PageCreateFails: the region is left behind.
PageCreateFailsLeaks(h, d, owned, m) == DataCreate(h, d, owned, m)

\* The same when pb_page_create fails: the creation reference is given back.
PageCreateFails(h, d, owned, m) == DataPut(DataCreate(h, d, owned, m), d)

\* Mutant of DupPageData: the creation reference of the copy is not given back.
DupPageDataLeaks(h, p, d) ==
    LET copy == PageBytes(h, p, 0, h.page[p].len)
    IN  PageSetData(DataCreate(h, d, TRUE, copy), p, d)

\* pb_trivial_buffer_dup_page_data, once malloc succeeded: p gets a private copy
\* d of the bytes it shows.
DupPageData(h, p, d) ==
    LET copy == PageBytes(h, p, 0, h.page[p].len)
    IN  DataPut(PageSetData(DataCreate(h, d, TRUE, copy), p, d), d)

\* memcpy of the bytes s to pb_page_get_base_at(p, off).
PageWrite(h, p, off, s) ==
    LET at == h.page[p].base + off
    IN  [h EXCEPT !.reg[h.page[p].data].mem =
            [i \in 1..Len(@) |->
                IF i > at /\ i <= at + Len(s) THEN s[i - at] ELSE @[i]]]

-----------------------------------------------------------------------------
(* The lists.                                                              *)

\* Mutant of LinkBefore: next_page->prev is left pointing at prev_page.
LinkBeforeHalf(h, p, x) ==
    [h EXCEPT !.nxt = [@ EXCEPT ![h.prv[x]] = p, ![p] = x],
              !.prv = [@ EXCEPT ![p] = h.prv[x]],
              !.page[p].own = Owner(h, x)]

\* p is linked in front of node x.
LinkBefore(h, p, x) ==
    [h EXCEPT !.nxt = [@ EXCEPT ![h.prv[x]] = p, ![p] = x],
              !.prv = [@ EXCEPT ![x] = p, ![p] = h.prv[x]],
              !.page[p].own = Owner(h, x)]

\* A page record without its first n bytes.
CutFront(r, n) == [r EXCEPT !.base = @ + n, !.len = @ - n]

\* Mutant of SplitPage: the tail keeps its length.
SplitPageTailLong(h, x, off, q) ==
    LET g == PageTransfer(h, q, x, off, 0)
    IN  LinkBefore([g EXCEPT !.page[x] = [@ EXCEPT !.base = @ + off]], q, x)

\* The split inside pb_trivial_buffer_insert: the first off bytes of x move to a
\* new page q in front of it.
SplitPage(h, x, off, q) ==
    LET g == PageTransfer(h, q, x, off, 0)
    IN  LinkBefore([g EXCEPT !.page[x] = CutFront(@, off)], q, x)

\* Mutant of UnlinkDestroy: the successor's prev still names the freed page.
UnlinkDestroyHalf(h, p) ==
    PageDestroy([h EXCEPT !.nxt[h.prv[p]] = h.nxt[p]], p)

\* The page p leaves its list and is destroyed (seek, trim and clear).
UnlinkDestroy(h, p) ==
    PageDestroy([h EXCEPT !.nxt[h.prv[p]] = h.nxt[p], !.prv[h.nxt[p]] = h.prv[p]], p)

\* page->data_vec.base += n; page->data_vec.len -= n, the front of seek.
DropFront(h, p, n) == [h EXCEPT !.page[p] = CutFront(@, n)]

\* Mutant of DropBack: one byte too many.
DropBackOneMore(h, p, n) == [h EXCEPT !.page[p].len = @ - n - 1]

\* page->data_vec.len -= n, the tail of trim.
DropBack(h, p, n) == [h EXCEPT !.page[p].len = @ - n]

\* A new buffer: page_end.prev = page_end.next = &page_end.
BufferCreate(h, b) == [h EXCEPT !.nxt[b] = b, !.prv[b] = b]

BufferFree(h, b) == [h EXCEPT !.nxt[b] = NULL, !.prv[b] = NULL]

=============================================================================
