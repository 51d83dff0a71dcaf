----------------------------- MODULE MmapBuffer -----------------------------
(***************************************************************************)
(* The mmap buffer of pagebuf_mmap.c: a buffer whose bytes are a file from *)
(* file_head_offset on.  Writing appends to the file; reading maps blocks  *)
(* of it, one at a time and only when an iterator gets there, and puts a   *)
(* page for each into the page list of a trivial buffer.  A table finds    *)
(* the mapping of a block again while it is alive.                         *)
(*                                                                         *)
(* Mappings are shared with the file, so a page shows the bytes the file   *)
(* has now.  Other buffers may hold references to the mappings, as a       *)
(* zero-copy write from this buffer leaves them.  The library is single    *)
(* threaded: a function is one action, except for the loop of trim.        *)
(***************************************************************************)
EXTENDS Integers, SequencesExt

CONSTANTS
    DataIds,  \* the pb_mmap_data structs
    Byte,
    NULL,
    END,      \* the end iterator, page_end
    Block,    \* PB_MMAP_ALLOCATOR_BASE_MMAP_SIZE: 4096 in the code
    IovLimit, \* the pages one write_buffer gathers at most: 1024 in the code
    CountMod, \* a use_count counts modulo this: 2^16 in the code
    Inputs,   \* what the client writes: sequences of pages of bytes
    MaxFile,  \* bound: nothing is begun that could grow the file beyond this
    MaxHeld,  \* bound on the references other buffers hold
    MayFail,  \* whether allocations and system calls but fstat may fail
    StatFails,\* the functions in which fstat may fail, see SizesSeen
    Usage     \* unusual ways of calling the client resorts to, see below

(***************************************************************************)
(* Usage is a subset of                                                    *)
(*   "remap_shared"     an iterator gets to a block whose mapping another  *)
(*                      buffer has kept alive, and which is neither mapped *)
(*                      from its start nor to be mapped anew               *)
(*   "trim_mapped"      trim while the last block, or what is trimmed, is  *)
(*                      mapped                                             *)
(*   "trim_aligned"     trim of a file that ends on a block boundary       *)
(*   "begin_midway"     the begin iterator after a walk back from the end  *)
(*                      that did not arrive at the first byte              *)
(*   "early_end"        a step back from the end iterator before the pages *)
(*                      up to the end are mapped                           *)
(*   "overwrite_shared" overwriting what another buffer references too     *)
(***************************************************************************)
ASSUME MmapAssumption ==
    /\ IsFiniteSet(DataIds) /\ NULL \notin DataIds
    /\ 0 \in Byte
    /\ Block \in Nat \ {0} /\ IovLimit \in Nat \ {0}
    /\ CountMod \in Nat \ {0, 1}
    /\ Inputs \subseteq Seq(Seq(Byte))
    /\ MaxFile \in Nat /\ MaxHeld \in Nat /\ MayFail \in BOOLEAN

VARIABLES
    file,   \* the bytes of the file, NULL while there is none
    mode,   \* of file_fd: "closed" without allocator, "failed" for -1
    remove, \* close_action: whether closing removes the file
    alive,  \* whether there is a buffer; the allocator may live longer
    head,   \* file_head_offset
    m,      \* mappings, table, page list and use count of the allocator
    held,   \* the references of other buffers to each mapping
    it,     \* an iterator of the client: a page of the list, END, or NULL when
            \* the data revision is not the one it was taken at
    trim,   \* the loop of trim: len, trimmed and file_size; NULL outside of it
    out     \* what the last read_data was asked for and returned

vars == << file, mode, remove, alive, head, m, held, it, trim, out >>

\* struct pb_mmap_data, mapping len bytes of the file from off on.
Mapping == [live : BOOLEAN, off : Nat, len : Nat, use : Nat, obsolete : BOOLEAN]

NoMapping == [live |-> FALSE, off |-> 0, len |-> 0, use |-> 0, obsolete |-> FALSE]

\* A page of the list: its pb_data and its window onto it.
Page == [data : DataIds, base : Nat, len : Nat]

ASSUME PageAssumption == NULL \notin Page /\ END \notin Page

\* data_tree is a set, since the table finds a mapping by its file_offset; users is
\* the use_count of the allocator; broken says that a reference was given back that
\* was not there, that the allocator was freed while in use, that an assertion has
\* failed (of pb_mmap_allocator_malloc or _get_data_size), or that memory was read
\* that the file does not reach.
Store == [reg : [DataIds -> Mapping], data_tree : SUBSET DataIds,
          list : Seq(Page), users : Nat, broken : BOOLEAN]

EmptyStore == [reg |-> [d \in DataIds |-> NoMapping], data_tree |-> {},
               list |-> << >>, users |-> 0, broken |-> FALSE]

Init ==
    /\ file = NULL /\ mode = "closed" /\ remove = FALSE /\ alive = FALSE
    /\ head = 0
    /\ m = EmptyStore
    /\ held = [d \in DataIds |-> 0]
    /\ it = NULL /\ trim = NULL /\ out = NULL

Lower(a, b) == IF a < b THEN a ELSE b

FileSize == Len(file)
DataSize == IF mode \in {"read", "rw"} THEN FileSize - head ELSE 0

\* What pb_mmap_allocator_get_file_size may return to the function fn: a file whose
\* fstat fails is taken for an empty one.
SizesSeen(fn) ==
    IF mode = "failed" THEN {0}
    ELSE {FileSize} \cup (IF fn \in StatFails THEN {0} ELSE {})

\* len cut to what is behind the head, an unsigned difference: of a file that seems
\* to end in front of the head, len is not cut.
AtMost(n, size) ==
    IF mode = "failed" THEN 0 ELSE IF size < head THEN n ELSE Lower(n, size - head)

FreeData(s) == {d \in DataIds : ~s.reg[d].live}

\* Where in the file the window of a page starts and ends.
StartOf(s, p) == s.reg[p.data].off + p.base
EndOf(s, p) == StartOf(s, p) + p.len

-----------------------------------------------------------------------------
(* struct pb_mmap_data.                                                    *)

\* Mutant of DataCreate: the mapping has no reference to the allocator.
DataCreateNoGet(s, d, at, n) ==
    [s EXCEPT !.reg[d] = [live |-> TRUE, off |-> at, len |-> n, use |-> 1,
                          obsolete |-> FALSE]]

\* pb_mmap_allocator_data_create, once mmap64 and calloc succeeded.
DataCreate(s, d, at, n) ==
    [s EXCEPT !.reg[d] = [live |-> TRUE, off |-> at, len |-> n, use |-> 1,
                          obsolete |-> FALSE],
              !.users = (@ + 1) % CountMod]

DataGet(s, d) == [s EXCEPT !.reg[d].use = (@ + 1) % CountMod]

\* pb_mmap_allocator_data_destroy: the mapping is undone, and an obsolete one is not
\* taken out of the table, where another one has its place.  The allocator must
\* not be freed by it while the buffer or another mapping uses it.
DataDestroy(s, d) ==
    LET users == (s.users - 1) % CountMod
    IN  [s EXCEPT !.reg[d] = NoMapping, !.users = users,
                  !.data_tree = IF s.reg[d].obsolete THEN @ ELSE @ \ {d},
                  !.broken = @ \/ (users = 0 /\ (alive \/ FreeData(s) # DataIds \ {d}))]

\* Mutant of DataPut: the allocator is put with every reference.
DataPutUsers(s, d) ==
    IF ~s.reg[d].live THEN [s EXCEPT !.broken = TRUE]
    ELSE IF s.reg[d].use > 1
    THEN [s EXCEPT !.reg[d].use = @ - 1, !.users = @ - 1]
    ELSE DataDestroy(s, d)

\* pb_mmap_data_put.
DataPut(s, d) ==
    LET use == (s.reg[d].use - 1) % CountMod
    IN  IF ~s.reg[d].live THEN [s EXCEPT !.broken = TRUE]
        ELSE IF use # 0 THEN [s EXCEPT !.reg[d].use = use]
        ELSE DataDestroy(s, d)

\* pb_trivial_pure_buffer_clear: every page is destroyed.
PureClear(s) ==
    LET put[i \in 0..Len(s.list)] ==
            IF i = 0 THEN s ELSE DataPut(put[i - 1], s.list[i].data)
    IN  [put[Len(s.list)] EXCEPT !.list = << >>]

\* Mutant of AfterClear: the data revision is not raised.
AfterClearValid == it

\* It raises the data revision: no iterator is valid any more.
AfterClear == NULL

-----------------------------------------------------------------------------
(* Mapping a block.  fail is what goes wrong: "none", "mmap" (mmap64 or the *)
(* struct of a new mapping), "page" (the struct of the page) or "stat".  A *)
(* result has the store left behind and the new mapping or page, NULL      *)
(* without one.                                                            *)

Faults ==
    {"none"} \cup (IF MayFail THEN {"mmap", "page"} ELSE {})
             \cup (IF "map" \in StatFails THEN {"stat"} ELSE {})

\* The size of the file as the mapping functions see it.
SizeFor(fail) == IF fail = "stat" THEN 0 ELSE FileSize

\* mmap_len of a new mapping, another unsigned difference.
Room(at, size) == IF size < at THEN Block ELSE Lower(Block, size - at)

BlockOf(off) == (off \div Block) * Block

\* The mappings the table has for the block at at.
Find(s, at) == {d \in s.data_tree : s.reg[d].off = at}

\* PROT_WRITE and MAP_SHARED are refused for a file that is open for reading, and a
\* mapping of no bytes always is.
CanMap(s, n, fail) == mode = "rw" /\ n > 0 /\ fail # "mmap" /\ FreeData(s) # {}

\* Mutant of Replace: the mapping that is too short stays in the table.
ReplaceKeepsOld(s, d, new) == [s EXCEPT !.data_tree = @ \cup {new}]

\* A new mapping takes the place of d in the table; the pages on d keep d.
Replace(s, d, new) ==
    [s EXCEPT !.reg[d].obsolete = TRUE, !.data_tree = (@ \ {d}) \cup {new}]

\* Mutant of MapBlock: a mapping that is found is always taken as it is.
MapBlockNoReplace(s, at, off, fail) ==
    LET new == CHOOSE d \in FreeData(s) : TRUE
        n == Room(at, SizeFor(fail))
    IN  IF Find(s, at) # {}
        THEN LET d == CHOOSE d \in Find(s, at) : TRUE
             IN  [s |-> DataGet(s, d), d |-> d]
        ELSE IF CanMap(s, n, fail)
        THEN [s |-> [DataCreate(s, new, at, n) EXCEPT !.data_tree = @ \cup {new}],
              d |-> new]
        ELSE [s |-> s, d |-> NULL]

\* The part page_map_forward and page_map_backward have in common: the mapping of
\* the block at at, for a page that starts at off.  It comes with a reference
\* that is to be put once the page has its own, unless it is a mapping that was
\* found and neither reaches a whole block beyond off nor can be extended.
MapBlock(s, at, off, fail) ==
    LET new == CHOOSE d \in FreeData(s) : TRUE
        size == SizeFor(fail)
        n == Room(at, size)
        made == DataCreate(s, new, at, n)
    IN  IF Find(s, at) # {}
        THEN LET d == CHOOSE d \in Find(s, at) : TRUE
                 e == at + s.reg[d].len
             IN  IF e >= off + Block THEN [s |-> DataGet(s, d), d |-> d]
                 ELSE IF s.reg[d].len < Block /\ e < size
                 THEN IF CanMap(s, n, fail) THEN [s |-> Replace(made, d, new), d |-> new]
                      ELSE [s |-> s, d |-> NULL]
                 ELSE [s |-> s, d |-> d]
        ELSE IF CanMap(s, n, fail)
        THEN [s |-> [made EXCEPT !.data_tree = @ \cup {new}], d |-> new]
        ELSE [s |-> s, d |-> NULL]

\* pb_page_create on the mapping r, with the window from off to end, after which
\* the reference of MapBlock is put.
MakePage(r, off, end, fail) ==
    IF r.d = NULL THEN [s |-> r.s, p |-> NULL]
    ELSE IF fail = "page" THEN [s |-> DataPut(r.s, r.d), p |-> NULL]
    ELSE [s |-> DataPut(DataGet(r.s, r.d), r.d),
          p |-> [data |-> r.d, base |-> off - r.s.reg[r.d].off, len |-> end - off]]

NoPage(s) == [s |-> s, p |-> NULL]

\* Mutant of MapForward: the page is the whole mapping.
MapForwardWhole(s, off, fail) ==
    IF mode = "failed" \/ off = SizeFor(fail) THEN NoPage(s)
    ELSE LET r == MapBlock(s, BlockOf(off), off, fail)
         IN  IF r.d = NULL THEN NoPage(r.s)
             ELSE MakePage(r, BlockOf(off), r.s.reg[r.d].off + r.s.reg[r.d].len, fail)

\* pb_mmap_allocator_page_map_forward: the page behind off, up to the end of its
\* mapping.
MapForward(s, off, fail) ==
    IF mode = "failed" \/ off = SizeFor(fail) THEN NoPage(s)
    ELSE LET r == MapBlock(s, BlockOf(off), off, fail)
         IN  IF r.d = NULL THEN NoPage(r.s)
             ELSE MakePage(r, off, r.s.reg[r.d].off + r.s.reg[r.d].len, fail)

\* pb_mmap_allocator_page_map_backward: the page in front of cur, from the start
\* of its block or the head of the data on.
MapBackward(s, cur, fail) ==
    LET at == IF cur = BlockOf(cur) THEN cur - Block ELSE BlockOf(cur)
        off == IF at > head THEN at ELSE head
    IN  IF mode = "failed" \/ cur <= head THEN NoPage(s)
        ELSE MakePage(MapBlock(s, at, off, fail), off, cur, fail)

-----------------------------------------------------------------------------
(* The iterator operations on a store: the store they leave, and the index *)
(* of the page they arrive at, 0 for the end iterator.                     *)

\* pb_trivial_buffer_insert of a new page at the end of the list; a page of no
\* length is linked all the same, and reported as a failure.
AppendPage(r) ==
    IF r.p = NULL THEN [s |-> r.s, i |-> 0]
    ELSE LET s == [r.s EXCEPT !.list = Append(@, r.p)]
         IN  [s |-> s, i |-> IF r.p.len = 0 THEN 0 ELSE Len(s.list)]

\* Mutant of First: the first page is that of the file, not that of the data.
FirstOfFile(s, fail) ==
    IF s.list # << >> THEN [s |-> s, i |-> 1] ELSE AppendPage(MapForward(s, 0, fail))

\* pb_mmap_buffer_get_iterator.
First(s, fail) ==
    IF s.list # << >> THEN [s |-> s, i |-> 1] ELSE AppendPage(MapForward(s, head, fail))

\* pb_mmap_buffer_next_iterator at page i.
NextOf(s, i, fail) ==
    IF i < Len(s.list) THEN [s |-> s, i |-> i + 1]
    ELSE AppendPage(MapForward(s, EndOf(s, s.list[i]), fail))

\* pb_mmap_buffer_prev_iterator at page i, or at the end iterator.
PrevOf(s, i, fail) ==
    IF i > 1 THEN [s |-> s, i |-> i - 1]
    ELSE IF i = 0 /\ s.list # << >> THEN [s |-> s, i |-> Len(s.list)]
    ELSE LET cur == IF i = 0 THEN SizeFor(fail) ELSE StartOf(s, s.list[1])
             r == IF mode = "failed" THEN NoPage(s) ELSE MapBackward(s, cur, fail)
         IN  IF r.p = NULL THEN [s |-> r.s, i |-> 0]
             ELSE [s |-> [r.s EXCEPT !.list = << r.p >> \o @], i |-> 1]

Zeros(n) == [i \in 1..n |-> 0]

\* The bytes the first n of a page show: those the file has there, and zeros from
\* its end to that of its last block.
Shown(s, p, n) ==
    LET from == StartOf(s, p)
        all == IF from + n <= FileSize THEN file
               ELSE file \o Zeros(from + n - FileSize)
    IN  SubSeq(all, from + 1, from + n)

\* In a walk over the pages something else can go wrong with each block.
LastBlock == MaxFile \div Block
WalkFaults == [0..LastBlock -> Faults]
FaultAt(fails, off) == fails[Lower(off \div Block, LastBlock)]

\* The loop of read_data and overwrite_data: the bytes it goes over until n are
\* done, the next page mapped also when nothing is left to do.  A page whose
\* mapping has a use_count that is not in uses cuts the loop short.
Walk(n, fails, uses) ==
    LET walk[k \in 0..(MaxFile + 1)] ==
            IF k = 0
            THEN LET r == First(m, FaultAt(fails, head))
                 IN  [s |-> r.s, i |-> r.i, left |-> n, dat |-> << >>, cut |-> FALSE]
            ELSE LET w == walk[k - 1]
                     p == w.s.list[w.i]
                     c == Lower(p.len, w.left)
                     r == NextOf(w.s, w.i, FaultAt(fails, EndOf(w.s, p)))
                 IN  IF w.i = 0 \/ w.left = 0 \/ w.cut THEN w
                     ELSE IF w.s.reg[p.data].use \notin uses THEN [w EXCEPT !.cut = TRUE]
                     ELSE IF BlockOf(StartOf(w.s, p)) >= FileSize
                     THEN [w EXCEPT !.left = 0, !.s.broken = TRUE]
                     ELSE [s |-> r.s, i |-> r.i, left |-> w.left - c, cut |-> FALSE,
                           dat |-> w.dat \o Shown(w.s, p, c)]
    IN  walk[MaxFile + 1]

-----------------------------------------------------------------------------
(* The client.  These are no conditions of the code: they keep the client  *)
(* to the calls that Usage lists.                                          *)

\* The mappings the pages of the list are on.
Listed == {p.data : p \in Range(m.list)}

\* Every mapping that other buffers kept alive can be held again, or replaced,
\* when an iterator gets to its block.
Remappable ==
    \A d \in m.data_tree \ Listed :
        LET r == m.reg[d]
        IN  \/ r.off + r.len <= head
            \/ r.len = Block /\ head <= r.off
            \/ r.len < Block /\ r.off + r.len < FileSize

MayMap == "remap_shared" \notin Usage => Remappable

FromHead ==
    m.list # << >> /\ "begin_midway" \notin Usage => StartOf(m, m.list[1]) = head

ToEnd ==
    m.list # << >> /\ "early_end" \notin Usage
        => EndOf(m, m.list[Len(m.list)]) = FileSize

\* What is to be trimmed is not mapped, and the file ends inside a block.
TrimEasy(n) ==
    /\ "trim_aligned" \notin Usage => FileSize # BlockOf(FileSize)
    /\ "trim_mapped" \notin Usage =>
          /\ Find(m, BlockOf(FileSize)) = {}
          /\ \A d \in DataIds : held[d] > 0 => m.reg[d].off + m.reg[d].len <= FileSize - n

-----------------------------------------------------------------------------
(* The functions of the buffer.                                            *)

BetweenCalls == ~m.broken /\ trim = NULL

Called == BetweenCalls /\ alive

\* The last reference to the allocator closes the file, and removes it if
\* close_action says so (pb_mmap_allocator_put).
Settle(s) ==
    /\ m' = s
    /\ mode' = IF s.users = 0 THEN "closed" ELSE mode
    /\ file' = IF s.users = 0 /\ remove /\ mode # "failed" THEN NULL ELSE file

\* pb_mmap_buffer_create: open_action is how.
Open(how, rm) ==
    /\ BetweenCalls /\ mode = "closed"
    /\ \E fails \in {how = "read" /\ file = NULL} \cup (IF MayFail THEN {TRUE} ELSE {}) :
          /\ mode' = IF fails THEN "failed" ELSE IF how = "read" THEN "read" ELSE "rw"
          /\ file' = IF fails \/ how = "read" THEN file
                     ELSE IF how = "overwrite" \/ file = NULL THEN << >> ELSE file
    /\ remove' = rm /\ alive' = TRUE /\ head' = 0
    /\ m' = [m EXCEPT !.users = 1]
    /\ it' = NULL /\ out' = NULL
    /\ UNCHANGED << held, trim >>

\* pb_mmap_buffer_set_close_action.
SetCloseAction(rm) ==
    /\ Called /\ remove' = rm /\ out' = NULL
    /\ UNCHANGED << file, mode, alive, head, m, held, it, trim >>

\* The iterator at page i of the list of s.
At(s, i) == IF i = 0 THEN END ELSE s.list[i]

IndexOf(p) == IF p = END THEN 0 ELSE CHOOSE i \in 1..Len(m.list) : m.list[i] = p

Arrive(r) ==
    /\ m' = r.s /\ it' = At(r.s, r.i) /\ out' = NULL
    /\ UNCHANGED << file, mode, remove, alive, head, held, trim >>

GetIterator(fail) == Called /\ MayMap /\ FromHead /\ Arrive(First(m, fail))

GetEndIterator == Called /\ Arrive([s |-> m, i |-> 0])

NextIterator(fail) ==
    Called /\ it \notin {NULL, END} /\ MayMap /\ Arrive(NextOf(m, IndexOf(it), fail))

PrevIterator(fail) ==
    /\ Called /\ it # NULL /\ MayMap
    /\ it = END => ToEnd
    /\ Arrive(PrevOf(m, IndexOf(it), fail))

ReadData(n, fails) ==
    /\ Called /\ MayMap /\ FromHead
    /\ LET w == Walk(n, fails, Nat)
       IN  /\ m' = w.s
           /\ out' = [len |-> n, dat |-> w.dat,
                      failed |-> \E k \in DOMAIN fails : fails[k] # "none"]
    /\ UNCHANGED << file, mode, remove, alive, head, held, it, trim >>

\* q with the bytes t in place of those from off on.
Overlay(q, off, t) ==
    [i \in 1..Len(q) |-> IF i > off /\ i <= off + Len(t) THEN t[i - off] ELSE q[i]]

\* pb_trivial_buffer_overwrite_data: pages that are shared are to be duplicated,
\* for which the allocator of the buffer has no function.
OverwriteData(t, fails) ==
    /\ Called /\ MayMap /\ FromHead
    /\ LET w == Walk(Len(t), fails, {1})
           n == Len(w.dat)
       IN  /\ "overwrite_shared" \notin Usage => ~w.cut
           /\ m' = [w.s EXCEPT !.broken = @ \/ w.cut]
           /\ file' = IF n = 0 THEN file
                      ELSE Overlay(file, StartOf(w.s, w.s.list[1]), SubSeq(t, 1, n))
           /\ it' = IF n > 0 THEN NULL ELSE it
    /\ out' = NULL
    /\ UNCHANGED << mode, remove, alive, head, held, trim >>

\* What a change of the file leaves alone.
FileOnly == out' = NULL /\ UNCHANGED << mode, remove, alive, head, m, held, trim >>

Fits(n) == mode = "rw" => FileSize + n <= MaxFile

\* ftruncate64 to n bytes; it fails for a file that is open for reading.
Truncate(n) ==
    \E ok \in {mode = "rw"} \cup (IF MayFail THEN {FALSE} ELSE {}) :
        file' = IF ~ok THEN file
                ELSE IF n <= FileSize THEN SubSeq(file, 1, n)
                ELSE file \o Zeros(n - FileSize)

\* pb_mmap_allocator_extend.
ExtendBy(n) == \E size \in SizesSeen("extend") : Truncate(size + n)

Extend(n) == Called /\ Fits(n) /\ ExtendBy(n) /\ FileOnly /\ UNCHANGED it

\* The assertion of pb_mmap_allocator_get_data_size, that the head is in the file.
Asserted(size) == mode = "failed" \/ head <= size

Abort ==
    /\ m' = [m EXCEPT !.broken = TRUE] /\ out' = NULL
    /\ UNCHANGED << file, mode, remove, alive, head, held, it, trim >>

\* What it returns.
DataSizeOf(size) == IF mode = "failed" THEN 0 ELSE size - head

\* Extends by what is missing to n bytes.
Reserve(n) ==
    /\ Called
    /\ \E size \in SizesSeen("get_data_size") :
          IF ~Asserted(size) THEN Abort
          ELSE LET more == n - DataSizeOf(size)
               IN  more > 0 /\ Fits(more) /\ ExtendBy(more) /\ FileOnly /\ UNCHANGED it

\* write and writev append, and may write less than they were given.
AppendBytes(t) ==
    \E n \in IF mode # "rw" THEN {0} ELSE IF MayFail THEN 0..Len(t) ELSE {Len(t)} :
        file' = IF n = 0 THEN file ELSE file \o SubSeq(t, 1, n)

\* A write to a buffer without data raises the revision, even if it fails.
Write(t) ==
    /\ Called /\ Fits(Len(t))
    /\ \E size \in SizesSeen("get_data_size") :
          IF ~Asserted(size) THEN Abort
          ELSE /\ AppendBytes(t) /\ FileOnly
               /\ it' = IF DataSizeOf(size) = 0 THEN NULL ELSE it

\* write_data and write_data_ref, which copies too.
WriteData(t) == Write(t)

\* The bytes of the first k pages of a source.
Gather(ps, k) == FlattenSeq(SubSeq(ps, 1, Lower(k, Len(ps))))

\* write_buffer of n bytes from a buffer with the pages ps: as many pages as one
\* writev takes.
WriteBuffer(ps, n) ==
    LET t == Gather(ps, IovLimit)
    IN  Write(SubSeq(t, 1, Lower(n, Len(t))))

\* rewind and seek move the head, also over bytes that were there before.
MoveHead(to) ==
    /\ head' = to
    /\ m' = PureClear(m) /\ it' = AfterClear /\ out' = NULL
    /\ UNCHANGED << file, mode, remove, alive, held, trim >>

Rewind(n) == Called /\ MoveHead(IF mode = "failed" THEN head ELSE head - Lower(n, head))

Seek(n) == Called /\ \E size \in SizesSeen("seek") : MoveHead(head + AtMost(n, size))

\* clear drops the pages and goes to the end of the file, or what it takes for it.
Cleared(size) == IF mode = "failed" THEN head ELSE size

Clear == Called /\ \E size \in SizesSeen("clear") : MoveHead(Cleared(size))

\* destroy clears, and puts the allocator.
Destroy ==
    /\ Called
    /\ Settle([PureClear(m) EXCEPT !.users = (@ - 1) % CountMod])
    /\ \E size \in SizesSeen("clear") : head' = Cleared(size)
    /\ alive' = FALSE /\ it' = AfterClear /\ out' = NULL
    /\ UNCHANGED << remove, held, trim >>

-----------------------------------------------------------------------------
(* trim.                                                                   *)

\* pb_mmap_allocator_trim up to its loop, of what there is of n bytes.
TrimBegin(n) ==
    /\ Called
    /\ \E size \in SizesSeen("trim") :
          LET k == AtMost(n, size)
          IN  IF k = 0 THEN m' = PureClear(m) /\ it' = AfterClear /\ UNCHANGED trim
              ELSE /\ TrimEasy(k) /\ trim' = [left |-> k, done |-> 0, size |-> size]
                   /\ UNCHANGED << m, it >>
    /\ out' = NULL
    /\ UNCHANGED << file, mode, remove, alive, head, held >>

\* What one iteration trims: the length of the last mapping, or without one what
\* the file has of its last block.
TrimLen(s, at) ==
    IF Find(s, at) = {} THEN Lower(trim.size - at, trim.left)
    ELSE LET d == CHOOSE d \in Find(s, at) : TRUE
         IN  Lower(s.reg[d].len, trim.left)

\* An iteration of the loop, whose block is the last one of the file each time.
\* A shorter mapping is made for the bytes left, but the old one goes back into
\* the table; either way the reference put at the end is not one of the loop's.
TrimStep(fail) ==
    /\ trim # NULL /\ trim.left > 0 /\ ~m.broken
    /\ LET at == BlockOf(trim.size)
           n == TrimLen(m, at)
           d == CHOOSE d \in Find(m, at) : TRUE
           new == CHOOSE e \in FreeData(m) : TRUE
           rest == m.reg[d].len - n
           less == [trim EXCEPT !.left = @ - n, !.done = @ + n]
       IN  IF Find(m, at) = {} THEN trim' = less /\ UNCHANGED m
           ELSE IF rest = 0
           THEN /\ trim' = less
                /\ m' = DataPut([m EXCEPT !.reg[d].obsolete = TRUE,
                                          !.data_tree = @ \ {d}], d)
           ELSE IF ~CanMap(m, rest, fail)
           THEN trim' = [trim EXCEPT !.left = 0] /\ UNCHANGED m
           ELSE /\ trim' = less
                /\ m' = DataPut(DataGet([DataCreate(m, new, at, rest)
                                         EXCEPT !.reg[d].obsolete = TRUE], d), d)
    /\ UNCHANGED << file, mode, remove, alive, head, held, it, out >>

\* The file is cut, and the pages are dropped; a size below zero is refused.
TrimEnd ==
    /\ trim # NULL /\ trim.left = 0 /\ ~m.broken
    /\ IF trim.done <= trim.size THEN Truncate(trim.size - trim.done)
                                 ELSE UNCHANGED file
    /\ m' = PureClear(m) /\ it' = AfterClear /\ trim' = NULL
    /\ UNCHANGED << mode, remove, alive, head, held, out >>

-----------------------------------------------------------------------------
(* Other buffers.                                                          *)

\* A zero-copy write takes a page of the list to another buffer.
Share(d) ==
    /\ Called /\ d \in Listed /\ held[d] < MaxHeld
    /\ m' = DataGet(m, d) /\ held' = [held EXCEPT ![d] = @ + 1] /\ out' = NULL
    /\ UNCHANGED << file, mode, remove, alive, head, it, trim >>

\* The other buffer gives it up, perhaps after the mmap buffer was destroyed.
Drop(d) ==
    /\ BetweenCalls /\ held[d] > 0
    /\ Settle(DataPut(m, d)) /\ held' = [held EXCEPT ![d] = @ - 1] /\ out' = NULL
    /\ UNCHANGED << remove, alive, head, it, trim >>

Next ==
    \/ \E how \in {"read", "append", "overwrite"}, rm \in BOOLEAN : Open(how, rm)
    \/ \E rm \in BOOLEAN : SetCloseAction(rm)
    \/ GetEndIterator
    \/ \E fail \in Faults :
          \/ GetIterator(fail) \/ NextIterator(fail) \/ PrevIterator(fail)
          \/ TrimStep(fail)
    \/ \E fails \in WalkFaults :
          \/ \E n \in 1..MaxFile : ReadData(n, fails)
          \/ \E ps \in Inputs : OverwriteData(Gather(ps, Len(ps)), fails)
    \/ \E n \in 1..MaxFile :
          \/ Extend(n) \/ Reserve(n) \/ Rewind(n) \/ Seek(n) \/ TrimBegin(n)
          \/ \E ps \in Inputs : WriteBuffer(ps, n)
    \/ \E ps \in Inputs : WriteData(Gather(ps, Len(ps)))
    \/ TrimEnd \/ Clear \/ Destroy
    \/ \E d \in DataIds : Share(d) \/ Drop(d)

Spec == Init /\ [][Next]_vars

-----------------------------------------------------------------------------
(* Properties.                                                             *)

\* Every variable has its type.
MTypeOK ==
    /\ file \in {NULL} \cup Seq(Byte)
    /\ mode \in {"closed", "failed", "read", "rw"}
    /\ remove \in BOOLEAN /\ alive \in BOOLEAN
    /\ head \in Nat
    /\ m \in Store
    /\ held \in [DataIds -> Nat]
    /\ it \in {NULL, END} \cup Page
    /\ trim \in {NULL} \cup [left : Nat, done : Nat, size : Nat]
    /\ out \in {NULL} \cup [len : Nat, dat : Seq(Byte), failed : BOOLEAN]

\* The page list is a gapless run of the file: each page is a window into a
\* mapping that is alive and inside the file, each starts where the one before it
\* ends, and the first one not in front of the head; although blocks are mapped one
\* by one, in both directions, anew when the file has grown, and the pages of one
\* block may be on different mappings of it.
PagesShowTheFile ==
    /\ \A i \in 1..Len(m.list) :
          LET p == m.list[i]
              r == m.reg[p.data]
          IN  /\ r.live /\ p.len > 0 /\ p.base + p.len <= r.len
              /\ r.off = BlockOf(r.off) /\ r.len <= Block
              /\ i > 1 => StartOf(m, p) = EndOf(m, m.list[i - 1])
    /\ m.list # << >> => head <= StartOf(m, m.list[1])
    /\ \A d \in DataIds : m.reg[d].live => m.reg[d].off + m.reg[d].len <= FileSize

\* Each mapping is counted once for every page of the list on it and for every
\* reference of another buffer, and unmapped when there are none; the allocator is
\* counted for the buffer and for every mapping, so that the file is closed, and
\* removed, when the last of them is gone and not before; no reference is given
\* back twice.
UseCountsExact ==
    /\ \A d \in DataIds :
          LET n == Cardinality({i \in 1..Len(m.list) : m.list[i].data = d}) + held[d]
          IN  m.reg[d].use = n /\ (m.reg[d].live <=> n > 0)
    /\ m.users = Cardinality({d \in DataIds : m.reg[d].live}) + (IF alive THEN 1 ELSE 0)
    /\ m.users = 0 <=> mode = "closed"
    /\ ~m.broken

\* The table has exactly the mappings that are alive and not obsolete, and never
\* two for one block: no search of it finds freed memory or an older mapping.
TableIsCurrent ==
    /\ m.data_tree = {d \in DataIds : m.reg[d].live /\ ~m.reg[d].obsolete}
    /\ \A d, e \in m.data_tree : m.reg[d].off = m.reg[e].off => d = e

\* An iterator that the data revision says is valid stands on a page that is still
\* in the list.
IteratorsStayInList == it \in {NULL, END} \cup Range(m.list)

\* What "struct pb_page" of pagebuf_protected.h says of the reference count: only
\* when "all pb_page instances referencing the pb_data are destroyed, will the
\* pb_data itself be destroyed".
MappingsOutlivePages ==
    /\ \A p \in Range(m.list) : m.reg[p.data].live
    /\ \A d \in DataIds : held[d] > 0 => m.reg[d].live

\* A system call or an allocation was made to fail, or no struct was left for a
\* mapping, or the file cannot be mapped.
NoFailure(failed) == ~failed /\ FreeData(m') # {} /\ mode = "rw"

\* Reading gives the bytes of the file from the head on, all that is asked for or
\* all there are, whatever was mapped before, appended, sought and rewound since;
\* what a failure leaves of it is a prefix.
ReadsTheFile ==
    [][out' # NULL =>
          LET n == Lower(out'.len, DataSize)
          IN  /\ Len(out'.dat) <= n
              /\ n > 0 => out'.dat = SubSeq(file, head + 1, head + Len(out'.dat))
              /\ NoFailure(out'.failed) => Len(out'.dat) = n]_vars

\* An iterator arrives at the end only when every byte in the direction it goes is
\* in a page of the list, also the bytes appended while it was under way; and back
\* from the end it arrives at the last byte.
WalksAreComplete ==
    [][\A fail \in Faults :
          /\ it' = END /\ NextIterator(fail) /\ NoFailure(fail # "none")
                => EndOf(m', m'.list[Len(m'.list)]) = FileSize
          /\ it' = END /\ PrevIterator(fail) /\ NoFailure(fail # "none")
                => m'.list = << >> \/ StartOf(m', m'.list[1]) = head
          /\ it = END /\ it' \notin {NULL, END} /\ PrevIterator(fail)
                => EndOf(m', it') = FileSize]_vars

=============================================================================
