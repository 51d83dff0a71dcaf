# libpagebuf in TLA+

A verification development for libpagebuf: TLA+ modules translated from
`src/pagebuf/pagebuf.c` and `src/pagebuf/pagebuf_mmap.c`, model-checked with TLC
on small instances, with the safety properties of the trivial buffer, of the readers
and of the mmap buffer proved by TLAPS for every size. Line numbers refer to the
sources beside this directory. The state of the work is at the end.

## 1. The system

libpagebuf stores bytes as a doubly linked list of *pages*. A page is a window
onto a reference counted *data region*; several pages, of one buffer or of
several, may show parts of the same region. A `pb_buffer` is an interface
(a table of operations) with two implementations.

| part | where | state | operations |
|---|---|---|---|
| allocator | `pagebuf.c` 32-100 | none (the C heap) | malloc, calloc, realloc, free through a table |
| data region | `struct pb_data`, 108-219 | memory, length, `use_count` (16 bits), responsibility (owned or referenced) | create, create_ref, get, put |
| page | `struct pb_page`, 228-297 | region, window, prev, next | create, transfer, set_data, destroy |
| trivial buffer | `struct pb_trivial_buffer`, 625-1826 | the list with its anchor `page_end`, `data_size`, `data_revision` | extend, reserve, rewind, seek, trim, insert_* , write_* , overwrite_* , read_data, clear, destroy |
| strategy | `struct pb_buffer_strategy`, `pagebuf.h` 473-623 | constant per buffer | page_size, clone_on_write, fragment_as_target, rejects_* |
| iterators | 714-754 | a raw pointer to a node of the list | get, end, next, prev, cmp |
| byte iterators | 762-848 | iterator, offset, current byte | the same, bytewise |
| data reader | 1849-1990 | iterator, offset, remembered revision | read, consume, clone, reset, destroy |
| line reader | 2021-2247 | byte iterator, offset, flags, remembered revision | has_line, get_line_*, seek_line, terminate_line*, clone, reset |
| mmap allocator | `pagebuf_mmap.c` 75-728 | file descriptor, head offset, hash of mapped 4096-byte blocks, `use_count`, close action | create, get, put, data_create, page_map_forward and _backward, extend, rewind, seek, trim, write, clear |
| mmap data | `pagebuf_mmap.c` 49-59, 218-273, 737-762 | a mapping, its file offset, `use_count`, obsolete | get, put, destroy |
| mmap buffer | `pagebuf_mmap.c` 851-1257 | the page list of a trivial buffer, as a cache of the file | the buffer operations on a file; iterators map pages lazily |
| C++ wrappers | `pagebuf.hpp`, `pagebuf_mmap.hpp` | a pointer; `line_reader` also a copy of the line | forwarding |
| hash table | `pagebuf_hash.h` | | a vendored copy of uthash |

**How they interact.** Everything is a synchronous call in the thread of the
client; `pagebuf.h` 116 says the library is not thread safe, and nothing in it
waits. The interaction that matters goes through shared memory: a transfer from
one buffer to another makes a page in the target that shows the *source's*
region, so an overwrite, a split or a free in one buffer meets windows of
another. Memory of the client is shown in the same way (`*_ref`). Readers and
iterators are raw pointers into a list; the only protection is that they compare
`data_revision` with the value they remember. An mmap buffer hands out references
to its mappings through the same transfers, and a mapping holds the allocator, so
the file stays open until the last buffer that shows a part of it lets go.

**What is hard.**

* Reference counts over sequences of transfers, splits, copies and frees, with
  an allocation failing at any place of a call; the counter has 16 bits.
* Isolation: copy-on-write must hold between buffers that share a region, and
  referenced memory must never be written.
* Loops that edit the list they walk, with offsets carried from one iteration to
  the next, and zero lengths that end a loop early.
* `data_size` kept incrementally, `data_revision` raised on every path that
  moves bytes already stored, also when the call then fails.
* Partial counts: what a call returns is all the caller knows about a failure.
* For the readers: a position that survives an append, over page boundaries, and
  that is given up after every other change.
* For the mmap buffer: a list that grows at both ends under iteration, mappings
  replaced by longer ones when the file has grown while old ones are still shown,
  and system calls that fail one by one.

There are no messages and no threads. The file outlives the buffer and is opened
again; what a crash of the machine leaves of it is a matter of the operating system,
since the library never syncs. The hazards, each at its line and with the
properties that cover it, are in `PROJECT.json`.

**What makes each part correct.** Regions: the count is the number of pages, no
use after free, no leak. Pages: windows stay inside regions. Lists: doubly
linked, closed, disjoint, complete. Buffer: the size is that of the pages, no
empty pages, it behaves as a byte string, other buffers are not affected,
iterators stay valid while the revision does. Calls: they return, and with less
than was asked only when an allocation failed. Data reader: what it gives is the
front of the buffer, each byte once. Line reader: the first line end, however the
search was cut up, and a seek that removes exactly the line. Mmap buffer: its pages
and reads are the file as it is, its references are exact.

## 2. The modules

```
PageHeap                 regions, pages, links: operators on a heap value
  TrivialBuffer          the buffers and their client, one action per operation and loop
    MCTrivialBuffer      instances for TLC
    TrivialBufferContract   history of a call; refinement of ByteQueue; iterators
      MCContract         instances for TLC
    DataReader           data readers beside the calls on a trivial buffer
      MCDataReader       instances for TLC
    LineReader           line readers, likewise (also extends ByteIterator)
      MCLineReader       an instance for TLC
  ByteIterator           byte iterators: operators on a heap value
  HeapProofs             lemmas on the operators of PageHeap
    TrivialBufferProofs  the inductive invariant, what a step leaves alone (also extends TrivialBuffer)
      ListProofs         the lists and the sizes; no empty page, nothing undefined
        ContentProofs    the bytes of a buffer, and positions in them
          ContractProofs    the history of a call, the refinement (also extends TrivialBufferContract)
          DataReaderProofs  the data readers (also extends DataReader)
          LineReaderProofs  the line readers and the byte iterators (also extends LineReader)
ByteQueue                what the buffer interface promises, on byte strings
MmapBuffer               the file, its mappings and the page list on them
  MCMmapBuffer           instances for TLC
  MmapBufferProofs       the mmap buffer: its invariant, its reads and its walks
```

**PageHeap.** A heap is one record: `reg` (the `pb_data` structs), `page` (the
`pb_page` structs), `nxt` and `prv` (the links; the anchor of a buffer is named by
the buffer). The functions of `pagebuf.c` that touch data, pages or links are
operators from a heap to a heap (`DataGet`, `PageTransfer`, `SplitPage`,
`DupPageData`, ...), so that actions compose them in the order of the calls in C.
A window is an offset into the region and a length, as base pointers only ever
move inside one region. `own`, the buffer whose list holds the page, is a ghost
that no guard of a library action reads.

**TrivialBuffer.** `heap`, `size` (`data_size`), `bumped` (the buffers whose
`data_revision` changed since the last call was entered: a revision is only ever
compared with a remembered value, so its number is not kept), `call` (the locals of
the function in progress) and `fault`. An operation is

* an entry action (`Extend`, `Seek`, `InsertBuffer`, ...): the early returns
  are its guard, the initial locals its effect;
* a step action (`ExtendStep`, ...) that is one whole iteration of the loop: the
  allocation, the call of `pb_trivial_buffer_insert` with its revision, split, links
  and size, the check of the count, and the advance of the locals. Each failure
  of an allocation inside it is a disjunct with what the code then undoes;
* `Return`, what follows the loop: the revision, for destroy the free of the
  struct, and the return to the client.

Splitting a call into iterations gives the invariants a chance to fail between
them, which is where the code's `assert` in `get_data_size` runs
(`pb_trivial_buffer_insert` calls it in every iteration). The four transfer
variants share `InsertBufferStep`; `InsertLen` and `NextSource` say where they
differ. `write_data` and `write_buffer` run the insert loops at the end iterator,
as in the code. Undefined behaviour (an access outside a region, a freed page
left in a list) sets `fault`; nothing is enabled afterwards.

`Usage` lists ways of calling the library that its documentation does not exclude
and its tests never try: a buffer given as its own source, an insert offset equal
to the length of the page, `overwrite_buffer` across unequal page boundaries. With
`Usage = {}` the client does what the tests do.

**ByteQueue** is the interface without pages: a buffer is a byte string, a call is
asked and then answered by one atomic change, as large as the count returned.
**TrivialBufferContract** adds two history variables to TrivialBuffer (the layouts
of the buffers at entry and the last answer), maps a state to byte strings (those
of the entry while a call is in progress) and states `ImplementsByteQueue`.

**DataReader** puts readers beside TrivialBuffer. `reader` has the fields of each
`pb_data_reader`; the remembered revision is a flag, `stale`, which every step of a
call sets that raises the revision of the reader's buffer (`BufferStep`), since a
revision is only compared. A function of a reader runs between the calls on the
buffer and is one action; `Consume` enters the seek of TrivialBuffer, which then runs
as any other call. `given` records what the client got, `consumer` what a consume is
to leave. The calls of several readers and of the client interleave.

**LineReader** is built the same way on **ByteIterator**, the six byte iterator
functions as operators. `Search` is the loop of `has_line`, a function from the number of
iterations to the state of the reader, which stands still once the loop was left (each
iteration but the last counts `buffer_offset` up, so `MaxLine + 1` are enough); `LineLen` and `LineData` are what the getters return.
`buffer_offset` has the width of a `size_t` (`SizeMod`) where it can wrap.

**MmapBuffer** has a model of its own for the page list, a sequence of windows onto
mappings: the mmap buffer only appends a page, puts one in front or drops all of them,
through `pb_trivial_buffer_insert` and `pb_trivial_pure_buffer_clear`, whose link
operations are checked in TrivialBuffer. `m` holds the mappings (`reg`), the hash
(`data_tree`, a set: the vendored table finds a member by its offset), the list and the
allocator's `use_count`; `file`, `mode` and `head` are the file, its descriptor and
`file_head_offset`; `held` counts the references of other buffers. Mappings are
shared, so a page shows what the file has now (`Shown`). Every function is one action
with its failures (`Faults`), `ReadData` and `OverwriteData` with one for each block they
map (`WalkFaults`); the loop of trim is split into iterations, as it need not end. The list may be mapped further by any read. `broken` marks undefined
behaviour: a put without a reference, a failing assertion (of
`pb_mmap_allocator_malloc`, or of `get_data_size`, that the head is in the file), an
allocator freed in use, a read of memory the file does not reach. A buffer can be destroyed and the file opened again, in
any of the three ways, once the allocator is gone.

`Usage` of MmapBuffer names ways of calling it under which the code goes wrong; section 5
says how. With `Usage = {}` the client avoids them: the definitions under "The client"
(`Remappable`, `FromHead`, `ToEnd`, `TrimEasy`) are conditions on its calls, not guards
of the code, and are not in the map of `PROJECT.json`.

fstat is a case of its own. `pb_mmap_allocator_get_file_size` takes a file whose fstat
fails for an empty one (194-195), and no caller can tell. `StatFails` names the functions
in which that may happen (`SizesSeen`, `SizeFor`): "map" (the two mapping functions),
"extend", "get_data_size", "seek", "trim" and "clear", which destroy calls. What the
functions then compute is in the model, the unsigned differences included (`AtMost`,
`Room`). Only clear and destroy survive it; section 5 says what happens in the others. The
run `mmap` and the theorems have `StatFails` within {"clear"}, and every other system call
and allocation failing anywhere.

Abstracted: byte values where a run does not look at them, struct sizes and errno,
addresses (any free page is as good as another), failure of the allocation of the
buffer struct itself (no state changes), calls with a length of 0 (they change nothing).

## 3. The runs

All bounds are CONSTANTS of the cfg files: number of pages and regions (running
out of them is an allocation failure), `MaxLen` for the argument of a call and
`MaxSize`, beyond which no growing call is begun.

| run | question | instance |
|---|---|---|
| `core` | do counts, windows, lists, sizes stay exact at every iteration, with any allocation failing? | two buffers (variants 1 and 4), all 16 operations, 4 pages, 3 regions, 3 bytes per buffer |
| `quirks` | does the structure survive, and does every call return, under unusual calls? | variants 2 and 3, `rejects_*`, all of `Usage`, 3 pages, 2 regions |
| `contract_edit` | is one edited buffer a byte string, are iterators valid while the revision is unchanged, are short counts failures? | one buffer, page_size 2, bytes 1 2 3, 4 pages |
| `contract_exchange` | the same for two buffers that share and copy; isolation, referenced memory | variants 1 and 4, bytes 1 2, 3 pages |
| `misaligned` | violation, see section 5 | |
| `use_count` | violation, see section 5 | `UseCountMod = 3` |
| `data_reader` | do readers stay on living pages, give each byte once, consume what they read? | two readers, one buffer with page_size 2, write, insert, seek, trim, destroy, 3 pages |
| `consume` | violation, see section 5 | one reader, a read of one byte and a consume of one |
| `reader_append` | violation, see section 5 | one reader that is at the end of the data when more is appended |
| `line_reader` | does a search find exactly the lines, over appends and page boundaries, and seek_line take them? do byte iterators visit every byte? | two readers, page_size 2, pages of CR, LF and another byte, 3 pages, lines of at most 2 bytes |
| `mmap` | does the page list show the file, are references exact, do reads and walks do all they should? | file of 3 bytes in blocks of 2, three mappings, one reference by another buffer, any call failing but fstat outside clear and destroy |
| `mmap_remap` | violation, see section 5 | `Usage = {"remap_shared"}` |

What the properties say beyond types: `RefCountExact` (a count is exactly the
number of pages showing the region, and regions without a page are freed),
`WindowsInBounds`, `ListsIntact` (both directions of links agree, lists are disjoint
and hold every page that is not freed), `SizeMatchesPages` (the audit of
`get_data_size`, in every state but those of a clear, which resets the size first),
`NoEmptyPages`, `NoFault`, `PageSizeRespected`, `CallsReturn`, `ImplementsByteQueue`,
`IteratorsStayValid`, `ShortOnlyOnFailure`, `OthersUntouched`,
`ReferencedNeverWritten`; for the readers `ReadersNeverDangle`, `ReadsAreContiguous`,
`ReadsAllThereIs`, `ConsumeTakesWhatWasRead`, `SearchKeepsItsPlace`,
`FoundLinesAreRight`, `SearchIsComplete`, `SeekTakesLine` and `BytesInOrder`; for the mmap
buffer `PagesShowTheFile` (windows inside living mappings, gapless, inside the
file), `UseCountsExact`, `TableIsCurrent`, `IteratorsStayInList`, `ReadsTheFile` and
`WalksAreComplete`. Each is broken by a small mutation of the code's model, an
operator beside the definition it replaces (`PageCreateFailsLeaks`, `SplitPageTailLong`,
`AfterInsertOffsetKept`, ...).

Some of them say less than their names may suggest. `IteratorsStayValid` is one-directional:
a revision that is raised without need would pass. `ShortOnlyOnFailure` speaks of calls
that return from the condition of their loop; that a loop is left early only on a
failure is in the guards of the steps, not in a property. `BytesInOrder` walks both
ways, and checks that both walks arrive at the end iterator. `FoundLinesAreRight` says of a
terminated line only that what `get_line_data` gives is the front of the buffer.

**Why the bounds are enough for the cases that matter.** Three or four pages give
each of: a page split in two, with pieces inserted between the halves; a region
shown by pages of both buffers and twice by one; a list whose first, last, middle or
only page goes; a call of several iterations failing in the first, a middle and the
last one. Lengths up to 3 with page_size 1 or 2 give full pieces and a shorter last
one. For the readers, pages of one and two bytes put every position of a reader, a
line end and its CR before, at and behind a page boundary; `MaxLine = 2` lets a line
reach the limit with a line end just there or not, and `MaxSize` is one more. For the
mmap buffer, a block of two bytes and a file of three have a head inside and at the start
of a block, a full and a partial last block, and a block that grows from one byte to
two while it is mapped; three mappings are one for each block and an obsolete one, or one
that another buffer keeps, after which a further one fails. Larger instances pass
too: four mappings, and a file of two full blocks without failures; they
are left out for their time. `CountMod` and `UseCountMod` are 2^16 in all passing runs, so no counter can wrap there.

**Symmetry.** Pages and regions are permuted, except in `quirks`, which checks
liveness. `AnyOf` chooses among free pages and free regions, and these are all
equal (`NoPage`, `NoRegion`, no links), so states reached by different choices are
permutations of each other. Buffers are not permuted, they have strategies. Readers and mappings are permuted for the
same reason; the free mapping taken is a `CHOOSE` among equal ones.

**Fairness.** `FairSpec` is `Spec /\ WF_vars(Library)`: once a function is
entered, the library goes on. This is what a synchronous call in a single thread
does. Nothing is assumed of the client, which may never call again, and nothing of
the allocator. `CallsReturn` also counts a call that ran into undefined behaviour
as over; that happens only with the unusual calls of `quirks`, for which reason that
run does not check deadlock (`fault` stops everything there). In the other passing
runs deadlock is checked.

## 4. The proofs

Everything in this section holds for any finite set of pages, any regions, buffers,
strategies, inputs, lengths and any pattern of allocation failure. The first four modules
are a chain, each extending the one before, and the next three extend ContentProofs:

| module | what it proves |
|---|---|
| HeapProofs | what each operator of PageHeap changes, and that it keeps `HeapOK` |
| TrivialBufferProofs | `IInv` is inductive: `InductiveInvariant`, `TypeCorrect`, `RefCountsExact`, `WindowsStayInBounds`; what a step leaves alone: `OthersNeverTouched`, `ReferencedMemoryKept`, `PagesRespectSize` |
| ListProofs | the lists and their sizes: `ListsInvariant`, `ListsStayIntact`, `SizesAreRight`; `FillInvariant`, `PagesNeverEmpty`, `NothingUndefined` |
| ContentProofs | lemmas: what the steps make of the bytes of a buffer and of positions in it |
| ContractProofs | `ContractInvariant`, `IteratorsValid`, `TextInvariant`, `ShortReturns`, and the refinement `BufferIsByteQueue` |
| DataReaderProofs | `ReaderInvariant`, `ReadersStayInList`, `ReadersGiveTheFront`, `ReadersGiveAll`, `ReadersStayDefined`, `ConsumerInvariant`, `ConsumingTakesWhatWasRead`, `ReaderTypes` |
| LineReaderProofs | `LineInvariant`, `LineTypes`, `BytesVisitedInOrder`, `SearchesKeepTheirPlace`, `FoundLines`, `SearchesAreComplete`, `SeeksTakeTheirLine` |

`MmapBufferProofs` stands beside the chain and is described at the end of this section.

**Assumptions** of the chain.

* `CountSuffices`: fewer pages than `use_count` can count. The run `use_count` shows
  that this is needed. All theorems have it.
* `NoSelfSource`: no buffer is its own source, so that in `insert_buffer` the page
  read and the page split belong to different lists. All theorems have it.
* `NoSplitAtEnd`: the client does not insert at the offset behind the last byte of a
  page. `PagesNeverEmpty`, `NothingUndefined` and the theorems about readers and about the
  history of a call have it; section 5 says what happens otherwise.
* `NoMisaligned`: the client does not overwrite across buffers cut at different
  places. `NothingUndefined`, `ReadersStayDefined`, `TextInvariant`, `ShortReturns` and
  `BufferIsByteQueue` have it, and the run `misaligned` shows that it is needed.
* `NoAppendAtEnd`: nothing is appended to a buffer while a reader stands behind its last
  byte. The theorems about data readers have it, and the run `reader_append` shows that it
  is needed. Line readers do not need it: a search that stops at the end of the data steps
  back onto the last byte.

To this come the types of the constants and, for the history of a call,
`ContractAssumption`: that `NULL` is not a sequence.

In the other theorems unequal page boundaries and offsets at the end of a page are
allowed: the step that would be undefined sets `fault`, and the state it leaves
satisfies the invariant. The step that goes on after an offset at the end of a page
makes an empty page, which lists, counts and sizes survive.

**The inductive invariant `IInv`.** Neither `RefCountExact` nor `WindowsInBounds` is
inductive. A step frees the page its iterator names, copies from the page its source
iterator names and follows links of pages it does not touch; to know that these are
pages that exist, in the list they should be in, `IInv` adds

* `HeapOK`: types, exact counts and windows for every page, and that the links of
  every node of a list lead to nodes of the same list and back (`Threaded`);
* `AllLinked`: every page that is not freed is in a list;
* `CallOK`: while a call is in progress its buffers exist, its iterators stand on
  nodes of their buffers, the source offset is inside the source page in the
  zero-copy variants (otherwise a window would be cut beyond the page it comes
  from), the bytes left are those of the caller's memory, and seek, trim and clear
  stand at the first or last page.

`HeapProofs` states for every operator of `PageHeap` what it leaves: which regions,
pages and links differ from before (the `...Form` lemmas), and from it that `HeapOK` is
kept (the `...OK` lemmas); counting uses `FS_AddElement` and `FS_RemoveElement` on the
set of pages that show a region. That a region without a page is `NoRegion`, as freed memory
is, makes a `page_create` that fails half way leave no trace (`GivenBack`, `MakeOutcome`).
`TrivialBufferProofs` composes them: one lemma per
action, `...Keeps`, with a step for the heap and one for the call.

**Isolation** is an action property of a step from a state with `IInv`. A region is
written only by the overwrite loops. They write to a region made a moment before, or to
one whose `use_count` is 1; then `RefCountExact` says that the page at hand is the only one
that shows it (`OnlyReference`), so no page of another buffer does. Every other step
keeps the bytes of the regions that stay (`Preserved`) and the pages of the other
buffers (`PagesKept`).

**The lists.** What `PagesOf` and `PagesLen` compute is recursive, so `ListInv` does not
name them. It says that for each buffer *there is* a numbering of its pages, `ps[1]`
to `ps[N]`, with the anchor at both ends, that follows `next`, names every page whose
owner is the buffer once, and whose partial sums `acc` end in `data_size`
(`Enumerates`, `Chain`). A list operation is shown to turn one numbering into another
(`Chain...` lemmas), so that no induction is needed while the list changes. The only
inductions are over the numbers of a fixed list, at the end: that the walk of
`PagesFrom` finds the numbering (`WalkFindsPages`), and the sum of `PagesLen` its last
partial sum (`WalkAddsUp`). As the library's induction theorems take an operator, they
are argued by the least counterexample (`Least`, from the well-foundedness of the
naturals). `ListInv` is inductive only together with `IInv`, which knows that the
iterators are on the list.

**No fault.** `FillInv` says that no page is empty and that the offsets carried by an
insert leave bytes on both sides of a split. `FaultInv` adds what keeps
`overwrite_buffer` inside its regions, as its code does not look: what is left fits
into the two pages, or from the two iterators on the lists of both buffers are cut at
the same places (`Twins`), which the numberings of `ListInv` allow to say without recursion.

**The data reader.** The properties speak of a reader only between two calls, when the
client may use it; the invariant has to say what is true of it while a call runs. The bytes
of a buffer (`Content`) are those its numbering shows, and `At` says where in the numbering a
reader stands: in which page, and that the partial sum in front of it and `page_offset` are
the number of bytes it has given. `ReaderInv` says of each reader that

* it is told to start again, and has given nothing since; or
* it is `InPlace`: it stands behind the bytes it has given, and these are the front of its
  buffer; then a call in progress on that buffer is not about to append where it stands
  (`Spared`); or
* a call in progress has changed its buffer and will raise the revision when it returns
  (`Moved`), so that the reader need not be anywhere.

No line of the code says the third: `seek`, `trim` and the overwrites raise the
revision behind their loops, and in between a reader may name a freed page. That they
always reach that line once they have changed a byte, and that an insert raises it in the
iteration that puts a page anywhere but behind the last one, is what the `...Effect`
lemmas state, one for each loop (`OwnEffect`). An append keeps the front of the list
(`FrontKept`), so that a reader stays in place. The loop of `read` is followed along the
numbering, over page ends and back from the end of the data: `Gives` says that it gives the
next bytes, all that was asked for or all there are, and leaves the reader behind them.

For consume, `ConsumerInv` says that while its seek runs, the bytes it has still to take
followed by `rest` are the buffer (`Taking`). Each iteration takes a front of the buffer,
a whole page or a part of one (`SeekTakesFront`), so that at the end `rest` is left, which
is what the reader had not given (`ConsumingTakesWhatWasRead`).

**The line reader.** `Pos` says of a node and an offset how many bytes of the buffer are in
front of it, at the end of a page as at the start of the next, and `ByteNext` and `BytePrev`
that a byte iterator moves by one. The walks of `BytesInOrder` follow. `Standing` says of a
reader with the current revision that its iterator is behind `buffer_offset` bytes and that
the flags agree with the bytes around that place (`LineOK`): none in front of it is a line
end; `has_cr` says that the one in front of it is a CR; if it has found no line it stands on a
byte that is none, or on a line end only if it has yet to look there for the first time. That
last part is what makes a search complete that goes on after an append: the byte it stepped
back onto has been looked at. `LineOK` survives
more bytes behind (`MoreBytes`), so a step that does not raise the revision keeps the reader
well, whichever buffer it works on (`StepKeepsReader`); one that has yet to raise it `Owes` that.
`Searching` is the invariant of the loop of `has_line` after `k` iterations, `Searched` what
it leaves. While the seek of `seek_line` runs, `SeekerInv` is to the line what `ConsumerInv`
is to the bytes of consume.

**Iterators.** `IteratorsStayValid` compares the pages and their bytes at the entry of a call
with those at its return. `ValidInv` says in between, of every buffer whose revision was
not raised, that the call will raise it (`Moving`), or that the pages it had at entry are still
the first of its list, with their bytes. `Layout` is read off the numbering (`LayoutIs`).

**The byte string.** `ByteQueue` answers a call in one step, the code in many, so the
refinement maps the strings of a buffer to those at the entry of the call in progress, and
the last step of a call is where everything has to be right. `WorkInv` says what is true
until then: for a call that was entered with the string `B` in its buffer and was given the
bytes `G`, `Working` says for each function what `Content` is after `done` bytes.

* extend, rewind and the inserts at the place `t`: `B` with `done` bytes between its first
  `t` and the rest (`Spread`), for the inserts the first `done` of `G` (`Copies`); the
  iterator and its offset stand at `t + done`, also after the page it names was split, and
  the source iterator stands at `done` in the source (`Pos`).
* seek and trim: `B` without its first or last `done` bytes, with the loop never left early.
* the overwrites: `B` with its first `done` bytes replaced by those of `G` (`Replaced`), both
  iterators at `done`.
* read: `dat` is the front of `B`, of `done` bytes.

The other buffers, the source among them, have the string they had at the entry; that is
`StepLeavesOthers`, the lemma of `OthersNeverTouched`. One lemma per loop carries `Working` over an
iteration (`...Works`), from what the iteration does to the bytes and positions of the
buffer (`...Changes`): `PutContent`, `SplitContent` and `LinkContent` for the insert of a
page, `CutBackContent` and `SeekTakesFront` for the ends of the list, `PatchContent` for a
write into a page, which changes no other page of the buffer as nobody else shows its region
(`Alone`).

Then an entry is `Queue!Ask` (`OpenedAsks`), an iteration leaves the request and the strings
(`LoopStutters`): the place of an insert is told from the position of its iterator and
`done`, so this is where a lost or repeated byte would show; and a return is the answer of
its function (`...Answers`). `LoopEnds` says that a loop that ran to the end of its condition
has done what was asked or reached the end of a buffer, which makes seek, trim and read
exact, and is all of `ShortReturns`.

**The mmap buffer.** `MmapBufferProofs` proves everything the run `mmap` checks:
`MmapInvariant`, `MmapTypes`, `PagesAreTheFile`, `MappingsCounted`, `TableStaysCurrent`,
`IteratorsStay`, `ReadingIsRight` and `WalkingIsComplete`, for any block
size, any finite set of mappings, any inputs, any size of file, and any allocation or
system call but fstat failing. It assumes

* `UsualClient`: `Usage = {}`, as each member of `Usage` but `trim_aligned`, with which trim
  does not end, breaks one of these properties, and `StatFails` within {"clear"}, as each
  other member breaks one; see section 5;
* `CountsFit`: the references other buffers hold to a mapping, and the mappings, are fewer
  than a `use_count` can count. `DataIds` is the number of structs there is memory for.
  Section 5 names what happens after 65536 mappings;
* `PageAssumption`: that the names `NULL` and `END` are not pages.

`MInv` was checked by TLC on the instance of `mmap` before it was proved. It turns on a fact
that no line of the code states: *a page runs to the end of its mapping* (`Windowed`).
`page_map_forward` makes its page so, and `page_map_backward` makes one up to the start of
the page behind it, which is the end of a block. From that and from pages that do
not overlap (`Gapless`) it follows that a mapping has one page of the list at most
(`OnePageEach`), so that a block is looked up only when what the table has for it is not
shown, or is too short and is replaced (`ForwardUsable`, `BackwardUsable`): the third case
of the two functions, which puts a reference that was not taken, needs a mapping that
another buffer kept, and that is what `remap_shared` excludes. The other parts of `MInv`
are the counts (`Counted`), the table (`Tabled`), that a mapping starts at a block and ends
in the file (`Placed`), that the first page starts at the head or at a block (`Starting`),
that an obsolete mapping that is shown has its successor in the list too (`Latest`),
that mappings exist only for a file open for writing, and what trim has computed at its
entry (`Trimming`).

The argument goes along the calls of the code: `GetCounted`, `PutCounted` and
`CreateCounted` for the references, `MapBlockMaps` for the part the two map functions
share, `MakePageMakes`, `AppendFine` and `PrependFine` for the page and its place in the
list, `FirstReaches`, `NextReaches` and `PrevReaches` for what the iterator functions arrive
at (`Starts`, `Follows`, `Precedes`), `LoopSteps` for an iteration of `read_data`. `Walk`
and `PureClear` are recursive functions over an interval; that they exist and what
they do at each place is shown by the least counterexample (`RuleExists`, `Along`). The
loop of `read_data` carries `Reading`: the bytes so far are those of the file from the head
on, the iterator stands where they end, and each iteration adds one at least. `ReadsTheFile`
and `WalksAreComplete` are what `Reading`, `Follows` and `Precedes` say of one step.

The proofs use only the SMT solver, Zenon and LS4.

**Only model-checked**: liveness (`CallsReturn`), which with ENABLED is out of the prover's
reach. Every other property of a passing run is the property of a theorem. What the violation
runs show is a trace of one small instance each. The run
`quirks` checks four of them, `RefCountExact`, `ListsIntact`, `SizeMatchesPages` and
`PageSizeRespected`, for a client that is its own source, which `NoSelfSource` excludes.

## 5. Where code and documentation differ

* `overwrite_buffer` takes the length of an iteration from whole pages and subtracts
  neither offset (1607-1613), so buffers cut at different places make it copy
  beyond the window and the region. Run `misaligned`; the passing runs that call it
  without `misaligned` use buffers cut alike or a length inside both first pages.
* `use_count` is 16 bits wide and `pb_trivial_data_get` does not check it
  (`pagebuf_protected.h` 139, `pagebuf.c` 206). Run `use_count`, at a scale of 3.

* A data reader at the end of the data that finds more there after an append goes to
  the next page but keeps `page_offset` (`pagebuf.c` 1878-1879), and skips as many bytes
  or reads beyond the page; `pagebuf.h` 1173-1175 says that it continues where it
  finished. Run `reader_append`.
* `consume` seeks to where the reader is, and so takes what earlier reads gave, too
  (`pagebuf.c` 1932-1950): after a read of one byte a consume of one takes two.
  `pagebuf.h` 1192-1193 says that "the amount of data consumed is the lower of the size
  of the buffer and the value of len". Run `consume`; `ConsumeTakesWhatWasRead`, which the
  run `data_reader` checks, says what the code does instead.
* `page_map_forward` and `page_map_backward` put a reference to the mapping they found
  that in one of three cases they have not taken (`pagebuf_mmap.c` 306-330 and 359, 402-426
  and 455). Another buffer that shows the mapping loses it. Run `mmap_remap`.

Observations without a run. Trivial buffer:

* `insert_buffer1` and `insert_buffer2` never read `page_size` (`pagebuf.c` 1227,
  1277), while `pagebuf.h` 513-527 says that a source page beyond the page_size of the
  target is split: a target with page_size 2 takes a page of 3 bytes whole. With
  `fragment_as_target` the limit holds (`PageSizeRespected`).
* An append to an *empty* buffer raises the revision (861-863), though `pagebuf.h` 644-646
  lists writes to the end among the operations that do not.
* An insert offset at the end of a page leaves a page of length zero (868-888), after which
  seek and trim stop short of what they were asked (`NoEmptyPages` holds only without
  `split_at_end`).

Readers:

* A line ended by `terminate_line` is counted without its last byte, as the search has
  stepped back (2073-2075), and of one byte it has length zero, so that seek_line never
  removes it. A reader terminated before it finds a line end seeks without it (2164).
* `terminate_line_check_cr` subtracts the CR from that length once more (2100), for a buffer of
  one CR down to SIZE_MAX. What get_line_data gives is right all the same up to its
  length, which is what `FoundLinesAreRight` keeps to.
* A line that reached the maximum loses the byte behind it (2166).
* `is_end` is never true after a search that failed, and like `is_crlf` it does not compare the
  revision (2177-2186).

Mmap buffer, each a member of `Usage` with which the code goes wrong:

* `trim_mapped`: trim of a mapped block puts the obsolete mapping back into the hash and
  not the shorter one it made (564-567), and puts a reference of the pages;
  `PagesShowTheFile` and `UseCountsExact` fail, and the put may run into freed memory.
* `trim_aligned`: trim of a file that ends on a block boundary computes a length of 0 in every
  iteration and never returns (539-582). No property is about it: without this
  member trim ends because of what the client keeps out of.
* `begin_midway`: after a walk back from the end that stopped half way, the begin iterator is
  the first page of the list and not the first byte of the data (978-980); `ReadsTheFile`
  fails.
* `early_end`: a step back from the end iterator goes to the last page that is mapped, not to
  the last byte (1054-1056); `WalksAreComplete` fails.
* `overwrite_shared`: overwriting a page whose mapping another buffer shows calls
  `dup_page_data`, and that the malloc of the allocator, which asserts (98-104).

A failing fstat (194-195), each a member of `StatFails` with which properties of the run are
violated, also when nothing else fails:

| in | what the code does | violated |
|---|---|---|
| map | a partly mapped block seems not to be extensible, and its mapping is put without having been taken (306-330, 359); without a mapping the difference of 333-335 can wrap, and a whole block is mapped beyond the end of the file | `PagesShowTheFile`, `UseCountsExact` |
| extend | the file is cut to the length it was to be extended by (468-471) | `PagesShowTheFile`, `UseCountsExact` |
| get_data_size | asserts when the head is not 0 (207-211) | `UseCountsExact` |
| seek | the difference wraps, and the head goes beyond the end of the file (515-518) | `PagesShowTheFile`, `UseCountsExact` |
| trim | the difference wraps, and the loop works on the first block (531-532, 542-546) | `PagesShowTheFile`, `UseCountsExact`, `TableIsCurrent` |
| clear, destroy | the head goes to 0, so that the data is back after a clear (683-685) | none |

And without a member of its own: a file opened with `pb_mmap_open_action_read` is never
mapped, as PROT_WRITE is asked of a descriptor that cannot write, so that its iterators
are at the end at once though `get_data_size` is not 0; the `use_count` of the
allocator wraps at 65536 mappings, a walk through 256 MB (with `CountMod = 3` in the cfg of
`mmap`, `UseCountsExact` fails after two blocks); a page put in front of a list raises the
revision though no data changed (1076), while an extend of an empty mmap buffer does
not raise it; the array of a gathered write that could not grow is given back with the
doubled size (633-639, 669-671), which an allocator that looks at sizes would notice.

## 6. Plan

Done: PageHeap, TrivialBuffer, ByteQueue, TrivialBufferContract, DataReader, ByteIterator,
LineReader, MmapBuffer, their runs, and the proofs of section 4. Next:

1. **C++ line_reader**: the copy of the line and when it goes out of date.

## Not modelled

* The C++ wrappers: they forward, move a pointer or clone. `line_reader` of
  `pagebuf.hpp` also keeps the line it found (`has_line_`, `line_`) without looking at the
  revision (614); that is listed as a hazard.
* The hash table `pagebuf_hash.h`, a renamed copy of uthash: a set in MmapBuffer.
* `overwrite_buffer` on an mmap buffer, whose loop is that of TrivialBuffer, and the insert
  functions, which the strategy of the mmap buffer rejects except at the end iterator.
  There they make a page that is not on a mapping (`insert_data` asserts in the malloc of
  the allocator), which no test tries.
* realloc (never called), struct sizes, errno, and the failure to allocate a buffer or reader
  struct, which changes no state.
