----------------------------- MODULE DataReader -----------------------------
(***************************************************************************)
(* The data readers of pagebuf.c: cursors into a trivial buffer that go on *)
(* where the last read ended, however the client changed the buffer since. *)
(* A reader keeps a raw page pointer; all that tells it that the page may  *)
(* be gone is the data revision of the buffer, which it compares before    *)
(* each read.                                                              *)
(*                                                                         *)
(* A reader function runs between the calls on the buffer and only reads   *)
(* the heap, so it is one action; consume also enters pb_buffer_seek,      *)
(* which then runs as the call of any other client does.                   *)
(***************************************************************************)
EXTENDS TrivialBuffer

CONSTANTS
    Readers,    \* the pb_data_reader structs
    ReaderUsage \* {"append_at_end"}: data is appended also while a reader
                \* stands at the end of the data; {}: it is not

ASSUME ReaderAssumption ==
    /\ NULL \notin Readers
    /\ ReaderUsage \subseteq {"append_at_end"}

VARIABLES
    reader,  \* the readers
    given,   \* history: the bytes the client got from each reader, forgotten when
             \* the reader has to start again at the head of the buffer
    consumer \* the consume in progress: its reader, and the bytes the buffer
             \* should be left with; NULL if there is none

rvars == << heap, size, bumped, call, fault, reader, given, consumer >>

\* buf the buffer, NULL for a reader that does not exist; it and off are
\* buffer_iterator and page_offset; stale says that the revision of the buffer
\* is not the one remembered in buffer_data_revision.
ReaderType == [buf : Buffers \cup {NULL}, it : Nodes \cup {NULL}, off : Nat,
               stale : BOOLEAN]

NoReader == [buf |-> NULL, it |-> NULL, off |-> 0, stale |-> FALSE]

Live(r) == reader[r].buf # NULL

RInit ==
    /\ Init
    /\ reader = [r \in Readers |-> NoReader]
    /\ given = [r \in Readers |-> << >>]
    /\ consumer = NULL

-----------------------------------------------------------------------------
(* What a read does.                                                       *)

\* pb_data_reader_reset: to the begin iterator, with the revision of now.
AtHead(b) == [buf |-> b, it |-> heap.nxt[b], off |-> 0, stale |-> FALSE]

\* The reset of a reader whose buffer has another revision.
Current(c) == IF c.stale THEN AtHead(c.buf) ELSE c

\* A position at the end of a page is left for the next page; page_offset stays.
LeavePage(c) == IF c.off = NodeLen(heap, c.it) THEN [c EXCEPT !.it = heap.nxt[@]] ELSE c

\* The next piece of n bytes: what is left of the page, unless n is less.  The
\* difference is unsigned: an offset beyond the page leaves more than any n.
Piece(c, n) ==
    LET plen == NodeLen(heap, c.it)
    IN  IF c.off <= plen THEN Lower(plen - c.off, n) ELSE n

\* Mutant of NextPage: page_offset is not reset with the iterator.
NextPageOffsetKept(c) == [c EXCEPT !.it = heap.nxt[@]]

NextPage(c) == [c EXCEPT !.it = heap.nxt[@], !.off = 0]

\* One iteration of the loop of pb_data_reader_read.  pos is the reader, left what
\* is still asked for, dat what was copied; over after the return inside the loop,
\* and ok while the copies stayed in bounds.
ReadStep(s) ==
    LET c == s.pos
        m == Piece(c, s.left)
        d == [c EXCEPT !.off = @ + m]
        whole == d.off = NodeLen(heap, c.it)
    IN  IF s.over \/ s.left = 0 \/ c.it = c.buf THEN s
        ELSE IF ~InBounds(heap, c.it, c.off, m) THEN [s EXCEPT !.ok = FALSE, !.over = TRUE]
        ELSE [pos |-> IF whole THEN NextPage(d) ELSE d, left |-> s.left - m,
              dat |-> s.dat \o PageBytes(heap, c.it, c.off, m), ok |-> TRUE, over |-> ~whole]

\* The loop from reader state c on.  An iteration that is not the last leaves a page,
\* so there are no more than there are pages.
ReadLoop(c, n) ==
    LET run[k \in 0..Cardinality(PageIds)] ==
            IF k = 0 THEN [pos |-> c, left |-> n, dat |-> << >>, ok |-> TRUE, over |-> FALSE]
            ELSE ReadStep(run[k - 1])
    IN  run[Cardinality(PageIds)]

\* Mutant of StepBack: the position is the start of the last page.
StepBackToStart(c) == IF c.it = c.buf THEN [c EXCEPT !.it = heap.prv[@], !.off = 0] ELSE c

\* Mutant of StepBack: on the last byte, not behind it.
StepBackOneMore(c) ==
    IF c.it = c.buf
    THEN [c EXCEPT !.it = heap.prv[@], !.off = NodeLen(heap, heap.prv[c.it]) - 1]
    ELSE c

\* A read that reached the end iterator waits at the end of the last page.
StepBack(c) ==
    IF c.it = c.buf
    THEN [c EXCEPT !.it = heap.prv[@], !.off = NodeLen(heap, heap.prv[c.it])]
    ELSE c

\* pb_data_reader_read of n bytes by the reader c.
ReadResult(c, n) ==
    LET res == ReadLoop(LeavePage(Current(c)), n)
    IN  IF res.ok THEN [res EXCEPT !.pos = StepBack(@)] ELSE res

\* The bytes of the pages in front of the one the reader c stands on.
PagesBehind(c) ==
    LET ps == PagesOf(heap, c.buf)
        seeked[i \in 0..Len(ps)] ==
            IF i = 0 THEN 0
            ELSE IF \E j \in 1..i : ps[j] = c.it THEN seeked[i - 1]
            ELSE seeked[i - 1] + NodeLen(heap, ps[i])
    IN  seeked[Len(ps)]

\* Mutant of BytesBehind: the position inside the page counts as nothing.
BytesBehindPages(c) == PagesBehind(c)

\* What consume seeks: the pages in front of the reader's and its page_offset.
BytesBehind(c) == PagesBehind(c) + c.off

-----------------------------------------------------------------------------
(* The functions of a reader.                                              *)

BetweenCalls == fault = "none" /\ call = Idle

Forget(r, c) ==
    /\ reader' = [reader EXCEPT ![r] = c]
    /\ given' = [given EXCEPT ![r] = << >>]
    /\ UNCHANGED << heap, size, bumped, call, fault, consumer >>

CreateReader(r, b) ==
    BetweenCalls /\ ~Live(r) /\ Exists(heap, b) /\ Forget(r, AtHead(b))

ResetReader(r) == BetweenCalls /\ Live(r) /\ Forget(r, AtHead(reader[r].buf))

DestroyReader(r) == BetweenCalls /\ Live(r) /\ Forget(r, NoReader)

CloneReader(r, s) ==
    /\ BetweenCalls /\ ~Live(r) /\ Live(s)
    /\ reader' = [reader EXCEPT ![r] = reader[s]]
    /\ given' = [given EXCEPT ![r] = given[s]]
    /\ UNCHANGED << heap, size, bumped, call, fault, consumer >>

\* Reading past the region of a page.
OutOfBounds == Fault("oob") /\ UNCHANGED << reader, given, consumer >>

Give(r, res) ==
    /\ reader' = [reader EXCEPT ![r] = res.pos]
    /\ given' = [given EXCEPT ![r] = @ \o res.dat]

Read(r, n) ==
    /\ BetweenCalls /\ Live(r)
    /\ LET res == ReadResult(reader[r], n)
       IN  IF res.ok
           THEN Give(r, res) /\ UNCHANGED << heap, size, bumped, call, fault, consumer >>
           ELSE OutOfBounds

\* consume reads, then enters pb_buffer_seek with the count of everything behind
\* the reader, which is more than this read if reads came before.
Consume(r, n) ==
    /\ BetweenCalls /\ Live(r)
    /\ LET res == ReadResult(reader[r], n)
           b == reader[r].buf
           m == BytesBehind(res.pos)
       IN  IF ~res.ok THEN OutOfBounds
           ELSE /\ Give(r, res)
                /\ IF m > 0 /\ Allowed(b, "seek")
                   THEN /\ Start([Enter("seek", b, m) EXCEPT !.it = heap.nxt[b]])
                        /\ consumer' = [by |-> r, rest |->
                              SubSeq(Content(heap, b), Len(given'[r]) + 1, size[b])]
                   ELSE UNCHANGED << heap, size, bumped, call, fault, consumer >>

ReaderOp ==
    \E r \in Readers :
        \/ \E b \in Buffers : CreateReader(r, b)
        \/ \E s \in Readers : CloneReader(r, s)
        \/ ResetReader(r)
        \/ DestroyReader(r)
        \/ \E n \in 1..MaxLen : Read(r, n) \/ Consume(r, n)

-----------------------------------------------------------------------------
(* The readers beside the buffers.                                         *)

Entered == call.pc = "idle" /\ call'.pc # "idle"
Returned == call.pc # "idle" /\ call'.pc = "idle"

\* r waits at the end of the last page, where a short read leaves it.
AtEnd(r) ==
    LET c == reader[r]
    IN  /\ Live(r) /\ ~c.stale /\ c.it # c.buf
        /\ heap.nxt[c.it] = c.buf /\ c.off = NodeLen(heap, c.it)

Appends ==
    /\ Entered /\ call'.it = call'.buf
    /\ call'.fn \in {"extend", "insert_data", "insert_data_ref", "insert_buffer"}

\* A step of a call on a buffer.  A revision raised in it is one that every
\* reader of the buffer will find different from its own.  The readers of a buffer
\* are destroyed before it, as they hold on to it.
BufferStep ==
    /\ Next
    /\ Appends /\ "append_at_end" \notin ReaderUsage
          => \A r \in Readers : reader[r].buf = call'.buf => ~AtEnd(r)
    /\ Entered /\ call'.fn = "destroy" => \A r \in Readers : reader[r].buf # call'.buf
    /\ reader' = [r \in Readers |->
                    IF reader[r].buf \in bumped' THEN [reader[r] EXCEPT !.stale = TRUE]
                    ELSE reader[r]]
    /\ given' = [r \in Readers |->
                    IF reader[r].buf \in bumped' THEN << >> ELSE given[r]]
    /\ consumer' = IF Returned THEN NULL ELSE consumer

RNext == ReaderOp \/ BufferStep

RSpec == RInit /\ [][RNext]_rvars

-----------------------------------------------------------------------------
(* Properties.                                                             *)

\* Every variable has its type.
RTypeOK ==
    /\ TypeOK
    /\ reader \in [Readers -> ReaderType]
    /\ given \in [Readers -> Seq(Byte)]
    /\ consumer \in {NULL} \cup [by : Readers, rest : Seq(Byte)]

\* Whatever was done to a buffer, a reader that will not reset itself at its next
\* read stands inside a page that is still in the list of its buffer: every call
\* that frees, moves or cuts such a page has raised the revision when it returns.
ReadersNeverDangle ==
    call = Idle =>
        \A r \in Readers : Live(r) /\ ~reader[r].stale =>
            LET c == reader[r]
            IN  /\ Owner(heap, c.it) = c.buf
                /\ c.off <= NodeLen(heap, c.it)

\* What a reader has given since it last started at the head is exactly the front
\* of the buffer, no byte twice, none left out, none out of date, over any number
\* of reads and appends, and clones ("the data reader will retain the position of
\* the end of the read", pb_data_reader_operations.read).
ReadsAreContiguous ==
    call = Idle /\ fault = "none" =>
        \A r \in Readers : Live(r) /\ ~reader[r].stale =>
            /\ Len(given[r]) <= size[reader[r].buf]
            /\ given[r] = SubSeq(Content(heap, reader[r].buf), 1, Len(given[r]))

\* A read returns all that was asked for, or all that is left.
ReadsAllThereIs ==
    [][\A r \in Readers, n \in 1..MaxLen :
          Read(r, n) => Len(given'[r]) = Lower(Len(given[r]) + n, size[reader[r].buf])]_rvars

\* Consuming takes from the buffer what its reader has given, by this read and by
\* those before it, and nothing more: the rest of the bytes is there when the seek
\* inside consume returns.  See ConsumesWhatIsAsked for how much that is.
ConsumeTakesWhatWasRead ==
    [][consumer # NULL /\ Returned => Content(heap', call.buf) = consumer.rest]_rvars

\* What pb_data_reader_operations.consume of pagebuf.h says: "the amount of data
\* consumed is the lower of the size of the buffer and the value of len".
ConsumesWhatIsAsked ==
    [][\A r \in Readers, n \in 1..MaxLen :
          Consume(r, n) /\ Entered => call'.len = Lower(n, size[reader[r].buf])]_rvars

=============================================================================
