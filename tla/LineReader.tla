----------------------------- MODULE LineReader -----------------------------
(***************************************************************************)
(* The line readers of pagebuf.c: a search for the first line of a trivial *)
(* buffer, which may go on after more data was appended and starts again   *)
(* when the data revision has changed.                                     *)
(*                                                                         *)
(* As in DataReader, a function of a reader is one action; seek_line also  *)
(* enters pb_buffer_seek, and resets the reader when that returns.         *)
(***************************************************************************)
EXTENDS TrivialBuffer, ByteIterator

CONSTANTS
    Readers, \* the pb_line_reader structs
    LF, CR,  \* the two bytes of a line end
    MaxLine, \* PB_LINE_READER_MAX_LINE_SIZE: 16777216 in the code
    SizeMod  \* a size_t counts modulo this: 2^64 in the code

ASSUME LineAssumption ==
    /\ NULL \notin Readers
    /\ LF \in Byte /\ CR \in Byte /\ LF # CR
    /\ MaxLine \in Nat \ {0}
    /\ SizeMod \in Nat /\ SizeMod > MaxLine

VARIABLES
    reader, \* the readers
    seeker  \* the seek_line in progress: its reader, whether it seeks a line
            \* with a line end, and the bytes behind that; NULL if there is none

lvars == << heap, size, bumped, call, fault, reader, seeker >>

\* at is byte_iterator, pos is buffer_offset, cr and found are has_cr and
\* has_line, term and termcr are is_terminated and is_terminated_with_cr, and
\* stale says that the revision of the buffer is not the one remembered.
ReaderType == [buf : Buffers \cup {NULL}, at : ByteIterators, pos : Nat,
               cr : BOOLEAN, found : BOOLEAN, term : BOOLEAN, termcr : BOOLEAN,
               stale : BOOLEAN]

\* pb_line_reader_reset in heap h.
AtHead(h, b) ==
    [buf |-> b, at |-> FirstByte(h, b), pos |-> 0, cr |-> FALSE, found |-> FALSE,
     term |-> FALSE, termcr |-> FALSE, stale |-> FALSE]

NoReader ==
    [buf |-> NULL, at |-> [it |-> NULL, off |-> 0], pos |-> 0, cr |-> FALSE,
     found |-> FALSE, term |-> FALSE, termcr |-> FALSE, stale |-> FALSE]

Live(r) == reader[r].buf # NULL

LInit ==
    /\ Init
    /\ reader = [r \in Readers |-> NoReader]
    /\ seeker = NULL

-----------------------------------------------------------------------------
(* The search.                                                             *)

\* The reset of a reader whose buffer has another revision.
Current(c) == IF c.stale THEN AtHead(heap, c.buf) ELSE c

\* Mutant of StopAtEnd: buffer_offset stays behind the byte gone back to.
StopAtEndOffsetKept(c) ==
    LET d == [c EXCEPT !.at = PrevByte(heap, @)]
    IN  IF c.termcr THEN [d EXCEPT !.found = TRUE]
        ELSE IF c.term THEN [d EXCEPT !.cr = FALSE, !.found = TRUE]
        ELSE d

\* Mutant of StopAtEnd: the offset of a byte that was not reached is taken back too.
StopAtEndTwoBack(c) == [c EXCEPT !.at = PrevByte(heap, @), !.pos = @ - 2]

\* No line end up to the end of the data: back to the last byte, to look at it
\* again next time, unless the line was terminated.
StopAtEnd(c) ==
    LET d == [c EXCEPT !.at = PrevByte(heap, @), !.pos = @ - 1]
    IN  IF c.termcr THEN [d EXCEPT !.found = TRUE]
        ELSE IF c.term THEN [d EXCEPT !.cr = FALSE, !.found = TRUE]
        ELSE d

\* Mutant of LookAt: has_cr is not cleared by the byte after a CR.
LookAtKeepsCr(c) == IF CurrentByte(heap, c.at) = CR THEN [c EXCEPT !.cr = TRUE] ELSE c

\* The bookkeeping of has_cr for the byte the iterator stands on.
LookAt(c) == [c EXCEPT !.cr = (CurrentByte(heap, c.at) = CR)]

\* One iteration of the loop of pb_line_reader_has_line: pos is the reader, and over
\* says that the loop was left.
SearchStep(s) ==
    LET c == s.pos
    IN  IF s.over THEN s
        ELSE IF IsEndByte(c.buf, c.at) THEN [pos |-> StopAtEnd(c), over |-> TRUE]
        ELSE IF CurrentByte(heap, c.at) = LF
        THEN [pos |-> [c EXCEPT !.found = TRUE], over |-> TRUE]
        ELSE IF c.pos = MaxLine
        THEN [pos |-> [c EXCEPT !.cr = FALSE, !.found = TRUE], over |-> TRUE]
        ELSE [pos |-> [LookAt(c) EXCEPT !.at = NextByte(heap, @), !.pos = @ + 1],
              over |-> FALSE]

\* The loop from reader state c on: buffer_offset is one more after each iteration
\* but the last, and no iteration follows the one that finds it at MaxLine.
Search(c) ==
    LET run[k \in 0..(MaxLine + 1)] ==
            IF k = 0 THEN [pos |-> c, over |-> FALSE] ELSE SearchStep(run[k - 1])
    IN  run[MaxLine + 1].pos

-----------------------------------------------------------------------------
(* What the functions return.                                              *)

\* pb_line_reader_get_line_len of a reader with the current revision.  A data of
\* one CR that was terminated with terminate_line_check_cr has has_cr at offset 0.
LineLen(c) ==
    IF ~c.found THEN 0 ELSE IF c.cr THEN (c.pos - 1) % SizeMod ELSE c.pos

\* Mutant of LineData: only the first page is read.
LineDataFirstPage(c, n) ==
    LET x == heap.nxt[c.buf]
    IN  IF x = c.buf THEN << >>
        ELSE PageBytes(heap, x, 0, Lower(Lower(NodeLen(heap, x), n), LineLen(c)))

\* What one page adds to the copy s: left is what is still to be copied.
CopyPage(s, p) ==
    LET k == Lower(NodeLen(heap, p), s.left)
    IN  [left |-> s.left - k, dat |-> s.dat \o PageBytes(heap, p, 0, k)]

\* pb_line_reader_get_line_data into n bytes of memory.
LineData(c, n) ==
    LET ps == PagesOf(heap, c.buf)
        copy[i \in 0..Len(ps)] ==
            IF i = 0 THEN [left |-> Lower(LineLen(c), n), dat |-> << >>]
            ELSE CopyPage(copy[i - 1], ps[i])
    IN  copy[Len(ps)].dat

\* Mutant of ToSeek: the line end stays.
ToSeekLineOnly(c) == c.pos

\* What pb_line_reader_seek_line seeks: the line end is one byte, its CR counted
\* in buffer_offset, and a terminated line has none.
ToSeek(c) == IF c.term THEN c.pos ELSE c.pos + 1

-----------------------------------------------------------------------------
(* The functions of a reader.                                              *)

BetweenCalls == fault = "none" /\ call = Idle

Become(r, c) ==
    /\ reader' = [reader EXCEPT ![r] = c]
    /\ UNCHANGED << heap, size, bumped, call, fault, seeker >>

CreateReader(r, b) ==
    BetweenCalls /\ ~Live(r) /\ Exists(heap, b) /\ Become(r, AtHead(heap, b))

ResetReader(r) == BetweenCalls /\ Live(r) /\ Become(r, AtHead(heap, reader[r].buf))

DestroyReader(r) == BetweenCalls /\ Live(r) /\ Become(r, NoReader)

CloneReader(r, s) == BetweenCalls /\ ~Live(r) /\ Live(s) /\ Become(r, reader[s])

HasLine(r) ==
    /\ BetweenCalls /\ Live(r)
    /\ LET c == Current(reader[r])
       IN  Become(r, IF c.found \/ size[c.buf] = 0 THEN c ELSE Search(c))

\* get_line_len and get_line_data: what they return, LineLen and LineData, is
\* read off the reader, whose revision they check.
GetLine(r) == BetweenCalls /\ Live(r) /\ Become(r, Current(reader[r]))

TerminateLine(r) ==
    BetweenCalls /\ Live(r) /\ Become(r, [reader[r] EXCEPT !.term = TRUE])

TerminateLineCheckCr(r) ==
    BetweenCalls /\ Live(r) /\ Become(r, [reader[r] EXCEPT !.termcr = TRUE])

\* The reader stands on a line end, whose first byte may be a CR.
OnLineEnd(c) == ~IsEndByte(c.buf, c.at) /\ CurrentByte(heap, c.at) = LF

\* seek_line; the reset of the reader follows the return of pb_buffer_seek.
SeekLine(r) ==
    /\ BetweenCalls /\ Live(r)
    /\ LET c == Current(reader[r])
           b == c.buf
           m == ToSeek(c)
       IN  IF ~c.found THEN Become(r, c)
           ELSE IF m = 0 \/ ~Allowed(b, "seek") THEN Become(r, AtHead(heap, b))
           ELSE /\ Start([Enter("seek", b, m) EXCEPT !.it = heap.nxt[b]])
                /\ seeker' = [by |-> r, line |-> OnLineEnd(c) /\ ~c.term, rest |->
                                SubSeq(Content(heap, b), c.pos + 2, size[b])]
                /\ reader' = [reader EXCEPT ![r] = c]

ReaderOp ==
    \E r \in Readers :
        \/ \E b \in Buffers : CreateReader(r, b)
        \/ \E s \in Readers : CloneReader(r, s)
        \/ ResetReader(r) \/ DestroyReader(r)
        \/ HasLine(r) \/ GetLine(r) \/ SeekLine(r)
        \/ TerminateLine(r) \/ TerminateLineCheckCr(r)

-----------------------------------------------------------------------------
(* The readers beside the buffers.                                         *)

Entered == call.pc = "idle" /\ call'.pc # "idle"
Returned == call.pc # "idle" /\ call'.pc = "idle"

\* A revision raised in a step of a call is one that every reader of the buffer
\* will find different from its own.
Noticed(r) ==
    IF reader[r].buf \in bumped' THEN [reader[r] EXCEPT !.stale = TRUE] ELSE reader[r]

\* The end of a seek_line resets its reader.
AfterStep(r) ==
    IF Returned /\ seeker # NULL /\ seeker.by = r THEN AtHead(heap', reader[r].buf)
    ELSE Noticed(r)

\* A step of a call on a buffer.  The readers of a buffer are destroyed before it,
\* as they hold on to it.
BufferStep ==
    /\ Next
    /\ Entered /\ call'.fn = "destroy" => \A r \in Readers : reader[r].buf # call'.buf
    /\ reader' = [r \in Readers |-> AfterStep(r)]
    /\ seeker' = IF Returned THEN NULL ELSE seeker

LNext == ReaderOp \/ BufferStep

LSpec == LInit /\ [][LNext]_lvars

-----------------------------------------------------------------------------
(* Properties.                                                             *)

\* Every variable has its type; buffer_offset never wraps below 0.
LTypeOK ==
    /\ TypeOK
    /\ reader \in [Readers -> ReaderType]
    /\ seeker \in {NULL} \cup [by : Readers, line : BOOLEAN, rest : Seq(Byte)]

\* A reader that will not reset itself at its next use.
UpToDate(r) == call = Idle /\ fault = "none" /\ Live(r) /\ ~reader[r].stale

\* Between two calls of has_line, whatever the client did to the buffer: the byte
\* iterator stands in a page that is still in the list, buffer_offset is the
\* number of bytes in front of it, and none of those is a line end.  A search that
\* goes on after more data was appended thus misses no line and counts no byte
\* twice, across page boundaries and after stepping back at the end of the data.
SearchKeepsItsPlace ==
    \A r \in Readers : UpToDate(r) =>
        LET c == reader[r]
            s == Content(heap, c.buf)
        IN  /\ Owner(heap, c.at.it) = c.buf
            /\ c.pos = BytesBefore(heap, c.buf, c.at.it) + c.at.off
            /\ c.pos < Len(s) \/ (c.pos = Len(s) /\ IsEndByte(c.buf, c.at))
            /\ \A i \in 1..c.pos : s[i] # LF

\* What a reader says of the line it has found, also after later appends: up to
\* the first line end it is the text in front of it without a CR that belongs to
\* it, and is_crlf tells whether there is one; a line that reached the maximum is
\* its first MaxLine bytes; and whatever ended the line, get_line_data gives bytes
\* from the front of the buffer.
FoundLinesAreRight ==
    \A r \in Readers : UpToDate(r) /\ reader[r].found =>
        LET c == reader[r]
            s == Content(heap, c.buf)
            line == LineData(c, LineLen(c))
            e == CHOOSE i \in 1..Len(s) :
                    s[i] = LF /\ \A j \in 1..(i - 1) : s[j] # LF
            crlf == e > 1 /\ s[e - 1] = CR
        IN  /\ OnLineEnd(c) => /\ c.cr = crlf
                               /\ line = SubSeq(s, 1, IF crlf THEN e - 2 ELSE e - 1)
            /\ ~OnLineEnd(c) /\ ~c.term /\ ~c.termcr =>
                    ~c.cr /\ line = SubSeq(s, 1, MaxLine)
            /\ line = SubSeq(s, 1, Len(line))

\* has_line says that there is a line exactly when there is one: the data has a
\* line end, or is longer than a line may be, or its last line was terminated;
\* however many searches came before, and whatever was appended in between.
SearchIsComplete ==
    [][\A r \in Readers : HasLine(r) =>
          LET c == reader'[r]
              s == Content(heap, c.buf)
          IN  c.found <=> /\ s # << >>
                          /\ \/ LF \in {s[i] : i \in 1..Len(s)}
                             \/ Len(s) > MaxLine
                             \/ c.term \/ c.termcr]_lvars

\* seek_line of a line with a line end takes the line and its line end from the
\* buffer, and nothing more: the rest is there when the seek inside it returns.
SeekTakesLine ==
    [][seeker # NULL /\ Returned /\ seeker.line
          => Content(heap', call.buf) = seeker.rest]_lvars

\* Walking the byte iterators forward from the first byte visits the bytes of the
\* buffer in order and arrives at the end iterator, walking back from the end
\* iterator visits them in reverse, and one step more, in front of the first byte,
\* is the end iterator again; whatever pages the calls left behind.
BytesInOrder ==
    call = Idle /\ fault = "none" =>
        \A b \in Buffers : Exists(heap, b) =>
            LET s == Content(heap, b)
                fwd[n \in 0..Len(s)] ==
                    IF n = 0 THEN FirstByte(heap, b) ELSE NextByte(heap, fwd[n - 1])
                bwd[n \in 0..Len(s)] ==
                    IF n = 0 THEN EndByte(b) ELSE PrevByte(heap, bwd[n - 1])
            IN  /\ \A n \in 1..Len(s) :
                      /\ ~IsEndByte(b, fwd[n - 1]) /\ CurrentByte(heap, fwd[n - 1]) = s[n]
                      /\ ~IsEndByte(b, bwd[n])
                      /\ CurrentByte(heap, bwd[n]) = s[Len(s) + 1 - n]
                /\ IsEndByte(b, fwd[Len(s)])
                /\ IsEndByte(b, PrevByte(heap, bwd[Len(s)]))

=============================================================================
