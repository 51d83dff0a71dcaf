----------------------- MODULE TrivialBufferContract -----------------------
(***************************************************************************)
(* TrivialBuffer with two history variables, and what each call promises:  *)
(* the byte string interface of ByteQueue, and the validity of iterators   *)
(* that the data revision stands for.                                      *)
(***************************************************************************)
EXTENDS TrivialBuffer

\* A page and the bytes it shows.
PageShown == [page : PageIds, bytes : Seq(Byte)]

\* NULL stands for no layout and for no string, not for an empty one.
ASSUME ContractAssumption == NULL \notin Seq(Byte) \cup Seq(PageShown)

VARIABLES
    before, \* the layouts of the buffers when the call in progress was entered
    out     \* what the last call returned

cvars == << heap, size, bumped, call, fault, before, out >>

\* The pages of b in order, each with the bytes it shows; NULL without buffer.
Layout(h, b) ==
    IF ~Exists(h, b) THEN NULL
    ELSE LET ps == PagesOf(h, b)
         IN  [i \in 1..Len(ps) |->
                 [page |-> ps[i], bytes |-> PageBytes(h, ps[i], 0, NodeLen(h, ps[i]))]]

Layouts(h) == [b \in Buffers |-> Layout(h, b)]

NoLayouts == [b \in Buffers |-> NULL]

Bytes(layout) ==
    IF layout = NULL THEN NULL
    ELSE FlattenSeq([i \in 1..Len(layout) |-> layout[i].bytes])

CInit ==
    /\ Init
    /\ before = NoLayouts
    /\ out = [n |-> 0, dat |-> << >>]

Entered == call.pc = "idle" /\ call'.pc # "idle"
Returned == call.pc # "idle" /\ call'.pc = "idle"

CNext ==
    /\ Next
    /\ before' = IF Entered THEN Layouts(heap) ELSE IF Returned THEN NoLayouts ELSE before
    /\ out' = IF Returned
              THEN [n |-> call.done,
                    dat |-> IF call.fn = "read_data" THEN call.dat ELSE << >>]
              ELSE [n |-> 0, dat |-> << >>]

CSpec == CInit /\ [][CNext]_cvars

-----------------------------------------------------------------------------
(* The refinement: until a call returns, the byte strings are what they    *)
(* were when it was entered.                                               *)

Strings ==
    [b \in Buffers |-> Bytes(IF call.pc = "idle" THEN Layout(heap, b) ELSE before[b])]

InsertFns == {"insert_data", "insert_data_ref", "insert_buffer"}

Asked ==
    [fn |-> call.fn, buf |-> call.buf, src |-> call.src,
     at |-> IF call.fn \in InsertFns
            THEN BytesBefore(heap, call.buf, call.it) + call.off - call.done ELSE 0,
     dat |-> IF call.fn = "read_data" THEN << >> ELSE call.dat,
     len |-> call.len + call.done]

Queue == INSTANCE ByteQueue WITH content <- Strings, req <- Asked, out <- out

\* A trivial buffer is a byte string: each call reads, adds, removes or replaces
\* exactly the bytes its return value counts, at the place it was asked to, and
\* leaves every other buffer as it was, however its loop cut the work into pages.
ImplementsByteQueue == Queue!Spec

IsPrefixOf(s, t) == Len(s) <= Len(t) /\ SubSeq(t, 1, Len(s)) = s

\* A call that returns with the data revision of a buffer unchanged has left all
\* its pages, in their order and with their bytes, and at most appended some: an
\* iterator into the buffer remains valid (the data_revision comment of pagebuf.h).
IteratorsStayValid ==
    [][Returned =>
          \A b \in Buffers :
              Exists(heap, b) /\ b \notin bumped' =>
                 IsPrefixOf(before[b], Layout(heap', b))]_cvars

\* A call whose loop ran to the end of its condition returns all that the lengths
\* allowed: it does less only when an allocation made it leave early.
ShortOnlyOnFailure ==
    [][Returned /\ call.pc = "loop" =>
          LET all == call.len + call.done
              have == Len(Bytes(before[call.buf]))
              given == IF call.src = NULL THEN all ELSE Len(Bytes(before[call.src]))
          IN  CASE call.fn \in {"seek", "trim", "read_data"} -> call.done = Lower(all, have)
                [] call.fn \in {"overwrite_data", "overwrite_buffer"} ->
                      call.done = Lower(Lower(all, have), given)
                [] OTHER -> call.done = Lower(all, given)]_cvars

=============================================================================
