---------------------------- MODULE ByteIterator ----------------------------
(***************************************************************************)
(* The byte iterators of the trivial buffer (pb_buffer_byte_iterator): a   *)
(* page iterator and an offset into its page.  current_byte points at the  *)
(* byte there, or at a null character when the page iterator is the end    *)
(* iterator.  Like PageHeap, the module has no variables.                  *)
(***************************************************************************)
EXTENDS PageHeap

ByteIterators == [it : Nodes \cup {NULL}, off : Int]

\* pb_trivial_buffer_get_byte_iterator.
FirstByte(h, b) == [it |-> h.nxt[b], off |-> 0]

\* pb_trivial_buffer_get_end_byte_iterator.
EndByte(b) == [it |-> b, off |-> 0]

\* pb_trivial_buffer_is_end_byte_iterator: only the page iterator is looked at.
IsEndByte(b, i) == i.it = b

\* *current_byte of an iterator that is not the end iterator.
CurrentByte(h, i) == PageBytes(h, i.it, i.off, 1)[1]

\* Mutant of NextByte: a page is left before its last byte.
NextByteEarly(h, i) ==
    IF i.off + 1 >= NodeLen(h, i.it) - 1 THEN [it |-> h.nxt[i.it], off |-> 0]
    ELSE [i EXCEPT !.off = @ + 1]

\* pb_trivial_buffer_next_byte_iterator.
NextByte(h, i) ==
    IF i.off + 1 >= NodeLen(h, i.it) THEN [it |-> h.nxt[i.it], off |-> 0]
    ELSE [i EXCEPT !.off = @ + 1]

\* Mutant of PrevByte: a page is entered at its first byte.
PrevByteFirst(h, i) ==
    IF i.off = 0 THEN [it |-> h.prv[i.it], off |-> 0] ELSE [i EXCEPT !.off = @ - 1]

\* pb_trivial_buffer_prev_byte_iterator: in front of the first byte is the end
\* iterator, whose length is 0.
PrevByte(h, i) ==
    LET x == h.prv[i.it]
    IN  IF i.off > 0 THEN [i EXCEPT !.off = @ - 1]
        ELSE IF x \in PageIds THEN [it |-> x, off |-> NodeLen(h, x) - 1]
        ELSE [it |-> x, off |-> 0]

=============================================================================
