---------------------------- MODULE MCLineReader ----------------------------
(* An instance of LineReader for TLC. *)
EXTENDS LineReader, TLC

CONSTANTS b1, p1, p2, p3, d1, d2, r1, r2

\* One buffer that copies what it is given, in pages of two bytes at most.
PagesOfTwo == b1 :> [page_size |-> 2, clone_on_write |-> TRUE,
                     fragment_as_target |-> TRUE, rejects |-> {}]

\* Text with the first byte of a line end at either end, and the other byte of it.
Text == {<<97, 13>>, <<13, 97>>, <<10>>}

\* Free pages, free regions and the readers are interchangeable.
Perms == Permutations({p1, p2, p3}) \cup Permutations({d1, d2})
      \cup Permutations({r1, r2})
=============================================================================
