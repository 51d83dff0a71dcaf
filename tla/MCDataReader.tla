---------------------------- MODULE MCDataReader ----------------------------
(* Instances of DataReader for TLC. *)
EXTENDS DataReader, TLC

CONSTANTS b1, p1, p2, p3, d1, d2, d3, r1, r2

\* One buffer that copies what it is given, in pages of two bytes at most.
PagesOfTwo == b1 :> [page_size |-> 2, clone_on_write |-> TRUE,
                     fragment_as_target |-> TRUE, rejects |-> {}]

\* A string of two bytes that can be told apart.
TwoBytes == {<<1, 2>>}

\* Free pages, free regions and the readers are interchangeable.
Perms == Permutations({p1, p2, p3}) \cup Permutations({d1, d2, d3})
      \cup Permutations({r1, r2})

Perms1 == Permutations({p1, p2, p3}) \cup Permutations({d1, d2, d3})
=============================================================================
