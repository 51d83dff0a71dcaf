----------------------------- MODULE MCContract -----------------------------
(* Instances of TrivialBufferContract for TLC. *)
EXTENDS TrivialBufferContract, TLC

CONSTANTS b1, b2, p1, p2, p3, p4, d1, d2, d3

Plain == [page_size |-> 0, clone_on_write |-> FALSE, fragment_as_target |-> FALSE,
          rejects |-> {}]

\* b1 shares the pages it is given, b2 copies them and cuts them to 1 byte.
ShareAndCopy == (b1 :> [Plain EXCEPT !.page_size = 2])
             @@ (b2 :> [Plain EXCEPT !.page_size = 1, !.clone_on_write = TRUE,
                                     !.fragment_as_target = TRUE])

\* One buffer whose page_size cuts the client's three bytes in two pieces.
CutAtTwo == b1 :> [Plain EXCEPT !.page_size = 2]

\* Bytes that tell the places of a string apart; 0 is uninitialised memory.
TwoBytes == {<<1, 2>>}
ThreeBytes == {<<1, 2, 3>>}

\* Free pages and regions are interchangeable.
Perms3 == Permutations({p1, p2, p3}) \cup Permutations({d1, d2, d3})
Perms4 == Permutations({p1, p2, p3, p4}) \cup Permutations({d1, d2, d3})
=============================================================================
