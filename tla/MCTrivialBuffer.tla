-------------------------- MODULE MCTrivialBuffer --------------------------
(* Instances of TrivialBuffer for TLC: the strategies and inputs of the runs. *)
EXTENDS TrivialBuffer, TLC

CONSTANTS b1, b2, p1, p2, p3, p4, d1, d2, d3

Plain == [page_size |-> 0, clone_on_write |-> FALSE, fragment_as_target |-> FALSE,
          rejects |-> {}]

\* insert_buffer1 for b1 and insert_buffer4 for b2.
ShareAndCopy == (b1 :> [Plain EXCEPT !.page_size = 2])
             @@ (b2 :> [Plain EXCEPT !.page_size = 1, !.clone_on_write = TRUE,
                                     !.fragment_as_target = TRUE])

\* insert_buffer3 for b1 and insert_buffer2 for b2, which takes no inserts.
CutAndClone == (b1 :> [Plain EXCEPT !.page_size = 1, !.fragment_as_target = TRUE])
            @@ (b2 :> [Plain EXCEPT !.page_size = 2, !.clone_on_write = TRUE,
                                    !.rejects = {"insert", "rewind"}])

\* Both buffers share whatever they are given.
ShareAlways == [b \in Buffers |-> Plain]

\* Both buffers copy whatever they are given, in the pieces it comes in.
CopyAlways == [b \in Buffers |-> [Plain EXCEPT !.clone_on_write = TRUE]]

\* Byte values play no part in these runs: one string of each length.
Lengths2 == {<<0>>, <<0, 0>>}
Lengths3 == {<<0>>, <<0, 0>>, <<0, 0, 0>>}

\* Free pages and regions are interchangeable.
Perms == Permutations({p1, p2, p3, p4}) \cup Permutations({d1, d2, d3})
=============================================================================
