---------------------------- MODULE MCMmapBuffer ----------------------------
(* Instances of MmapBuffer for TLC. *)
EXTENDS MmapBuffer, TLC

CONSTANTS d1, d2, d3

\* One page of one byte, and one byte more than a write of one page takes.
ShortWrites == {<< <<1>> >>, << <<1>>, <<0>> >>}

Perms == Permutations(DataIds)
=============================================================================
