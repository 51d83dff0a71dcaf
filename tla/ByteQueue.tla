----------------------------- MODULE ByteQueue -----------------------------
(***************************************************************************)
(* What the pb_buffer interface promises (the operations table of struct   *)
(* pb_buffer_operations): a buffer is a string of bytes, and a call, once  *)
(* asked, is answered by one atomic change of the string it was made on,   *)
(* as large as the count it returns.  Pages, references and copies are not *)
(* mentioned.                                                              *)
(*                                                                         *)
(* A call that allocates may do less than it was asked, but what it did is *)
(* a prefix of what it was asked; the others do all that the lengths allow.*)
(***************************************************************************)
EXTENDS Naturals, Sequences

CONSTANTS Buffers, Byte, NULL

VARIABLES
    content, \* the bytes of each buffer, NULL while there is no such buffer
    req,     \* the call in progress
    out      \* the answer to the last call: the count and the bytes it returned

vars == << content, req, out >>

\* The calls; the others of the interface are made of these.
Calls == {"extend", "rewind", "seek", "trim", "insert_data", "insert_data_ref",
          "insert_buffer", "overwrite_data", "overwrite_buffer", "read_data", "clear",
          "destroy"}

Request == [fn : Calls, buf : Buffers, src : Buffers \cup {NULL},
            at : Nat, dat : Seq(Byte), len : Nat]

NoRequest == [fn |-> "none", buf |-> NULL, src |-> NULL,
              at |-> 0, dat |-> << >>, len |-> 0]

NoAnswer == [n |-> 0, dat |-> << >>]

Init ==
    /\ content = [b \in Buffers |-> NULL]
    /\ req = NoRequest
    /\ out = NoAnswer

Least(m, n) == IF m < n THEN m ELSE n
Front(q, n) == SubSeq(q, 1, n)
Rest(q, n) == SubSeq(q, n + 1, Len(q))

Create(b) ==
    /\ req = NoRequest /\ content[b] = NULL
    /\ content' = [content EXCEPT ![b] = << >>]
    /\ out' = NoAnswer
    /\ UNCHANGED req

Ask ==
    /\ req = NoRequest
    /\ req' \in Request /\ content[req'.buf] # NULL
    /\ out' = NoAnswer
    /\ UNCHANGED content

\* The bytes the call was given.
Given == IF req.src = NULL THEN req.dat ELSE content[req.src]

\* The call is answered with the count n and leaves q in its buffer.
Answer(fn, n, q) ==
    /\ req.fn = fn
    /\ n <= req.len
    /\ content' = [content EXCEPT ![req.buf] = q]
    /\ out' = [n |-> n, dat |-> << >>]
    /\ req' = NoRequest

Done == out'.n

\* The new bytes are the last ones, the first ones, and nobody knows which.
Extend ==
    LET q == content[req.buf]
    IN  Answer("extend", Done, q \o Rest(content'[req.buf], Len(q)))
        /\ Len(content'[req.buf]) = Len(q) + Done

Rewind ==
    LET q == content[req.buf]
    IN  Answer("rewind", Done, Front(content'[req.buf], Done) \o q)

Insert(fn) ==
    LET q == content[req.buf]
    IN  /\ Done <= Len(Given)
        /\ Answer(fn, Done, Front(q, req.at) \o Front(Given, Done) \o Rest(q, req.at))

Seek ==
    LET q == content[req.buf]
        n == Least(req.len, Len(q))
    IN  Answer("seek", n, Rest(q, n))

Trim ==
    LET q == content[req.buf]
        n == Least(req.len, Len(q))
    IN  Answer("trim", n, Front(q, Len(q) - n))

Overwrite(fn) ==
    LET q == content[req.buf]
    IN  /\ Done <= Least(Len(q), Len(Given))
        /\ Answer(fn, Done, Front(Given, Done) \o Rest(q, Done))

Read ==
    LET q == content[req.buf]
        n == Least(req.len, Len(q))
    IN  /\ req.fn = "read_data"
        /\ out' = [n |-> n, dat |-> Front(q, n)]
        /\ req' = NoRequest
        /\ UNCHANGED content

Clear == Answer("clear", 0, << >>)

Destroy == Answer("destroy", 0, NULL)

Next ==
    \/ \E b \in Buffers : Create(b)
    \/ Ask
    \/ Extend \/ Rewind \/ Seek \/ Trim \/ Read \/ Clear \/ Destroy
    \/ \E fn \in {"insert_data", "insert_data_ref", "insert_buffer"} : Insert(fn)
    \/ \E fn \in {"overwrite_data", "overwrite_buffer"} : Overwrite(fn)

Spec == Init /\ [][Next]_vars

=============================================================================
