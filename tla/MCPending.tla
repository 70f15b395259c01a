----------------------------- MODULE MCPending -----------------------------
(***************************************************************************)
(* Model values for WalbPending.                                           *)
(***************************************************************************)
EXTENDS WalbPending

Io(pos, len) == [pos |-> pos, len |-> len, discard |-> FALSE]
Discard(pos, len) == [pos |-> pos, len |-> len, discard |-> TRUE]

\* Writes that overlap, of which none begins inside another, and a discard.
Nested == {Io(0, 2), Io(0, 1), Io(2, 2), Discard(1, 2)}

\* Two writes of which one begins inside the other.
Inside == {Io(0, 2), Io(1, 1)}

\* Reads that begin before, with and inside the writes.
Reads == {Io(0, 4), Io(1, 2), Io(3, 1)}
=============================================================================
