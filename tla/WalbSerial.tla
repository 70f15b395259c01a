----------------------------- MODULE WalbSerial -----------------------------
(***************************************************************************)
(* What overlapped IO serialization promises the data device, stated       *)
(* without the two tasks, the multimap and the counters: writes arrive in  *)
(* lsid order and none is issued before every earlier write that it        *)
(* overlaps is complete.  Writes that do not overlap run in any order.     *)
(***************************************************************************)
EXTENDS Integers, Sequences

CONSTANTS MaxPos, MaxLen, MaxBiow

VARIABLES
  biows,       \* the writes, in lsid order
  submitted,   \* those issued to the data device
  completed    \* those complete

vars == <<biows, submitted, completed>>

Meet(a, b) == a.pos < b.pos + b.len /\ b.pos < a.pos + a.len

Init == biows = <<>> /\ submitted = {} /\ completed = {}

Arrive(p, l) ==
  /\ Len(biows) < MaxBiow
  /\ biows' = Append(biows, [pos |-> p, len |-> l])
  /\ UNCHANGED <<submitted, completed>>

Issue(i) ==
  /\ i \notin submitted
  /\ \A j \in 1 .. i - 1 : Meet(biows[j], biows[i]) => j \in completed
  /\ submitted' = submitted \cup {i}
  /\ UNCHANGED <<biows, completed>>

Complete(i) ==
  /\ i \in submitted \ completed
  /\ completed' = completed \cup {i}
  /\ UNCHANGED <<biows, submitted>>

Next ==
  \/ \E p \in 0..MaxPos, l \in 1..MaxLen : Arrive(p, l)
  \/ \E i \in 1..Len(biows) : Issue(i) \/ Complete(i)

Spec == Init /\ [][Next]_vars
=============================================================================
