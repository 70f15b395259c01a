---------------------------- MODULE WalbOverlap ----------------------------
(***************************************************************************)
(* Overlapped IO serialization: module/overlapped_io.c and the two data    *)
(* device tasks of module/io.c that call it.                               *)
(*                                                                         *)
(* The submit task takes bio wrappers from datapack_submit_queue in lsid   *)
(* order, inserts each into the multimap overlapped_data and submits those *)
(* that overlap no earlier one.  The wait task waits for them in the same  *)
(* order, deletes each from the multimap and submits the ones it frees.    *)
(* Both tasks run concurrently; each call on overlapped_data is made under *)
(* overlapped_data_lock and is one step here.                              *)
(*                                                                         *)
(* Every list is filled at its tail and emptied at its head, so a bio      *)
(* wrapper is named by its place in that order and each list is the        *)
(* interval between two counters.                                          *)
(***************************************************************************)
EXTENDS Integers, Sequences, FiniteSets

CONSTANTS
  MaxPos,      \* positions are 0..MaxPos
  MaxLen,      \* lengths are 1..MaxLen
  MaxBiow,     \* bound: bio wrappers enqueued in a behaviour
  IoBulk,      \* n_io_bulk, the most bio wrappers taken at once
  MaxNoMem     \* bound: failures of multimap_add in a behaviour

ASSUME OverlapAssumption ==
  /\ MaxPos \in Nat
  /\ MaxLen \in Nat \ {0}
  /\ MaxBiow \in Nat
  /\ IoBulk \in Nat \ {0}
  /\ MaxNoMem \in Nat

VARIABLES
  biows,          \* every bio wrapper put into datapack_submit_queue, in order
  first, last,    \* the submit task's biow_list is first..last
  insertedTo,     \* 1..insertedTo have passed overlapped_check_and_insert
  overlapped,     \* the bio wrappers in overlapped_data
  maxSectors,     \* max_sectors_in_overlapped
  nOverlapped,    \* biow->n_overlapped
  delayed,        \* those with BIO_WRAPPER_DELAYED set
  submitted,      \* those submitted to the data device
  completed,      \* those whose data IO is complete
  waitTo,         \* 1..waitTo have been put into datapack_wait_queue
  waitedTo,       \* 1..waitedTo have been waited for and deleted
  shouldSubmit,   \* the wait task's should_submit_list
  noMem           \* failures of multimap_add so far

vars == <<biows, first, last, insertedTo, overlapped, maxSectors, nOverlapped,
          delayed, submitted, completed, waitTo, waitedTo, shouldSubmit, noMem>>

Ids == 1..Len(biows)

\* bio_wrapper_is_overlap: two intervals of sectors meet.
IsOverlap(a, b) ==
  /\ a.pos < b.pos + b.len
  /\ b.pos < a.pos + a.len

\* Mutated StartPos: the walk starts at b itself and misses entries that reach into b.
StartPosNoMax(b) == b.pos

\* The key a search for b starts from.
StartPos(b) == IF b.pos > maxSectors THEN b.pos - maxSectors ELSE 0

\* Mutated FoundBy: the walk skips entries at the start position.
FoundByAfterStart(b, S) ==
  {i \in S : /\ StartPos(b) < biows[i].pos
             /\ biows[i].pos < b.pos + b.len
             /\ IsOverlap(b, biows[i])}

\* The bio wrappers of S that a cursor walk from StartPos(b) to the end of b
\* meets and that overlap b.
FoundBy(b, S) ==
  {i \in S : /\ StartPos(b) <= biows[i].pos
             /\ biows[i].pos < b.pos + b.len
             /\ IsOverlap(b, biows[i])}

Init ==
  /\ biows = <<>>
  /\ first = 1 /\ last = 0
  /\ insertedTo = 0
  /\ overlapped = {}
  /\ maxSectors = 0
  /\ nOverlapped = <<>>
  /\ delayed = {}
  /\ submitted = {} /\ completed = {}
  /\ waitTo = 0 /\ waitedTo = 0
  /\ shouldSubmit = {}
  /\ noMem = 0

\* Mutated Enqueue: init_bio_wrapper forgets n_overlapped.
EnqueueNoInit(p, l) ==
  /\ Len(biows) < MaxBiow
  /\ biows' = Append(biows, [pos |-> p, len |-> l])
  /\ UNCHANGED <<nOverlapped, first, last, insertedTo, overlapped, maxSectors, delayed,
                 submitted, completed, waitTo, waitedTo, shouldSubmit, noMem>>

\* wait_for_logpack_and_submit_datapack puts the next bio wrapper at the tail of
\* datapack_submit_queue; init_bio_wrapper gave it n_overlapped -1.
Enqueue(p, l) ==
  /\ Len(biows) < MaxBiow
  /\ biows' = Append(biows, [pos |-> p, len |-> l])
  /\ nOverlapped' = Append(nOverlapped, -1)
  /\ UNCHANGED <<first, last, insertedTo, overlapped, maxSectors, delayed,
                 submitted, completed, waitTo, waitedTo, shouldSubmit, noMem>>

-----------------------------------------------------------------------------
(* task_submit_bio_wrapper_list *)

\* Take at most n_io_bulk bio wrappers; their log is permanent.
Dequeue ==
  /\ waitTo = last
  /\ last < Len(biows)
  /\ first' = last + 1
  /\ last' = IF Len(biows) <= last + IoBulk THEN Len(biows) ELSE last + IoBulk
  /\ UNCHANGED <<biows, insertedTo, overlapped, maxSectors, nOverlapped, delayed,
                 submitted, completed, waitTo, waitedTo, shouldSubmit, noMem>>

\* The counting half of overlapped_check_and_insert for bio wrapper i.
CountOverlapped(i) ==
  LET n == Cardinality(FoundBy(biows[i], overlapped))
  IN  /\ nOverlapped' = [nOverlapped EXCEPT ![i] = n]
      /\ delayed' = IF n > 0 THEN delayed \cup {i} ELSE delayed

\* overlapped_check_and_insert succeeds on the next of biow_list.
CheckAndInsert ==
  LET i == insertedTo + 1
  IN  /\ i <= last
      /\ CountOverlapped(i)
      /\ overlapped' = overlapped \cup {i}
      /\ maxSectors' = IF biows[i].len > maxSectors THEN biows[i].len ELSE maxSectors
      /\ insertedTo' = i
      /\ UNCHANGED <<biows, first, last, submitted, completed, waitTo, waitedTo,
                     shouldSubmit, noMem>>

\* multimap_add returns -ENOMEM: the caller will retry with the same biow,
\* whose n_overlapped and DELAYED bit keep what this call gave them.
CheckAndInsertNoMem ==
  LET i == insertedTo + 1
  IN  /\ i <= last
      /\ noMem < MaxNoMem
      /\ noMem' = noMem + 1
      /\ CountOverlapped(i)
      /\ UNCHANGED <<biows, first, last, insertedTo, overlapped, maxSectors,
                     submitted, completed, waitTo, waitedTo, shouldSubmit>>

\* Mutated Sorted: BIO_WRAPPER_DELAYED is not looked at.
SortedAll == first..last

\* Those of biow_list that the submit task submits itself.
Sorted == {i \in first..last : i \notin delayed}

\* submit_write_bio_wrapper on a member of biow_list_sorted.  The order is left
\* open: it depends on sort_data_io_ and on the plug.
SubmitData(i) ==
  /\ insertedTo = last
  /\ waitTo < last
  /\ i \in Sorted \ submitted
  /\ submitted' = submitted \cup {i}
  /\ UNCHANGED <<biows, first, last, insertedTo, overlapped, maxSectors, nOverlapped,
                 delayed, completed, waitTo, waitedTo, shouldSubmit, noMem>>

\* The whole biow_list moves to datapack_wait_queue.
EnqueueWait ==
  /\ insertedTo = last
  /\ waitTo < last
  /\ Sorted \subseteq submitted
  /\ waitTo' = last
  /\ UNCHANGED <<biows, first, last, insertedTo, overlapped, maxSectors, nOverlapped,
                 delayed, submitted, completed, waitedTo, shouldSubmit, noMem>>

-----------------------------------------------------------------------------
(* The data device completes submitted IOs in any order. *)
Complete(i) ==
  /\ i \in submitted \ completed
  /\ completed' = completed \cup {i}
  /\ UNCHANGED <<biows, first, last, insertedTo, overlapped, maxSectors, nOverlapped,
                 delayed, submitted, waitTo, waitedTo, shouldSubmit, noMem>>

-----------------------------------------------------------------------------
(* task_wait_for_bio_wrapper_list, wait_for_write_bio_wrapper *)

\* Mutated WaitedFor: the data IO is not waited for.
NotWaitedFor(i) == shouldSubmit = {} /\ i <= waitTo

\* wait_for_bio_wrapper_io on the next of datapack_wait_queue has returned.
WaitedFor(i) == shouldSubmit = {} /\ i <= waitTo /\ i \in completed

\* Mutated Freed: n_overlapped is tested before it is decremented.
FreedEarly(hit) == {j \in hit : nOverlapped[j] = 0}

\* The overlapping bio wrappers that now wait for nobody.
Freed(hit) == {j \in hit : nOverlapped[j] - 1 = 0}

\* The next bio wrapper is complete: overlapped_delete_and_notify.
DeleteAndNotify ==
  LET i    == waitedTo + 1
      rest == overlapped \ {i}
      hit  == FoundBy(biows[i], rest)
  IN  /\ WaitedFor(i)
      /\ overlapped' = rest
      /\ maxSectors' = IF rest = {} THEN 0 ELSE maxSectors
      /\ nOverlapped' = [j \in Ids |-> IF j \in hit THEN nOverlapped[j] - 1
                                                    ELSE nOverlapped[j]]
      /\ shouldSubmit' = Freed(hit)
      /\ waitedTo' = i
      /\ UNCHANGED <<biows, first, last, insertedTo, delayed, submitted, completed,
                     waitTo, noMem>>

\* Submit one of should_submit_list; the next deletion waits for all of them.
SubmitDelayed(i) ==
  /\ i \in shouldSubmit
  /\ shouldSubmit' = shouldSubmit \ {i}
  /\ submitted' = submitted \cup {i}
  /\ UNCHANGED <<biows, first, last, insertedTo, overlapped, maxSectors, nOverlapped,
                 delayed, completed, waitTo, waitedTo, noMem>>

-----------------------------------------------------------------------------
SubmitTask ==
  \/ Dequeue
  \/ CheckAndInsert
  \/ \E i \in Ids : SubmitData(i)
  \/ EnqueueWait

WaitTask ==
  \/ DeleteAndNotify
  \/ \E i \in Ids : SubmitDelayed(i)

Next ==
  \/ \E p \in 0..MaxPos, l \in 1..MaxLen : Enqueue(p, l)
  \/ SubmitTask
  \/ CheckAndInsertNoMem
  \/ \E i \in Ids : Complete(i)
  \/ WaitTask

Spec == Init /\ [][Next]_vars

\* Workqueue tasks are scheduled as long as they have work, and the data device
\* answers every IO.  Nothing obliges a client to write or multimap_add to fail.
Fairness ==
  /\ WF_vars(SubmitTask)
  /\ WF_vars(WaitTask)
  /\ \A i \in 1..MaxBiow : WF_vars(Complete(i))

FairSpec == Spec /\ Fairness

-----------------------------------------------------------------------------
Biow == [pos : Nat, len : Nat \ {0}]

TypeOK ==
  /\ biows \in Seq(Biow)
  /\ nOverlapped \in Seq(Int) /\ Len(nOverlapped) = Len(biows)
  /\ first \in Nat /\ last \in Nat /\ insertedTo \in Nat
  /\ waitTo \in Nat /\ waitedTo \in Nat /\ noMem \in Nat /\ maxSectors \in Nat
  /\ overlapped \subseteq Ids /\ delayed \subseteq Ids
  /\ submitted \subseteq Ids /\ completed \subseteq Ids
  /\ shouldSubmit \subseteq Ids

\* doc/algorithm.creole, "Overlapped IO serialization": of two overlapping
\* writes the one with the larger lsid is submitted to the data device only
\* after the IO of the other is complete, whatever the two tasks and the device
\* do in between.
OverlappedInOrder ==
  \A i, j \in Ids :
    (i < j /\ IsOverlap(biows[i], biows[j]) /\ j \in submitted) => i \in completed

\* The assertions on n_overlapped in io.c and overlapped_io.c: a bio wrapper that
\* is submitted, or about to be, waits for nobody.
SubmittedWaitsForNobody ==
  \A i \in submitted \cup shouldSubmit : nOverlapped[i] = 0

\* The bounded cursor walk misses nothing: for every bio wrapper in the multimap,
\* n_overlapped counts exactly the earlier entries still there that overlap it.
NOverlappedExact ==
  \A j \in overlapped :
    nOverlapped[j] =
      Cardinality({i \in overlapped : i < j /\ IsOverlap(biows[i], biows[j])})

\* A bio wrapper that the wait task is about to submit is not one that the submit
\* task submits, and has not been submitted: no data IO is issued twice.
SubmittedOnce ==
  /\ shouldSubmit \cap submitted = {}
  /\ shouldSubmit \cap Sorted = {}

\* Both tasks together implement WalbSerial: nothing is issued before an earlier
\* overlapping write is complete.
Serial == INSTANCE WalbSerial
            WITH biows <- biows, submitted <- submitted, completed <- completed
ImplementsSerial == Serial!Spec

\* Every write put into datapack_submit_queue reaches the data device and is
\* waited for, so that its pack can be collected, as long as multimap_add does not
\* fail (DelayedIsFreed shows what a failure may do).
EveryWriteDone ==
  \A i \in 1..MaxBiow : (i <= Len(biows)) ~> (i <= waitedTo \/ noMem > 0)

\* bio_wrapper.h: BIO_WRAPPER_DELAYED is set when submission is delayed due to
\* overlapped IOs; a waiting bio wrapper is then one an earlier entry will free.
DelayedIsFreed ==
  \A i \in (1..insertedTo) \ submitted :
    i \in delayed => (nOverlapped[i] > 0 \/ i \in shouldSubmit)
=============================================================================
