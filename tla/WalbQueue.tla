---------------------------- MODULE WalbQueue ----------------------------
(***************************************************************************)
(* The flow of the write queue of a walb device: module/pack_work.c,       *)
(* worker.c and the tasks of io.c.                                         *)
(*                                                                         *)
(* A write is answered as soon as it is in the log.  Until the data device *)
(* has it, its sectors are pending, and too many of them stop the queue:   *)
(* later writes go to the frozen queue.  The user may freeze the queue     *)
(* too, and then waits until nothing is in flight.  Five threads carry a   *)
(* write along: the tasks that submit and await the log and the data, and  *)
(* the gc worker.  They take turns at the critical sections, which are the *)
(* actions below.                                                          *)
(*                                                                         *)
(* The log itself is the subject of WalbLog: here it never fails, the      *)
(* batch that a round of the submit task takes is one pack, and a round of *)
(* the wait task takes one pack.  What is in pending_data is the subject   *)
(* of WalbPending: here only its size counts.                              *)
(*                                                                         *)
(* All four tasks are started by dispatch_task_if_necessary and stop when  *)
(* they find their queue empty.  The protocol is modelled for the submit   *)
(* log task, which is the one that several threads start; the others run   *)
(* when their queue holds something.                                       *)
(***************************************************************************)
EXTENDS Integers, Sequences, FiniteSetsExt, SequencesExt, Functions

CONSTANTS
  Lens,        \* lengths of writes [logical block]
  DiscardLens, \* lengths of discards
  NIoBulk,     \* n_io_bulk
  MaxPending,  \* max_pending_sectors
  MinPending,  \* min_pending_sectors
  Timeouts,    \* whether queue_stop_timeout may pass
  Freezes,     \* whether the user freezes
  MaxWrites,   \* bound: writes in a behaviour
  MaxFaults    \* bound: failed allocations and failed writes of the data device

ASSUME QueueAssumption ==
  /\ {NIoBulk, MaxPending, MinPending, MaxWrites} \cup Lens \cup DiscardLens
       \subseteq Nat \ {0}
  /\ MaxWrites <= NIoBulk
  /\ MaxFaults \in Nat
  /\ Timeouts \in BOOLEAN
  /\ Freezes \in BOOLEAN

Ids == 1..MaxWrites

\* The threads that may call dispatch_submit_log_task: a write request each, the data
\* tasks that restart the queue and the user who melts.
Callers == Ids \cup {MaxWrites + 1, MaxWrites + 2, MaxWrites + 3}
Wd == MaxWrites + 1      \* task_wait_for_bio_wrapper_list
Sd == MaxWrites + 2      \* task_submit_bio_wrapper_list, cancelling
Melter == MaxWrites + 3  \* iocore_melt

VARIABLES
  biow,      \* the bio_wrapper of each write
  queue,     \* the queues of iocore_data
  frozen,    \* is_frozen_sys, is_frozen_usr and IOCORE_STATE_IS_QUEUE_STOPPED
  working,   \* IOCORE_STATE_SUBMIT_LOG_TASK_WORKING
  call,      \* where each caller is in melt_detail and dispatch_task_if_necessary
  running,   \* the submit log task is on the workqueue
  pending,   \* pending_sectors
  wl,        \* task_wait_for_logpack_list
  sd,        \* the writes that task_submit_bio_wrapper_list is to cancel
  wd,        \* task_wait_for_bio_wrapper_list
  gc,        \* the gc worker
  fz,        \* the user in iocore_freeze
  count,     \* n_started_write_bio, n_pending_gc, latest and written lsid
  readOnly,  \* WALB_STATE_READ_ONLY
  faults     \* allocations and data writes that failed

vars == <<biow, queue, frozen, working, call, running, pending, wl, sd, wd, gc, fz,
          count, readOnly, faults>>

NoBiow == [st |-> "none", len |-> 0, discard |-> FALSE, lsid |-> 0, error |-> FALSE]
NoPack == [ids |-> <<>>, end |-> 0]

Init ==
  /\ biow = [i \in Ids |-> NoBiow]
  /\ queue = [frozen |-> <<>>, submit |-> <<>>, log |-> <<>>, data |-> <<>>,
              wait |-> <<>>, gc |-> <<>>]
  /\ frozen = [sys |-> FALSE, usr |-> FALSE, stopped |-> FALSE]
  /\ working = FALSE
  /\ call = [c \in Callers |-> "no"]
  /\ running = FALSE
  /\ pending = 0
  /\ wl = [pc |-> "idle", pack |-> NoPack, todo |-> <<>>, failed |-> FALSE]
  /\ sd = <<>>
  /\ wd = "idle"
  /\ gc = [pc |-> "idle", wakeup |-> FALSE, packs |-> <<>>]
  /\ fz = "melted"
  /\ count = [started |-> 0, gc |-> 0, latest |-> 0, written |-> 0]
  /\ readOnly = FALSE
  /\ faults = 0

(***************************************************************************)
(* Write requests and the frozen queue                                     *)
(***************************************************************************)
IsFrozen == frozen.sys \/ frozen.usr

\* Mutated FrozenEmptied: list_move in the place of list_move_tail.
FrozenReversed == [queue EXCEPT !.submit = @ \o Reverse(queue.frozen), !.frozen = <<>>]

\* make_frozen_queue_empty
FrozenEmptied == [queue EXCEPT !.submit = @ \o queue.frozen, !.frozen = <<>>]

\* push_into_lpack_submit_queue
Push(i) ==
  IF IsFrozen
  THEN [queue EXCEPT !.frozen = Append(@, i)]
  ELSE [FrozenEmptied EXCEPT !.submit = Append(@, i)]

\* destroy_bio_wrapper_dec: nothing is left of the writes but how they ended.
Destroyed(ids, st) ==
  [i \in Ids |-> IF i \in ids THEN [NoBiow EXCEPT !.st = st, !.lsid = biow[i].lsid]
                 ELSE biow[i]]

\* iocore_make_request for a write.
MakeWrite(i, len, discard) ==
  /\ biow[i].st = "none"
  /\ \A j \in 1..i - 1 : biow[j].st # "none"
  /\ \/ /\ readOnly
        /\ biow' = Destroyed({i}, "failed")
        /\ UNCHANGED <<queue, call>>
     \/ /\ ~readOnly
        /\ biow' = [biow EXCEPT ![i].st = "queued", ![i].len = len,
                                   ![i].discard = discard]
        /\ queue' = Push(i)
        /\ call' = [call EXCEPT ![i] = IF queue'.submit # <<>> THEN "go" ELSE "no"]
  /\ UNCHANGED <<frozen, working, running, pending, wl, sd, wd, gc, fz, count,
                 readOnly, faults>>

\* melt_detail: what it leaves, and whether the queue melted.
Melted(isUsr) ==
  LET f == IF isUsr THEN [frozen EXCEPT !.usr = FALSE] ELSE [frozen EXCEPT !.sys = FALSE]
      melted == ~(f.sys \/ f.usr)
  IN [frozen |-> f, melted |-> melted,
      queue |-> IF melted THEN FrozenEmptied ELSE queue]

(***************************************************************************)
(* dispatch_task_if_necessary for the submit log task                      *)
(***************************************************************************)
DispatchVars == <<biow, queue, frozen, pending, wl, sd, wd, gc, fz, count, readOnly>>

DispatchOk(c) ==
  /\ call[c] = "go"
  /\ call' = [call EXCEPT ![c] = "no"]
  /\ working' = TRUE
  /\ running' = (running \/ ~working)
  /\ UNCHANGED faults
  /\ UNCHANGED DispatchVars

\* create_pack_work fails while the bit is set,
DispatchNoMem(c) ==
  /\ call[c] = "go"
  /\ ~working
  /\ faults < MaxFaults
  /\ faults' = faults + 1
  /\ call' = [call EXCEPT ![c] = "nomem"]
  /\ working' = TRUE
  /\ UNCHANGED running
  /\ UNCHANGED DispatchVars

\* and the caller clears the bit and tries again: in between others relied on it.
DispatchRetry(c) ==
  /\ call[c] = "nomem"
  /\ call' = [call EXCEPT ![c] = "go"]
  /\ working' = FALSE
  /\ UNCHANGED <<running, faults>>
  /\ UNCHANGED DispatchVars

(***************************************************************************)
(* task_submit_logpack_list                                                *)
(***************************************************************************)
SubmitLogEmpty ==
  /\ running
  /\ queue.submit = <<>>
  /\ running' = FALSE
  /\ working' = FALSE
  /\ UNCHANGED <<biow, queue, frozen, call, pending, wl, sd, wd, gc, fz, count,
                 readOnly, faults>>

Batch == SubSeq(queue.submit, 1, Min({NIoBulk, Len(queue.submit)}))
Behind(s, n) == SubSeq(s, n + 1, Len(s))

\* A round in read-only mode: fail_and_destroy_bio_wrapper_list.
SubmitLogReadOnly ==
  /\ running
  /\ queue.submit # <<>>
  /\ readOnly
  /\ queue' = [queue EXCEPT !.submit = Behind(@, Len(Batch))]
  /\ biow' = Destroyed(Range(Batch), "failed")
  /\ UNCHANGED <<frozen, working, call, running, pending, wl, sd, wd, gc, fz, count,
                 readOnly, faults>>

\* A round: the batch gets its lsids, goes to the log and to the log wait queue.
SubmitLog ==
  LET n == Len(Batch)
      place(i) == CHOOSE k \in 1..n : Batch[k] = i
  IN
  /\ running
  /\ queue.submit # <<>>
  /\ ~readOnly
  /\ count' = [count EXCEPT !.started = @ + n, !.latest = @ + n]
  /\ biow' = [i \in Ids |->
                IF i \in Range(Batch)
                THEN [biow[i] EXCEPT !.st = "log", !.lsid = count.latest + place(i)]
                ELSE biow[i]]
  /\ queue' = [queue EXCEPT !.submit = Behind(@, n),
                            !.log = Append(@, [ids |-> Batch, end |-> count.latest + n])]
  /\ UNCHANGED <<frozen, working, call, running, pending, wl, sd, wd, gc, fz, readOnly, faults>>

(***************************************************************************)
(* task_wait_for_logpack_list                                              *)
(***************************************************************************)
WaitLogTake ==
  /\ wl.pc = "idle"
  /\ queue.log # <<>>
  /\ queue' = [queue EXCEPT !.log = Tail(@)]
  /\ wl' = [pc |-> "next", pack |-> Head(queue.log), todo |-> Head(queue.log).ids,
            failed |-> readOnly]
  /\ UNCHANGED <<biow, frozen, working, call, running, pending, sd, wd, gc, fz, count,
                 readOnly, faults>>

WaitLogVars == <<frozen, working, call, running, sd, wd, gc, fz, readOnly>>

\* The pack is failed: its writes are answered with an error and destroyed.
WaitLogFail ==
  LET i == Head(wl.todo) IN
  /\ wl.pc = "next" /\ wl.todo # <<>> /\ wl.failed
  /\ biow' = Destroyed({i}, "failed")
  /\ count' = [count EXCEPT !.started = @ - 1]
  /\ wl' = [wl EXCEPT !.todo = Tail(@), !.pack.ids = Tail(@)]
  /\ UNCHANGED <<queue, pending, faults>>
  /\ UNCHANGED WaitLogVars

Weight(i) == IF biow[i].discard THEN 1 ELSE biow[i].len

ShouldStopQueue(i) ==
  /\ ~frozen.stopped
  /\ pending + biow[i].len > MaxPending

\* The critical section that inserts into pending_data, a discard by its weight only.
WaitLogInsert ==
  LET i == Head(wl.todo) IN
  /\ wl.pc = "next" /\ wl.todo # <<>> /\ ~wl.failed
  /\ pending' = pending + Weight(i)
  /\ biow' = [biow EXCEPT ![i].st = "inserted"]
  /\ wl' = [wl EXCEPT !.pc = IF ShouldStopQueue(i) THEN "stop" ELSE "answer"]
  /\ UNCHANGED <<queue, count, faults>>
  /\ UNCHANGED WaitLogVars

\* pending_insert has no memory: the sectors are counted until the next critical section.
WaitLogInsertNoMem ==
  LET i == Head(wl.todo) IN
  /\ wl.pc = "next" /\ wl.todo # <<>> /\ ~wl.failed
  /\ ~biow[i].discard
  /\ faults < MaxFaults
  /\ faults' = faults + 1
  /\ pending' = pending + biow[i].len
  /\ wl' = [wl EXCEPT !.pc = "undo"]
  /\ UNCHANGED <<biow, queue, count>>
  /\ UNCHANGED WaitLogVars

\* Mutated WaitLogUndo: the sectors of the failed insertion stay counted.
WaitLogUndoNothing ==
  /\ wl.pc = "undo"
  /\ wl' = [wl EXCEPT !.pc = "next"]
  /\ UNCHANGED <<biow, queue, count, faults, pending>>
  /\ UNCHANGED WaitLogVars

WaitLogUndo ==
  /\ wl.pc = "undo"
  /\ pending' = pending - biow[Head(wl.todo)].len
  /\ wl' = [wl EXCEPT !.pc = "next"]
  /\ UNCHANGED <<biow, queue, count, faults>>
  /\ UNCHANGED WaitLogVars

\* test_and_set_bit(IOCORE_STATE_IS_QUEUE_STOPPED), and then freeze_detail.
WaitLogStop ==
  /\ wl.pc = "stop"
  /\ frozen' = [frozen EXCEPT !.stopped = TRUE]
  /\ wl' = [wl EXCEPT !.pc = IF frozen.stopped THEN "answer" ELSE "freeze"]
  /\ UNCHANGED <<biow, queue, working, call, running, pending, sd, wd, gc, fz, count,
                 readOnly, faults>>

WaitLogFreeze ==
  /\ wl.pc = "freeze"
  /\ frozen' = [frozen EXCEPT !.sys = TRUE]
  /\ wl' = [wl EXCEPT !.pc = "answer"]
  /\ UNCHANGED <<biow, queue, working, call, running, pending, sd, wd, gc, fz, count,
                 readOnly, faults>>

\* bio_endio, and into the queue of the data submit task.
WaitLogAnswer ==
  LET i == Head(wl.todo) IN
  /\ wl.pc = "answer"
  /\ biow' = [biow EXCEPT ![i].st = "answered"]
  /\ queue' = [queue EXCEPT !.data = Append(@, i)]
  /\ wl' = [wl EXCEPT !.pc = "next", !.todo = Tail(@)]
  /\ UNCHANGED <<pending, count, faults>>
  /\ UNCHANGED WaitLogVars

\* The pack is over: the data task is dispatched, the pack handed to the gc worker.
WaitLogEnd ==
  /\ wl.pc = "next" /\ wl.todo = <<>>
  /\ count' = [count EXCEPT !.gc = @ + 1]
  /\ queue' = [queue EXCEPT !.gc = Append(@, wl.pack)]
  /\ gc' = [gc EXCEPT !.wakeup = TRUE]
  /\ wl' = [pc |-> "idle", pack |-> NoPack, todo |-> <<>>, failed |-> FALSE]
  /\ UNCHANGED <<biow, frozen, working, call, running, pending, sd, wd, fz, readOnly, faults>>

(***************************************************************************)
(* task_submit_bio_wrapper_list                                            *)
(***************************************************************************)
\* The pending_sectors that delete_bio_wrapper_from_pending_data leaves.
DeletePending(i) == pending - Weight(i)

\* Mutated ShouldStartQueue: the difference of two unsigned numbers is not guarded.
ShouldStartUnsigned(i, timeout) ==
  /\ frozen.stopped
  /\ \/ timeout
     \/ pending >= biow[i].len /\ pending - biow[i].len < MinPending

ShouldStartQueue(i, timeout) ==
  /\ frozen.stopped
  /\ \/ timeout
     \/ pending < biow[i].len
     \/ pending - biow[i].len < MinPending

TimeoutPassed == IF Timeouts THEN BOOLEAN ELSE {FALSE}

\* The write that cancel_write_bio_wrapper has deleted from pending_data and not completed.
Cancelled == {i \in Ids : biow[i].st = "cancelled"}

\* A round takes up to n_io_bulk writes: here all there are (MaxWrites <= NIoBulk).
SubmitDataTake ==
  /\ queue.data # <<>>
  /\ sd = <<>> /\ Cancelled = {} /\ call[Sd] = "no"
  /\ queue' = [queue EXCEPT !.data = <<>>, !.wait = IF readOnly THEN @ ELSE @ \o queue.data]
  /\ IF readOnly
     THEN sd' = queue.data /\ UNCHANGED biow
     ELSE /\ biow' = [i \in Ids |-> IF i \in Range(queue.data)
                                    THEN [biow[i] EXCEPT !.st = "waiting"] ELSE biow[i]]
          /\ UNCHANGED sd
  /\ UNCHANGED <<frozen, working, call, running, pending, wl, wd, gc, fz, count,
                 readOnly, faults>>

\* cancel_write_bio_wrapper: delete_bio_wrapper_from_pending_data, and with nothing to
\* melt complete(&biow->done).
CancelDelete ==
  LET i == Head(sd) IN
  /\ sd # <<>>
  /\ Cancelled = {} /\ call[Sd] = "no"
  /\ \E timeout \in TimeoutPassed :
       IF ShouldStartQueue(i, timeout)
       THEN /\ biow' = [biow EXCEPT ![i].st = "cancelled"]
            /\ call' = [call EXCEPT ![Sd] = "melt"]
       ELSE /\ biow' = [biow EXCEPT ![i].st = "complete", ![i].error = TRUE]
            /\ UNCHANGED call
  /\ pending' = DeletePending(i)
  /\ sd' = Tail(sd)
  /\ UNCHANGED <<queue, frozen, working, running, wl, wd, gc, fz, count, readOnly, faults>>

\* It melts the queue without clearing IOCORE_STATE_IS_QUEUE_STOPPED,
CancelMelt ==
  /\ call[Sd] = "melt"
  /\ frozen' = Melted(FALSE).frozen
  /\ queue' = Melted(FALSE).queue
  /\ call' = [call EXCEPT ![Sd] = IF Melted(FALSE).melted THEN "go" ELSE "no"]
  /\ UNCHANGED <<biow, working, running, pending, wl, sd, wd, gc, fz, count, readOnly, faults>>

\* and completes the write when the dispatch is done.
CancelComplete ==
  /\ call[Sd] = "no"
  /\ \E i \in Cancelled : biow' = [biow EXCEPT ![i].st = "complete", ![i].error = TRUE]
  /\ UNCHANGED <<queue, frozen, working, call, running, pending, wl, sd, wd, gc, fz, count,
                 readOnly, faults>>

(***************************************************************************)
(* The data device completes a write                                       *)
(***************************************************************************)
DdevWrite(i, error) ==
  /\ biow[i].st = "waiting"
  /\ error => faults < MaxFaults
  /\ faults' = IF error THEN faults + 1 ELSE faults
  /\ biow' = [biow EXCEPT ![i].st = "written", ![i].error = error]
  /\ UNCHANGED <<queue, frozen, working, call, running, pending, wl, sd, wd, gc, fz,
                 count, readOnly>>

(***************************************************************************)
(* task_wait_for_bio_wrapper_list                                          *)
(***************************************************************************)
WaitDataVars == <<working, running, wl, sd, gc, fz, count, readOnly, faults>>

\* complete(&biow->done)
Completed(i) == [biow EXCEPT ![i].st = "complete"]

\* The first write is complete: delete_bio_wrapper_from_pending_data.
WaitDataDelete ==
  LET i == Head(queue.wait) IN
  /\ wd = "idle" /\ queue.wait # <<>>
  /\ biow[i].st = "written"
  /\ pending' = DeletePending(i)
  /\ \E timeout \in TimeoutPassed :
       IF ShouldStartQueue(i, timeout)
       THEN /\ wd' = "melt"
            /\ biow' = [biow EXCEPT ![i].st = "deleted"]
            /\ UNCHANGED queue
       ELSE /\ wd' = "idle"
            /\ biow' = Completed(i)
            /\ queue' = [queue EXCEPT !.wait = Tail(@)]
  /\ UNCHANGED <<frozen, call>>
  /\ UNCHANGED WaitDataVars

WaitDataMelt ==
  /\ wd = "melt"
  /\ frozen' = Melted(FALSE).frozen
  /\ queue' = Melted(FALSE).queue
  /\ call' = [call EXCEPT ![Wd] = IF Melted(FALSE).melted THEN "go" ELSE "no"]
  /\ wd' = "clear"
  /\ UNCHANGED <<biow, pending>>
  /\ UNCHANGED WaitDataVars

WaitDataClear ==
  /\ wd = "clear"
  /\ call[Wd] = "no"
  /\ frozen' = [frozen EXCEPT !.stopped = FALSE]
  /\ biow' = Completed(Head(queue.wait))
  /\ queue' = [queue EXCEPT !.wait = Tail(@)]
  /\ wd' = "idle"
  /\ UNCHANGED <<call, pending>>
  /\ UNCHANGED WaitDataVars

(***************************************************************************)
(* generic_worker running run_gc_logpack_list                              *)
(***************************************************************************)
GcVars == <<queue, frozen, working, call, running, pending, wl, sd, wd, fz,
            faults>>

GcWakeup ==
  /\ gc.pc = "idle" /\ gc.wakeup
  /\ gc' = [gc EXCEPT !.pc = "run", !.wakeup = FALSE]
  /\ UNCHANGED <<biow, count, readOnly>>
  /\ UNCHANGED GcVars

\* dequeue_and_gc_logpack_list: up to n_pack_bulk packs, which here are all there are.
GcTake ==
  /\ gc.pc = "run"
  /\ gc' = IF queue.gc = <<>> THEN [gc EXCEPT !.pc = "idle"]
                              ELSE [gc EXCEPT !.pc = "destroy", !.packs = queue.gc]
  /\ queue' = [queue EXCEPT !.gc = <<>>]
  /\ UNCHANGED <<biow, count, readOnly, frozen, working, call, running, pending, wl, sd,
                 wd, fz, faults>>

\* The writes on the lists of the packs that gc_logpack_list is given.
GcLeft == {i \in UNION {Range(gc.packs[k].ids) : k \in DOMAIN gc.packs} : biow[i].st # "done"}

\* wait_for_bio_wrapper for the first of them (the lists are in the order of the lsids),
\* and destroy_bio_wrapper_dec.
GcDestroy ==
  /\ gc.pc = "destroy"
  /\ \E i \in GcLeft :
       /\ \A j \in GcLeft : biow[i].lsid <= biow[j].lsid
       /\ biow[i].st = "complete"
       /\ readOnly' = (readOnly \/ biow[i].error)
       /\ biow' = Destroyed({i}, "done")
  /\ count' = [count EXCEPT !.started = @ - 1]
  /\ UNCHANGED gc
  /\ UNCHANGED GcVars

\* Mutated GcWritten: n_pending_gc goes down before written_lsid goes up.
GcWrittenLate ==
  /\ gc.pc = "destroy" /\ GcLeft = {}
  /\ count' = [count EXCEPT !.gc = @ - Len(gc.packs)]
  /\ gc' = [gc EXCEPT !.pc = "sub"]
  /\ UNCHANGED <<biow, readOnly>>
  /\ UNCHANGED GcVars

GcWritten ==
  /\ gc.pc = "destroy" /\ GcLeft = {}
  /\ count' = [count EXCEPT !.written = Last(gc.packs).end]
  /\ gc' = [gc EXCEPT !.pc = "sub"]
  /\ UNCHANGED <<biow, readOnly>>
  /\ UNCHANGED GcVars

\* Mutated GcSub: n_pending_gc goes down by one, however many packs there were.
GcSubOne ==
  /\ gc.pc = "sub"
  /\ count' = [count EXCEPT !.gc = @ - 1]
  /\ gc' = [gc EXCEPT !.pc = "run", !.packs = <<>>]
  /\ UNCHANGED <<biow, readOnly>>
  /\ UNCHANGED GcVars

GcSub ==
  /\ gc.pc = "sub"
  /\ count' = [count EXCEPT !.gc = @ - Len(gc.packs)]
  /\ gc' = [gc EXCEPT !.pc = "run", !.packs = <<>>]
  /\ UNCHANGED <<biow, readOnly>>
  /\ UNCHANGED GcVars

(***************************************************************************)
(* iocore_freeze and iocore_melt                                           *)
(***************************************************************************)
FreezeVars == <<biow, working, running, pending, wl, sd, wd, gc, count, readOnly, faults>>

Freeze ==
  /\ Freezes
  /\ fz = "melted" /\ call[Melter] = "no"
  /\ frozen' = [frozen EXCEPT !.usr = TRUE]
  /\ fz' = "queue"
  /\ UNCHANGED <<queue, call>>
  /\ UNCHANGED FreezeVars

\* wait_for_logpack_submit_queue_empty, wait_for_all_started_write_io_done and
\* wait_for_all_pending_gc_done.
FreezeWait ==
  /\ \/ fz = "queue" /\ queue.submit = <<>> /\ fz' = "started"
     \/ fz = "started" /\ count.started = 0 /\ fz' = "gc"
     \/ fz = "gc" /\ count.gc = 0 /\ fz' = "frozen"
  /\ UNCHANGED <<queue, call, frozen>>
  /\ UNCHANGED FreezeVars

Melt ==
  /\ fz = "frozen"
  /\ frozen' = Melted(TRUE).frozen
  /\ queue' = Melted(TRUE).queue
  /\ call' = [call EXCEPT ![Melter] = IF Melted(TRUE).melted THEN "go" ELSE "no"]
  /\ fz' = "melted"
  /\ UNCHANGED FreezeVars

-----------------------------------------------------------------------------
Dispatch == \E c \in Callers : DispatchOk(c) \/ DispatchNoMem(c) \/ DispatchRetry(c)

SubmitLogTask == SubmitLogEmpty \/ SubmitLogReadOnly \/ SubmitLog

WaitLogTask ==
  \/ WaitLogTake \/ WaitLogFail \/ WaitLogInsert \/ WaitLogInsertNoMem \/ WaitLogUndo
  \/ WaitLogStop \/ WaitLogFreeze \/ WaitLogAnswer \/ WaitLogEnd

SubmitDataTask == SubmitDataTake \/ CancelDelete \/ CancelMelt \/ CancelComplete

WaitDataTask ==
  WaitDataDelete \/ WaitDataMelt \/ WaitDataClear

GcWorker == GcWakeup \/ GcTake \/ GcDestroy \/ GcWritten \/ GcSub

Next ==
  \/ \E i \in Ids, len \in Lens : MakeWrite(i, len, FALSE)
  \/ \E i \in Ids, len \in DiscardLens : MakeWrite(i, len, TRUE)
  \/ \E i \in Ids, error \in BOOLEAN : DdevWrite(i, error)
  \/ Dispatch
  \/ SubmitLogTask \/ WaitLogTask
  \/ SubmitDataTask
  \/ WaitDataTask \/ GcWorker
  \/ Freeze \/ FreezeWait \/ Melt

\* Queued work and woken threads run, the devices answer, a user who froze melts again.
Fairness ==
  /\ \A c \in Callers : WF_vars(DispatchOk(c) \/ DispatchRetry(c))
  /\ WF_vars(SubmitLogTask)
  /\ WF_vars(WaitLogTask)
  /\ WF_vars(SubmitDataTask)
  /\ \A i \in Ids : WF_vars(\E error \in BOOLEAN : DdevWrite(i, error))
  /\ WF_vars(WaitDataTask)
  /\ WF_vars(GcWorker)
  /\ WF_vars(FreezeWait)
  /\ WF_vars(Melt)

Spec == Init /\ [][Next]_vars /\ Fairness

(***************************************************************************)
(* Properties                                                              *)
(***************************************************************************)
\* The sectors of the writes that are in pending_data, a discard counting as one.
Inserted == {i \in Ids : biow[i].st \in {"inserted", "answered", "waiting", "written"}}
PendingSectors == UNION {{i} \X (1..Weight(i)) : i \in Inserted}

\* pending_sectors is the weight of the writes between their insertion and their
\* deletion, whatever failed on the way, so it neither leaks (the queue would stop for
\* ever) nor goes below zero (it is unsigned, and the queue would stop too).
PendingExact ==
  LET undone == IF wl.pc = "undo" THEN biow[Head(wl.todo)].len ELSE 0
  IN pending = undone + Cardinality(PendingSectors)

\* "After freezed, there is no IO pending underlying data/log devices" (iocore_freeze):
\* from its return until the melt no write is between the submit queue and the gc, and
\* written_lsid has come up to latest_lsid (which iocore_freeze asserts) unless the
\* device is read-only.
FrozenQuiet ==
  fz = "frozen" =>
    /\ \A i \in Ids : biow[i].st \in {"none", "queued", "done", "failed"}
    /\ queue.submit = <<>>
    /\ pending = 0
    /\ ~readOnly => count.latest = count.written

\* Writes enter the log in the order of their requests, however often the queue was
\* frozen and melted between them (make_frozen_queue_empty).
FifoOrder ==
  \A i, j \in Ids : i < j /\ biow[j].lsid > 0 /\ biow[i].lsid > 0 =>
    biow[i].lsid < biow[j].lsid

\* The log task has set IOCORE_STATE_IS_QUEUE_STOPPED and is about to freeze the queue, but
\* the wait task has seen the bit and melted the queue already, and clears it.
FreezeLate == wl.pc = "freeze" /\ (wd = "clear" \/ ~frozen.stopped)

\* The driver has frozen the queue and the bit is clear: should_start_queue answers no, and
\* nobody melts before the next stop or cancel.
MeltLost == frozen.sys /\ ~frozen.stopped

\* Every write gets through, so the queues drain again and again: neither the stop at the
\* limit on pending data, which holds writes until others have left pending_data, nor the
\* user's freeze, nor a failed allocation in a dispatch, nor the order of the steps of the
\* tasks leaves a write in a queue that nobody looks at. The one exception is a freeze that
\* came late and was never undone.
QueueDrains ==
  \/ []<>(\A i \in Ids : biow[i].st \in {"none", "done", "failed"})
  \/ <>FreezeLate /\ <>[]MeltLost

\* "queue stopped period must not exceed this value" (queue_stop_timeout_jiffies in
\* kern.h): what the driver has stopped it starts again. After FreezeLate it does not.
StopEnds == frozen.sys ~> ~frozen.sys

\* iocore_freeze returns, however many writes were on their way.
FreezeReturns == fz = "queue" ~> fz = "frozen"
=============================================================================
