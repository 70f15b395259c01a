------------------------------ MODULE WalbLog ------------------------------
(***************************************************************************)
(* The write path of a walb device, module/io.c: from iocore_make_request  *)
(* through the log device to the data device, with the sequence numbers    *)
(* (lsid) of kern.h that order it and walb_sync_super_block (super.c).     *)
(*                                                                         *)
(* Concurrent activities, each a group of actions below:                   *)
(*   the submit task  task_submit_logpack_list, create_logpack_list        *)
(*   the wait task    task_wait_for_logpack_list                           *)
(*   the data task    task_submit_bio_wrapper_list, wait_for_log_permanent *)
(*   the gc worker    dequeue_and_gc_logpack_list                          *)
(*   checkpointing    take_checkpoint, walb_sync_super_block               *)
(*   the two devices, whose IOs complete in any order and may fail, and    *)
(*   whose write caches only a flush empties.                              *)
(*                                                                         *)
(* A bio is named by the order in which it entered logpack_submit_queue.   *)
(* Lists filled at the tail and emptied at the head are intervals of bios  *)
(* or packs.  Every bio with data takes one physical block of log, so no   *)
(* padding record is ever needed.                                          *)
(***************************************************************************)
EXTENDS Integers, Sequences, FiniteSets

CONSTANTS
  Kinds,            \* the kinds of bio that clients send
  RingSize,         \* ring_buffer_size [physical block]
  MaxRec,           \* max_n_log_record_in_sector
  MaxPackPb,        \* max_logpack_pb, 0 for no limit
  IoBulk,           \* n_io_bulk
  PackBulk,         \* n_pack_bulk
  FlushIntervalPb,  \* log_flush_interval_pb
  ErrorBeforeOverflow, \* the module parameter error_before_overflow_
  MaxBio,           \* bound: bios sent in a behaviour
  MaxOldest,        \* bound: the largest lsid that set_oldest_lsid is given
  MaxIoFail,        \* bound: failed log, data and super block IOs
  MaxFlushFail,     \* bound: failed flushes of the log device
  MaxNoMem          \* bound: failed allocations in walb_sync_super_block

AllKinds == {"write", "flush", "preflush", "fua", "preflush_fua", "discard"}

ASSUME LogAssumption ==
  /\ Kinds \subseteq AllKinds
  /\ RingSize \in Nat \ {0} /\ MaxRec \in Nat \ {0} /\ MaxPackPb \in Nat
  /\ IoBulk \in Nat \ {0} /\ PackBulk \in Nat \ {0} /\ FlushIntervalPb \in Nat
  /\ ErrorBeforeOverflow \in BOOLEAN
  /\ MaxBio \in Nat /\ MaxOldest \in Nat /\ MaxIoFail \in Nat
  /\ MaxFlushFail \in Nat /\ MaxNoMem \in Nat

VARIABLES
  (* clients *)
  kind,          \* kind[i] of every bio sent
  answer,        \* answer[i]: "none", "ok" (bio_endio) or "error" (bio_io_error)
  ackedBefore,   \* ackedBefore[i]: the bios answered "ok" when i was sent
  (* struct lsid_set and flags of struct walb_dev *)
  latest, completed, flush, permanent, written, prevWritten, oldest,
  readOnly,      \* WALB_STATE_READ_ONLY
  overflow,      \* WALB_STATE_OVERFLOW
  (* the submit task *)
  sPc,           \* "idle", "create", "ring", "flush" or "sync"
  queuedFrom,    \* logpack_submit_queue is queuedFrom..Len(kind)
  sNext,         \* biow_list is sNext..queuedFrom-1
  wpacks,        \* wpack_list and the pack being filled
  isFlush,       \* is_flush
  seen,          \* the lsids create_logpack_list loaded
  (* packs and the log device *)
  packs,         \* every pack submitted to the log device, in order
  biowLsid,      \* biow->lsid
  logIo, logDone, logFailed,   \* submitted, completed and failed log IOs
  logStable,     \* log IOs that survive a power failure
  ldevFlush,     \* ldevFlush[t]: the flush task t waits for in force_flush_ldev
  (* the wait task *)
  wPc, wTo, wPack, wBio, wFailed,
  (* the data task and the data device *)
  dPc, dataQueue, dList, dIssued, dDone, dFailed, dStable,
  (* the gc worker *)
  gcTo, gcBatch, gcDone,   \* collected: 1..gcDone; being collected: ..gcBatch
  (* checkpointing and the super block *)
  ckptOn,        \* the checkpoint task is scheduled
  sync,          \* sync[c]: walb_sync_super_block, under way for caller c
  super,         \* the lsids in the super block on the log device
  (* bounds *)
  ioFails, flushFails, noMems

clientVars == <<kind, answer, ackedBefore>>
lsidVars   == <<latest, completed, flush, permanent, written, prevWritten, oldest>>
submitVars == <<sPc, queuedFrom, sNext, wpacks, isFlush, seen>>
logVars    == <<packs, biowLsid, logIo, logDone, logFailed>>
waitVars   == <<wPc, wTo, wPack, wBio, wFailed>>
dataVars   == <<dPc, dataQueue, dList, dIssued, dDone, dFailed>>
gcVars     == <<gcTo, gcBatch, gcDone>>
ckptVars   == <<ckptOn, sync, super>>
boundVars  == <<ioFails, flushFails, noMems>>
vars == <<clientVars, lsidVars, readOnly, overflow, submitVars, logVars, logStable,
          ldevFlush, waitVars, dataVars, dStable, gcVars, ckptVars, boundVars>>

-----------------------------------------------------------------------------
(* Bios and packs *)

Bios == 1..Len(kind)

\* bio_has_flush
HasFlush(k) == k \in {"flush", "preflush", "preflush_fua"}

\* REQ_FUA
IsFua(k) == k \in {"fua", "preflush_fua"}

\* A flush without data is never written to the data device.
HasData(k) == k # "flush"

\* Physical blocks of log that a bio takes; a discard has only its record.
LogPb(k) == IF k \in {"flush", "discard"} THEN 0 ELSE 1

MaxOf(a, b) == IF a < b THEN b ELSE a
MinOf(a, b) == IF a < b THEN a ELSE b

\* get_next_lsid_unsafe
NextLsid(p) == IF p.nRec = 0 THEN p.lsid ELSE p.lsid + 1 + p.total

\* Log IOs are named by the bio whose data they hold; the header of a pack, or
\* the flush of a zero-flush pack, by minus the pack's first bio.
HeaderIo(p) == -p.first

\* Mutated HeaderShouldFlush: a zero-flush pack does not flush.
HeaderFlushesWithRecords(p) == p.flushHeader /\ ~p.fua /\ p.nRec > 0

\* pack_header_should_flush
HeaderShouldFlush(p) == p.flushHeader /\ ~p.fua

\* The header IO exists unless a zero-flush pack is not the one to flush.
HasHeaderIo(p) == p.nRec > 0 \/ HeaderShouldFlush(p)

\* The log IOs submit_logpack issues for a pack.
IosOf(p) ==
  {i \in p.first..p.last : LogPb(kind[i]) > 0}
    \cup (IF HasHeaderIo(p) THEN {HeaderIo(p)} ELSE {})

\* create_writepack followed by walb_logpack_header_add_bio of its first bio.
NewPack(lsid, i) ==
  [lsid |-> lsid, total |-> LogPb(kind[i]), nRec |-> IF HasData(kind[i]) THEN 1 ELSE 0,
   first |-> i, last |-> i, fua |-> IsFua(kind[i]), flushHeader |-> FALSE,
   newPermanent |-> 0, flushes |-> {}]

\* walb_logpack_header_add_bio to a pack that has room.
AddToPack(p, i) ==
  [p EXCEPT !.total = @ + LogPb(kind[i]), !.nRec = @ + 1, !.last = i,
            !.fua = @ \/ IsFua(kind[i])]

\* is_pack_size_too_large
TooLarge(p, k) ==
  /\ MaxPackPb # 0
  /\ k # "discard"
  /\ LogPb(k) + p.total > MaxPackPb

\* The conditions under which writepack_add_bio_wrapper starts another pack.
NeedsNewPack(p, k) ==
  \/ p.nRec = 0
  \/ HasFlush(k)
  \/ TooLarge(p, k)
  \/ p.nRec = MaxRec

NoLsids == [completed |-> 0, flush |-> 0, written |-> 0, prevWritten |-> 0, oldest |-> 0]
NoFlush == [on |-> FALSE, lsid |-> 0, ios |-> {}]
NoSync  == [pc |-> "idle", written |-> 0, oldest |-> 0, ios |-> {}]

\* The callers of walb_sync_super_block: take_checkpoint in the checkpoint task and
\* in the submit task, which stops that task first, and the set_oldest_lsid ioctl.
Callers == {"task", "submit", "ioctl"}

\* All lsids start at the written_lsid of the super block, here 0, with an empty log.
Init ==
  /\ kind = <<>> /\ answer = <<>> /\ ackedBefore = <<>>
  /\ latest = 0 /\ completed = 0 /\ flush = 0 /\ permanent = 0
  /\ written = 0 /\ prevWritten = 0 /\ oldest = 0
  /\ readOnly = FALSE /\ overflow = FALSE
  /\ sPc = "idle" /\ queuedFrom = 1 /\ sNext = 1 /\ wpacks = <<>> /\ isFlush = FALSE
  /\ seen = NoLsids
  /\ packs = <<>> /\ biowLsid = <<>>
  /\ logIo = {} /\ logDone = {} /\ logFailed = {} /\ logStable = {}
  /\ ldevFlush = [t \in {"submit", "wait", "data"} |-> NoFlush]
  /\ wPc = "idle" /\ wTo = 0 /\ wPack = 0 /\ wBio = 1 /\ wFailed = FALSE
  /\ dPc = "idle" /\ dataQueue = <<>> /\ dList = <<>>
  /\ dIssued = {} /\ dDone = {} /\ dFailed = {} /\ dStable = {}
  /\ gcTo = 0 /\ gcBatch = 0 /\ gcDone = 0
  /\ ckptOn = TRUE /\ sync = [c \in Callers |-> NoSync]
  /\ super = [written |-> 0, oldest |-> 0]
  /\ ioFails = 0 /\ flushFails = 0 /\ noMems = 0

-----------------------------------------------------------------------------
(* iocore_make_request and the ioctls *)

\* A write bio is put into logpack_submit_queue.  In read-only mode it is
\* answered with an error at once and nothing else changes.
MakeRequest(k) ==
  /\ Len(kind) < MaxBio
  /\ ~readOnly
  /\ kind' = Append(kind, k)
  /\ answer' = Append(answer, "none")
  /\ ackedBefore' = Append(ackedBefore, {i \in Bios : answer[i] = "ok"})
  /\ biowLsid' = Append(biowLsid, 0)
  /\ UNCHANGED <<lsidVars, readOnly, overflow, submitVars, packs, logIo, logDone,
                 logFailed, logStable, ldevFlush, waitVars, dataVars, dStable, gcVars,
                 ckptVars, boundVars>>

\* walb_check_lsid_valid: the log device has a logpack header at lsid, which later
\* logs have not overwritten.
CheckLsidValid(lsid) ==
  /\ \E k \in DOMAIN packs : packs[k].lsid = lsid /\ packs[k].nRec > 0
  /\ \A k \in DOMAIN packs : NextLsid(packs[k]) - lsid <= RingSize

\* ioctl_wdev_set_oldest_lsid tests its argument against the lsids it loads ...
SetOldest(lsid) ==
  /\ sync["ioctl"] = NoSync
  /\ oldest <= lsid /\ lsid <= prevWritten
  /\ lsid < permanent => CheckLsidValid(lsid)
  /\ sync' = [sync EXCEPT !["ioctl"] = [pc |-> "store", written |-> 0, oldest |-> lsid,
                                        ios |-> {}]]
  /\ UNCHANGED <<clientVars, lsidVars, readOnly, overflow, submitVars, logVars, logStable,
                 ldevFlush, waitVars, dataVars, dStable, gcVars, ckptOn, super, boundVars>>

\* ... and stores it later, before it calls walb_sync_super_block.
SetOldestStore ==
  /\ sync["ioctl"].pc = "store"
  /\ oldest' = sync["ioctl"].oldest
  /\ sync' = [sync EXCEPT !["ioctl"].pc = "test"]
  /\ UNCHANGED <<clientVars, latest, completed, flush, permanent, written, prevWritten,
                 readOnly, overflow, submitVars, logVars, logStable, ldevFlush, waitVars,
                 dataVars, dStable, gcVars, ckptOn, super, boundVars>>

-----------------------------------------------------------------------------
(* force_flush_ldev, called by three tasks *)

\* Mutated FlushBegin: flush is not raised.
FlushBeginUnmarked(t, comp) ==
  /\ UNCHANGED flush
  /\ ldevFlush' = [ldevFlush EXCEPT ![t] = [on |-> TRUE, lsid |-> comp, ios |-> logDone]]

\* Load completed, raise flush and issue the flush: it will cover the log IOs
\* that are complete by now.
FlushBegin(t, comp) ==
  /\ flush' = MaxOf(flush, comp)
  /\ ldevFlush' = [ldevFlush EXCEPT ![t] = [on |-> TRUE, lsid |-> comp, ios |-> logDone]]

\* The flush returns; permanent is raised whether or not it failed.
FlushEnd(t, ok) ==
  /\ permanent' = MaxOf(permanent, ldevFlush[t].lsid)
  /\ ldevFlush' = [ldevFlush EXCEPT ![t] = NoFlush]
  /\ \/ /\ ok
        /\ logStable' = logStable \cup ldevFlush[t].ios
        /\ UNCHANGED <<readOnly, flushFails>>
     \/ /\ ~ok /\ flushFails < MaxFlushFail
        /\ flushFails' = flushFails + 1
        /\ readOnly' = TRUE
        /\ UNCHANGED logStable

-----------------------------------------------------------------------------
(* The submit task *)

\* Dequeue at most n_io_bulk bios; create_logpack_list loads the lsids.
SubmitDequeue ==
  /\ sPc = "idle"
  /\ queuedFrom <= Len(kind)
  /\ ~readOnly
  /\ sPc' = "create"
  /\ sNext' = queuedFrom
  /\ queuedFrom' = MinOf(queuedFrom + IoBulk, Len(kind) + 1)
  /\ seen' = [completed |-> completed, flush |-> flush, written |-> written,
              prevWritten |-> prevWritten, oldest |-> oldest]
  /\ UNCHANGED <<clientVars, lsidVars, readOnly, overflow, wpacks, isFlush, logVars, logStable,
                 ldevFlush, waitVars, dataVars, dStable, gcVars, ckptVars, boundVars>>

\* The variables of create_logpack_list go out of scope.
SubmitReturn ==
  /\ sPc' = "idle"
  /\ wpacks' = <<>>
  /\ isFlush' = FALSE
  /\ seen' = NoLsids

\* fail_and_destroy_bio_wrapper_list on bios i..j.
Fail(i, j) == answer' = [b \in Bios |-> IF b \in i..j THEN "error" ELSE answer[b]]

\* The error exit of create_logpack_list.
SubmitError ==
  /\ Fail(wpacks[1].first, queuedFrom - 1)
  /\ SubmitReturn

\* The same in read-only mode: the bios fail.
SubmitDequeueReadOnly ==
  LET to == MinOf(queuedFrom + IoBulk, Len(kind) + 1)
  IN  /\ sPc = "idle"
      /\ queuedFrom <= Len(kind)
      /\ readOnly
      /\ Fail(queuedFrom, to - 1)
      /\ queuedFrom' = to
      /\ UNCHANGED <<kind, ackedBefore, lsidVars, readOnly, overflow, sPc, sNext, wpacks,
                     isFlush, seen, logVars, logStable, ldevFlush, waitVars, dataVars,
                     dStable, gcVars, ckptVars, boundVars>>

\* update_biow_lsid: where the log of a bio of kind k just added to pack p starts.
RecordLsid(p, k) == p.lsid + 1 + p.total - LogPb(k)

\* writepack_add_bio_wrapper for the next bio of biow_list.
AddBioWrapper ==
  LET n   == Len(wpacks)
      k   == kind[sNext]
      new == n = 0 \/ NeedsNewPack(wpacks[n], k)
      p   == IF ~new THEN AddToPack(wpacks[n], sNext)
             ELSE NewPack(IF n = 0 THEN latest ELSE NextLsid(wpacks[n]), sNext)
  IN  /\ sPc = "create"
      /\ sNext < queuedFrom
      /\ wpacks' = IF new THEN Append(wpacks, p) ELSE [wpacks EXCEPT ![n] = p]
      /\ biowLsid' = [biowLsid EXCEPT ![sNext] = IF HasData(k) THEN RecordLsid(p, k) ELSE @]
      /\ isFlush' = (isFlush \/ (HasFlush(k) /\ ~IsFua(k)))
      /\ sNext' = sNext + 1
      /\ UNCHANGED <<clientVars, lsidVars, readOnly, overflow, sPc, queuedFrom, seen, packs,
                     logIo, logDone, logFailed, logStable, ldevFlush, waitVars, dataVars,
                     dStable, gcVars, ckptVars, boundVars>>

\* Mutated EndOfWpacks: only the first pack is counted.
EndOfFirstWpack == NextLsid(wpacks[1])

\* The lsid after the last pack of wpack_list.
EndOfWpacks == NextLsid(wpacks[Len(wpacks)])

Created == sPc = "create" /\ sNext = queuedFrom

\* The log from oldest on would not fit in the ring buffer.
WouldOverflow == EndOfWpacks - seen.oldest > RingSize

\* error_before_overflow_: the bios fail before any lsid is stored.
RefuseOverflow ==
  /\ Created
  /\ ErrorBeforeOverflow /\ WouldOverflow
  /\ SubmitError
  /\ UNCHANGED <<kind, ackedBefore, lsidVars, readOnly, overflow, queuedFrom, sNext, logVars,
                 logStable, ldevFlush, waitVars, dataVars, dStable, gcVars, ckptVars,
                 boundVars>>

\* Decide whether the first pack flushes, store latest and flush, and note an
\* overflow.  elapsed: log_flush_interval_jiffies have passed.
StoreLsids(elapsed) ==
  LET fl == \/ isFlush \/ elapsed
            \/ FlushIntervalPb > 0 /\ seen.completed - seen.flush > FlushIntervalPb
  IN  /\ Created
      /\ ~(ErrorBeforeOverflow /\ WouldOverflow)
      /\ latest' = EndOfWpacks
      /\ IF fl THEN /\ wpacks' = [wpacks EXCEPT ![1] =
                              [@ EXCEPT !.flushHeader = TRUE, !.newPermanent = completed]]
                    /\ flush' = MaxOf(flush, completed)
               ELSE UNCHANGED <<wpacks, flush>>
      /\ overflow' = (overflow \/ WouldOverflow)
      /\ sPc' = "ring"
      /\ UNCHANGED <<clientVars, completed, permanent, written, prevWritten, oldest, readOnly,
                     queuedFrom, sNext, isFlush, seen, logVars, logStable, ldevFlush,
                     waitVars, dataVars, dStable, gcVars, ckptVars, boundVars>>

\* Mutated RingHasRoom: off by one.
RingHasRoomPlusOne(lsid) == latest - lsid <= RingSize + 1

\* Everything from lsid up to latest fits in the ring buffer.
RingHasRoom(lsid) == latest - lsid <= RingSize

\* There is room in the ring buffer: submit_logpack_list, then the packs go to
\* logpack_wait_queue.  A header with REQ_PREFLUSH covers the log IOs complete now.
SubmitLogpacks ==
  /\ sPc = "ring"
  /\ RingHasRoom(seen.prevWritten)
  /\ packs' = packs \o [k \in DOMAIN wpacks |->
                 IF HeaderShouldFlush(wpacks[k]) THEN [wpacks[k] EXCEPT !.flushes = logDone]
                                                 ELSE wpacks[k]]
  /\ logIo' = logIo \cup UNION {IosOf(wpacks[k]) : k \in DOMAIN wpacks}
  /\ SubmitReturn
  /\ UNCHANGED <<clientVars, lsidVars, readOnly, overflow, queuedFrom, sNext, biowLsid,
                 logDone, logFailed, logStable, ldevFlush, waitVars, dataVars, dStable,
                 gcVars, ckptVars, boundVars>>

\* No room and the data device is behind: flush the log device, then look again.
RingForceFlush ==
  /\ sPc = "ring"
  /\ ~RingHasRoom(seen.prevWritten)
  /\ ~RingHasRoom(seen.written)
  /\ ~readOnly
  /\ FlushBegin("submit", completed)
  /\ sPc' = "flush"
  /\ UNCHANGED <<clientVars, latest, completed, permanent, written, prevWritten, oldest,
                 readOnly, overflow, queuedFrom, sNext, wpacks, isFlush, seen, logVars,
                 logStable, waitVars, dataVars, dStable, gcVars, ckptVars, boundVars>>

\* Mutated Reload: written is not reloaded.
ReloadPrevOnly(prev) == seen' = [seen EXCEPT !.prevWritten = prev]

\* The bottom of the ring buffer loop: reload written and prev_written.
Reload(prev) == seen' = [seen EXCEPT !.written = written, !.prevWritten = prev]

RingFlushed(ok) ==
  /\ sPc = "flush"
  /\ FlushEnd("submit", ok)
  /\ Reload(prevWritten)
  /\ sPc' = "ring"
  /\ UNCHANGED <<clientVars, latest, completed, flush, written, prevWritten, oldest, overflow,
                 queuedFrom, sNext, wpacks, isFlush, logVars, waitVars, dataVars, dStable,
                 gcVars, ckptVars, ioFails, noMems>>

\* No room, the data device behind and read-only mode: the bios fail, after
\* latest and flush have been stored.
RingReadOnly ==
  /\ sPc = "ring"
  /\ ~RingHasRoom(seen.prevWritten)
  /\ ~RingHasRoom(seen.written)
  /\ readOnly
  /\ SubmitError
  /\ UNCHANGED <<kind, ackedBefore, lsidVars, readOnly, overflow, queuedFrom, sNext, logVars,
                 logStable, ldevFlush, waitVars, dataVars, dStable, gcVars, ckptVars,
                 boundVars>>

\* No room, but only the super block is behind: stop_checkpointing, which waits
\* for a running checkpoint ...
RingCheckpoint ==
  /\ sPc = "ring"
  /\ ~RingHasRoom(seen.prevWritten)
  /\ RingHasRoom(seen.written)
  /\ sync["task"] = NoSync

\* ... then take_checkpoint, which has nothing to do when that checkpoint wrote it ...
RingSkipCheckpoint ==
  /\ RingCheckpoint
  /\ written = prevWritten
  /\ Reload(prevWritten)
  /\ ckptOn' = TRUE
  /\ UNCHANGED <<clientVars, lsidVars, readOnly, overflow, sPc, queuedFrom, sNext, wpacks,
                 isFlush, logVars, logStable, ldevFlush, waitVars, dataVars, dStable, gcVars,
                 sync, super, boundVars>>

\* ... or writes the super block.
RingTakeCheckpoint ==
  /\ RingCheckpoint
  /\ written # prevWritten
  /\ sync' = [sync EXCEPT !["submit"].pc = "test"]
  /\ ckptOn' = FALSE
  /\ sPc' = "sync"
  /\ UNCHANGED <<clientVars, lsidVars, readOnly, overflow, queuedFrom, sNext, wpacks, isFlush,
                 seen, logVars, logStable, ldevFlush, waitVars, dataVars, dStable, gcVars,
                 super, boundVars>>

-----------------------------------------------------------------------------
(* The log device *)

\* Log IO io completes; a REQ_PREFLUSH header has emptied the write cache first.
LogIoDone(io) ==
  /\ io \in logIo \ (logDone \cup logFailed)
  /\ logDone' = logDone \cup {io}
  /\ logStable' = logStable \cup
       UNION {packs[k].flushes : k \in {j \in DOMAIN packs : HeaderIo(packs[j]) = io}}
  /\ UNCHANGED <<clientVars, lsidVars, readOnly, overflow, submitVars, packs, biowLsid, logIo,
                 logFailed, ldevFlush, waitVars, dataVars, dStable, gcVars, ckptVars,
                 boundVars>>

LogIoFail(io) ==
  /\ io \in logIo \ (logDone \cup logFailed)
  /\ ioFails < MaxIoFail
  /\ ioFails' = ioFails + 1
  /\ logFailed' = logFailed \cup {io}
  /\ UNCHANGED <<clientVars, lsidVars, readOnly, overflow, submitVars, packs, biowLsid, logIo,
                 logDone, logStable, ldevFlush, waitVars, dataVars, dStable, gcVars, ckptVars,
                 flushFails, noMems>>

-----------------------------------------------------------------------------
(* The wait task *)

\* Take the next pack, after dequeuing at most n_pack_bulk of them if the last
\* ones are done; wait_for_logpack_and_submit_datapack tests read-only mode.
WaitStart ==
  /\ wPc = "idle"
  /\ wTo' = IF wPack < wTo THEN wTo ELSE MinOf(wTo + PackBulk, Len(packs))
  /\ wPack < wTo'
  /\ wPack' = wPack + 1
  /\ wBio' = packs[wPack + 1].first
  /\ wFailed' = readOnly
  /\ wPc' = "header"
  /\ UNCHANGED <<clientVars, lsidVars, readOnly, overflow, submitVars, logVars, logStable,
                 ldevFlush, dataVars, dStable, gcVars, ckptVars, boundVars>>

\* wait_for_logpack_header, then permanent follows a header that flushed.
WaitHeader ==
  LET p == packs[wPack]
      failed == wFailed \/ (HasHeaderIo(p) /\ HeaderIo(p) \in logFailed)
  IN  /\ wPc = "header"
      /\ HasHeaderIo(p) => HeaderIo(p) \in logDone \cup logFailed
      /\ wFailed' = failed
      /\ permanent' = IF ~failed /\ HeaderShouldFlush(p)
                      THEN MaxOf(permanent, p.newPermanent) ELSE permanent
      /\ wPc' = "bio"
      /\ UNCHANGED <<clientVars, latest, completed, flush, written, prevWritten, oldest,
                     readOnly, overflow, submitVars, logVars, logStable, ldevFlush, wTo, wPack,
                     wBio, dataVars, dStable, gcVars, ckptVars, boundVars>>

\* The log IO of the next bio of the pack, if it has one, is over.
WaitingForBio ==
  /\ wPc = "bio"
  /\ wBio <= packs[wPack].last
  /\ LogPb(kind[wBio]) > 0 => wBio \in logDone \cup logFailed

\* Mutated BioFailed: an earlier failure in the pack is forgotten.
BioFailedAlone == wBio \in logFailed

BioFailed == wFailed \/ wBio \in logFailed

\* error_io: this bio and the rest of the pack fail, and the device becomes read-only.
WaitBioError ==
  /\ WaitingForBio /\ BioFailed
  /\ wFailed' = TRUE
  /\ readOnly' = TRUE
  /\ answer' = [answer EXCEPT ![wBio] = "error"]
  /\ wBio' = wBio + 1
  /\ UNCHANGED <<kind, ackedBefore, lsidVars, overflow, submitVars, logVars, logStable,
                 ldevFlush, wPc, wTo, wPack, dataVars, dStable, gcVars, ckptVars, boundVars>>

\* The bio succeeds: bio_endio, and the data task gets it unless it is a zero-flush.
Ack ==
  /\ answer' = [answer EXCEPT ![wBio] = "ok"]
  /\ dataQueue' = IF HasData(kind[wBio]) THEN Append(dataQueue, wBio) ELSE dataQueue
  /\ wBio' = wBio + 1

\* Mutated WaitBioOk: REQ_FUA is not looked at.
WaitBioAny ==
  /\ WaitingForBio /\ ~BioFailed
  /\ Ack
  /\ UNCHANGED <<kind, ackedBefore, lsidVars, readOnly, overflow, submitVars, logVars,
                 logStable, ldevFlush, wPc, wTo, wPack, wFailed, dPc, dList, dIssued, dDone,
                 dFailed, dStable, gcVars, ckptVars, boundVars>>

WaitBioOk ==
  /\ WaitingForBio /\ ~BioFailed
  /\ ~IsFua(kind[wBio])
  /\ Ack
  /\ UNCHANGED <<kind, ackedBefore, lsidVars, readOnly, overflow, submitVars, logVars,
                 logStable, ldevFlush, wPc, wTo, wPack, wFailed, dPc, dList, dIssued, dDone,
                 dFailed, dStable, gcVars, ckptVars, boundVars>>

\* A REQ_FUA bio raises completed to its own end and flushes the log device first.
WaitBioFua ==
  /\ WaitingForBio /\ ~BioFailed
  /\ IsFua(kind[wBio])
  /\ completed' = biowLsid[wBio] + LogPb(kind[wBio])
  /\ FlushBegin("wait", completed')
  /\ wPc' = "fua"
  /\ UNCHANGED <<clientVars, latest, permanent, written, prevWritten, oldest, readOnly,
                 overflow, submitVars, logVars, logStable, wTo, wPack, wBio, wFailed, dataVars,
                 dStable, gcVars, ckptVars, boundVars>>

WaitFuaFlushed(ok) ==
  /\ wPc = "fua"
  /\ FlushEnd("wait", ok)
  /\ Ack
  /\ wPc' = "bio"
  /\ UNCHANGED <<kind, ackedBefore, latest, completed, flush, written, prevWritten, oldest,
                 overflow, submitVars, logVars, wTo, wPack, wFailed, dPc, dList, dIssued, dDone,
                 dFailed, dStable, gcVars, ckptVars, ioFails, noMems>>

\* Mutated CompletedAfter: a failed pack takes completed back to its start.
CompletedRestarts(p) == IF wFailed THEN p.lsid ELSE NextLsid(p)

\* The completed lsid once pack p has been waited for.
CompletedAfter(p) == IF wFailed THEN completed ELSE NextLsid(p)

\* All bios of the pack are processed: completed passes it unless it failed.  The
\* packs dequeued together go to logpack_gc_queue together.
WaitPackEnd ==
  /\ wPc = "bio"
  /\ wBio > packs[wPack].last
  /\ completed' = CompletedAfter(packs[wPack])
  /\ gcTo' = IF wPack = wTo THEN wTo ELSE gcTo
  /\ wFailed' = FALSE
  /\ wPc' = "idle"
  /\ UNCHANGED <<clientVars, latest, flush, permanent, written, prevWritten, oldest, readOnly,
                 overflow, submitVars, logVars, logStable, ldevFlush, wTo, wPack, wBio,
                 dataVars, dStable, gcBatch, gcDone, ckptVars, boundVars>>

-----------------------------------------------------------------------------
(* The data task *)

\* Mutated DataLsid: the end of the first in the list.
DataLsidOfFirst(l) == biowLsid[l[1]] + LogPb(kind[l[1]])

\* The lsid that wait_for_log_permanent waits for: the end of the last in list l.
DataLsid(l) == LET i == l[Len(l)] IN biowLsid[i] + LogPb(kind[i])

\* Dequeue at most n_io_bulk bio wrappers from datapack_submit_queue;
\* wait_for_log_permanent tests read-only mode first.  A log that is already
\* permanent needs no retry.
DataDequeue ==
  LET n == MinOf(IoBulk, Len(dataQueue))
      l == SubSeq(dataQueue, 1, n)
  IN  /\ dPc = "idle"
      /\ dataQueue # <<>>
      /\ dataQueue' = SubSeq(dataQueue, n + 1, Len(dataQueue))
      /\ IF readOnly THEN /\ dFailed' = dFailed \cup {l[m] : m \in 1..n}
                          /\ UNCHANGED <<dPc, dList>>
                     ELSE /\ dList' = l
                          /\ dPc' = IF DataLsid(l) <= permanent THEN "submit" ELSE "check"
                          /\ UNCHANGED dFailed
      /\ UNCHANGED <<clientVars, lsidVars, readOnly, overflow, submitVars, logVars, logStable,
                     ldevFlush, waitVars, dIssued, dDone, dStable, gcVars, ckptVars,
                     boundVars>>

DataBios == {dList[n] : n \in DOMAIN dList}

\* wait_for_log_permanent returned: submit the list to the data device ...
DataSubmit ==
  /\ dIssued' = dIssued \cup DataBios
  /\ dList' = <<>> /\ dPc' = "idle"
  /\ UNCHANGED dFailed

\* Mutated DataCancel: whoever waits for the bios is not told.
DataCancelSilently ==
  /\ dList' = <<>> /\ dPc' = "idle"
  /\ UNCHANGED <<dFailed, dIssued>>

\* ... or cancel_write_bio_wrapper each.
DataCancel ==
  /\ dFailed' = dFailed \cup DataBios
  /\ dList' = <<>> /\ dPc' = "idle"
  /\ UNCHANGED dIssued

\* The lsids are loaded and the log is permanent.
DataPermanent ==
  /\ \/ dPc = "submit"
     \/ dPc = "check" /\ DataLsid(dList) <= permanent
  /\ DataSubmit
  /\ UNCHANGED <<clientVars, lsidVars, readOnly, overflow, submitVars, logVars, logStable,
                 ldevFlush, waitVars, dataQueue, dDone, dStable, gcVars, ckptVars, boundVars>>

\* It was not permanent: not completed, a flush under way, or too early to force one.
\* The task sleeps and retries, which changes nothing unless the device has become
\* read-only meanwhile.
DataRetryReadOnly ==
  /\ dPc = "check"
  /\ readOnly
  /\ DataCancel
  /\ UNCHANGED <<clientVars, lsidVars, readOnly, overflow, submitVars, logVars, logStable,
                 ldevFlush, waitVars, dataQueue, dDone, dStable, gcVars, ckptVars, boundVars>>

\* Flush the log device: nobody else is about to.
DataForceFlush ==
  /\ dPc = "check"
  /\ permanent < DataLsid(dList) /\ flush < DataLsid(dList)
  /\ DataLsid(dList) <= completed
  /\ FlushBegin("data", completed)
  /\ dPc' = "flush"
  /\ UNCHANGED <<clientVars, latest, completed, permanent, written, prevWritten, oldest,
                 readOnly, overflow, submitVars, logVars, logStable, waitVars, dataQueue, dList,
                 dIssued, dDone, dFailed, dStable, gcVars, ckptVars, boundVars>>

DataFlushed(ok) ==
  /\ dPc = "flush"
  /\ FlushEnd("data", ok)
  /\ IF readOnly' THEN DataCancel ELSE DataSubmit
  /\ UNCHANGED <<clientVars, latest, completed, flush, written, prevWritten, oldest, overflow,
                 submitVars, logVars, waitVars, dataQueue, dDone, dStable, gcVars, ckptVars,
                 ioFails, noMems>>

\* The data device completes an IO and the task waiting for it notices.
DataIoDone(i) ==
  /\ i \in dIssued \ (dDone \cup dFailed)
  /\ dDone' = dDone \cup {i}
  /\ UNCHANGED <<clientVars, lsidVars, readOnly, overflow, submitVars, logVars, logStable,
                 ldevFlush, waitVars, dPc, dataQueue, dList, dIssued, dFailed, dStable, gcVars,
                 ckptVars, boundVars>>

DataIoFail(i) ==
  /\ i \in dIssued \ (dDone \cup dFailed)
  /\ ioFails < MaxIoFail
  /\ ioFails' = ioFails + 1
  /\ dFailed' = dFailed \cup {i}
  /\ UNCHANGED <<clientVars, lsidVars, readOnly, overflow, submitVars, logVars, logStable,
                 ldevFlush, waitVars, dPc, dataQueue, dList, dIssued, dDone, dStable, gcVars,
                 ckptVars, flushFails, noMems>>

-----------------------------------------------------------------------------
(* The gc worker *)

\* The bios still listed in a pack when it is collected.
DataBiosOf(p) == {i \in p.first..p.last : HasData(kind[i]) /\ answer[i] = "ok"}

\* Mutated DataOver: the data IOs are not waited for.
DataNotAwaited(bs) == TRUE

\* wait_for_write_bio_wrapper has returned for all of bs.
DataOver(bs) == bs \subseteq dDone \cup dFailed

\* Dequeue at most n_pack_bulk packs from logpack_gc_queue.
GcDequeue ==
  /\ gcBatch = gcDone
  /\ gcDone < gcTo
  /\ gcBatch' = MinOf(gcDone + PackBulk, gcTo)
  /\ UNCHANGED <<clientVars, lsidVars, readOnly, overflow, submitVars, logVars, logStable,
                 ldevFlush, waitVars, dataVars, dStable, gcTo, gcDone, ckptVars, boundVars>>

\* The bios of the packs being collected.
GcBios == UNION {DataBiosOf(packs[k]) : k \in gcDone + 1 .. gcBatch}

\* Bio i has failed and those before it are over: the device becomes read-only.
GcDataError(i) ==
  /\ i \in GcBios \cap dFailed
  /\ {j \in GcBios : j < i} \subseteq dDone \cup dFailed
  /\ ~readOnly
  /\ readOnly' = TRUE
  /\ UNCHANGED <<clientVars, lsidVars, overflow, submitVars, logVars, logStable, ldevFlush,
                 waitVars, dataVars, dStable, gcVars, ckptVars, boundVars>>

\* All data IOs of the packs are over: written passes them, failed or not.
GcLogpacks ==
  /\ gcDone < gcBatch
  /\ DataOver(GcBios)
  /\ GcBios \cap dFailed # {} => readOnly
  /\ written' = NextLsid(packs[gcBatch])
  /\ gcDone' = gcBatch
  /\ UNCHANGED <<clientVars, latest, completed, flush, permanent, prevWritten, oldest,
                 readOnly, overflow, submitVars, logVars, logStable, ldevFlush, waitVars,
                 dataVars, dStable, gcTo, gcBatch, ckptVars, boundVars>>

GcWorker == GcDequeue \/ (\E i \in GcBios : GcDataError(i)) \/ GcLogpacks

-----------------------------------------------------------------------------
(* Checkpointing: take_checkpoint and walb_sync_super_block.                    *)

\* The checkpoint task runs when there is something to write.
CheckpointTask ==
  /\ ckptOn
  /\ sync["task"] = NoSync
  /\ written # prevWritten
  /\ sync' = [sync EXCEPT !["task"].pc = "test"]
  /\ UNCHANGED <<clientVars, lsidVars, readOnly, overflow, submitVars, logVars, logStable,
                 ldevFlush, waitVars, dataVars, dStable, gcVars, ckptOn, super, boundVars>>

\* walb_sync_super_block returned to caller c.
SyncReturn(c, ok, prev) ==
  /\ sync' = [sync EXCEPT ![c] = NoSync]
  /\ \/ /\ c = "task"
        /\ ckptOn' = (ckptOn /\ ok)
        /\ UNCHANGED <<answer, sPc, wpacks, isFlush, seen>>
     \/ /\ c = "submit" /\ ok
        /\ ckptOn' = TRUE
        /\ Reload(prev)
        /\ sPc' = "ring"
        /\ UNCHANGED <<answer, wpacks, isFlush>>
     \/ /\ c = "submit" /\ ~ok
        /\ SubmitError
        /\ UNCHANGED ckptOn
     \/ /\ c = "ioctl"
        /\ UNCHANGED <<answer, sPc, wpacks, isFlush, seen, ckptOn>>

\* The super block is not written: read-only mode, or no memory for a copy of it.
SyncRefused(c) ==
  /\ sync[c].pc = "test"
  /\ \/ readOnly /\ UNCHANGED noMems
     \/ ~readOnly /\ noMems < MaxNoMem /\ noMems' = noMems + 1
  /\ SyncReturn(c, FALSE, prevWritten)
  /\ UNCHANGED <<kind, ackedBefore, lsidVars, readOnly, overflow, queuedFrom, sNext, logVars,
                 logStable, ldevFlush, waitVars, dataVars, dStable, gcVars, super, ioFails,
                 flushFails>>

SyncTest(c) ==
  /\ sync[c].pc = "test"
  /\ ~readOnly
  /\ sync' = [sync EXCEPT ![c].pc = "load"]
  /\ UNCHANGED <<clientVars, lsidVars, readOnly, overflow, submitVars, logVars, logStable,
                 ldevFlush, waitVars, dataVars, dStable, gcVars, ckptOn, super, boundVars>>

\* Load the lsids into a copy of the super block and flush the data device, which
\* covers the data IOs done by now.
SyncLoad(c) ==
  /\ sync[c].pc = "load"
  /\ sync' = [sync EXCEPT ![c] = [pc |-> "write", written |-> written, oldest |-> oldest,
                                  ios |-> dDone]]
  /\ UNCHANGED <<clientVars, lsidVars, readOnly, overflow, submitVars, logVars, logStable,
                 ldevFlush, waitVars, dataVars, dStable, gcVars, ckptOn, super, boundVars>>

\* The data device is flushed and the super block is on the log device.
SyncWrite(c) ==
  /\ sync[c].pc = "write"
  /\ dStable' = dStable \cup sync[c].ios
  /\ super' = [written |-> sync[c].written, oldest |-> sync[c].oldest]
  /\ sync' = [sync EXCEPT ![c] = [@ EXCEPT !.pc = "update", !.oldest = 0, !.ios = {}]]
  /\ UNCHANGED <<clientVars, lsidVars, readOnly, overflow, submitVars, logVars, logStable,
                 ldevFlush, waitVars, dataVars, gcVars, ckptOn, boundVars>>

\* prev_written follows.
SyncDone(c) ==
  /\ sync[c].pc = "update"
  /\ prevWritten' = sync[c].written
  /\ SyncReturn(c, TRUE, sync[c].written)
  /\ UNCHANGED <<kind, ackedBefore, latest, completed, flush, permanent, written, oldest,
                 readOnly, overflow, queuedFrom, sNext, logVars, logStable, ldevFlush, waitVars,
                 dataVars, dStable, gcVars, super, boundVars>>

\* The flush of the data device or the write of the super block fails.
SyncFail(c) ==
  /\ sync[c].pc = "write"
  /\ ioFails < MaxIoFail
  /\ ioFails' = ioFails + 1
  /\ readOnly' = TRUE
  /\ SyncReturn(c, FALSE, prevWritten)
  /\ UNCHANGED <<kind, ackedBefore, lsidVars, overflow, queuedFrom, sNext, logVars, logStable,
                 ldevFlush, waitVars, dataVars, dStable, gcVars, super, flushFails, noMems>>

SyncSuperBlock(c) ==
  SyncRefused(c) \/ SyncTest(c) \/ SyncLoad(c) \/ SyncWrite(c) \/ SyncDone(c) \/ SyncFail(c)

-----------------------------------------------------------------------------
SubmitTask ==
  \/ SubmitDequeue \/ SubmitDequeueReadOnly \/ AddBioWrapper \/ RefuseOverflow
  \/ \E e \in BOOLEAN : StoreLsids(e)
  \/ SubmitLogpacks \/ RingForceFlush \/ RingReadOnly
  \/ RingSkipCheckpoint \/ RingTakeCheckpoint
  \/ \E ok \in BOOLEAN : RingFlushed(ok)

WaitTask ==
  \/ WaitStart \/ WaitHeader \/ WaitBioError \/ WaitBioOk \/ WaitBioFua
  \/ \E ok \in BOOLEAN : WaitFuaFlushed(ok)
  \/ WaitPackEnd

DataTask ==
  \/ DataDequeue \/ DataPermanent \/ DataRetryReadOnly \/ DataForceFlush
  \/ \E ok \in BOOLEAN : DataFlushed(ok)

Next ==
  \/ \E k \in Kinds : MakeRequest(k)
  \/ \E lsid \in 1..MaxOldest : SetOldest(lsid)
  \/ SetOldestStore
  \/ SubmitTask
  \/ \E io \in logIo : LogIoDone(io) \/ LogIoFail(io)
  \/ WaitTask
  \/ DataTask
  \/ \E i \in dIssued : DataIoDone(i) \/ DataIoFail(i)
  \/ GcWorker
  \/ CheckpointTask
  \/ \E c \in Callers : SyncSuperBlock(c)

Spec == Init /\ [][Next]_vars

\* Every task that has work is scheduled and every IO is answered; the timeout of
\* wait_for_log_permanent is why the data task finally forces a flush.
Fairness ==
  /\ WF_vars(SubmitTask) /\ WF_vars(WaitTask) /\ WF_vars(DataTask)
  /\ WF_vars(GcWorker)
  /\ \A c \in Callers : WF_vars(SyncSuperBlock(c))
  /\ WF_vars(\E io \in logIo : LogIoDone(io) \/ LogIoFail(io))
  /\ WF_vars(\E i \in dIssued : DataIoDone(i) \/ DataIoFail(i))

FairSpec == Spec /\ Fairness

-----------------------------------------------------------------------------
(* Properties *)

Flushes == [on : BOOLEAN, lsid : Nat, ios : SUBSET Int]

Packs == [lsid : Nat, total : Nat, nRec : Nat, first : Nat, last : Nat, fua : BOOLEAN,
          flushHeader : BOOLEAN, newPermanent : Nat, flushes : SUBSET Int]

ClientTypes ==
  /\ kind \in Seq(AllKinds)
  /\ answer \in Seq({"none", "ok", "error"}) /\ Len(answer) = Len(kind)
  /\ ackedBefore \in Seq(SUBSET Nat) /\ Len(ackedBefore) = Len(kind)
  /\ biowLsid \in Seq(Nat) /\ Len(biowLsid) = Len(kind)

LsidTypes ==
  /\ latest \in Nat /\ completed \in Nat /\ flush \in Nat /\ permanent \in Nat
  /\ written \in Nat /\ prevWritten \in Nat /\ oldest \in Nat

SubmitTypes ==
  /\ sPc \in {"idle", "create", "ring", "flush", "sync"}
  /\ queuedFrom \in Nat /\ sNext \in Nat /\ isFlush \in BOOLEAN
  /\ seen \in [completed : Nat, flush : Nat, written : Nat, prevWritten : Nat, oldest : Nat]
  /\ wpacks \in Seq(Packs)

LogTypes ==
  /\ packs \in Seq(Packs)
  /\ logIo \subseteq Int /\ logDone \subseteq Int /\ logFailed \subseteq Int
  /\ logStable \subseteq Int
  /\ ldevFlush \in [{"submit", "wait", "data"} -> Flushes]

WaitTypes ==
  /\ wPc \in {"idle", "header", "bio", "fua"}
  /\ wTo \in Nat /\ wPack \in Nat /\ wBio \in Nat /\ wFailed \in BOOLEAN
  /\ gcTo \in Nat /\ gcBatch \in Nat /\ gcDone \in Nat

DataTypes ==
  /\ dPc \in {"idle", "check", "submit", "flush"}
  /\ dataQueue \in Seq(Nat) /\ dList \in Seq(Nat)
  /\ dIssued \subseteq Nat /\ dDone \subseteq Nat /\ dFailed \subseteq Nat
  /\ dStable \subseteq Nat

SyncTypes ==
  /\ ckptOn \in BOOLEAN
  /\ sync \in [Callers -> [pc : {"idle", "store", "test", "load", "write", "update"},
                           written : Nat, oldest : Nat, ios : SUBSET Nat]]
  /\ super \in [written : Nat, oldest : Nat]
  /\ readOnly \in BOOLEAN /\ overflow \in BOOLEAN
  /\ ioFails \in Nat /\ flushFails \in Nat /\ noMems \in Nat

TypeOK ==
  /\ ClientTypes /\ LsidTypes /\ SubmitTypes /\ LogTypes /\ WaitTypes /\ DataTypes
  /\ SyncTypes

\* kern.h, lsid_set_is_valid: until a failure makes the device read-only, the
\* lsids keep their order while five activities move them.  Only oldest <= prev_written is
\* not kept, by two super block syncs at once: oldest <= written is.
LsidOrder ==
  (~readOnly /\ noMems = 0) =>
    /\ oldest <= written /\ prevWritten <= written
    /\ written <= permanent /\ permanent <= flush
    /\ flush <= completed /\ completed <= latest

\* The rest of lsid_set_is_valid, which the code does not keep.
OldestRecorded == (~readOnly /\ noMems = 0) => oldest <= prevWritten

\* The packs that a bio's redo needs: those up to its own, from the first that the
\* super block does not count as written.
RedoPacks(i) == {k \in DOMAIN packs : packs[k].first <= i /\ NextLsid(packs[k]) > super.written}

\* A crash now would not lose bio i: the super block counts it as written and its
\* data is stable, or every log IO that redo reads to reach it is stable.
Durable(i) ==
  \/ i \in dStable
  \/ \A k \in RedoPacks(i) :
       /\ packs[k].nRec > 0 => HeaderIo(packs[k]) \in logStable
       /\ \A j \in packs[k].first..MinOf(i, packs[k].last) :
            LogPb(kind[j]) > 0 => j \in logStable

\* doc/algorithm.creole: a write is not submitted to the data device before its
\* log, and all the log before it, is persistent on the log device.
WriteAheadLog == \A i \in dIssued : Durable(i)

\* A REQ_FUA bio is answered only after it is durable.
FuaDurable == \A i \in Bios : (IsFua(kind[i]) /\ answer[i] = "ok") => Durable(i)

\* A bio with a flush is answered only after every write answered before the flush
\* was sent is durable.
FlushDurable ==
  \A i \in Bios : (HasFlush(kind[i]) /\ answer[i] = "ok") =>
    \A j \in ackedBefore[i] : HasData(kind[j]) => Durable(j)

\* doc/algorithm.creole: all logpacks before the written_lsid of the super block are
\* on the data device for good, so redo may start after them.
SuperBlockCovers ==
  \A k \in DOMAIN packs : NextLsid(packs[k]) <= super.written =>
    DataBiosOf(packs[k]) \subseteq dStable

\* The ring buffer never holds two live blocks in one place: what has been
\* submitted to the log device reaches at most RingSize past the written_lsid from
\* which redo would start.
RingNotOverrun == \A k \in DOMAIN packs : NextLsid(packs[k]) - super.written <= RingSize

\* log_record.h: the next logpack starts where this one ends; redo finds a pack by
\* that rule only.
LogContiguous ==
  \A k \in DOMAIN packs : k > 1 => packs[k].lsid = NextLsid(packs[k - 1])

\* Redo replays a prefix of the log: a bio is answered "ok" only when every log IO
\* before it, the header of its own pack included, has succeeded, so that no answered
\* write lies behind a torn one.
AnsweredPrefix ==
  \A j \in Bios : answer[j] = "ok" =>
    \A k \in DOMAIN packs : packs[k].first <= j =>
      \A io \in IosOf(packs[k]) : io <= j => io \in logDone

\* No lsid ever moves back, in memory or in the super block, whatever fails.
LsidsMonotone ==
  [][/\ super'.written >= super.written
     /\ latest' >= latest /\ completed' >= completed /\ flush' >= flush
     /\ permanent' >= permanent /\ written' >= written /\ prevWritten' >= prevWritten]_vars

\* Every bio is answered, with an error if the device fails meanwhile.
EveryBioAnswered ==
  \A i \in 1..MaxBio : (i <= Len(kind)) ~> (i <= Len(kind) /\ answer[i] # "none")

\* Every pack submitted to the log device is collected, so the ring buffer drains.
EveryPackCollected == []<>(gcDone = Len(packs))
=============================================================================
