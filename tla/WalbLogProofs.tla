--------------------------- MODULE WalbLogProofs ---------------------------
(***************************************************************************)
(* Proofs about the write path, for any number and any mixture of bios,    *)
(* any size of the ring buffer, of the packs and of the batches, and any   *)
(* number of failures.                                                     *)
(*                                                                         *)
(* LogInv is the invariant that all of them need: where the packs and the  *)
(* bios lie in the log (Layout), and how far the wait task is in it        *)
(* (Waiting).  What a pack is and where it lies never changes once it is   *)
(* built, so most steps keep Layout; most of the work is in the four steps *)
(* that build, store and submit packs.                                     *)
(*                                                                         *)
(* The second part is about what survives a power failure: which log IOs   *)
(* have been waited for when a bio is answered, which of them are stable   *)
(* when an lsid is permanent, and so that neither a data IO nor the answer *)
(* to a REQ_FUA bio gets ahead of the log.                                 *)
(*                                                                         *)
(* The argument goes along the log.  The wait task only passes a log IO    *)
(* that has succeeded, or else gives up (Waited); so every log IO below    *)
(* completed is done, the flushes started since then cover it, and every   *)
(* log IO below permanent is stable (Covered).  A bio is sent to the data  *)
(* device when permanent has passed it (Issued), and the log is laid out   *)
(* in the order of the bios (Layout), so all that redo reads to reach it   *)
(* is stable.                                                              *)
(*                                                                         *)
(* The third part is about the lsids in memory and in the super block:     *)
(* they never move back, the ring buffer is not overrun, and the log has   *)
(* no hole.                                                                *)
(***************************************************************************)
EXTENDS WalbLog, SequenceTheorems, TLAPS

RingLoop == {"ring", "flush", "sync"}

\* The lists of the tasks, as intervals.
Ranges ==
  /\ 1 <= sNext /\ sNext <= queuedFrom /\ queuedFrom <= Len(kind) + 1
  /\ sPc = "idle" => wpacks = <<>>
  /\ sPc = "create" => wpacks # <<>> \/ sNext < queuedFrom
  /\ sPc \in RingLoop => wpacks # <<>> /\ sNext = queuedFrom
  /\ sync["submit"].pc # "idle" => sPc = "sync"
  /\ gcDone <= gcBatch /\ gcBatch <= gcTo /\ gcTo <= wPack
  /\ wPack <= wTo /\ wTo <= Len(packs)
  /\ wPc # "idle" => gcTo < wPack

\* Where the log of bio i ends.
EndOf(i) == biowLsid[i] + LogPb(kind[i])

\* A zero-flush has a pack of its own; the bios of another pack have their log between its
\* header and its end, in the order of the bios.  ks are the kinds of the bios and bs the
\* places of their logs.
PackIn(p, ks, bs) ==
  /\ 1 <= p.first /\ p.first <= p.last /\ p.last <= Len(ks)
  /\ p.nRec = 0 => p.total = 0 /\ p.last = p.first /\ ~HasData(ks[p.first])
  /\ p.nRec > 0 =>
       /\ \A i \in p.first..p.last : HasData(ks[i]) /\ p.lsid < bs[i]
       /\ bs[p.last] + LogPb(ks[p.last]) = NextLsid(p)
       /\ \A i, j \in p.first..p.last : i < j => bs[i] + LogPb(ks[i]) <= bs[j]

PackOK(p) == PackIn(p, kind, biowLsid)

Precedes(p, q) == p.last < q.first /\ NextLsid(p) <= q.lsid

\* The packs on the log device and those being built, one after the other.
Layout ==
  /\ \A k \in DOMAIN packs : PackOK(packs[k])
  /\ \A k \in DOMAIN wpacks : PackOK(wpacks[k])
  /\ \A j, k \in DOMAIN packs : j < k => Precedes(packs[j], packs[k])
  /\ \A j, k \in DOMAIN wpacks : j < k => Precedes(wpacks[j], wpacks[k])
  /\ \A j \in DOMAIN packs, k \in DOMAIN wpacks : Precedes(packs[j], wpacks[k])
  /\ \A k \in DOMAIN packs : packs[k].last < sNext /\ NextLsid(packs[k]) <= latest
  /\ wpacks # <<>> => wpacks[Len(wpacks)].last = sNext - 1
  /\ sPc = "create" => \A k \in DOMAIN wpacks : latest <= wpacks[k].lsid
  /\ sPc \in RingLoop => latest = EndOfWpacks

\* The wait task takes the packs and their bios in order, and completed is behind it.
Waiting ==
  /\ completed <= latest
  /\ 1 <= wBio /\ wBio <= sNext
  /\ \A k \in DOMAIN packs : k > wPack => completed <= packs[k].lsid /\ wBio <= packs[k].first
  /\ \A k \in DOMAIN wpacks : completed <= wpacks[k].lsid /\ wBio <= wpacks[k].first
  /\ \A k \in DOMAIN packs : k < wPack \/ (k = wPack /\ wPc = "idle") => packs[k].last < wBio
  /\ wPc # "idle" => packs[wPack].first <= wBio /\ wBio <= packs[wPack].last + 1
  /\ wPc = "header" => wBio = packs[wPack].first /\ completed <= packs[wPack].lsid
  /\ wPc \in {"header", "bio"} =>
       /\ completed <= NextLsid(packs[wPack])
       /\ \A j \in wBio..packs[wPack].last : HasData(kind[j]) => completed <= biowLsid[j]
  /\ wPc = "fua" =>
       /\ wBio <= packs[wPack].last /\ IsFua(kind[wBio])
       /\ completed = EndOf(wBio) /\ ldevFlush["wait"].lsid = completed

\* What the other lsids follow.
Following ==
  /\ permanent <= flush /\ flush <= completed
  /\ \A t \in {"submit", "wait", "data"} : ldevFlush[t].lsid <= flush
  /\ \A k \in DOMAIN packs : packs[k].newPermanent <= flush
  /\ \A k \in DOMAIN wpacks : wpacks[k].newPermanent <= flush
  /\ written = IF gcDone = 0 THEN 0 ELSE NextLsid(packs[gcDone])
  /\ prevWritten <= written /\ super.written <= written
  /\ \A c \in Callers : sync[c].written <= written

LogInv == TypeOK /\ Ranges /\ Layout /\ Waiting /\ Following

-----------------------------------------------------------------------------
\* Which steps write which variables.
LEMMA Writers ==
  ASSUME [Next]_vars
  PROVE
  /\ \/ UNCHANGED <<kind, ackedBefore>>
     \/ \E k \in Kinds : MakeRequest(k)
  /\ \/ UNCHANGED answer \/ SubmitDequeueReadOnly \/ RefuseOverflow \/ RingReadOnly
     \/ WaitBioError \/ WaitBioOk
     \/ \E k \in Kinds : MakeRequest(k)
     \/ \E ok \in BOOLEAN : WaitFuaFlushed(ok)
     \/ \E c \in Callers : SyncRefused(c) \/ SyncFail(c)
  /\ \/ UNCHANGED <<latest, overflow>>
     \/ \E e \in BOOLEAN : StoreLsids(e)
  /\ \/ UNCHANGED completed \/ WaitBioFua \/ WaitPackEnd
  /\ \/ UNCHANGED flush \/ RingForceFlush \/ WaitBioFua \/ DataForceFlush
     \/ \E e \in BOOLEAN : StoreLsids(e)
  /\ \/ UNCHANGED permanent \/ WaitHeader
     \/ \E ok \in BOOLEAN : RingFlushed(ok) \/ WaitFuaFlushed(ok) \/ DataFlushed(ok)
  /\ \/ UNCHANGED <<written, gcDone>> \/ GcLogpacks
  /\ \/ UNCHANGED prevWritten
     \/ \E c \in Callers : SyncDone(c)
  /\ \/ UNCHANGED oldest \/ SetOldestStore
  /\ \/ UNCHANGED sPc \/ SubmitDequeue \/ RefuseOverflow \/ SubmitLogpacks
     \/ RingForceFlush \/ RingReadOnly \/ RingTakeCheckpoint
     \/ \E e \in BOOLEAN : StoreLsids(e)
     \/ \E ok \in BOOLEAN : RingFlushed(ok)
     \/ \E c \in Callers : SyncRefused(c) \/ SyncDone(c) \/ SyncFail(c)
  /\ \/ UNCHANGED queuedFrom \/ SubmitDequeue \/ SubmitDequeueReadOnly
  /\ \/ UNCHANGED sNext \/ SubmitDequeue \/ AddBioWrapper
  /\ \/ UNCHANGED wpacks \/ AddBioWrapper \/ RefuseOverflow \/ SubmitLogpacks
     \/ RingReadOnly
     \/ \E e \in BOOLEAN : StoreLsids(e)
     \/ \E c \in Callers : SyncRefused(c) \/ SyncFail(c)
  /\ \/ UNCHANGED isFlush \/ AddBioWrapper \/ RefuseOverflow \/ SubmitLogpacks
     \/ RingReadOnly
     \/ \E c \in Callers : SyncRefused(c) \/ SyncFail(c)
  /\ \/ UNCHANGED seen \/ SubmitDequeue \/ RefuseOverflow \/ SubmitLogpacks
     \/ RingReadOnly \/ RingSkipCheckpoint
     \/ \E ok \in BOOLEAN : RingFlushed(ok)
     \/ \E c \in Callers : SyncRefused(c) \/ SyncDone(c) \/ SyncFail(c)
  /\ \/ UNCHANGED <<packs, logIo>> \/ SubmitLogpacks
  /\ \/ UNCHANGED biowLsid \/ AddBioWrapper
     \/ \E k \in Kinds : MakeRequest(k)
  /\ \/ UNCHANGED logDone
     \/ \E io \in logIo : LogIoDone(io)
  /\ \/ UNCHANGED logFailed
     \/ \E io \in logIo : LogIoFail(io)
  /\ \/ UNCHANGED wPc \/ WaitStart \/ WaitHeader \/ WaitBioFua \/ WaitPackEnd
     \/ \E ok \in BOOLEAN : WaitFuaFlushed(ok)
  /\ \/ UNCHANGED <<wTo, wPack>> \/ WaitStart
  /\ \/ UNCHANGED wBio \/ WaitStart \/ WaitBioError \/ WaitBioOk
     \/ \E ok \in BOOLEAN : WaitFuaFlushed(ok)
  /\ \/ UNCHANGED wFailed \/ WaitStart \/ WaitHeader \/ WaitBioError \/ WaitPackEnd
  /\ \/ UNCHANGED dPc \/ DataDequeue \/ DataPermanent \/ DataRetryReadOnly
     \/ DataForceFlush
     \/ \E ok \in BOOLEAN : DataFlushed(ok)
  /\ \/ UNCHANGED dataQueue \/ WaitBioOk \/ DataDequeue
     \/ \E ok \in BOOLEAN : WaitFuaFlushed(ok)
  /\ \/ UNCHANGED dList \/ DataDequeue \/ DataPermanent \/ DataRetryReadOnly
     \/ \E ok \in BOOLEAN : DataFlushed(ok)
  /\ \/ UNCHANGED dIssued \/ DataPermanent
     \/ \E ok \in BOOLEAN : DataFlushed(ok)
  /\ \/ UNCHANGED dDone
     \/ \E i \in dIssued : DataIoDone(i)
  /\ \/ UNCHANGED dFailed \/ DataDequeue \/ DataRetryReadOnly
     \/ \E ok \in BOOLEAN : DataFlushed(ok)
     \/ \E i \in dIssued : DataIoFail(i)
  /\ \/ UNCHANGED gcTo \/ WaitPackEnd
  /\ \/ UNCHANGED gcBatch \/ GcDequeue
  /\ \/ UNCHANGED ckptOn \/ RingSkipCheckpoint \/ RingTakeCheckpoint
     \/ \E c \in Callers : SyncRefused(c) \/ SyncDone(c) \/ SyncFail(c)
  /\ \/ UNCHANGED sync \/ SetOldestStore \/ RingTakeCheckpoint \/ CheckpointTask
     \/ \E lsid \in 1..MaxOldest : SetOldest(lsid)
     \/ \E c \in Callers : SyncSuperBlock(c)
  /\ \/ UNCHANGED <<super, dStable>>
     \/ \E c \in Callers : SyncWrite(c)
  /\ \/ UNCHANGED ioFails
     \/ \E io \in logIo : LogIoFail(io)
     \/ \E i \in dIssued : DataIoFail(i)
     \/ \E c \in Callers : SyncFail(c)
  /\ \/ UNCHANGED flushFails
     \/ \E ok \in BOOLEAN : RingFlushed(ok) \/ WaitFuaFlushed(ok) \/ DataFlushed(ok)
  /\ \/ UNCHANGED noMems
     \/ \E c \in Callers : SyncRefused(c)
  /\ \/ UNCHANGED readOnly \/ WaitBioError
     \/ \E ok \in BOOLEAN : RingFlushed(ok) \/ WaitFuaFlushed(ok) \/ DataFlushed(ok)
     \/ \E i \in GcBios : GcDataError(i)
     \/ \E c \in Callers : SyncFail(c)
  /\ \/ UNCHANGED logStable
     \/ \E ok \in BOOLEAN : RingFlushed(ok) \/ WaitFuaFlushed(ok) \/ DataFlushed(ok)
     \/ \E io \in logIo : LogIoDone(io)
  /\ \/ UNCHANGED ldevFlush \/ RingForceFlush \/ WaitBioFua \/ DataForceFlush
     \/ \E ok \in BOOLEAN : RingFlushed(ok) \/ WaitFuaFlushed(ok) \/ DataFlushed(ok)
<1> USE DEF clientVars, lsidVars, submitVars, logVars, waitVars, dataVars, gcVars, ckptVars,
             boundVars
<1>1. ASSUME NEW k \in Kinds, MakeRequest(k)
      PROVE  UNCHANGED <<lsidVars, submitVars, packs, logIo, logDone, logFailed, waitVars,
                 dataVars, gcVars, ckptVars, boundVars, readOnly, overflow, logStable,
                 ldevFlush, dStable>>
  BY <1>1 DEF MakeRequest
<1>2. ASSUME NEW lsid \in 1..MaxOldest, SetOldest(lsid)
      PROVE  UNCHANGED <<clientVars, lsidVars, submitVars, logVars, waitVars, dataVars, gcVars,
                 ckptOn, super, boundVars, readOnly, overflow, logStable, ldevFlush,
                 dStable>>
  BY <1>2 DEF SetOldest
<1>3. ASSUME SetOldestStore
      PROVE  UNCHANGED <<clientVars, latest, completed, flush, permanent, written, prevWritten,
                 submitVars, logVars, waitVars, dataVars, gcVars, ckptOn, super,
                 boundVars, readOnly, overflow, logStable, ldevFlush, dStable>>
  BY <1>3 DEF SetOldestStore
<1>4. ASSUME SubmitDequeue
      PROVE  UNCHANGED <<clientVars, lsidVars, wpacks, isFlush, logVars, waitVars, dataVars,
                 gcVars, ckptVars, boundVars, readOnly, overflow, logStable, ldevFlush,
                 dStable>>
  BY <1>4 DEF SubmitDequeue
<1>5. ASSUME SubmitDequeueReadOnly
      PROVE  UNCHANGED <<kind, ackedBefore, lsidVars, sPc, sNext, wpacks, isFlush, seen, logVars,
                 waitVars, dataVars, gcVars, ckptVars, boundVars, readOnly, overflow,
                 logStable, ldevFlush, dStable>>
  BY <1>5 DEF SubmitDequeueReadOnly
<1>6. ASSUME AddBioWrapper
      PROVE  UNCHANGED <<clientVars, lsidVars, sPc, queuedFrom, seen, packs, logIo, logDone,
                 logFailed, waitVars, dataVars, gcVars, ckptVars, boundVars, readOnly,
                 overflow, logStable, ldevFlush, dStable>>
  BY <1>6 DEF AddBioWrapper
<1>7. ASSUME RefuseOverflow
      PROVE  UNCHANGED <<kind, ackedBefore, lsidVars, queuedFrom, sNext, logVars, waitVars,
                 dataVars, gcVars, ckptVars, boundVars, readOnly, overflow, logStable,
                 ldevFlush, dStable>>
  BY <1>7 DEF RefuseOverflow
<1>8. ASSUME NEW e \in BOOLEAN, StoreLsids(e)
      PROVE  UNCHANGED <<clientVars, completed, permanent, written, prevWritten, oldest,
                 queuedFrom, sNext, isFlush, seen, logVars, waitVars, dataVars, gcVars,
                 ckptVars, boundVars, readOnly, logStable, ldevFlush, dStable>>
  BY <1>8 DEF StoreLsids
<1>9. ASSUME SubmitLogpacks
      PROVE  UNCHANGED <<clientVars, lsidVars, queuedFrom, sNext, biowLsid, logDone, logFailed,
                 waitVars, dataVars, gcVars, ckptVars, boundVars, readOnly, overflow,
                 logStable, ldevFlush, dStable>>
  BY <1>9 DEF SubmitLogpacks
<1>10. ASSUME RingForceFlush
      PROVE  UNCHANGED <<clientVars, latest, completed, permanent, written, prevWritten, oldest,
                 queuedFrom, sNext, wpacks, isFlush, seen, logVars, waitVars, dataVars,
                 gcVars, ckptVars, boundVars, readOnly, overflow, logStable, dStable>>
  BY <1>10 DEF RingForceFlush
<1>11. ASSUME RingReadOnly
      PROVE  UNCHANGED <<kind, ackedBefore, lsidVars, queuedFrom, sNext, logVars, waitVars,
                 dataVars, gcVars, ckptVars, boundVars, readOnly, overflow, logStable,
                 ldevFlush, dStable>>
  BY <1>11 DEF RingReadOnly
<1>12. ASSUME RingSkipCheckpoint
      PROVE  UNCHANGED <<clientVars, lsidVars, sPc, queuedFrom, sNext, wpacks, isFlush, logVars,
                 waitVars, dataVars, gcVars, sync, super, boundVars, readOnly, overflow,
                 logStable, ldevFlush, dStable>>
  BY <1>12 DEF RingSkipCheckpoint
<1>13. ASSUME RingTakeCheckpoint
      PROVE  UNCHANGED <<clientVars, lsidVars, queuedFrom, sNext, wpacks, isFlush, seen, logVars,
                 waitVars, dataVars, gcVars, super, boundVars, readOnly, overflow,
                 logStable, ldevFlush, dStable>>
  BY <1>13 DEF RingTakeCheckpoint
<1>14. ASSUME NEW ok \in BOOLEAN, RingFlushed(ok)
      PROVE  UNCHANGED <<clientVars, latest, completed, flush, written, prevWritten, oldest,
                 queuedFrom, sNext, wpacks, isFlush, logVars, waitVars, dataVars, gcVars,
                 ckptVars, ioFails, noMems, overflow, dStable>>
  BY <1>14 DEF RingFlushed
<1>15. ASSUME NEW io \in logIo, LogIoDone(io)
      PROVE  UNCHANGED <<clientVars, lsidVars, submitVars, packs, biowLsid, logIo, logFailed,
                 waitVars, dataVars, gcVars, ckptVars, boundVars, readOnly, overflow,
                 ldevFlush, dStable>>
  BY <1>15 DEF LogIoDone
<1>16. ASSUME NEW io \in logIo, LogIoFail(io)
      PROVE  UNCHANGED <<clientVars, lsidVars, submitVars, packs, biowLsid, logIo, logDone,
                 waitVars, dataVars, gcVars, ckptVars, flushFails, noMems, readOnly,
                 overflow, logStable, ldevFlush, dStable>>
  BY <1>16 DEF LogIoFail
<1>17. ASSUME WaitStart
      PROVE  UNCHANGED <<clientVars, lsidVars, submitVars, logVars, dataVars, gcVars, ckptVars,
                 boundVars, readOnly, overflow, logStable, ldevFlush, dStable>>
  BY <1>17 DEF WaitStart
<1>18. ASSUME WaitHeader
      PROVE  UNCHANGED <<clientVars, latest, completed, flush, written, prevWritten, oldest,
                 submitVars, logVars, wTo, wPack, wBio, dataVars, gcVars, ckptVars,
                 boundVars, readOnly, overflow, logStable, ldevFlush, dStable>>
  BY <1>18 DEF WaitHeader
<1>19. ASSUME WaitBioError
      PROVE  UNCHANGED <<kind, ackedBefore, lsidVars, submitVars, logVars, wPc, wTo, wPack,
                 dataVars, gcVars, ckptVars, boundVars, overflow, logStable, ldevFlush,
                 dStable>>
  BY <1>19 DEF WaitBioError
<1>20. ASSUME WaitBioOk
      PROVE  UNCHANGED <<kind, ackedBefore, lsidVars, submitVars, logVars, wPc, wTo, wPack,
                 wFailed, dPc, dList, dIssued, dDone, dFailed, gcVars, ckptVars,
                 boundVars, readOnly, overflow, logStable, ldevFlush, dStable>>
  BY <1>20 DEF WaitBioOk
<1>21. ASSUME WaitBioFua
      PROVE  UNCHANGED <<clientVars, latest, permanent, written, prevWritten, oldest, submitVars,
                 logVars, wTo, wPack, wBio, wFailed, dataVars, gcVars, ckptVars,
                 boundVars, readOnly, overflow, logStable, dStable>>
  BY <1>21 DEF WaitBioFua
<1>22. ASSUME NEW ok \in BOOLEAN, WaitFuaFlushed(ok)
      PROVE  UNCHANGED <<kind, ackedBefore, latest, completed, flush, written, prevWritten,
                 oldest, submitVars, logVars, wTo, wPack, wFailed, dPc, dList, dIssued,
                 dDone, dFailed, gcVars, ckptVars, ioFails, noMems, overflow, dStable>>
  BY <1>22 DEF WaitFuaFlushed
<1>23. ASSUME WaitPackEnd
      PROVE  UNCHANGED <<clientVars, latest, flush, permanent, written, prevWritten, oldest,
                 submitVars, logVars, wTo, wPack, wBio, dataVars, gcBatch, gcDone,
                 ckptVars, boundVars, readOnly, overflow, logStable, ldevFlush, dStable>>
  BY <1>23 DEF WaitPackEnd
<1>24. ASSUME DataDequeue
      PROVE  UNCHANGED <<clientVars, lsidVars, submitVars, logVars, waitVars, dIssued, dDone,
                 gcVars, ckptVars, boundVars, readOnly, overflow, logStable, ldevFlush,
                 dStable>>
  BY <1>24 DEF DataDequeue
<1>25. ASSUME DataPermanent
      PROVE  UNCHANGED <<clientVars, lsidVars, submitVars, logVars, waitVars, dataQueue, dDone,
                 dFailed, gcVars, ckptVars, boundVars, readOnly, overflow, logStable,
                 ldevFlush, dStable>>
  BY <1>25 DEF DataPermanent, DataSubmit
<1>26. ASSUME DataRetryReadOnly
      PROVE  UNCHANGED <<clientVars, lsidVars, submitVars, logVars, waitVars, dataQueue, dIssued,
                 dDone, gcVars, ckptVars, boundVars, readOnly, overflow, logStable,
                 ldevFlush, dStable>>
  BY <1>26 DEF DataRetryReadOnly, DataCancel
<1>27. ASSUME DataForceFlush
      PROVE  UNCHANGED <<clientVars, latest, completed, permanent, written, prevWritten, oldest,
                 submitVars, logVars, waitVars, dataQueue, dList, dIssued, dDone,
                 dFailed, gcVars, ckptVars, boundVars, readOnly, overflow, logStable,
                 dStable>>
  BY <1>27 DEF DataForceFlush
<1>28. ASSUME NEW ok \in BOOLEAN, DataFlushed(ok)
      PROVE  UNCHANGED <<clientVars, latest, completed, flush, written, prevWritten, oldest,
                 submitVars, logVars, waitVars, dataQueue, dDone, gcVars, ckptVars,
                 ioFails, noMems, overflow, dStable>>
  BY <1>28 DEF DataFlushed
<1>29. ASSUME NEW i \in dIssued, DataIoDone(i)
      PROVE  UNCHANGED <<clientVars, lsidVars, submitVars, logVars, waitVars, dPc, dataQueue,
                 dList, dIssued, dFailed, gcVars, ckptVars, boundVars, readOnly,
                 overflow, logStable, ldevFlush, dStable>>
  BY <1>29 DEF DataIoDone
<1>30. ASSUME NEW i \in dIssued, DataIoFail(i)
      PROVE  UNCHANGED <<clientVars, lsidVars, submitVars, logVars, waitVars, dPc, dataQueue,
                 dList, dIssued, dDone, gcVars, ckptVars, flushFails, noMems, readOnly,
                 overflow, logStable, ldevFlush, dStable>>
  BY <1>30 DEF DataIoFail
<1>31. ASSUME GcDequeue
      PROVE  UNCHANGED <<clientVars, lsidVars, submitVars, logVars, waitVars, dataVars, gcTo,
                 gcDone, ckptVars, boundVars, readOnly, overflow, logStable, ldevFlush,
                 dStable>>
  BY <1>31 DEF GcDequeue
<1>32. ASSUME NEW i \in GcBios, GcDataError(i)
      PROVE  UNCHANGED <<clientVars, lsidVars, submitVars, logVars, waitVars, dataVars, gcVars,
                 ckptVars, boundVars, overflow, logStable, ldevFlush, dStable>>
  BY <1>32 DEF GcDataError
<1>33. ASSUME GcLogpacks
      PROVE  UNCHANGED <<clientVars, latest, completed, flush, permanent, prevWritten, oldest,
                 submitVars, logVars, waitVars, dataVars, gcTo, gcBatch, ckptVars,
                 boundVars, readOnly, overflow, logStable, ldevFlush, dStable>>
  BY <1>33 DEF GcLogpacks
<1>34. ASSUME CheckpointTask
      PROVE  UNCHANGED <<clientVars, lsidVars, submitVars, logVars, waitVars, dataVars, gcVars,
                 ckptOn, super, boundVars, readOnly, overflow, logStable, ldevFlush,
                 dStable>>
  BY <1>34 DEF CheckpointTask
<1>35. ASSUME NEW c \in Callers, SyncRefused(c)
      PROVE  UNCHANGED <<kind, ackedBefore, lsidVars, queuedFrom, sNext, logVars, waitVars,
                 dataVars, gcVars, super, ioFails, flushFails, readOnly, overflow,
                 logStable, ldevFlush, dStable>>
  BY <1>35 DEF SyncRefused
<1>36. ASSUME NEW c \in Callers, SyncTest(c)
      PROVE  UNCHANGED <<clientVars, lsidVars, submitVars, logVars, waitVars, dataVars, gcVars,
                 ckptOn, super, boundVars, readOnly, overflow, logStable, ldevFlush,
                 dStable>>
  BY <1>36 DEF SyncTest
<1>37. ASSUME NEW c \in Callers, SyncLoad(c)
      PROVE  UNCHANGED <<clientVars, lsidVars, submitVars, logVars, waitVars, dataVars, gcVars,
                 ckptOn, super, boundVars, readOnly, overflow, logStable, ldevFlush,
                 dStable>>
  BY <1>37 DEF SyncLoad
<1>38. ASSUME NEW c \in Callers, SyncWrite(c)
      PROVE  UNCHANGED <<clientVars, lsidVars, submitVars, logVars, waitVars, dataVars, gcVars,
                 ckptOn, boundVars, readOnly, overflow, logStable, ldevFlush>>
  BY <1>38 DEF SyncWrite
<1>39. ASSUME NEW c \in Callers, SyncDone(c)
      PROVE  UNCHANGED <<clientVars, latest, completed, flush, permanent, written, oldest,
                 queuedFrom, sNext, wpacks, isFlush, logVars, waitVars, dataVars, gcVars,
                 super, boundVars, readOnly, overflow, logStable, ldevFlush, dStable>>
  BY <1>39 DEF SyncDone, SyncReturn
<1>40. ASSUME NEW c \in Callers, SyncFail(c)
      PROVE  UNCHANGED <<kind, ackedBefore, lsidVars, queuedFrom, sNext, logVars, waitVars,
                 dataVars, gcVars, super, flushFails, noMems, overflow, logStable,
                 ldevFlush, dStable>>
  BY <1>40 DEF SyncFail
<1>u. UNCHANGED vars =>
        UNCHANGED <<clientVars, lsidVars, submitVars, logVars, waitVars, dataVars, gcVars,
                    ckptVars, boundVars, readOnly, overflow, logStable, ldevFlush, dStable>>
  BY DEF vars
<1> QED
  BY <1>1, <1>2, <1>3, <1>4, <1>5, <1>6, <1>7, <1>8, <1>9, <1>10, <1>11, <1>12,
     <1>13, <1>14, <1>15, <1>16, <1>17, <1>18, <1>19, <1>20, <1>21, <1>22, <1>23,
     <1>24, <1>25, <1>26, <1>27, <1>28, <1>29, <1>30, <1>31, <1>32, <1>33, <1>34,
     <1>35, <1>36, <1>37, <1>38, <1>39, <1>40, <1>u
  DEF Next, SubmitTask, WaitTask, DataTask, GcWorker, SyncSuperBlock

-----------------------------------------------------------------------------
(* Packs *)

\* The fields of a pack are numbers, sets of log IOs and flags.
LEMMA PackTypes ==
  ASSUME NEW p \in Packs
  PROVE  /\ p.lsid \in Nat /\ p.total \in Nat /\ p.nRec \in Nat /\ p.first \in Nat
         /\ p.last \in Nat /\ p.fua \in BOOLEAN /\ p.flushHeader \in BOOLEAN
         /\ p.newPermanent \in Nat /\ p.flushes \subseteq Int /\ NextLsid(p) \in Nat
BY DEF Packs, NextLsid

\* What TypeOK says of the elements of the lists.
LEMMA SeqTypes ==
  ASSUME TypeOK
  PROVE  /\ Len(kind) \in Nat /\ Bios = 1..Len(kind)
         /\ \A i \in Bios : kind[i] \in AllKinds /\ LogPb(kind[i]) \in 0..1
                            /\ biowLsid[i] \in Nat /\ EndOf(i) \in Nat
         /\ Len(packs) \in Nat /\ DOMAIN packs = 1..Len(packs)
         /\ \A k \in DOMAIN packs : packs[k] \in Packs
         /\ Len(wpacks) \in Nat /\ DOMAIN wpacks = 1..Len(wpacks)
         /\ \A k \in DOMAIN wpacks : wpacks[k] \in Packs
BY SMTT(40) DEF TypeOK, ClientTypes, SubmitTypes, LogTypes, Bios, LogPb, EndOf

\* create_writepack and the first record in it: the fields of the new pack.
LEMMA NewPackIs ==
  ASSUME ClientTypes, NEW lsid \in Nat, NEW i \in Bios
  PROVE  LET p == NewPack(lsid, i)
         IN  /\ p \in Packs
             /\ p.lsid = lsid /\ p.total = LogPb(kind[i]) /\ p.first = i /\ p.last = i
             /\ p.nRec = (IF HasData(kind[i]) THEN 1 ELSE 0)
             /\ p.fua = IsFua(kind[i]) /\ p.newPermanent = 0 /\ p.flushHeader = FALSE
BY DEF NewPack, Packs, ClientTypes, Bios, LogPb, IsFua, HasData

\* walb_logpack_header_add_bio: the fields of a pack that gets one more bio.
LEMMA AddToPackIs ==
  ASSUME ClientTypes, NEW p \in Packs, NEW i \in Bios
  PROVE  LET q == AddToPack(p, i)
         IN  /\ q \in Packs
             /\ q.lsid = p.lsid /\ q.total = p.total + LogPb(kind[i]) /\ q.nRec = p.nRec + 1
             /\ q.first = p.first /\ q.last = i
             /\ q.fua = (p.fua \/ IsFua(kind[i]))
             /\ q.newPermanent = p.newPermanent /\ q.flushHeader = p.flushHeader
<1>1. IsFua(kind[i]) \in BOOLEAN /\ LogPb(kind[i]) \in Nat /\ i \in Nat
  BY DEF ClientTypes, Bios, LogPb, IsFua
<1> DEFINE fua == p.fua \/ IsFua(kind[i])
           q == AddToPack(p, i)
<1>2. fua \in BOOLEAN
  OBVIOUS
<1>3. q = [p EXCEPT !.total = @ + LogPb(kind[i]), !.nRec = @ + 1, !.last = i, !.fua = fua]
  BY DEF AddToPack
<1> HIDE DEF fua, q
<1>4. q.fua = fua
  BY <1>2, <1>3 DEF Packs
<1>5. /\ q.lsid = p.lsid /\ q.total = p.total + LogPb(kind[i]) /\ q.nRec = p.nRec + 1
      /\ q.first = p.first /\ q.last = i
      /\ q.newPermanent = p.newPermanent /\ q.flushHeader = p.flushHeader
  BY <1>3 DEF Packs
<1>6. q = [lsid |-> q.lsid, total |-> q.total, nRec |-> q.nRec, first |-> q.first, last |-> q.last, fua |-> q.fua, flushHeader |-> q.flushHeader, newPermanent |-> q.newPermanent, flushes |-> q.flushes] /\ q.flushes = p.flushes
  BY <1>3 DEF Packs
<1>7. q \in Packs
  BY <1>1, <1>2, <1>4, <1>5, <1>6, PackTypes DEF Packs
<1> QED
  BY <1>4, <1>5, <1>7 DEF fua, q

-----------------------------------------------------------------------------
(* What the steps on lists of packs do *)

\* Pack p is a new one that holds the next bio of biow_list ...
Starts(p) ==
  /\ wpacks' = Append(wpacks, p)
  /\ p.lsid = (IF Len(wpacks) = 0 THEN latest ELSE EndOfWpacks)
  /\ p.total = LogPb(kind[sNext]) /\ p.first = sNext
  /\ p.nRec = (IF HasData(kind[sNext]) THEN 1 ELSE 0)
  /\ p.fua = IsFua(kind[sNext]) /\ p.newPermanent = 0

\* ... or pack q with that bio added.
Extends(p, q) ==
  /\ wpacks' = [wpacks EXCEPT ![Len(wpacks)] = p]
  /\ q.nRec # 0 /\ HasData(kind[sNext]) /\ p.nRec = q.nRec + 1
  /\ p.lsid = q.lsid /\ p.total = q.total + LogPb(kind[sNext]) /\ p.first = q.first
  /\ p.fua = (q.fua \/ IsFua(kind[sNext])) /\ p.newPermanent = q.newPermanent

\* Either way its log starts at x.
Places(p, x) ==
  /\ p \in Packs /\ x \in Nat
  /\ p.last = sNext
  /\ biowLsid' = [biowLsid EXCEPT ![sNext] = x]
  /\ HasData(kind[sNext]) => x = p.lsid + 1 + p.total - LogPb(kind[sNext])

\* writepack_add_bio_wrapper makes a new pack p or adds to the last one.
LEMMA AddBioWrapperDoes ==
  ASSUME LogInv, AddBioWrapper
  PROVE  /\ sPc = "create" /\ sNext \in Bios /\ sNext < queuedFrom /\ sNext' = sNext + 1
         /\ \E p, x : /\ Places(p, x)
                      /\ \/ Starts(p)
                         \/ /\ Len(wpacks) \in DOMAIN wpacks
                            /\ Extends(p, wpacks[Len(wpacks)])
<1> DEFINE n == Len(wpacks)
           k == kind[sNext]
           new == n = 0 \/ NeedsNewPack(wpacks[n], k)
           start == IF n = 0 THEN latest ELSE EndOfWpacks
<1>1. /\ sPc = "create" /\ sNext \in Bios /\ sNext < queuedFrom /\ sNext' = sNext + 1
  BY SeqTypes DEF AddBioWrapper, LogInv, TypeOK, Ranges, SubmitTypes, ClientTypes, Bios
<1>2. k \in AllKinds /\ LogPb(k) \in 0..1 /\ biowLsid[sNext] \in Nat
  BY <1>1, SeqTypes DEF LogInv
<1>3. n \in Nat /\ (n # 0 => n \in DOMAIN wpacks /\ wpacks[n] \in Packs)
  BY SeqTypes DEF LogInv
<1>4. start \in Nat
  BY <1>3, PackTypes DEF LogInv, TypeOK, LsidTypes, EndOfWpacks
<1>5. ASSUME NEW p \in Packs, p.last = sNext, p.total >= LogPb(k),
             biowLsid' = [biowLsid EXCEPT ![sNext] =
                            IF HasData(k) THEN RecordLsid(p, k) ELSE biowLsid[sNext]]
      PROVE  \E x : Places(p, x)
  <2> DEFINE x == IF HasData(k) THEN RecordLsid(p, k) ELSE biowLsid[sNext]
  <2>1. RecordLsid(p, k) = p.lsid + 1 + p.total - LogPb(k) /\ RecordLsid(p, k) \in Nat
    BY <1>2, <1>5, PackTypes DEF RecordLsid
  <2>2. Places(p, x)
    BY <1>2, <1>5, <2>1 DEF Places
  <2> QED
    BY <2>2
<1>6. CASE new
  <2> DEFINE p == NewPack(start, sNext)
  <2>1. /\ wpacks' = Append(wpacks, p)
        /\ biowLsid' = [biowLsid EXCEPT ![sNext] =
                          IF HasData(k) THEN RecordLsid(p, k) ELSE biowLsid[sNext]]
    BY <1>6 DEF AddBioWrapper, EndOfWpacks
  <2> HIDE DEF start
  <2>2. /\ p \in Packs
        /\ p.lsid = start /\ p.total = LogPb(k) /\ p.first = sNext /\ p.last = sNext
        /\ p.nRec = (IF HasData(k) THEN 1 ELSE 0)
        /\ p.fua = IsFua(k) /\ p.newPermanent = 0
    <3>1. ClientTypes
      BY DEF LogInv, TypeOK
    <3>2. sNext \in Bios
      BY <1>1
    <3>3. p.fua = IsFua(k)
      BY DEF NewPack
    <3> QED
      BY <1>4, <3>1, <3>2, <3>3, NewPackIs, SMTT(40), ZenonT(40)
  <2> HIDE DEF p
  <2>3. Starts(p)
    BY <2>1, <2>2 DEF Starts, start
  <2>4. p.total >= LogPb(k)
    BY <1>2, <2>2
  <2>5. \E x : Places(p, x)
    BY <1>5, <2>1, <2>2, <2>4
  <2> QED
    BY <1>1, <2>3, <2>5
<1>7. CASE ~new
  <2> DEFINE p == AddToPack(wpacks[n], sNext)
  <2>1. /\ wpacks' = [wpacks EXCEPT ![n] = p]
        /\ biowLsid' = [biowLsid EXCEPT ![sNext] =
                          IF HasData(k) THEN RecordLsid(p, k) ELSE biowLsid[sNext]]
    BY <1>7 DEF AddBioWrapper
  <2>2. n \in DOMAIN wpacks /\ wpacks[n] \in Packs
    BY <1>3, <1>7
  <2>3. wpacks[n].nRec # 0 /\ HasData(k)
    BY <1>7 DEF NeedsNewPack, HasFlush, HasData
  <2>4. /\ p \in Packs /\ p.lsid = wpacks[n].lsid /\ p.total = wpacks[n].total + LogPb(k)
        /\ p.nRec = wpacks[n].nRec + 1 /\ p.first = wpacks[n].first /\ p.last = sNext
        /\ p.fua = (wpacks[n].fua \/ IsFua(k)) /\ p.newPermanent = wpacks[n].newPermanent
    BY <1>1, <2>2, AddToPackIs DEF LogInv, TypeOK
  <2>5. p.total >= LogPb(k)
    BY <1>2, <2>2, <2>4, PackTypes
  <2> HIDE DEF p
  <2>6. Extends(p, wpacks[n])
    BY <2>1, <2>3, <2>4 DEF Extends
  <2>7. \E x : Places(p, x)
    BY <1>5, <2>1, <2>4, <2>5
  <2> QED
    BY <1>1, <2>2, <2>6, <2>7
<1> QED
  BY <1>6, <1>7

\* Two packs with the same bios at the same place.
SamePack(p, q) ==
  /\ p.lsid = q.lsid /\ p.total = q.total /\ p.nRec = q.nRec /\ p.first = q.first
  /\ p.last = q.last /\ p.fua = q.fua

\* Storing the lsids marks the first pack.
LEMMA StoreLsidsDoes ==
  ASSUME LogInv, NEW e \in BOOLEAN, StoreLsids(e)
  PROVE  /\ sPc = "create" /\ sNext = queuedFrom /\ sPc' = "ring" /\ wpacks # <<>>
         /\ wpacks' \in Seq(Packs) /\ Len(wpacks') = Len(wpacks)
         /\ \A k \in 1..Len(wpacks) : /\ SamePack(wpacks'[k], wpacks[k])
                                      /\ wpacks'[k].newPermanent <= flush'
         /\ latest' = EndOfWpacks /\ EndOfWpacks \in Nat
         /\ flush' \in {flush, completed} /\ flush <= flush' /\ flush' <= completed
<1>1. /\ sPc = "create" /\ sNext = queuedFrom /\ sPc' = "ring"
      /\ latest' = EndOfWpacks
  BY DEF StoreLsids, Created
<1>a. sNext \in Nat /\ wpacks # <<>>
  BY <1>1 DEF LogInv, Ranges, TypeOK, SubmitTypes
<1>2. /\ Len(wpacks) \in Nat \ {0} /\ DOMAIN wpacks = 1..Len(wpacks)
      /\ \A k \in 1..Len(wpacks) : wpacks[k] \in Packs
      /\ wpacks \in Seq(Packs)
      /\ flush \in Nat /\ completed \in Nat /\ flush <= completed
  BY <1>1, <1>a, SeqTypes DEF LogInv, TypeOK, SubmitTypes, LsidTypes, Following
<1>3. EndOfWpacks \in Nat
  BY <1>2, PackTypes DEF EndOfWpacks
<1>4. \A k \in 1..Len(wpacks) : wpacks[k].newPermanent <= flush /\ SamePack(wpacks[k], wpacks[k])
                                /\ wpacks[k].newPermanent \in Nat
  BY <1>2, PackTypes DEF LogInv, Following, SamePack
<1>5. CASE UNCHANGED <<wpacks, flush>>
  BY <1>1, <1>a, <1>2, <1>3, <1>4, <1>5
<1>6. CASE /\ wpacks' = [wpacks EXCEPT ![1] =
                           [@ EXCEPT !.flushHeader = TRUE, !.newPermanent = completed]]
           /\ flush' = MaxOf(flush, completed)
  <2> DEFINE p == [wpacks[1] EXCEPT !.flushHeader = TRUE, !.newPermanent = completed]
  <2>1. wpacks' = [wpacks EXCEPT ![1] = p] /\ wpacks[1] \in Packs
    BY <1>2, <1>6
  <2>2. p \in Packs /\ SamePack(p, wpacks[1]) /\ p.newPermanent = completed
    BY <1>2, <2>1 DEF Packs, SamePack
  <2> HIDE DEF p
  <2>3. /\ wpacks' \in Seq(Packs) /\ Len(wpacks') = Len(wpacks)
        /\ \A k \in 1..Len(wpacks) : wpacks'[k] = IF k = 1 THEN p ELSE wpacks[k]
    BY <1>2, <2>1, <2>2, ExceptSeq
  <2>4. flush' = completed
    BY <1>2, <1>6 DEF MaxOf
  <2> QED
    BY <1>1, <1>a, <1>2, <1>3, <1>4, <2>2, <2>3, <2>4
<1> QED
  BY <1>5, <1>6 DEF StoreLsids

\* submit_logpack_list: the packs built follow those on the log device.
LEMMA SubmitLogpacksDoes ==
  ASSUME LogInv, SubmitLogpacks
  PROVE  /\ sPc = "ring" /\ sPc' = "idle" /\ wpacks' = <<>>
         /\ packs' \in Seq(Packs) /\ Len(packs') = Len(packs) + Len(wpacks)
         /\ \A k \in 1..Len(packs) : packs'[k] = packs[k]
         /\ \A k \in 1..Len(wpacks) :
              LET q == packs'[Len(packs) + k]
              IN  /\ SamePack(q, wpacks[k]) /\ q.newPermanent = wpacks[k].newPermanent
                  /\ q.flushHeader = wpacks[k].flushHeader
                  /\ HeaderShouldFlush(q) => q.flushes = logDone
<1> DEFINE f(p) == IF HeaderShouldFlush(p) THEN [p EXCEPT !.flushes = logDone] ELSE p
           s == [k \in DOMAIN wpacks |-> f(wpacks[k])]
<1>1. sPc = "ring" /\ sPc' = "idle" /\ wpacks' = <<>> /\ packs' = packs \o s
  BY DEF SubmitLogpacks, SubmitReturn
<1>2. /\ Len(wpacks) \in Nat /\ DOMAIN wpacks = 1..Len(wpacks)
      /\ \A k \in 1..Len(wpacks) : wpacks[k] \in Packs
      /\ Len(packs) \in Nat /\ packs \in Seq(Packs) /\ logDone \subseteq Int
  BY SeqTypes DEF LogInv, TypeOK, LogTypes
<1>3. ASSUME NEW p \in Packs
      PROVE  /\ f(p) \in Packs /\ SamePack(f(p), p) /\ f(p).newPermanent = p.newPermanent
             /\ f(p).flushHeader = p.flushHeader
             /\ HeaderShouldFlush(f(p)) => f(p).flushes = logDone
  <2>1. CASE ~HeaderShouldFlush(p)
    BY <2>1 DEF SamePack
  <2>2. CASE HeaderShouldFlush(p)
    <3> DEFINE q == [p EXCEPT !.flushes = logDone]
    <3>1. /\ q \in Packs /\ SamePack(q, p) /\ q.newPermanent = p.newPermanent
          /\ q.flushHeader = p.flushHeader /\ q.flushes = logDone
      BY <1>2 DEF Packs, SamePack
    <3> QED
      BY <2>2, <3>1
  <2> QED
    BY <2>1, <2>2
<1> HIDE DEF f
<1>4. s \in Seq(Packs) /\ Len(s) = Len(wpacks) /\ \A k \in 1..Len(wpacks) : s[k] = f(wpacks[k])
  BY <1>2, <1>3
<1> HIDE DEF s
<1>5. /\ packs' \in Seq(Packs) /\ Len(packs') = Len(packs) + Len(wpacks)
      /\ \A k \in 1..Len(packs) + Len(wpacks) :
           packs'[k] = IF k <= Len(packs) THEN packs[k] ELSE s[k - Len(packs)]
  <2>1. /\ packs \o s \in Seq(Packs) /\ Len(packs \o s) = Len(packs) + Len(s)
        /\ \A k \in 1..Len(packs) + Len(s) :
             (packs \o s)[k] = IF k <= Len(packs) THEN packs[k] ELSE s[k - Len(packs)]
    BY <1>2, <1>4, ConcatProperties
  <2> QED
    BY <1>1, <1>4, <2>1
<1>6. \A k \in 1..Len(packs) : packs'[k] = packs[k]
  BY <1>2, <1>5
<1>7. \A k \in 1..Len(wpacks) : packs'[Len(packs) + k] = f(wpacks[k])
  BY <1>2, <1>4, <1>5
<1> QED
  BY <1>1, <1>2, <1>3, <1>5, <1>6, <1>7

\* The submit task gives up: the error exits of create_logpack_list.
GivesUp ==
  /\ sPc # "idle" /\ wpacks # <<>> /\ sPc' = "idle" /\ wpacks' = <<>>
  /\ Fail(wpacks[1].first, queuedFrom - 1)
  /\ isFlush' = FALSE /\ seen' = NoLsids

\* Who takes them.
LEMMA WhoGivesUp ==
  ASSUME LogInv
  PROVE  /\ RefuseOverflow \/ RingReadOnly => GivesUp
         /\ \A c \in Callers : SyncRefused(c) \/ SyncFail(c) =>
              GivesUp \/ UNCHANGED <<answer, sPc, wpacks, isFlush, seen>>
<1>0. sNext \in Nat
  BY DEF LogInv, TypeOK, SubmitTypes
<1>1. RefuseOverflow \/ RingReadOnly => GivesUp
  <2>1. Created \/ sPc = "ring" => wpacks # <<>>
    BY <1>0 DEF Created, LogInv, Ranges, RingLoop
  <2> QED
    BY <2>1 DEF RefuseOverflow, RingReadOnly, Created, SubmitError, SubmitReturn, GivesUp
<1>2. ASSUME NEW c \in Callers, SyncRefused(c) \/ SyncFail(c)
      PROVE  GivesUp \/ UNCHANGED <<answer, sPc, wpacks, isFlush, seen>>
  <2>1. c = "submit" => sPc = "sync" /\ wpacks # <<>>
    BY <1>2 DEF SyncRefused, SyncFail, LogInv, Ranges, RingLoop
  <2> QED
    BY <1>2, <2>1 DEF SyncRefused, SyncFail, SyncReturn, SubmitError, SubmitReturn, GivesUp
<1> QED
  BY <1>1, <1>2

-----------------------------------------------------------------------------
(* Types *)

\* A list of bios fails: the shape of answer is kept.
LEMMA FailTypes ==
  ASSUME ClientTypes, NEW i, NEW j, Fail(i, j)
  PROVE  answer' \in Seq({"none", "ok", "error"}) /\ Len(answer') = Len(kind)
BY DEF ClientTypes, Fail, Bios

\* The wait task answers bios that were sent.
LEMMA WaitBioSent ==
  ASSUME LogInv, wPc # "idle"
  PROVE  /\ wPack \in DOMAIN packs /\ packs[wPack] \in Packs /\ PackOK(packs[wPack])
         /\ wBio \in Nat
         /\ wBio <= packs[wPack].last => wBio \in Bios
<1>1. wPack \in 1..Len(packs)
  BY SeqTypes DEF LogInv, TypeOK, WaitTypes, Ranges
<1>2. wPack \in DOMAIN packs /\ packs[wPack] \in Packs
  BY <1>1, SeqTypes DEF LogInv
<1>3. PackOK(packs[wPack]) /\ wBio \in Nat
  BY <1>2 DEF LogInv, Layout, TypeOK, WaitTypes
<1> QED
  BY <1>2, <1>3, PackTypes, SeqTypes DEF LogInv, Waiting, PackOK, PackIn

\* The requests and their answers keep their types.
LEMMA ClientTypesKept ==
  ASSUME LogInv, [Next]_vars
  PROVE  ClientTypes'
<1>0. ClientTypes
  BY DEF LogInv, TypeOK
<1>1. ASSUME NEW k \in Kinds, MakeRequest(k) PROVE ClientTypes'
  BY <1>0, <1>1, LogAssumption DEF MakeRequest, ClientTypes, Bios
<1>2. ASSUME AddBioWrapper PROVE ClientTypes'
  <2>1. PICK p, x : Places(p, x) /\ sNext \in Bios
    BY <1>2, AddBioWrapperDoes
  <2>2. UNCHANGED <<kind, answer, ackedBefore>>
    BY <1>2 DEF AddBioWrapper, clientVars
  <2>3. biowLsid' \in Seq(Nat) /\ Len(biowLsid') = Len(biowLsid)
    BY <1>0, <2>1, ExceptSeq DEF Places, ClientTypes, Bios
  <2> QED
    BY <1>0, <2>2, <2>3 DEF ClientTypes
<1>3. ASSUME SubmitDequeueReadOnly \/ RefuseOverflow \/ RingReadOnly PROVE ClientTypes'
  BY <1>0, <1>3, FailTypes
  DEF SubmitDequeueReadOnly, RefuseOverflow, RingReadOnly, SubmitError, ClientTypes, logVars
<1>4. ASSUME NEW a \in {"ok", "error"}, answer' = [answer EXCEPT ![wBio] = a],
             wBio \in Bios, UNCHANGED <<kind, ackedBefore, biowLsid>>
      PROVE  ClientTypes'
  BY <1>0, <1>4, ExceptSeq DEF ClientTypes, Bios
<1>5. ASSUME WaitBioError \/ WaitBioOk \/ \E ok \in BOOLEAN : WaitFuaFlushed(ok)
      PROVE  ClientTypes'
  <2>1. wPc # "idle" /\ wBio <= packs[wPack].last
    BY <1>5 DEF WaitBioError, WaitBioOk, WaitFuaFlushed, WaitingForBio, LogInv, Waiting
  <2>2. wBio \in Bios
    BY <2>1, WaitBioSent
  <2> QED
    BY <1>4, <1>5, <2>2 DEF WaitBioError, WaitBioOk, WaitFuaFlushed, Ack, logVars
<1>6. ASSUME NEW c \in Callers, SyncRefused(c) \/ SyncFail(c) PROVE ClientTypes'
  <2>1. UNCHANGED answer \/ Fail(wpacks[1].first, queuedFrom - 1)
    BY <1>6 DEF SyncRefused, SyncFail, SyncReturn, SubmitError
  <2> QED
    BY <1>0, <1>6, <2>1, FailTypes DEF SyncRefused, SyncFail, ClientTypes, logVars
<1>7. CASE UNCHANGED <<kind, answer, ackedBefore, biowLsid>>
  BY <1>0, <1>7 DEF ClientTypes
<1> QED
  BY <1>1, <1>2, <1>3, <1>5, <1>6, <1>7, Writers

\* The lsids of lsid_set keep their types.
LEMMA LsidTypesKept ==
  ASSUME LogInv, [Next]_vars
  PROVE  LsidTypes'
<1>0. /\ LsidTypes /\ LogTypes /\ WaitTypes /\ SyncTypes
      /\ \A t \in {"submit", "wait", "data"} : ldevFlush[t].lsid \in Nat
      /\ \A c \in Callers : sync[c].written \in Nat /\ sync[c].oldest \in Nat
  BY DEF LogInv, TypeOK, LogTypes, SyncTypes, Flushes
<1>1. latest' \in Nat
  <2>1. ASSUME NEW e \in BOOLEAN, StoreLsids(e) PROVE latest' \in Nat
    BY <2>1, StoreLsidsDoes
  <2> QED
    BY <1>0, <2>1, Writers DEF LsidTypes
<1>2. completed' \in Nat
  <2>1. ASSUME WaitBioFua PROVE completed' \in Nat
    <3>1. wBio \in Bios
      BY <2>1, WaitBioSent DEF WaitBioFua, WaitingForBio
    <3> QED
      BY <2>1, <3>1, SeqTypes DEF WaitBioFua, LogInv, EndOf
  <2>2. ASSUME WaitPackEnd PROVE completed' \in Nat
    BY <1>0, <2>2, WaitBioSent, PackTypes DEF WaitPackEnd, CompletedAfter, LsidTypes
  <2> QED
    BY <1>0, <2>1, <2>2, Writers DEF LsidTypes
<1>3. flush' \in Nat
  <2>1. ASSUME RingForceFlush \/ WaitBioFua \/ DataForceFlush PROVE flush' \in Nat
    BY <1>0, <1>2, <2>1
    DEF RingForceFlush, WaitBioFua, DataForceFlush, FlushBegin, LsidTypes, MaxOf
  <2>2. ASSUME NEW e \in BOOLEAN, StoreLsids(e) PROVE flush' \in Nat
    BY <1>0, <2>2, StoreLsidsDoes DEF LsidTypes
  <2> QED
    BY <1>0, <2>1, <2>2, Writers DEF LsidTypes
<1>4. permanent' \in Nat
  <2>1. ASSUME NEW ok \in BOOLEAN, RingFlushed(ok) \/ WaitFuaFlushed(ok) \/ DataFlushed(ok)
        PROVE  permanent' \in Nat
    BY <1>0, <2>1 DEF RingFlushed, WaitFuaFlushed, DataFlushed, FlushEnd, LsidTypes, MaxOf
  <2>2. ASSUME WaitHeader PROVE permanent' \in Nat
    <3>1. packs[wPack].newPermanent \in Nat
      BY <2>2, WaitBioSent, PackTypes DEF WaitHeader
    <3> QED
      BY <1>0, <2>2, <3>1 DEF WaitHeader, LsidTypes, MaxOf
  <2> QED
    BY <1>0, <2>1, <2>2, Writers DEF LsidTypes
<1>5. written' \in Nat
  <2>1. ASSUME GcLogpacks PROVE written' \in Nat
    <3>1. gcBatch \in DOMAIN packs
      BY <1>0, <2>1, SeqTypes DEF GcLogpacks, LogInv, Ranges, WaitTypes
    <3> QED
      BY <2>1, <3>1, SeqTypes, PackTypes DEF GcLogpacks, LogInv
  <2> QED
    BY <1>0, <2>1, Writers DEF LsidTypes
<1>6. prevWritten' \in Nat
  <2>1. ASSUME NEW c \in Callers, SyncDone(c) PROVE prevWritten' \in Nat
    BY <1>0, <2>1 DEF SyncDone
  <2> QED
    BY <1>0, <2>1, Writers DEF LsidTypes
<1>7. oldest' \in Nat
  <2>1. ASSUME SetOldestStore PROVE oldest' \in Nat
    BY <1>0, <2>1 DEF SetOldestStore, Callers
  <2> QED
    BY <1>0, <2>1, Writers DEF LsidTypes
<1> QED
  BY <1>1, <1>2, <1>3, <1>4, <1>5, <1>6, <1>7 DEF LsidTypes

\* The lists of the submit task keep their types.
LEMMA SubmitTypesKept ==
  ASSUME LogInv, [Next]_vars
  PROVE  SubmitTypes'
<1>0. /\ SubmitTypes /\ LsidTypes /\ SyncTypes /\ Len(kind) \in Nat
      /\ \A c \in Callers : sync[c].written \in Nat
  BY SeqTypes DEF LogInv, TypeOK, SyncTypes
<1>a. ASSUME \/ RefuseOverflow \/ RingReadOnly \/ SubmitLogpacks
             \/ \E c \in Callers : SyncRefused(c) \/ SyncFail(c)
      PROVE  \/ sPc' = "idle" /\ wpacks' = <<>> /\ isFlush' = FALSE /\ seen' = NoLsids
             \/ UNCHANGED <<sPc, wpacks, isFlush, seen>>
  BY <1>a, WhoGivesUp DEF GivesUp, SubmitLogpacks, SubmitReturn
<1>1. sPc' \in {"idle", "create", "ring", "flush", "sync"}
  <2>1. ASSUME \/ SubmitDequeue \/ SubmitLogpacks \/ RingForceFlush \/ RingTakeCheckpoint
               \/ \E e \in BOOLEAN : StoreLsids(e)
               \/ \E ok \in BOOLEAN : RingFlushed(ok)
        PROVE  sPc' \in {"idle", "create", "ring", "flush", "sync"}
    BY <2>1 DEF SubmitDequeue, SubmitLogpacks, RingForceFlush, RingTakeCheckpoint, StoreLsids,
                RingFlushed, SubmitReturn
  <2>2. ASSUME \/ RefuseOverflow \/ RingReadOnly
               \/ \E c \in Callers : SyncRefused(c) \/ SyncFail(c)
        PROVE  sPc' \in {"idle", "create", "ring", "flush", "sync"}
    BY <1>0, <1>a, <2>2 DEF SubmitTypes
  <2>3. ASSUME NEW c \in Callers, SyncDone(c)
        PROVE  sPc' \in {"idle", "create", "ring", "flush", "sync"}
    BY <1>0, <2>3 DEF SyncDone, SyncReturn, SubmitTypes
  <2> QED
    BY <1>0, <2>1, <2>2, <2>3, Writers DEF SubmitTypes
<1>2. queuedFrom' \in Nat
  <2>1. ASSUME SubmitDequeue \/ SubmitDequeueReadOnly PROVE queuedFrom' \in Nat
    BY <1>0, <2>1, LogAssumption DEF SubmitDequeue, SubmitDequeueReadOnly, SubmitTypes, MinOf
  <2> QED
    BY <1>0, <2>1, Writers DEF SubmitTypes
<1>3. sNext' \in Nat
  BY <1>0, Writers DEF SubmitDequeue, AddBioWrapper, SubmitTypes
<1>4. isFlush' \in BOOLEAN
  <2>1. ASSUME AddBioWrapper PROVE isFlush' \in BOOLEAN
    BY <1>0, <2>1 DEF AddBioWrapper, SubmitTypes
  <2>2. ASSUME \/ RefuseOverflow \/ RingReadOnly \/ SubmitLogpacks
               \/ \E c \in Callers : SyncRefused(c) \/ SyncFail(c)
        PROVE  isFlush' \in BOOLEAN
    BY <1>0, <1>a, <2>2 DEF SubmitTypes
  <2> QED
    BY <1>0, <2>1, <2>2, Writers DEF SubmitTypes
<1>5. seen' \in [completed : Nat, flush : Nat, written : Nat, prevWritten : Nat, oldest : Nat]
  <2>1. ASSUME SubmitDequeue
        PROVE  seen' \in [completed : Nat, flush : Nat, written : Nat, prevWritten : Nat,
                          oldest : Nat]
    BY <1>0, <2>1 DEF SubmitDequeue, LsidTypes
  <2>2. ASSUME \/ RefuseOverflow \/ RingReadOnly \/ SubmitLogpacks
               \/ \E c \in Callers : SyncRefused(c) \/ SyncFail(c)
        PROVE  seen' \in [completed : Nat, flush : Nat, written : Nat, prevWritten : Nat,
                          oldest : Nat]
    <3>1. seen' = NoLsids \/ seen' = seen
      BY <1>a, <2>2
    <3> QED
      BY <1>0, <3>1 DEF SubmitTypes, NoLsids
  <2>3. ASSUME NEW prev \in Nat, Reload(prev)
        PROVE  seen' \in [completed : Nat, flush : Nat, written : Nat, prevWritten : Nat,
                          oldest : Nat]
    BY <1>0, <2>3 DEF Reload, SubmitTypes, LsidTypes
  <2>4. ASSUME NEW c \in Callers, SyncDone(c)
        PROVE  seen' \in [completed : Nat, flush : Nat, written : Nat, prevWritten : Nat,
                          oldest : Nat]
    BY <1>0, <2>3, <2>4 DEF SyncDone, SyncReturn, SubmitTypes
  <2>5. ASSUME RingSkipCheckpoint \/ \E ok \in BOOLEAN : RingFlushed(ok)
        PROVE  seen' \in [completed : Nat, flush : Nat, written : Nat, prevWritten : Nat,
                          oldest : Nat]
    BY <1>0, <2>3, <2>5 DEF RingSkipCheckpoint, RingFlushed, LsidTypes
  <2> QED
    BY <1>0, <2>1, <2>2, <2>4, <2>5, Writers DEF SubmitTypes
<1>6. wpacks' \in Seq(Packs)
  <2>1. ASSUME AddBioWrapper PROVE wpacks' \in Seq(Packs)
    <3>1. PICK p, x : Places(p, x) /\ \/ Starts(p)
                                      \/ /\ Len(wpacks) \in DOMAIN wpacks
                                         /\ Extends(p, wpacks[Len(wpacks)])
      BY <2>1, AddBioWrapperDoes
    <3>2. p \in Packs
      BY <3>1 DEF Places
    <3>3. wpacks \in Seq(Packs)
      BY <1>0 DEF SubmitTypes
    <3>4. CASE wpacks' = Append(wpacks, p)
      BY <3>2, <3>3, <3>4, AppendProperties
    <3>5. CASE Len(wpacks) \in DOMAIN wpacks /\ wpacks' = [wpacks EXCEPT ![Len(wpacks)] = p]
      BY <3>2, <3>3, <3>5, ExceptSeq
    <3> QED
      BY <3>1, <3>4, <3>5 DEF Starts, Extends
  <2>2. ASSUME NEW e \in BOOLEAN, StoreLsids(e) PROVE wpacks' \in Seq(Packs)
    BY <2>2, StoreLsidsDoes
  <2>3. ASSUME \/ RefuseOverflow \/ RingReadOnly \/ SubmitLogpacks
               \/ \E c \in Callers : SyncRefused(c) \/ SyncFail(c)
        PROVE  wpacks' \in Seq(Packs)
    <3>1. wpacks' = <<>> \/ wpacks' = wpacks
      BY <1>a, <2>3
    <3> QED
      BY <1>0, <3>1, EmptySeq DEF SubmitTypes
  <2> QED
    BY <1>0, <2>1, <2>2, <2>3, Writers DEF SubmitTypes
<1> QED
  BY <1>1, <1>2, <1>3, <1>4, <1>5, <1>6 DEF SubmitTypes

\* The packs and IOs of the log device keep their types.
LEMMA LogTypesKept ==
  ASSUME LogInv, [Next]_vars
  PROVE  LogTypes'
<1>0. /\ LogTypes /\ LsidTypes /\ SubmitTypes /\ completed' \in Nat
      /\ \A k \in DOMAIN packs : packs[k].flushes \subseteq Int
      /\ \A t \in {"submit", "wait", "data"} : ldevFlush[t].ios \subseteq Int
  BY LsidTypesKept, SeqTypes, PackTypes DEF LogInv, TypeOK, LsidTypes, LogTypes, Flushes
<1>1. packs' \in Seq(Packs)
  BY <1>0, SubmitLogpacksDoes, Writers DEF LogTypes
<1>2. logIo' \subseteq Int
  <2>1. ASSUME SubmitLogpacks PROVE logIo' \subseteq Int
    <3>1. ASSUME NEW k \in DOMAIN wpacks PROVE IosOf(wpacks[k]) \subseteq Int
      BY <3>1, SeqTypes, PackTypes DEF IosOf, HeaderIo, LogInv
    <3> QED
      BY <1>0, <2>1, <3>1 DEF SubmitLogpacks, LogTypes
  <2> QED
    BY <1>0, <2>1, Writers DEF LogTypes
<1>3. logDone' \subseteq Int /\ logFailed' \subseteq Int
  BY <1>0, Writers DEF LogTypes, LogIoDone, LogIoFail
<1>4. logStable' \subseteq Int
  <2>1. ASSUME NEW ok \in BOOLEAN, RingFlushed(ok) \/ WaitFuaFlushed(ok) \/ DataFlushed(ok)
        PROVE  logStable' \subseteq Int
    BY <1>0, <2>1 DEF RingFlushed, WaitFuaFlushed, DataFlushed, FlushEnd, LogTypes
  <2>2. ASSUME NEW io \in logIo, LogIoDone(io) PROVE logStable' \subseteq Int
    BY <1>0, <2>2 DEF LogIoDone, LogTypes
  <2> QED
    BY <1>0, <2>1, <2>2, Writers DEF LogTypes
<1>5. ldevFlush' \in [{"submit", "wait", "data"} -> Flushes]
  <2>1. ASSUME NEW t \in {"submit", "wait", "data"}, NEW comp \in Nat, FlushBegin(t, comp)
        PROVE  ldevFlush' \in [{"submit", "wait", "data"} -> Flushes]
    BY <1>0, <2>1 DEF FlushBegin, LogTypes, Flushes
  <2>2. ASSUME NEW t \in {"submit", "wait", "data"}, NEW ok \in BOOLEAN, FlushEnd(t, ok)
        PROVE  ldevFlush' \in [{"submit", "wait", "data"} -> Flushes]
    BY <1>0, <2>2 DEF FlushEnd, LogTypes, Flushes, NoFlush
  <2>3. ASSUME RingForceFlush \/ WaitBioFua \/ DataForceFlush
        PROVE  ldevFlush' \in [{"submit", "wait", "data"} -> Flushes]
    BY <1>0, <2>1, <2>3 DEF RingForceFlush, WaitBioFua, DataForceFlush, LsidTypes
  <2>4. ASSUME NEW ok \in BOOLEAN, RingFlushed(ok) \/ WaitFuaFlushed(ok) \/ DataFlushed(ok)
        PROVE  ldevFlush' \in [{"submit", "wait", "data"} -> Flushes]
    BY <2>2, <2>4 DEF RingFlushed, WaitFuaFlushed, DataFlushed
  <2> QED
    BY <1>0, <2>3, <2>4, Writers DEF LogTypes
<1> QED
  BY <1>1, <1>2, <1>3, <1>4, <1>5 DEF LogTypes

\* The state of the log wait task keeps its types.
LEMMA WaitTypesKept ==
  ASSUME LogInv, [Next]_vars
  PROVE  WaitTypes'
<1>0. WaitTypes /\ SyncTypes /\ Len(packs) \in Nat
  BY SeqTypes DEF LogInv, TypeOK
<1>1. wPc' \in {"idle", "header", "bio", "fua"}
  <2>1. ASSUME \/ WaitStart \/ WaitHeader \/ WaitBioFua \/ WaitPackEnd
               \/ \E ok \in BOOLEAN : WaitFuaFlushed(ok)
        PROVE  wPc' \in {"idle", "header", "bio", "fua"}
    BY <2>1 DEF WaitStart, WaitHeader, WaitBioFua, WaitPackEnd, WaitFuaFlushed
  <2> QED
    BY <1>0, <2>1, Writers DEF WaitTypes
<1>2. wTo' \in Nat /\ wPack' \in Nat
  BY <1>0, Writers, LogAssumption DEF WaitStart, WaitTypes, MinOf
<1>3. wBio' \in Nat
  <2>1. ASSUME WaitStart PROVE wBio' \in Nat
    <3>1. wPack + 1 \in DOMAIN packs
      BY <1>0, <2>1, LogAssumption, SeqTypes DEF WaitStart, WaitTypes, MinOf, LogInv, Ranges
    <3> QED
      BY <2>1, <3>1, SeqTypes, PackTypes DEF WaitStart, LogInv
  <2>2. ASSUME WaitBioError \/ WaitBioOk \/ \E ok \in BOOLEAN : WaitFuaFlushed(ok)
        PROVE  wBio' \in Nat
    BY <1>0, <2>2 DEF WaitBioError, WaitBioOk, WaitFuaFlushed, Ack, WaitTypes
  <2> QED
    BY <1>0, <2>1, <2>2, Writers DEF WaitTypes
<1>4. wFailed' \in BOOLEAN
  <2>1. ASSUME WaitHeader PROVE wFailed' \in BOOLEAN
    BY <1>0, <2>1 DEF WaitHeader, WaitTypes
  <2>2. ASSUME WaitStart \/ WaitBioError \/ WaitPackEnd PROVE wFailed' \in BOOLEAN
    BY <1>0, <2>2 DEF WaitStart, WaitBioError, WaitPackEnd, SyncTypes
  <2> QED
    BY <1>0, <2>1, <2>2, Writers DEF WaitTypes
<1>5. gcTo' \in Nat /\ gcBatch' \in Nat /\ gcDone' \in Nat
  <2>1. ASSUME WaitPackEnd PROVE gcTo' \in Nat
    BY <1>0, <2>1 DEF WaitPackEnd, WaitTypes
  <2>2. ASSUME GcDequeue PROVE gcBatch' \in Nat
    BY <1>0, <2>2, LogAssumption DEF GcDequeue, WaitTypes, MinOf
  <2>3. ASSUME GcLogpacks PROVE gcDone' \in Nat
    BY <1>0, <2>3 DEF GcLogpacks, WaitTypes
  <2> QED
    BY <1>0, <2>1, <2>2, <2>3, Writers DEF WaitTypes
<1> QED
  BY <1>1, <1>2, <1>3, <1>4, <1>5 DEF WaitTypes

\* The queue and IOs of the data device keep their types.
LEMMA DataTypesKept ==
  ASSUME LogInv, [Next]_vars
  PROVE  DataTypes'
<1>0. /\ DataTypes /\ WaitTypes /\ SyncTypes /\ Len(dataQueue) \in Nat
      /\ DataBios \subseteq Nat
      /\ \A c \in Callers : sync[c].ios \subseteq Nat
  BY DEF LogInv, TypeOK, DataTypes, DataBios, SyncTypes
<1> DEFINE n == MinOf(IoBulk, Len(dataQueue))
<1>a. n \in 0..Len(dataQueue)
  BY <1>0, LogAssumption DEF MinOf
<1>b. /\ SubSeq(dataQueue, 1, n) \in Seq(Nat)
      /\ \A m \in 1..n : SubSeq(dataQueue, 1, n)[m] \in Nat
      /\ SubSeq(dataQueue, n + 1, Len(dataQueue)) \in Seq(Nat)
  BY <1>0, <1>a, SubSeqProperties DEF DataTypes
<1> HIDE DEF n
<1>1. dPc' \in {"idle", "check", "submit", "flush"}
  <2>1. ASSUME \/ DataDequeue \/ DataPermanent \/ DataRetryReadOnly \/ DataForceFlush
               \/ \E ok \in BOOLEAN : DataFlushed(ok)
        PROVE  dPc' \in {"idle", "check", "submit", "flush"}
    BY <1>0, <2>1 DEF DataDequeue, DataPermanent, DataRetryReadOnly, DataForceFlush, DataFlushed,
                DataSubmit, DataCancel, DataTypes
  <2> QED
    BY <1>0, <2>1, Writers DEF DataTypes
<1>2. dataQueue' \in Seq(Nat)
  <2>1. ASSUME DataDequeue PROVE dataQueue' \in Seq(Nat)
    BY <1>b, <2>1 DEF DataDequeue, n
  <2>2. ASSUME WaitBioOk \/ \E ok \in BOOLEAN : WaitFuaFlushed(ok)
        PROVE  dataQueue' \in Seq(Nat)
    <3>1. dataQueue' = dataQueue \/ dataQueue' = Append(dataQueue, wBio)
      BY <2>2 DEF WaitBioOk, WaitFuaFlushed, Ack
    <3>2. Append(dataQueue, wBio) \in Seq(Nat)
      <4>1. dataQueue \in Seq(Nat) /\ wBio \in Nat
        BY <1>0 DEF DataTypes, WaitTypes
      <4> QED
        BY <4>1, AppendProperties
    <3> QED
      BY <1>0, <3>1, <3>2 DEF DataTypes
  <2> QED
    BY <1>0, <2>1, <2>2, Writers DEF DataTypes
<1>3. dList' \in Seq(Nat)
  <2>1. ASSUME DataDequeue PROVE dList' \in Seq(Nat)
    BY <1>0, <1>b, <2>1 DEF DataDequeue, DataTypes, n
  <2>2. ASSUME DataPermanent \/ DataRetryReadOnly \/ \E ok \in BOOLEAN : DataFlushed(ok)
        PROVE  dList' \in Seq(Nat)
    <3>1. dList' = <<>>
      BY <2>2 DEF DataPermanent, DataRetryReadOnly, DataFlushed, DataSubmit, DataCancel
    <3> QED
      BY <3>1, EmptySeq
  <2> QED
    BY <1>0, <2>1, <2>2, Writers DEF DataTypes
<1>4. dIssued' \subseteq Nat
  <2>1. ASSUME DataPermanent \/ \E ok \in BOOLEAN : DataFlushed(ok) PROVE dIssued' \subseteq Nat
    BY <1>0, <2>1 DEF DataPermanent, DataFlushed, DataSubmit, DataCancel, DataTypes
  <2> QED
    BY <1>0, <2>1, Writers DEF DataTypes
<1>5. dDone' \subseteq Nat
  BY <1>0, Writers DEF DataIoDone, DataTypes
<1>6. dFailed' \subseteq Nat
  <2>1. ASSUME DataDequeue PROVE dFailed' \subseteq Nat
    <3>1. {SubSeq(dataQueue, 1, n)[m] : m \in 1..n} \subseteq Nat
      BY <1>b
    <3> QED
      BY <1>0, <2>1, <3>1 DEF DataDequeue, DataTypes, n
  <2>2. ASSUME DataRetryReadOnly \/ \E ok \in BOOLEAN : DataFlushed(ok) PROVE dFailed' \subseteq Nat
    BY <1>0, <2>2 DEF DataRetryReadOnly, DataFlushed, DataSubmit, DataCancel, DataTypes
  <2>3. ASSUME NEW i \in dIssued, DataIoFail(i) PROVE dFailed' \subseteq Nat
    BY <1>0, <2>3 DEF DataIoFail, DataTypes
  <2> QED
    BY <1>0, <2>1, <2>2, <2>3, Writers DEF DataTypes
<1>7. dStable' \subseteq Nat
  <2>1. ASSUME NEW c \in Callers, SyncWrite(c) PROVE dStable' \subseteq Nat
    BY <1>0, <2>1 DEF SyncWrite, DataTypes
  <2> QED
    BY <1>0, <2>1, Writers DEF DataTypes
<1> QED
  BY <1>1, <1>2, <1>3, <1>4, <1>5, <1>6, <1>7 DEF DataTypes

\* The callers of walb_sync_super_block keep their types.
LEMMA SyncTypesKept ==
  ASSUME LogInv, [Next]_vars
  PROVE  SyncTypes'
<1> DEFINE S == [pc : {"idle", "store", "test", "load", "write", "update"},
                 written : Nat, oldest : Nat, ios : SUBSET Nat]
<1>0. /\ SyncTypes /\ LsidTypes /\ DataTypes /\ NoSync \in S
      /\ sync \in [Callers -> S] /\ \A c \in Callers : sync[c] \in S
  BY DEF LogInv, TypeOK, NoSync, SyncTypes
<1>1. ckptOn' \in BOOLEAN
  <2>1. ASSUME RingSkipCheckpoint \/ RingTakeCheckpoint PROVE ckptOn' \in BOOLEAN
    BY <2>1 DEF RingSkipCheckpoint, RingTakeCheckpoint
  <2>2. ASSUME NEW c \in Callers, NEW ok \in BOOLEAN, NEW prev, SyncReturn(c, ok, prev)
        PROVE  ckptOn' \in BOOLEAN
    BY <1>0, <2>2 DEF SyncReturn, SyncTypes
  <2>3. ASSUME NEW c \in Callers, SyncRefused(c) \/ SyncDone(c) \/ SyncFail(c)
        PROVE  ckptOn' \in BOOLEAN
    BY <2>2, <2>3 DEF SyncRefused, SyncDone, SyncFail
  <2> QED
    BY <1>0, <2>1, <2>3, Writers DEF SyncTypes
<1>2. sync' \in [Callers -> S]
  <2>1. ASSUME NEW c \in Callers, NEW r \in S, sync' = [sync EXCEPT ![c] = r]
        PROVE  sync' \in [Callers -> S]
    BY <1>0, <2>1
  <2>2. ASSUME NEW c \in Callers, NEW pc \in {"test", "load"}, sync' = [sync EXCEPT ![c].pc = pc]
        PROVE  sync' \in [Callers -> S]
    BY <1>0, <2>2
  <2>3. ASSUME SetOldestStore \/ RingTakeCheckpoint \/ CheckpointTask
        PROVE  sync' \in [Callers -> S]
    BY <2>2, <2>3 DEF SetOldestStore, RingTakeCheckpoint, CheckpointTask, Callers
  <2>4. ASSUME NEW lsid \in 1..MaxOldest, SetOldest(lsid) PROVE sync' \in [Callers -> S]
    <3>1. [pc |-> "store", written |-> 0, oldest |-> lsid, ios |-> {}] \in S
      BY LogAssumption
    <3> QED
      BY <2>1, <2>4, <3>1 DEF SetOldest, Callers
  <2>5. ASSUME NEW c \in Callers, SyncRefused(c) \/ SyncDone(c) \/ SyncFail(c)
        PROVE  sync' \in [Callers -> S]
    <3>1. sync' = [sync EXCEPT ![c] = NoSync]
      BY <2>5 DEF SyncRefused, SyncDone, SyncFail, SyncReturn
    <3> QED
      BY <1>0, <2>1, <3>1
  <2>6. ASSUME NEW c \in Callers, SyncTest(c) PROVE sync' \in [Callers -> S]
    BY <2>2, <2>6 DEF SyncTest
  <2>7. ASSUME NEW c \in Callers, SyncLoad(c) PROVE sync' \in [Callers -> S]
    <3>1. [pc |-> "write", written |-> written, oldest |-> oldest, ios |-> dDone] \in S
      BY <1>0 DEF LsidTypes, DataTypes
    <3> QED
      BY <2>1, <2>7, <3>1 DEF SyncLoad
  <2>8. ASSUME NEW c \in Callers, SyncWrite(c) PROVE sync' \in [Callers -> S]
    <3>1. [sync[c] EXCEPT !.pc = "update", !.oldest = 0, !.ios = {}] \in S
      BY <1>0
    <3> QED
      BY <2>1, <2>8, <3>1 DEF SyncWrite
  <2> QED
    BY <1>0, <2>3, <2>4, <2>5, <2>6, <2>7, <2>8, Writers DEF SyncSuperBlock
<1>3. super' \in [written : Nat, oldest : Nat]
  <2>1. ASSUME NEW c \in Callers, SyncWrite(c) PROVE super' \in [written : Nat, oldest : Nat]
    BY <1>0, <2>1 DEF SyncWrite
  <2> QED
    BY <1>0, <2>1, Writers DEF SyncTypes
<1>4. readOnly' \in BOOLEAN
  <2>1. ASSUME \/ WaitBioError
               \/ \E ok \in BOOLEAN : RingFlushed(ok) \/ WaitFuaFlushed(ok) \/ DataFlushed(ok)
        PROVE  readOnly' \in BOOLEAN
    BY <1>0, <2>1
    DEF WaitBioError, RingFlushed, WaitFuaFlushed, DataFlushed, FlushEnd, SyncTypes
  <2>2. ASSUME \/ \E i \in GcBios : GcDataError(i)
               \/ \E c \in Callers : SyncFail(c)
        PROVE  readOnly' \in BOOLEAN
    BY <2>2 DEF GcDataError, SyncFail
  <2> QED
    BY <1>0, <2>1, <2>2, Writers DEF SyncTypes
<1>5. overflow' \in BOOLEAN
  BY <1>0, Writers DEF StoreLsids, SyncTypes
<1>6. ioFails' \in Nat
  <2>1. ASSUME \/ \E io \in logIo : LogIoFail(io)
               \/ \E i \in dIssued : DataIoFail(i)
               \/ \E c \in Callers : SyncFail(c)
        PROVE  ioFails' = ioFails + 1
    BY <2>1 DEF LogIoFail, DataIoFail, SyncFail
  <2> QED
    BY <1>0, <2>1, Writers DEF SyncTypes
<1>7. flushFails' \in Nat
  <2>1. ASSUME NEW ok \in BOOLEAN, RingFlushed(ok) \/ WaitFuaFlushed(ok) \/ DataFlushed(ok)
        PROVE  flushFails' \in Nat
    BY <1>0, <2>1 DEF RingFlushed, WaitFuaFlushed, DataFlushed, FlushEnd, SyncTypes
  <2> QED
    BY <1>0, <2>1, Writers DEF SyncTypes
<1>8. noMems' \in Nat
  <2>1. ASSUME NEW c \in Callers, SyncRefused(c) PROVE noMems' \in {noMems, noMems + 1}
    BY <2>1 DEF SyncRefused
  <2> QED
    BY <1>0, <2>1, Writers DEF SyncTypes
<1> QED
  BY <1>1, <1>2, <1>3, <1>4, <1>5, <1>6, <1>7, <1>8 DEF SyncTypes

\* Every step keeps every variable in its type.
LEMMA TypesKept ==
  ASSUME LogInv, [Next]_vars
  PROVE  TypeOK'
BY ClientTypesKept, LsidTypesKept, SubmitTypesKept, LogTypesKept, WaitTypesKept, DataTypesKept,
   SyncTypesKept
DEF TypeOK

-----------------------------------------------------------------------------
(* Where packs lie *)

\* A pack keeps its place when later bios come.
LEMMA PackInKept ==
  ASSUME NEW p \in Packs, NEW ks, NEW bs, NEW ks2, NEW bs2, PackIn(p, ks, bs),
         Len(ks) \in Nat, Len(ks2) \in Nat, Len(ks) <= Len(ks2),
         \A i \in p.first..p.last : ks2[i] = ks[i] /\ bs2[i] = bs[i]
  PROVE  PackIn(p, ks2, bs2)
<1>1. p.first \in Nat /\ p.last \in Nat
  BY PackTypes
<1>2. /\ 1 <= p.first /\ p.first <= p.last /\ p.last <= Len(ks2)
      /\ p.first \in p.first..p.last /\ p.last \in p.first..p.last
  BY <1>1 DEF PackIn
<1> QED
  BY <1>2 DEF PackIn

\* Only the bios and the place of a pack matter to PackIn ...
LEMMA SamePackIn ==
  ASSUME NEW p, NEW q, NEW ks, NEW bs, SamePack(p, q), PackIn(q, ks, bs)
  PROVE  PackIn(p, ks, bs)
BY DEF SamePack, PackIn, NextLsid

\* ... and to Precedes.
LEMMA SamePrecedes ==
  ASSUME NEW p, NEW q, NEW p2, NEW q2, SamePack(p2, p), SamePack(q2, q), Precedes(p, q)
  PROVE  Precedes(p2, q2)
BY DEF SamePack, Precedes, NextLsid

\* A pack ends after its header, and after the log of each of its bios.
LEMMA PackEnds ==
  ASSUME NEW p \in Packs
  PROVE  /\ NextLsid(p) \in Nat /\ p.lsid <= NextLsid(p)
         /\ p.nRec > 0 => p.lsid < NextLsid(p)
         /\ p.nRec = 0 => p.lsid = NextLsid(p)
BY PackTypes DEF NextLsid

\* The last pack of wpack_list is behind the others.
LEMMA LastWpack ==
  ASSUME LogInv, NEW k \in DOMAIN wpacks
  PROVE  /\ wpacks[k] \in Packs /\ PackOK(wpacks[k])
         /\ Len(wpacks) \in DOMAIN wpacks /\ wpacks[Len(wpacks)] \in Packs
         /\ wpacks[k].last < sNext /\ wpacks[k].first < sNext
         /\ NextLsid(wpacks[k]) <= EndOfWpacks /\ EndOfWpacks \in Nat
<1>1. /\ wpacks[k] \in Packs /\ PackOK(wpacks[k])
      /\ Len(wpacks) \in DOMAIN wpacks /\ wpacks[Len(wpacks)] \in Packs
      /\ k = Len(wpacks) \/ k < Len(wpacks)
  BY SeqTypes DEF LogInv, Layout
<1>2. wpacks # <<>> /\ wpacks[Len(wpacks)].last = sNext - 1 /\ sNext \in Nat
  BY DEF LogInv, Layout, TypeOK, SubmitTypes
<1>3. PackOK(wpacks[Len(wpacks)])
  BY <1>1 DEF LogInv, Layout
<1>4. CASE k = Len(wpacks)
  BY <1>1, <1>2, <1>4, PackTypes DEF EndOfWpacks, PackOK, PackIn
<1>5. CASE k < Len(wpacks)
  <2>1. Precedes(wpacks[k], wpacks[Len(wpacks)])
    BY <1>1, <1>5 DEF LogInv, Layout
  <2> QED
    <3>1. /\ wpacks[k].last \in Nat /\ wpacks[k].first \in Nat
          /\ wpacks[Len(wpacks)].first \in Nat /\ wpacks[Len(wpacks)].last \in Nat
          /\ NextLsid(wpacks[k]) \in Nat
      BY <1>1, PackTypes
    <3>2. /\ wpacks[Len(wpacks)].lsid \in Nat /\ EndOfWpacks \in Nat
          /\ wpacks[Len(wpacks)].lsid <= EndOfWpacks
      BY <1>1, PackEnds, PackTypes DEF EndOfWpacks
    <3> QED
      BY <1>1, <1>2, <1>3, <2>1, <3>1, <3>2, SMTT(40) DEF Precedes, PackOK, PackIn
<1> QED
  BY <1>1, <1>4, <1>5

\* After writepack_add_bio_wrapper the m-th and last pack is p, new or grown.
Adds(p, m) ==
  /\ p \in Packs /\ wpacks' \in Seq(Packs) /\ Len(wpacks') = m
  /\ wpacks'[m] = p /\ \A k \in 1..(m - 1) : k \in DOMAIN wpacks /\ wpacks'[k] = wpacks[k]
  /\ \/ /\ m = Len(wpacks) + 1 /\ p.first = sNext /\ p.newPermanent = 0
        /\ p.lsid = (IF m = 1 THEN latest ELSE EndOfWpacks)
     \/ /\ m = Len(wpacks) /\ m # 0 /\ p.first = wpacks[m].first /\ p.lsid = wpacks[m].lsid
        /\ p.newPermanent = wpacks[m].newPermanent /\ wpacks[m].nRec > 0
  /\ p.last = sNext /\ PackIn(p, kind, biowLsid')

\* A step of writepack_add_bio_wrapper starts a pack or adds to the last one, with the
\* bio that is next.
LEMMA AddsPack ==
  ASSUME LogInv, AddBioWrapper
  PROVE  /\ sPc = "create" /\ sNext \in Bios /\ sNext < queuedFrom /\ sNext' = sNext + 1
         /\ UNCHANGED <<sPc, kind, packs, latest>>
         /\ \A i \in Bios : i # sNext => biowLsid'[i] = biowLsid[i]
         /\ \E p, m : Adds(p, m) /\ m \in Nat \ {0}
<1>1. PICK p, x : /\ Places(p, x)
                  /\ \/ Starts(p)
                     \/ /\ Len(wpacks) \in DOMAIN wpacks
                        /\ Extends(p, wpacks[Len(wpacks)])
  BY AddBioWrapperDoes
<1>2. sPc = "create" /\ sNext \in Bios /\ sNext < queuedFrom /\ sNext' = sNext + 1
  BY AddBioWrapperDoes
<1>3. UNCHANGED <<sPc, kind, packs, latest>>
  BY DEF AddBioWrapper, clientVars, lsidVars
<1>4. /\ Len(kind) \in Nat /\ Bios = 1..Len(kind) /\ biowLsid \in Seq(Nat)
      /\ Len(biowLsid) = Len(kind) /\ wpacks \in Seq(Packs) /\ Len(wpacks) \in Nat
      /\ LogPb(kind[sNext]) \in 0..1 /\ sNext \in Nat
  BY <1>2, SeqTypes DEF LogInv, TypeOK, ClientTypes, SubmitTypes
<1>5. biowLsid'[sNext] = x /\ \A i \in Bios : i # sNext => biowLsid'[i] = biowLsid[i]
  BY <1>1, <1>2, <1>4 DEF Places
<1>6. p \in Packs /\ p.last = sNext /\ x \in Nat
      /\ (HasData(kind[sNext]) => x = p.lsid + 1 + p.total - LogPb(kind[sNext]))
  BY <1>1 DEF Places
<1>a. p.lsid \in Nat /\ p.total \in Nat /\ p.nRec \in Nat
  BY <1>6, PackTypes
<1>7. CASE Starts(p)
  <2> DEFINE m == Len(wpacks) + 1
  <2>1. /\ wpacks' \in Seq(Packs) /\ Len(wpacks') = m /\ wpacks'[m] = p
        /\ \A k \in 1..(m - 1) : k \in DOMAIN wpacks /\ wpacks'[k] = wpacks[k]
    BY <1>4, <1>6, <1>7, AppendProperties, SeqTypes DEF Starts, LogInv
  <2>2. /\ p.first = sNext /\ p.newPermanent = 0 /\ p.total = LogPb(kind[sNext])
        /\ p.lsid = (IF m = 1 THEN latest ELSE EndOfWpacks)
        /\ p.nRec = (IF HasData(kind[sNext]) THEN 1 ELSE 0)
    BY <1>4, <1>7 DEF Starts
  <2>3. PackIn(p, kind, biowLsid')
    <3>1. 1 <= p.first /\ p.first <= p.last /\ p.last <= Len(kind)
      BY <1>2, <1>4, <1>6, <2>2
    <3>2. p.nRec = 0 => p.total = 0 /\ p.last = p.first /\ ~HasData(kind[p.first])
      BY <1>6, <2>2 DEF HasData, LogPb
    <3>4. \A i \in p.first..p.last : i = sNext
      BY <1>4, <1>6, <2>2
    <3>5. p.nRec > 0 => /\ HasData(kind[sNext]) /\ p.lsid < biowLsid'[sNext]
                        /\ biowLsid'[sNext] + LogPb(kind[sNext]) = NextLsid(p)
      BY <1>4, <1>5, <1>6, <1>a, <2>2 DEF NextLsid
    <3> QED
      BY <1>4, <1>6, <3>1, <3>2, <3>4, <3>5 DEF PackIn
  <2>4. Adds(p, m)
    BY <1>6, <2>1, <2>2, <2>3 DEF Adds
  <2> QED
    BY <1>2, <1>3, <1>4, <1>5, <2>4
<1>8. CASE Len(wpacks) \in DOMAIN wpacks /\ Extends(p, wpacks[Len(wpacks)])
  <2> DEFINE m == Len(wpacks)
             q == wpacks[m]
  <2>0. q \in Packs /\ PackIn(q, kind, biowLsid) /\ q.last = sNext - 1 /\ m # 0 /\ m \in DOMAIN wpacks
    <3>1. m # 0 /\ wpacks # <<>>
      BY <1>4, <1>8, SeqTypes DEF LogInv
    <3> QED
      BY <1>8, <3>1, SeqTypes DEF LogInv, Layout, PackOK
  <2>1. /\ wpacks' \in Seq(Packs) /\ Len(wpacks') = m /\ wpacks'[m] = p
        /\ \A k \in 1..(m - 1) : k \in DOMAIN wpacks /\ wpacks'[k] = wpacks[k]
    <3>1. wpacks' = [wpacks EXCEPT ![m] = p] /\ m \in 1..Len(wpacks)
      BY <1>4, <1>8, <2>0 DEF Extends
    <3>2. /\ [wpacks EXCEPT ![m] = p] \in Seq(Packs)
          /\ Len([wpacks EXCEPT ![m] = p]) = Len(wpacks)
          /\ \A k \in 1..Len(wpacks) :
               [wpacks EXCEPT ![m] = p][k] = IF k = m THEN p ELSE wpacks[k]
      BY <1>4, <1>6, <3>1, ExceptSeq
    <3> HIDE DEF m
    <3>3. \A k \in 1..(m - 1) : k \in DOMAIN wpacks /\ wpacks'[k] = wpacks[k]
      <4>1. DOMAIN wpacks = 1..Len(wpacks) /\ m = Len(wpacks) /\ m \in Nat
        BY SeqTypes DEF LogInv, m
      <4> SUFFICES ASSUME NEW k \in 1..(m - 1)
                   PROVE  k \in DOMAIN wpacks /\ wpacks'[k] = wpacks[k]
        OBVIOUS
      <4>a. m \in Nat
        BY <4>1
      <4>2. k \in 1..m /\ k # m
        BY <4>a
      <4> QED
        BY <3>1, <3>2, <4>1, <4>2
    <3> QED
      BY <1>4, <3>1, <3>2, <3>3 DEF m
  <2> HIDE DEF q
  <2>2. /\ q.nRec # 0 /\ HasData(kind[sNext]) /\ p.nRec = q.nRec + 1
        /\ p.lsid = q.lsid /\ p.total = q.total + LogPb(kind[sNext]) /\ p.first = q.first
        /\ p.newPermanent = q.newPermanent
    BY <1>8 DEF Extends, q
  <2>3. /\ q.lsid \in Nat /\ q.total \in Nat /\ q.nRec \in Nat /\ q.first \in Nat /\ q.last \in Nat
        /\ q.nRec > 0
    BY <2>0, <2>2, PackTypes
  <2>4. PackIn(p, kind, biowLsid')
    <3> DEFINE End(i) == biowLsid[i] + LogPb(kind[i])
    <3>1. 1 <= p.first /\ p.first <= q.last /\ q.last < p.last /\ p.last <= Len(kind) /\ p.nRec > 0
      BY <1>2, <1>4, <1>6, <2>0, <2>2, <2>3, SMTT(40) DEF PackIn
    <3>2. \A i \in p.first..p.last : (i \in q.first..q.last /\ i \in Bios /\ i # sNext) \/ i = sNext
      BY <1>4, <1>6, <2>0, <2>2, <2>3, <3>1
    <3>3. \A i \in q.first..q.last : HasData(kind[i]) /\ q.lsid < biowLsid[i]
      BY <2>0, <2>3 DEF PackIn
    <3>4. \A i, j \in q.first..q.last : i < j => End(i) <= biowLsid[j]
      BY <2>0, <2>3 DEF PackIn
    <3>5. End(q.last) = NextLsid(q)
      BY <2>0, <2>3 DEF PackIn
    <3>6. x = q.lsid + 1 + q.total /\ x = NextLsid(q) /\ x + LogPb(kind[sNext]) = NextLsid(p)
      <4>1. x = p.lsid + 1 + p.total - LogPb(kind[sNext]) /\ x \in Nat
        BY <1>6, <2>2
      <4>2. NextLsid(q) = q.lsid + 1 + q.total /\ NextLsid(p) = p.lsid + 1 + p.total
        BY <2>2, <2>3, <3>1 DEF NextLsid
      <4>3. LogPb(kind[sNext]) \in Nat
        BY <1>4
      <4> QED
        BY <1>a, <2>2, <2>3, <4>1, <4>2, <4>3
    <3>7. \A i \in q.first..q.last : LogPb(kind[i]) \in 0..1 /\ biowLsid[i] \in Nat
      <4>1. \A i \in q.first..q.last : i \in Bios
        BY <1>2, <1>4, <1>6, <2>2, <2>3, <3>1
      <4> QED
        BY <4>1, SeqTypes DEF LogInv
    <3>8. q.last \in q.first..q.last
      BY <2>2, <2>3, <3>1
    <3>9. \A i \in q.first..q.last : End(i) <= x
      <4> SUFFICES ASSUME NEW i \in q.first..q.last PROVE End(i) <= x
        OBVIOUS
      <4>1. i = q.last \/ i < q.last
        BY <2>3
      <4>2. i < q.last => End(i) <= biowLsid[q.last]
        BY <3>4, <3>8
      <4>3. LogPb(kind[q.last]) \in 0..1 /\ biowLsid[q.last] \in Nat /\ LogPb(kind[i]) \in 0..1
            /\ biowLsid[i] \in Nat
        BY <3>7, <3>8
      <4> QED
        BY <3>5, <3>6, <4>1, <4>2, <4>3
    <3>10. \A i \in p.first..p.last : HasData(kind[i]) /\ p.lsid < biowLsid'[i]
      BY <1>5, <2>2, <2>3, <3>2, <3>3, <3>6
    <3>11. biowLsid'[p.last] + LogPb(kind[p.last]) = NextLsid(p)
      BY <1>5, <1>6, <3>6
    <3>12. ASSUME NEW i \in p.first..p.last, NEW j \in p.first..p.last, i < j
           PROVE  biowLsid'[i] + LogPb(kind[i]) <= biowLsid'[j]
      <4>1. i # sNext
        BY <1>4, <1>6, <3>12
      <4>2. i \in q.first..q.last /\ biowLsid'[i] = biowLsid[i]
        BY <1>5, <3>2, <4>1
      <4>3. CASE j = sNext
        BY <1>5, <3>9, <4>2, <4>3
      <4>4. CASE j # sNext
        BY <1>5, <3>2, <3>4, <3>12, <4>2, <4>4
      <4> QED
        BY <4>3, <4>4
    <3> QED
      <4>1. \A i, j \in p.first..p.last : i < j => biowLsid'[i] + LogPb(kind[i]) <= biowLsid'[j]
        BY <3>12
      <4>2. p.nRec # 0 /\ p.first <= p.last
        BY <1>a, <2>0, <3>1, <2>2, <2>3, <1>4, <1>6, SMTT(40)
      <4> QED
        BY <3>1, <3>10, <3>11, <4>1, <4>2 DEF PackIn
  <2>5. Adds(p, m)
    BY <1>6, <2>0, <2>1, <2>2, <2>3, <2>4 DEF Adds, q
  <2> QED
    BY <1>2, <1>3, <1>4, <1>5, <2>0, <2>5
<1> QED
  BY <1>1, <1>7, <1>8

-----------------------------------------------------------------------------
(* The intervals *)

\* Every step keeps the lists of the tasks intervals that follow each other.
LEMMA RangesKept ==
  ASSUME LogInv, [Next]_vars
  PROVE  Ranges'
<1>0. /\ Len(kind) \in Nat /\ queuedFrom \in Nat /\ sNext \in Nat
      /\ gcDone \in Nat /\ gcBatch \in Nat /\ gcTo \in Nat /\ wPack \in Nat /\ wTo \in Nat
      /\ Len(packs) \in Nat /\ Len(wpacks) \in Nat
  BY SeqTypes DEF LogInv, TypeOK, SubmitTypes, WaitTypes
<1>1. 1 <= sNext' /\ sNext' <= queuedFrom' /\ queuedFrom' <= Len(kind') + 1
  <2>0. 1 <= sNext /\ sNext <= queuedFrom /\ queuedFrom <= Len(kind) + 1
    BY DEF LogInv, Ranges
  <2>1. Len(kind') = Len(kind) \/ (Len(kind') = Len(kind) + 1 /\ UNCHANGED <<sNext, queuedFrom>>)
    <3>1. ASSUME NEW k \in Kinds, MakeRequest(k)
          PROVE  Len(kind') = Len(kind) + 1 /\ UNCHANGED <<sNext, queuedFrom>>
      <4>1. kind \in Seq(AllKinds) /\ k \in AllKinds
        BY LogAssumption DEF LogInv, TypeOK, ClientTypes
      <4>2. kind' = Append(kind, k) /\ UNCHANGED <<sNext, queuedFrom>>
        BY <3>1 DEF MakeRequest, submitVars
      <4> QED
        BY <4>1, <4>2, AppendProperties
    <3> QED
      BY <3>1, Writers
  <2>2. ASSUME SubmitDequeue
        PROVE  1 <= sNext' /\ sNext' <= queuedFrom' /\ queuedFrom' <= Len(kind) + 1
    BY <1>0, <2>0, <2>2, LogAssumption DEF SubmitDequeue, MinOf
  <2>3. ASSUME SubmitDequeueReadOnly
        PROVE  1 <= sNext' /\ sNext' <= queuedFrom' /\ queuedFrom' <= Len(kind) + 1
    BY <1>0, <2>0, <2>3, LogAssumption DEF SubmitDequeueReadOnly, MinOf
  <2>4. ASSUME AddBioWrapper
        PROVE  1 <= sNext' /\ sNext' <= queuedFrom' /\ queuedFrom' <= Len(kind) + 1
    BY <1>0, <2>0, <2>4 DEF AddBioWrapper
  <2>5. 1 <= sNext' /\ sNext' <= queuedFrom' /\ queuedFrom' <= Len(kind) + 1
    BY <2>0, <2>2, <2>3, <2>4, Writers
  <2> QED
    BY <1>0, <2>0, <2>1, <2>5
<1> DEFINE Pcs == /\ sPc = "idle" => wpacks = <<>>
                  /\ sPc = "create" => wpacks # <<>> \/ sNext < queuedFrom
                  /\ sPc \in RingLoop => wpacks # <<>> /\ sNext = queuedFrom
                  /\ sync["submit"].pc # "idle" => sPc = "sync"
<1>2. Pcs'
  <2>0. Pcs /\ sync \in [Callers -> [pc : {"idle", "store", "test", "load", "write", "update"},
                                     written : Nat, oldest : Nat, ios : SUBSET Nat]]
    BY DEF LogInv, Ranges, TypeOK, SyncTypes
  <2>1. ASSUME SubmitDequeue PROVE Pcs'
    <3>1. sPc' = "create" /\ sNext' < queuedFrom' /\ sPc = "idle" /\ UNCHANGED <<wpacks, sync>>
      BY <1>0, <2>1, LogAssumption DEF SubmitDequeue, MinOf, ckptVars
    <3> QED
      BY <2>0, <3>1 DEF RingLoop
  <2>2. ASSUME SubmitDequeueReadOnly PROVE Pcs'
    BY <2>0, <2>2 DEF SubmitDequeueReadOnly, ckptVars, RingLoop
  <2>3. ASSUME AddBioWrapper PROVE Pcs'
    <3>1. PICK p, m : Adds(p, m) /\ m \in Nat \ {0}
      BY <2>3, AddsPack
    <3>2. wpacks' # <<>>
      BY <3>1, EmptySeq DEF Adds
    <3>3. sPc' = "create" /\ sPc = "create" /\ UNCHANGED sync
      BY <2>3, AddsPack DEF AddBioWrapper, ckptVars
    <3> QED
      BY <2>0, <3>2, <3>3 DEF RingLoop
  <2>4. ASSUME NEW e \in BOOLEAN, StoreLsids(e) PROVE Pcs'
    <3>1. sPc = "create" /\ sNext = queuedFrom /\ sPc' = "ring" /\ Len(wpacks') = Len(wpacks)
          /\ wpacks # <<>> /\ UNCHANGED <<sNext, queuedFrom, sync>>
      BY <2>4, StoreLsidsDoes DEF StoreLsids, ckptVars
    <3>2. wpacks' # <<>>
      BY <3>1, EmptySeq DEF LogInv, TypeOK, SubmitTypes
    <3> QED
      BY <2>0, <3>1, <3>2 DEF RingLoop
  <2>5. ASSUME sPc \in RingLoop, sPc' \in RingLoop, UNCHANGED <<wpacks, sNext, queuedFrom>>,
               sync'["submit"].pc # "idle" => sPc' = "sync"
        PROVE  Pcs'
    BY <2>0, <2>5 DEF RingLoop
  <2>6. ASSUME RingForceFlush \/ \E ok \in BOOLEAN : RingFlushed(ok) PROVE Pcs'
    <3>1. /\ sPc \in {"ring", "flush"} /\ sPc' \in {"ring", "flush"}
          /\ UNCHANGED <<wpacks, sNext, queuedFrom, sync>>
      BY <2>6 DEF RingForceFlush, RingFlushed, ckptVars
    <3> QED
      BY <2>0, <2>5, <3>1 DEF RingLoop
  <2>7. ASSUME RingTakeCheckpoint PROVE Pcs'
    BY <2>5, <2>7 DEF RingTakeCheckpoint, RingCheckpoint, RingLoop
  <2>8. ASSUME sPc' = "idle", wpacks' = <<>>, sync'["submit"].pc = "idle" PROVE Pcs'
    BY <2>8 DEF RingLoop
  <2>9. ASSUME RefuseOverflow \/ RingReadOnly \/ SubmitLogpacks PROVE Pcs'
    <3>1. sPc' = "idle" /\ wpacks' = <<>> /\ UNCHANGED sync /\ sPc # "sync"
      BY <2>9 DEF RefuseOverflow, RingReadOnly, SubmitLogpacks, SubmitError, SubmitReturn,
                  ckptVars, Created
    <3> QED
      BY <2>0, <2>8, <3>1
  <2>10. ASSUME NEW c \in Callers, SyncRefused(c) \/ SyncFail(c) \/ SyncDone(c) PROVE Pcs'
    <3>1. sync' = [sync EXCEPT ![c] = NoSync] /\ UNCHANGED <<sNext, queuedFrom>>
      BY <2>10 DEF SyncRefused, SyncFail, SyncDone, SyncReturn
    <3>2. sync[c].pc # "idle"
      BY <2>10 DEF SyncRefused, SyncFail, SyncDone
    <3>3. \/ c = "submit" /\ sPc' = "ring" /\ UNCHANGED wpacks
          \/ c = "submit" /\ sPc' = "idle" /\ wpacks' = <<>>
          \/ c # "submit" /\ UNCHANGED <<sPc, wpacks>>
      BY <2>10 DEF SyncRefused, SyncFail, SyncDone, SyncReturn, SubmitError, SubmitReturn
    <3>4. CASE c # "submit"
      BY <2>0, <3>1, <3>3, <3>4 DEF Callers
    <3>5. CASE c = "submit"
      <4>1. sync'["submit"].pc = "idle" /\ sPc = "sync"
        BY <2>0, <3>1, <3>2, <3>5 DEF NoSync
      <4> QED
        BY <2>0, <2>5, <2>8, <3>1, <3>3, <3>5, <4>1 DEF RingLoop
    <3> QED
      BY <3>4, <3>5
  <2>11. ASSUME UNCHANGED <<sPc, wpacks, sNext, queuedFrom>>,
                sync'["submit"].pc # "idle" => sync["submit"].pc # "idle"
         PROVE  Pcs'
    BY <2>0, <2>11
  <2>12. ASSUME \/ SetOldestStore \/ CheckpointTask
                \/ \E lsid \in 1..MaxOldest : SetOldest(lsid)
         PROVE  UNCHANGED <<sPc, wpacks, sNext, queuedFrom>> /\ sync'["submit"] = sync["submit"]
    <3>1. UNCHANGED <<sPc, wpacks, sNext, queuedFrom>>
      BY <2>12 DEF SetOldestStore, CheckpointTask, SetOldest, submitVars
    <3>2. sync'["submit"] = sync["submit"]
      BY <2>0, <2>12 DEF SetOldestStore, CheckpointTask, SetOldest, Callers
    <3> QED
      BY <3>1, <3>2
  <2>13. ASSUME NEW c \in Callers, SyncTest(c) \/ SyncLoad(c) \/ SyncWrite(c)
         PROVE  /\ UNCHANGED <<sPc, wpacks, sNext, queuedFrom>>
                /\ sync'["submit"].pc # "idle" => sync["submit"].pc # "idle"
    <3>1. UNCHANGED <<sPc, wpacks, sNext, queuedFrom>>
      BY <2>13 DEF SyncTest, SyncLoad, SyncWrite, submitVars
    <3>2. c # "submit" => sync'["submit"] = sync["submit"]
      BY <2>0, <2>13 DEF SyncTest, SyncLoad, SyncWrite, Callers
    <3>3. sync[c].pc # "idle"
      BY <2>13 DEF SyncTest, SyncLoad, SyncWrite
    <3> QED
      BY <3>1, <3>2, <3>3
  <2> HIDE DEF Pcs
  <2>14. CASE UNCHANGED <<sPc, wpacks, sNext, queuedFrom, sync>>
    BY <2>11, <2>14
  <2> QED
    BY <2>1, <2>2, <2>3, <2>4, <2>6, <2>7, <2>9, <2>10, <2>11, <2>12, <2>13, <2>14, Writers
    DEF SyncSuperBlock
<1>3. gcDone' <= gcBatch' /\ gcBatch' <= gcTo' /\ gcTo' <= wPack' /\ wPack' <= wTo'
      /\ (wPc' # "idle" => gcTo' < wPack') /\ wTo' <= Len(packs')
  <2>0. gcDone <= gcBatch /\ gcBatch <= gcTo /\ gcTo <= wPack /\ wPack <= wTo
        /\ (wPc # "idle" => gcTo < wPack) /\ wTo <= Len(packs)
    BY DEF LogInv, Ranges
  <2>1. Len(packs) <= Len(packs') /\ Len(packs') \in Nat
    BY <1>0, Writers, SubmitLogpacksDoes
  <2> DEFINE G == /\ gcDone' <= gcBatch' /\ gcBatch' <= gcTo' /\ gcTo' <= wPack' /\ wPack' <= wTo'
                  /\ (wPc' # "idle" => gcTo' < wPack') /\ wTo' <= Len(packs)
  <2>2. ASSUME WaitStart PROVE G
    BY <1>0, <2>0, <2>2, LogAssumption DEF WaitStart, MinOf, gcVars
  <2>3. ASSUME WaitHeader \/ WaitBioFua \/ \E ok \in BOOLEAN : WaitFuaFlushed(ok) PROVE G
    <3>1. UNCHANGED <<gcDone, gcBatch, gcTo, wPack, wTo>>
      BY <2>3 DEF WaitHeader, WaitBioFua, WaitFuaFlushed, gcVars
    <3>2. wPc # "idle"
      BY <2>3 DEF WaitHeader, WaitBioFua, WaitFuaFlushed, WaitingForBio
    <3> QED
      BY <2>0, <3>1, <3>2
  <2>4. ASSUME WaitPackEnd PROVE G
    BY <1>0, <2>0, <2>4 DEF WaitPackEnd
  <2>5. ASSUME GcDequeue PROVE G
    BY <1>0, <2>0, <2>5, LogAssumption DEF GcDequeue, MinOf, waitVars
  <2>6. ASSUME GcLogpacks PROVE G
    BY <1>0, <2>0, <2>6 DEF GcLogpacks, waitVars
  <2>7. ASSUME UNCHANGED <<gcDone, gcBatch, gcTo, wPack, wTo, wPc>> PROVE G
    BY <2>0, <2>7
  <2> HIDE DEF G
  <2>8. G
    BY <2>2, <2>3, <2>4, <2>5, <2>6, <2>7, Writers
  <2> QED
    BY <1>0, <2>1, <2>8, WaitTypesKept DEF G, WaitTypes
<1> QED
  BY <1>1, <1>2, <1>3 DEF Ranges

-----------------------------------------------------------------------------
(* The layout of the log *)

\* Bios keep their kind, and their place once they are in a pack.
LEMMA BiosKept ==
  ASSUME LogInv, [Next]_vars
  PROVE  /\ Len(kind) \in Nat /\ Len(kind') \in Nat /\ Len(kind) <= Len(kind')
         /\ \A i \in 1..Len(kind) : kind'[i] = kind[i]
         /\ \A i \in 1..Len(kind) : i # sNext => biowLsid'[i] = biowLsid[i]
         /\ ~AddBioWrapper => \A i \in 1..Len(kind) : biowLsid'[i] = biowLsid[i]
<1>0. /\ kind \in Seq(AllKinds) /\ biowLsid \in Seq(Nat) /\ Len(biowLsid) = Len(kind)
      /\ Len(kind) \in Nat /\ Bios = 1..Len(kind)
  BY SeqTypes DEF LogInv, TypeOK, ClientTypes
<1>1. ASSUME NEW k \in Kinds, MakeRequest(k)
      PROVE  /\ Len(kind') = Len(kind) + 1
             /\ \A i \in 1..Len(kind) : kind'[i] = kind[i]
             /\ \A i \in 1..Len(kind) : biowLsid'[i] = biowLsid[i]
  <2>1. kind' = Append(kind, k) /\ biowLsid' = Append(biowLsid, 0) /\ k \in AllKinds /\ 0 \in Nat
    BY <1>1, LogAssumption DEF MakeRequest
  <2> QED
    BY <1>0, <2>1, AppendProperties
<1>2. CASE \E k \in Kinds : MakeRequest(k)
  BY <1>0, <1>1, <1>2
<1>3. CASE AddBioWrapper
  BY <1>0, <1>3, AddsPack
<1>4. CASE UNCHANGED <<kind, biowLsid>>
  BY <1>0, <1>4
<1>5. (\E k \in Kinds : MakeRequest(k)) \/ AddBioWrapper \/ UNCHANGED <<kind, biowLsid>>
  BY Writers
<1> QED
  BY <1>2, <1>3, <1>4, <1>5

\* The packs on the log device stay as they are.
LEMMA PacksStay ==
  ASSUME LogInv, [Next]_vars, NEW k \in DOMAIN packs
  PROVE  /\ packs[k] \in Packs /\ PackIn(packs[k], kind', biowLsid')
         /\ packs[k].last < sNext /\ packs[k].first <= packs[k].last
         /\ NextLsid(packs[k]) <= latest
         /\ \A i \in packs[k].first..packs[k].last :
              /\ i \in Bios /\ i < sNext
              /\ kind'[i] = kind[i] /\ biowLsid'[i] = biowLsid[i]
<1>1. /\ packs[k] \in Packs /\ PackOK(packs[k])
      /\ packs[k].last < sNext /\ NextLsid(packs[k]) <= latest
  BY SeqTypes DEF LogInv, Layout
<1>2. /\ packs[k].first \in Nat /\ packs[k].last \in Nat /\ sNext \in Nat
      /\ 1 <= packs[k].first /\ packs[k].first <= packs[k].last /\ packs[k].last <= Len(kind)
  BY <1>1, PackTypes DEF LogInv, TypeOK, SubmitTypes, PackOK, PackIn
<1>3. Len(kind) \in Nat
  BY BiosKept
<1>4. ASSUME NEW i \in packs[k].first..packs[k].last
      PROVE  i \in 1..Len(kind) /\ i < sNext /\ i # sNext
  BY <1>1, <1>2, <1>3
<1>5. \A i \in packs[k].first..packs[k].last : kind'[i] = kind[i] /\ biowLsid'[i] = biowLsid[i]
  BY <1>4, BiosKept
<1>6. PackIn(packs[k], kind', biowLsid')
  BY <1>1, <1>5, BiosKept, PackInKept DEF PackOK
<1> QED
  BY <1>1, <1>2, <1>4, <1>5, <1>6 DEF Bios

\* So do the packs being built, but for the one that grows.
LEMMA WpacksStay ==
  ASSUME LogInv, [Next]_vars, NEW k \in DOMAIN wpacks
  PROVE  PackIn(wpacks[k], kind', biowLsid')
<1>1. wpacks[k] \in Packs /\ PackOK(wpacks[k]) /\ wpacks[k].last < sNext
  BY LastWpack
<1>2. /\ wpacks[k].first \in Nat /\ wpacks[k].last \in Nat /\ sNext \in Nat
      /\ 1 <= wpacks[k].first /\ wpacks[k].last <= Len(kind)
  BY <1>1, PackTypes DEF LogInv, TypeOK, SubmitTypes, PackOK, PackIn
<1>3. Len(kind) \in Nat
  BY BiosKept
<1>4. ASSUME NEW i \in wpacks[k].first..wpacks[k].last
      PROVE  i \in 1..Len(kind) /\ i # sNext
  BY <1>1, <1>2, <1>3
<1>5. \A i \in wpacks[k].first..wpacks[k].last : kind'[i] = kind[i] /\ biowLsid'[i] = biowLsid[i]
  BY <1>4, BiosKept
<1> QED
  BY <1>1, <1>5, BiosKept, PackInKept DEF PackOK

\* Layout of the packs on the log device.
PacksLaid ==
  /\ \A k \in DOMAIN packs : PackOK(packs[k])
  /\ \A j, k \in DOMAIN packs : j < k => Precedes(packs[j], packs[k])
  /\ \A k \in DOMAIN packs : packs[k].last < sNext /\ NextLsid(packs[k]) <= latest

\* Layout of the packs being built.
WpacksLaid ==
  /\ \A k \in DOMAIN wpacks : PackOK(wpacks[k])
  /\ \A j, k \in DOMAIN wpacks : j < k => Precedes(wpacks[j], wpacks[k])
  /\ \A j \in DOMAIN packs, k \in DOMAIN wpacks : Precedes(packs[j], wpacks[k])
  /\ wpacks # <<>> => wpacks[Len(wpacks)].last = sNext - 1

\* Layout and latest.
LatestLaid ==
  /\ sPc = "create" => \A k \in DOMAIN wpacks : latest <= wpacks[k].lsid
  /\ sPc \in RingLoop => latest = EndOfWpacks

\* Layout is proved in three parts.
LEMMA LayoutParts == (Layout <=> PacksLaid /\ WpacksLaid /\ LatestLaid)
BY DEF Layout, PacksLaid, WpacksLaid, LatestLaid

\* latest only grows, when the lsids are stored.
LEMMA LatestGrows ==
  ASSUME LogInv, [Next]_vars
  PROVE  latest \in Nat /\ latest' \in Nat /\ latest <= latest'
<1>1. latest \in Nat
  BY DEF LogInv, TypeOK, LsidTypes
<1>2. ASSUME NEW e \in BOOLEAN, StoreLsids(e) PROVE latest' \in Nat /\ latest <= latest'
  <2>1. sPc = "create" /\ wpacks # <<>> /\ latest' = EndOfWpacks
    BY <1>2, StoreLsidsDoes
  <2>2. 1 \in DOMAIN wpacks
    BY <2>1, SeqTypes, EmptySeq DEF LogInv, TypeOK, SubmitTypes
  <2>3. /\ wpacks[1] \in Packs /\ NextLsid(wpacks[1]) <= EndOfWpacks /\ EndOfWpacks \in Nat
    BY <2>2, LastWpack
  <2>4. latest <= wpacks[1].lsid
    BY <2>1, <2>2 DEF LogInv, Layout
  <2>5. wpacks[1].lsid \in Nat /\ NextLsid(wpacks[1]) \in Nat /\ wpacks[1].lsid <= NextLsid(wpacks[1])
    BY <2>3, PackTypes, PackEnds
  <2> QED
    BY <1>1, <2>1, <2>3, <2>4, <2>5
<1> QED
  BY <1>1, <1>2, Writers

\* The submit task goes through the bios once.
LEMMA SNextGrows ==
  ASSUME LogInv, [Next]_vars
  PROVE  sNext \in Nat /\ sNext' \in Nat /\ sNext <= sNext'
<1>1. sNext \in Nat /\ queuedFrom \in Nat /\ sNext <= queuedFrom
  BY DEF LogInv, TypeOK, SubmitTypes, Ranges
<1>2. ASSUME SubmitDequeue PROVE sNext' = queuedFrom
  BY <1>2 DEF SubmitDequeue
<1>3. ASSUME AddBioWrapper PROVE sNext' = sNext + 1
  BY <1>3, AddsPack
<1> QED
  BY <1>1, <1>2, <1>3, Writers

\* The k-th pack after submit_logpack_list, and the pack it was before.
LEMMA SubmittedPack ==
  ASSUME LogInv, SubmitLogpacks, NEW k \in DOMAIN packs'
  PROVE  /\ packs'[k] \in Packs
         /\ \/ k \in DOMAIN packs /\ packs'[k] = packs[k]
            \/ /\ k \notin DOMAIN packs /\ k > Len(packs)
               /\ k - Len(packs) \in DOMAIN wpacks
               /\ SamePack(packs'[k], wpacks[k - Len(packs)])
               /\ packs'[k].newPermanent = wpacks[k - Len(packs)].newPermanent
               /\ packs'[k].flushHeader = wpacks[k - Len(packs)].flushHeader
               /\ HeaderShouldFlush(packs'[k]) => packs'[k].flushes = logDone
<1>1. /\ Len(packs) \in Nat /\ DOMAIN packs = 1..Len(packs)
      /\ Len(wpacks) \in Nat /\ DOMAIN wpacks = 1..Len(wpacks)
  BY SeqTypes DEF LogInv
<1>2. /\ packs' \in Seq(Packs) /\ Len(packs') = Len(packs) + Len(wpacks)
      /\ \A i \in 1..Len(packs) : packs'[i] = packs[i]
      /\ \A i \in 1..Len(wpacks) :
              LET q == packs'[Len(packs) + i]
              IN  /\ SamePack(q, wpacks[i]) /\ q.newPermanent = wpacks[i].newPermanent
                  /\ q.flushHeader = wpacks[i].flushHeader
                  /\ HeaderShouldFlush(q) => q.flushes = logDone
  BY SubmitLogpacksDoes
<1>3. DOMAIN packs' = 1..(Len(packs) + Len(wpacks)) /\ packs'[k] \in Packs
  BY <1>2
<1>4. CASE k <= Len(packs)
  BY <1>1, <1>2, <1>3, <1>4
<1>5. CASE ~(k <= Len(packs))
  <2> DEFINE i == k - Len(packs)
  <2>1. k \in Nat /\ k > Len(packs) /\ k \notin DOMAIN packs
    BY <1>1, <1>3, <1>5
  <2>2. i \in 1..Len(wpacks) /\ Len(packs) + i = k
    BY <1>1, <1>3, <1>5
  <2> HIDE DEF i
  <2>3. /\ SamePack(packs'[k], wpacks[i]) /\ packs'[k].newPermanent = wpacks[i].newPermanent
        /\ packs'[k].flushHeader = wpacks[i].flushHeader
        /\ HeaderShouldFlush(packs'[k]) => packs'[k].flushes = logDone
    BY <1>2, <2>2
  <2> QED
    BY <1>1, <1>3, <2>1, <2>2, <2>3 DEF i
<1> QED
  BY <1>4, <1>5

\* The packs that go to the log device follow those that are there.
LEMMA PacksLaidKept ==
  ASSUME LogInv, [Next]_vars
  PROVE  PacksLaid'
<1>0. PacksLaid /\ WpacksLaid /\ LatestLaid
  BY LayoutParts DEF LogInv
<1>1. CASE UNCHANGED packs
  <2>1. ASSUME NEW k \in DOMAIN packs
        PROVE  /\ PackIn(packs[k], kind', biowLsid')
               /\ packs[k].last < sNext' /\ NextLsid(packs[k]) <= latest'
    <3>1. /\ packs[k] \in Packs /\ PackIn(packs[k], kind', biowLsid')
          /\ packs[k].last < sNext /\ NextLsid(packs[k]) <= latest
      BY <2>1, PacksStay
    <3>2. packs[k].last \in Nat /\ NextLsid(packs[k]) \in Nat
      BY <3>1, PackTypes
    <3> QED
      BY <3>1, <3>2, LatestGrows, SNextGrows
  <2> QED
    BY <1>0, <1>1, <2>1 DEF PacksLaid, PackOK
<1>2. CASE SubmitLogpacks
  <2>0. UNCHANGED <<kind, biowLsid, sNext, latest>> /\ sPc = "ring"
    BY <1>2 DEF SubmitLogpacks, clientVars, lsidVars
  <2>1. ASSUME NEW k \in DOMAIN packs'
        PROVE  /\ PackIn(packs'[k], kind, biowLsid)
               /\ packs'[k].last < sNext /\ NextLsid(packs'[k]) <= latest
    <3>1. CASE k \in DOMAIN packs /\ packs'[k] = packs[k]
      BY <1>0, <3>1 DEF PacksLaid, PackOK
    <3>2. ASSUME NEW i \in DOMAIN wpacks, SamePack(packs'[k], wpacks[i])
          PROVE  /\ PackIn(packs'[k], kind, biowLsid)
                 /\ packs'[k].last < sNext /\ NextLsid(packs'[k]) <= latest
      <4>1. /\ PackIn(wpacks[i], kind, biowLsid) /\ wpacks[i].last < sNext
            /\ NextLsid(wpacks[i]) <= EndOfWpacks
        BY <3>2, LastWpack DEF PackOK
      <4>2. latest = EndOfWpacks
        BY <1>0, <2>0 DEF LatestLaid, RingLoop
      <4>3. PackIn(packs'[k], kind, biowLsid)
        BY <3>2, <4>1, SamePackIn
      <4> QED
        BY <3>2, <4>1, <4>2, <4>3 DEF SamePack, NextLsid
    <3> QED
      BY <1>2, <2>1, <3>1, <3>2, SubmittedPack
  <2>2. ASSUME NEW j \in DOMAIN packs', NEW k \in DOMAIN packs', j < k
        PROVE  Precedes(packs'[j], packs'[k])
    <3>1. \A p : SamePack(p, p)
      BY DEF SamePack
    <3>2. /\ \/ j \in DOMAIN packs /\ packs'[j] = packs[j]
             \/ /\ j \notin DOMAIN packs /\ j - Len(packs) \in DOMAIN wpacks
                /\ SamePack(packs'[j], wpacks[j - Len(packs)])
          /\ \/ k \in DOMAIN packs /\ packs'[k] = packs[k]
             \/ /\ k \notin DOMAIN packs /\ k - Len(packs) \in DOMAIN wpacks
                /\ SamePack(packs'[k], wpacks[k - Len(packs)])
      BY <1>2, SubmittedPack
    <3>3. j \in Nat /\ k \in Nat /\ DOMAIN packs = 1..Len(packs) /\ Len(packs) \in Nat
          /\ j \in 1..Len(packs') /\ k \in 1..Len(packs')
      BY <1>2, SeqTypes, SubmitLogpacksDoes DEF LogInv
    <3>4. CASE j \in DOMAIN packs /\ k \in DOMAIN packs
      BY <1>0, <2>2, <3>2, <3>4 DEF PacksLaid
    <3>5. CASE j \in DOMAIN packs /\ k \notin DOMAIN packs
      BY <1>0, <3>1, <3>2, <3>5, SamePrecedes DEF WpacksLaid
    <3>6. CASE j \notin DOMAIN packs
      <4>1. k \notin DOMAIN packs /\ j - Len(packs) < k - Len(packs)
        BY <2>2, <3>3, <3>6
      <4>2. Precedes(wpacks[j - Len(packs)], wpacks[k - Len(packs)])
        BY <1>0, <3>2, <3>6, <4>1 DEF WpacksLaid
      <4> QED
        BY <3>2, <3>6, <4>1, <4>2, SamePrecedes
    <3> QED
      BY <3>4, <3>5, <3>6
  <2> QED
    BY <2>0, <2>1, <2>2 DEF PacksLaid, PackOK
<1> QED
  BY <1>1, <1>2, Writers

\* What the last pack leaves before it once a bio is added.
LEMMA AddedPack ==
  ASSUME LogInv, AddBioWrapper, NEW p, NEW m \in Nat \ {0}, Adds(p, m)
  PROVE  /\ DOMAIN wpacks' = 1..m /\ p \in Packs
         /\ latest <= p.lsid /\ completed <= p.lsid /\ wBio <= p.first /\ p.newPermanent <= flush
         /\ \A k \in 1..(m - 1) : Precedes(wpacks[k], p)
         /\ \A k \in DOMAIN packs : Precedes(packs[k], p)
<1>0. /\ p \in Packs /\ wpacks' \in Seq(Packs) /\ Len(wpacks') = m /\ p.last = sNext
      /\ Len(wpacks) \in Nat /\ DOMAIN wpacks = 1..Len(wpacks) /\ sPc = "create"
      /\ latest \in Nat /\ completed \in Nat /\ wBio \in Nat /\ flush \in Nat /\ sNext \in Nat
      /\ completed <= latest /\ wBio <= sNext /\ DOMAIN wpacks' = 1..m
  BY AddsPack, SeqTypes DEF Adds, LogInv, TypeOK, LsidTypes, WaitTypes, SubmitTypes, Waiting
<1>1. CASE /\ m = Len(wpacks) + 1 /\ p.first = sNext /\ p.newPermanent = 0
           /\ p.lsid = (IF m = 1 THEN latest ELSE EndOfWpacks)
  <2>1. ASSUME NEW k \in 1..(m - 1)
        PROVE  /\ Precedes(wpacks[k], p) /\ latest <= wpacks[k].lsid
               /\ completed <= wpacks[k].lsid
               /\ wpacks[k].lsid \in Nat /\ wpacks[k].lsid <= EndOfWpacks
               /\ EndOfWpacks \in Nat
    <3>1. k \in DOMAIN wpacks /\ m # 1
      BY <1>0, <1>1
    <3>2. wpacks[k] \in Packs /\ wpacks[k].last < sNext /\ NextLsid(wpacks[k]) <= EndOfWpacks
          /\ EndOfWpacks \in Nat
      BY <3>1, LastWpack
    <3>3. latest <= wpacks[k].lsid /\ completed <= wpacks[k].lsid
      BY <1>0, <3>1 DEF LogInv, Layout, Waiting
    <3>4. /\ NextLsid(wpacks[k]) \in Nat /\ wpacks[k].lsid \in Nat
          /\ wpacks[k].lsid <= NextLsid(wpacks[k])
      BY <3>2, PackTypes, PackEnds
    <3> QED
      BY <1>1, <3>1, <3>2, <3>3, <3>4 DEF Precedes
  <2>2. latest <= p.lsid /\ completed <= p.lsid /\ p.lsid \in Nat
    <3>1. CASE m = 1
      BY <1>0, <1>1, <3>1
    <3>2. CASE m # 1
      <4>1. 1 \in 1..(m - 1)
        BY <3>2
      <4> QED
        BY <1>0, <1>1, <2>1, <3>2, <4>1
    <3> QED
      BY <3>1, <3>2
  <2>3. ASSUME NEW k \in DOMAIN packs PROVE Precedes(packs[k], p)
    <3>1. packs[k] \in Packs /\ packs[k].last < sNext /\ NextLsid(packs[k]) <= latest
      BY SeqTypes DEF LogInv, Layout
    <3>2. NextLsid(packs[k]) \in Nat
      BY <3>1, PackTypes
    <3> QED
      BY <1>0, <1>1, <2>2, <3>1, <3>2 DEF Precedes
  <2> QED
    BY <1>0, <1>1, <2>1, <2>2, <2>3
<1>2. CASE /\ m = Len(wpacks) /\ p.first = wpacks[m].first /\ p.lsid = wpacks[m].lsid
           /\ p.newPermanent = wpacks[m].newPermanent
  <2>1. m \in DOMAIN wpacks
    BY <1>0, <1>2
  <2>2. /\ latest <= p.lsid /\ completed <= p.lsid /\ wBio <= p.first /\ p.newPermanent <= flush
    BY <1>0, <1>2, <2>1 DEF LogInv, Layout, Waiting, Following
  <2>3. ASSUME NEW k \in 1..(m - 1) PROVE Precedes(wpacks[k], p)
    <3>1. k \in DOMAIN wpacks /\ k < m
      BY <1>0, <1>2
    <3> QED
      BY <1>2, <2>1, <3>1 DEF LogInv, Layout, Precedes
  <2>4. ASSUME NEW k \in DOMAIN packs PROVE Precedes(packs[k], p)
    BY <1>2, <2>1 DEF LogInv, Layout, Precedes
  <2> QED
    BY <1>0, <2>2, <2>3, <2>4
<1> QED
  BY <1>1, <1>2 DEF Adds

\* The packs being built follow each other and latest follows them, also where
\* create_logpack_list gives up.
LEMMA WpacksLaidKept ==
  ASSUME LogInv, [Next]_vars
  PROVE  WpacksLaid' /\ LatestLaid'
<1>0. PacksLaid /\ WpacksLaid /\ LatestLaid
  BY LayoutParts DEF LogInv
<1>1. ASSUME wpacks' = <<>>, sPc' \notin RingLoop PROVE WpacksLaid' /\ LatestLaid'
  <2>1. DOMAIN wpacks' = {}
    BY <1>1
  <2> QED
    BY <1>1, <2>1 DEF WpacksLaid, LatestLaid
<1>2. ASSUME UNCHANGED <<wpacks, packs, sNext>>,
             sPc' \in RingLoop => sPc \in RingLoop, sPc' = "create" => sPc = "create",
             UNCHANGED latest
      PROVE  WpacksLaid' /\ LatestLaid'
  BY <1>0, <1>2, WpacksStay DEF WpacksLaid, LatestLaid, PackOK, EndOfWpacks
<1>3. ASSUME AddBioWrapper PROVE WpacksLaid' /\ LatestLaid'
  <2>1. PICK p, m : Adds(p, m) /\ m \in Nat \ {0}
    BY <1>3, AddsPack
  <2>2. /\ sPc = "create" /\ sNext' = sNext + 1 /\ UNCHANGED <<sPc, kind, packs, latest>>
        /\ sNext \in Nat
    BY <1>3, AddsPack DEF LogInv, TypeOK, SubmitTypes
  <2>3. /\ DOMAIN wpacks' = 1..m /\ p \in Packs /\ latest <= p.lsid
        /\ \A k \in 1..(m - 1) : Precedes(wpacks[k], p)
        /\ \A k \in DOMAIN packs : Precedes(packs[k], p)
    BY <1>3, <2>1, AddedPack
  <2>4. /\ wpacks'[m] = p /\ \A k \in 1..(m - 1) : k \in DOMAIN wpacks /\ wpacks'[k] = wpacks[k]
        /\ PackIn(p, kind, biowLsid') /\ p.last = sNext /\ Len(wpacks') = m
    BY <2>1 DEF Adds
  <2>5. \A k \in 1..m : k = m \/ k \in 1..(m - 1)
    BY <2>1
  <2>6. ASSUME NEW k \in 1..m
        PROVE  /\ PackIn(wpacks'[k], kind, biowLsid') /\ latest <= wpacks'[k].lsid
               /\ \A j \in DOMAIN packs : Precedes(packs[j], wpacks'[k])
    <3>1. CASE k = m
      BY <2>3, <2>4, <3>1
    <3>2. CASE k \in 1..(m - 1)
      <4>1. k \in DOMAIN wpacks /\ wpacks'[k] = wpacks[k]
        BY <2>4, <3>2
      <4>2. PackIn(wpacks[k], kind', biowLsid')
        BY <4>1, WpacksStay
      <4> QED
        BY <1>0, <2>2, <4>1, <4>2 DEF WpacksLaid, LatestLaid
    <3> QED
      BY <2>5, <3>1, <3>2
  <2>7. ASSUME NEW j \in 1..m, NEW k \in 1..m, j < k PROVE Precedes(wpacks'[j], wpacks'[k])
    <3>1. j \in 1..(m - 1)
      BY <2>1, <2>7
    <3>2. CASE k = m
      BY <2>3, <2>4, <3>1, <3>2
    <3>3. CASE k \in 1..(m - 1)
      BY <1>0, <2>4, <2>7, <3>1, <3>3 DEF WpacksLaid
    <3> QED
      BY <2>5, <3>2, <3>3
  <2>8. wpacks'[Len(wpacks')].last = sNext' - 1
    BY <2>2, <2>4
  <2>9. WpacksLaid'
    BY <2>2, <2>3, <2>6, <2>7, <2>8 DEF WpacksLaid, PackOK
  <2>10. LatestLaid'
    BY <2>2, <2>3, <2>6 DEF LatestLaid, RingLoop
  <2> QED
    BY <2>9, <2>10
<1>4. ASSUME NEW e \in BOOLEAN, StoreLsids(e) PROVE WpacksLaid' /\ LatestLaid'
  <2>1. UNCHANGED <<kind, biowLsid, packs, sNext>>
    BY <1>4 DEF StoreLsids, clientVars, logVars
  <2>2. /\ sPc' = "ring" /\ wpacks # <<>> /\ latest' = EndOfWpacks
        /\ wpacks' \in Seq(Packs) /\ Len(wpacks') = Len(wpacks)
        /\ \A k \in 1..Len(wpacks) : SamePack(wpacks'[k], wpacks[k])
    BY <1>4, StoreLsidsDoes
  <2>3. DOMAIN wpacks = 1..Len(wpacks) /\ DOMAIN wpacks' = DOMAIN wpacks
        /\ Len(wpacks) \in DOMAIN wpacks
    BY <2>2, SeqTypes, EmptySeq DEF LogInv, TypeOK, SubmitTypes
  <2>4. \A k \in DOMAIN wpacks : SamePack(wpacks'[k], wpacks[k])
    BY <2>2, <2>3
  <2>5. \A p : SamePack(p, p)
    BY DEF SamePack
  <2>6. \A k \in DOMAIN wpacks : PackIn(wpacks'[k], kind, biowLsid)
    BY <1>0, <2>4, SamePackIn DEF WpacksLaid, PackOK
  <2>7. \A j, k \in DOMAIN wpacks : j < k => Precedes(wpacks'[j], wpacks'[k])
    BY <1>0, <2>4, SamePrecedes DEF WpacksLaid
  <2>8. \A j \in DOMAIN packs, k \in DOMAIN wpacks : Precedes(packs[j], wpacks'[k])
    BY <1>0, <2>4, <2>5, SamePrecedes DEF WpacksLaid
  <2>9. /\ wpacks'[Len(wpacks)].last = sNext - 1
        /\ NextLsid(wpacks'[Len(wpacks)]) = EndOfWpacks
    BY <1>0, <2>2, <2>3, <2>4 DEF WpacksLaid, SamePack, NextLsid, EndOfWpacks
  <2>10. WpacksLaid'
    BY <2>1, <2>2, <2>3, <2>6, <2>7, <2>8, <2>9 DEF WpacksLaid, PackOK
  <2>11. LatestLaid'
    BY <2>2, <2>9 DEF LatestLaid, RingLoop, EndOfWpacks
  <2> QED
    BY <2>10, <2>11
<1>5. ASSUME SubmitDequeue PROVE WpacksLaid' /\ LatestLaid'
  <2>1. wpacks' = <<>> /\ sPc' \notin RingLoop
    BY <1>5 DEF SubmitDequeue, RingLoop, LogInv, Ranges
  <2> QED
    BY <1>1, <2>1
<1>6. ASSUME SubmitLogpacks \/ RefuseOverflow \/ RingReadOnly PROVE WpacksLaid' /\ LatestLaid'
  <2>1. wpacks' = <<>> /\ sPc' = "idle"
    BY <1>6 DEF SubmitLogpacks, RefuseOverflow, RingReadOnly, SubmitError, SubmitReturn
  <2> QED
    BY <1>1, <2>1 DEF RingLoop
<1>7. ASSUME RingForceFlush \/ RingTakeCheckpoint \/ \E ok \in BOOLEAN : RingFlushed(ok)
      PROVE  WpacksLaid' /\ LatestLaid'
  <2>1. UNCHANGED <<wpacks, packs, sNext, latest>> /\ sPc \in RingLoop /\ sPc' # "create"
    BY <1>7 DEF RingForceFlush, RingTakeCheckpoint, RingFlushed, RingCheckpoint, RingLoop, logVars,
                lsidVars
  <2> QED
    BY <1>2, <2>1
<1>8. ASSUME NEW c \in Callers, SyncRefused(c) \/ SyncFail(c) \/ SyncDone(c)
      PROVE  WpacksLaid' /\ LatestLaid'
  <2>1. UNCHANGED <<packs, sNext, latest>>
    BY <1>8 DEF SyncRefused, SyncFail, SyncDone, logVars, lsidVars
  <2>2. c = "submit" => sPc = "sync"
    BY <1>8 DEF SyncRefused, SyncFail, SyncDone, LogInv, Ranges
  <2>3. \/ sPc' = "ring" /\ UNCHANGED wpacks /\ sPc = "sync"
        \/ sPc' = "idle" /\ wpacks' = <<>>
        \/ UNCHANGED <<sPc, wpacks>>
    BY <1>8, <2>2 DEF SyncRefused, SyncFail, SyncDone, SyncReturn, SubmitError, SubmitReturn
  <2>4. CASE sPc' = "ring" /\ UNCHANGED wpacks /\ sPc = "sync"
    BY <1>2, <2>1, <2>4 DEF RingLoop
  <2>5. CASE sPc' = "idle" /\ wpacks' = <<>>
    BY <1>1, <2>5 DEF RingLoop
  <2>6. CASE UNCHANGED <<sPc, wpacks>>
    BY <1>2, <2>1, <2>6
  <2> QED
    BY <2>3, <2>4, <2>5, <2>6
<1>9. CASE UNCHANGED <<wpacks, packs, sNext, sPc, latest>>
  BY <1>2, <1>9
<1> QED
  BY <1>3, <1>4, <1>5, <1>6, <1>7, <1>8, <1>9, Writers

\* Every step keeps the log laid out.
LEMMA LayoutKept ==
  ASSUME LogInv, [Next]_vars
  PROVE  Layout'
<1>1. PacksLaid' /\ WpacksLaid' /\ LatestLaid'
  BY PacksLaidKept, WpacksLaidKept
<1> QED
  BY <1>1 DEF Layout, PacksLaid, WpacksLaid, LatestLaid

-----------------------------------------------------------------------------
(* The wait task *)

\* The packs on the log device grow at the end.
LEMMA PacksGrow ==
  ASSUME LogInv, [Next]_vars
  PROVE  /\ Len(packs) \in Nat /\ DOMAIN packs = 1..Len(packs)
         /\ Len(packs') \in Nat /\ DOMAIN packs' = 1..Len(packs') /\ Len(packs) <= Len(packs')
         /\ \A k \in DOMAIN packs : k \in DOMAIN packs' /\ packs'[k] = packs[k]
         /\ \A k \in DOMAIN packs' : k \notin DOMAIN packs =>
              /\ SubmitLogpacks
              /\ k - Len(packs) \in DOMAIN wpacks /\ SamePack(packs'[k], wpacks[k - Len(packs)])
              /\ packs'[k].newPermanent = wpacks[k - Len(packs)].newPermanent
<1>1. Len(packs) \in Nat /\ DOMAIN packs = 1..Len(packs)
  BY SeqTypes DEF LogInv
<1>2. CASE UNCHANGED packs
  BY <1>1, <1>2
<1>3. CASE SubmitLogpacks
  <2>1. /\ packs' \in Seq(Packs) /\ Len(packs') = Len(packs) + Len(wpacks)
        /\ \A k \in 1..Len(packs) : packs'[k] = packs[k]
    BY <1>3, SubmitLogpacksDoes
  <2>2. Len(wpacks) \in Nat
    BY SeqTypes DEF LogInv
  <2>3. Len(packs') \in Nat /\ DOMAIN packs' = 1..Len(packs')
    BY <2>1
  <2>4. \A k \in DOMAIN packs : k \in DOMAIN packs' /\ packs'[k] = packs[k]
    BY <1>1, <2>1, <2>2, <2>3
  <2>5. \A k \in DOMAIN packs' : k \notin DOMAIN packs =>
              /\ k - Len(packs) \in DOMAIN wpacks /\ SamePack(packs'[k], wpacks[k - Len(packs)])
              /\ packs'[k].newPermanent = wpacks[k - Len(packs)].newPermanent
    BY <1>3, SubmittedPack
  <2>6. Len(packs) <= Len(packs')
    BY <1>1, <2>1, <2>2
  <2> QED
    BY <1>1, <1>3, <2>3, <2>4, <2>5, <2>6
<1> QED
  BY <1>2, <1>3, Writers

\* Where the log of a bio lies in its pack.
LEMMA BioInPack ==
  ASSUME LogInv, NEW k \in DOMAIN packs, NEW i \in packs[k].first..packs[k].last,
         HasData(kind[i])
  PROVE  /\ i \in Bios /\ biowLsid[i] \in Nat /\ EndOf(i) \in Nat /\ biowLsid[i] <= EndOf(i)
         /\ packs[k].nRec > 0 /\ packs[k].lsid < biowLsid[i]
         /\ EndOf(i) <= NextLsid(packs[k])
         /\ \A j \in (i + 1)..packs[k].last : EndOf(i) <= biowLsid[j]
<1>1. /\ packs[k] \in Packs /\ PackIn(packs[k], kind, biowLsid)
      /\ Len(kind) \in Nat /\ Bios = 1..Len(kind)
  BY SeqTypes DEF LogInv, Layout, PackOK
<1>2. /\ packs[k].first \in Nat /\ packs[k].last \in Nat /\ packs[k].lsid \in Nat
      /\ packs[k].nRec \in Nat /\ 1 <= packs[k].first /\ packs[k].last <= Len(kind)
      /\ packs[k].first <= packs[k].last
  BY <1>1, PackTypes DEF PackIn
<1>3. i \in Bios /\ packs[k].last \in Bios
  BY <1>1, <1>2
<1>4. \A j \in {i, packs[k].last} : /\ LogPb(kind[j]) \in 0..1 /\ biowLsid[j] \in Nat
                                    /\ EndOf(j) = biowLsid[j] + LogPb(kind[j])
  BY <1>3, SeqTypes DEF LogInv, EndOf
<1>5. packs[k].nRec > 0
  <2>1. packs[k].nRec = 0 => i = packs[k].first
    BY <1>1, <1>2 DEF PackIn
  <2> QED
    BY <1>1, <1>2, <2>1 DEF PackIn
<1>6. /\ packs[k].lsid < biowLsid[i]
      /\ EndOf(packs[k].last) = NextLsid(packs[k])
      /\ \A j \in packs[k].first..packs[k].last : i < j => EndOf(i) <= biowLsid[j]
  BY <1>1, <1>5 DEF PackIn, EndOf
<1>7. EndOf(i) \in Nat /\ biowLsid[i] <= EndOf(i) /\ EndOf(packs[k].last) \in Nat
      /\ biowLsid[packs[k].last] <= EndOf(packs[k].last) /\ biowLsid[packs[k].last] \in Nat
  BY <1>4
<1>8. EndOf(i) <= NextLsid(packs[k])
  <2>1. i = packs[k].last \/ i < packs[k].last
    BY <1>2
  <2>2. packs[k].last \in packs[k].first..packs[k].last
    BY <1>2
  <2> QED
    BY <1>6, <1>7, <2>1, <2>2
<1>9. \A j \in (i + 1)..packs[k].last : EndOf(i) <= biowLsid[j]
  BY <1>2, <1>6
<1> QED
  BY <1>3, <1>4, <1>5, <1>6, <1>7, <1>8, <1>9

\* The wait task keeps Waiting: it moves to p, the pack at wPack', and stays in front of
\* those behind it.
LEMMA WaitingFront ==
  ASSUME LogInv, UNCHANGED <<packs, wpacks, kind, biowLsid, latest, sNext>>,
         wPack' \in DOMAIN packs, wPack <= wPack', wBio' \in Nat, completed' \in Nat,
         completed' <= NextLsid(packs[wPack']),
         packs[wPack'].first <= wBio', wBio' <= packs[wPack'].last + 1
  PROVE  /\ completed' <= latest' /\ 1 <= wBio' /\ wBio' <= sNext'
         /\ \A k \in DOMAIN packs' : k > wPack' =>
              completed' <= packs'[k].lsid /\ wBio' <= packs'[k].first
         /\ \A k \in DOMAIN wpacks' : completed' <= wpacks'[k].lsid /\ wBio' <= wpacks'[k].first
         /\ \A k \in DOMAIN packs' : k < wPack' => packs'[k].last < wBio'
<1> DEFINE p == packs[wPack']
<1>1. /\ p \in Packs /\ PackIn(p, kind, biowLsid) /\ p.last < sNext /\ NextLsid(p) <= latest
      /\ \A k \in DOMAIN packs : k > wPack' => Precedes(p, packs[k])
      /\ \A k \in DOMAIN packs : k < wPack' => Precedes(packs[k], p)
      /\ \A k \in DOMAIN wpacks : Precedes(p, wpacks[k])
  BY SeqTypes DEF LogInv, Layout, PackOK
<1>2. /\ p.first \in Nat /\ p.last \in Nat /\ NextLsid(p) \in Nat /\ sNext \in Nat /\ latest \in Nat
      /\ 1 <= p.first /\ p.first <= p.last
      /\ p.first <= wBio' /\ wBio' <= p.last + 1 /\ completed' <= NextLsid(p)
  BY <1>1, PackTypes DEF LogInv, TypeOK, SubmitTypes, LsidTypes, PackIn
<1> HIDE DEF p
<1>3. completed' <= latest /\ 1 <= wBio' /\ wBio' <= sNext
  BY <1>1, <1>2
<1>4. ASSUME NEW q \in Packs, Precedes(p, q) PROVE completed' <= q.lsid /\ wBio' <= q.first
  <2>1. q.lsid \in Nat /\ q.first \in Nat
    BY PackTypes
  <2> QED
    BY <1>2, <1>4, <2>1 DEF Precedes
<1>5. ASSUME NEW q \in Packs, Precedes(q, p) PROVE q.last < wBio'
  <2>1. q.last \in Nat
    BY PackTypes
  <2> QED
    BY <1>2, <1>5, <2>1 DEF Precedes
<1>6. /\ \A k \in DOMAIN packs : packs[k] \in Packs
      /\ \A k \in DOMAIN wpacks : wpacks[k] \in Packs
  BY SeqTypes DEF LogInv
<1> QED
  BY <1>1, <1>3, <1>4, <1>5, <1>6

\* The step of the wait task within its pack.
LEMMA WaitTaskMoves ==
  ASSUME LogInv, WaitTask
  PROVE  Waiting' /\ completed <= completed'
<1>0. UNCHANGED <<packs, wpacks, kind, biowLsid, latest, sNext>>
  BY DEF WaitTask, WaitStart, WaitHeader, WaitBioError, WaitBioOk, WaitBioFua, WaitFuaFlushed,
         WaitPackEnd, clientVars, lsidVars, submitVars, logVars
<1>1. /\ completed \in Nat /\ wBio \in Nat /\ wPack \in Nat /\ latest \in Nat
      /\ DOMAIN packs = 1..Len(packs) /\ Len(packs) \in Nat
      /\ wPc \in {"idle", "header", "bio", "fua"}
  BY SeqTypes DEF LogInv, TypeOK, LsidTypes, WaitTypes
<1> DEFINE p == packs[wPack]
<1>2. ASSUME wPc # "idle"
      PROVE  /\ wPack \in DOMAIN packs /\ p \in Packs /\ p.first <= wBio /\ wBio <= p.last + 1
             /\ p.first \in Nat /\ p.last \in Nat /\ NextLsid(p) \in Nat
    BY <1>2, WaitBioSent, PackTypes DEF LogInv, Waiting
<1>3. ASSUME WaitStart PROVE Waiting' /\ completed <= completed'
  <2> DEFINE q == packs[wPack + 1]
  <2>1. wPc = "idle" /\ wPack' = wPack + 1 /\ wPc' = "header" /\ wBio' = q.first
        /\ completed' = completed /\ wPack + 1 \in DOMAIN packs
    <3>1. wPc = "idle" /\ wPack' = wPack + 1 /\ wPc' = "header" /\ wBio' = q.first
          /\ completed' = completed
      BY <1>3 DEF WaitStart, lsidVars
    <3>2. wPack + 1 \in 1..Len(packs)
      BY <1>1, <1>3, LogAssumption DEF WaitStart, LogInv, Ranges, TypeOK, WaitTypes, MinOf
    <3> QED
      BY <1>1, <3>1, <3>2
  <2>2. /\ q \in Packs /\ PackIn(q, kind, biowLsid)
    BY <2>1, SeqTypes DEF LogInv, Layout, PackOK
  <2>3. completed <= q.lsid
    BY <1>1, <2>1 DEF LogInv, Waiting
  <2>4. /\ q.first \in Nat /\ q.last \in Nat /\ q.lsid \in Nat /\ NextLsid(q) \in Nat
        /\ q.lsid <= NextLsid(q) /\ q.first <= q.last
    BY <2>2, PackTypes, PackEnds DEF PackIn
  <2>5. completed' <= NextLsid(q) /\ completed' \in Nat /\ wBio' \in Nat
    BY <1>1, <2>1, <2>3, <2>4
  <2>6. \A j \in q.first..q.last : HasData(kind[j]) => completed <= biowLsid[j]
    <3> SUFFICES ASSUME NEW j \in q.first..q.last, HasData(kind[j]) PROVE completed <= biowLsid[j]
      OBVIOUS
    <3>1. biowLsid[j] \in Nat /\ q.lsid < biowLsid[j]
      BY <2>1, BioInPack
    <3> QED
      BY <1>1, <2>3, <2>4, <3>1
  <2>7. wPack' \in DOMAIN packs /\ wPack <= wPack' /\ packs[wPack'] = q
    BY <1>1, <2>1
  <2> HIDE DEF q
  <2>8. /\ completed' <= latest' /\ 1 <= wBio' /\ wBio' <= sNext'
        /\ \A k \in DOMAIN packs' : k > wPack' =>
              completed' <= packs'[k].lsid /\ wBio' <= packs'[k].first
        /\ \A k \in DOMAIN wpacks' : completed' <= wpacks'[k].lsid /\ wBio' <= wpacks'[k].first
        /\ \A k \in DOMAIN packs' : k < wPack' => packs'[k].last < wBio'
    BY <1>0, <2>1, <2>4, <2>5, <2>7, WaitingFront
  <2> QED
    BY <1>0, <1>1, <2>1, <2>3, <2>4, <2>5, <2>6, <2>7, <2>8 DEF Waiting
\* The other steps stay in the pack.
<1>4. ASSUME wPc # "idle", wPack' = wPack, wBio' \in Nat, completed' \in Nat,
             completed' <= NextLsid(p), p.first <= wBio', wBio' <= p.last + 1,
             wPc' = "idle" => p.last < wBio', wPc' # "header",
             wPc' = "bio" =>
               \A j \in wBio'..p.last : HasData(kind[j]) => completed' <= biowLsid[j],
             wPc' = "fua" => /\ wBio' <= p.last /\ IsFua(kind[wBio'])
                             /\ completed' = biowLsid[wBio'] + LogPb(kind[wBio'])
                             /\ ldevFlush'["wait"].lsid = completed'
      PROVE  Waiting'
  <2>1. /\ completed' <= latest' /\ 1 <= wBio' /\ wBio' <= sNext'
        /\ \A k \in DOMAIN packs' : k > wPack' =>
              completed' <= packs'[k].lsid /\ wBio' <= packs'[k].first
        /\ \A k \in DOMAIN wpacks' : completed' <= wpacks'[k].lsid /\ wBio' <= wpacks'[k].first
        /\ \A k \in DOMAIN packs' : k < wPack' => packs'[k].last < wBio'
    BY <1>0, <1>1, <1>2, <1>4, WaitingFront
  <2>2. packs' = packs /\ kind' = kind /\ biowLsid' = biowLsid
    BY <1>0
  <2> QED
    BY <1>4, <2>1, <2>2 DEF Waiting, EndOf
<1>5. ASSUME wPc \in {"header", "bio"}
      PROVE  /\ completed <= NextLsid(p)
             /\ \A j \in wBio..p.last : HasData(kind[j]) => completed <= biowLsid[j]
  BY <1>5 DEF LogInv, Waiting
<1>6. ASSUME WaitHeader PROVE Waiting' /\ completed <= completed'
  <2>1. wPc = "header" /\ wPc' = "bio" /\ UNCHANGED <<wPack, wBio, completed>>
    BY <1>6 DEF WaitHeader
  <2> QED
    BY <1>1, <1>2, <1>4, <1>5, <2>1
<1>7. ASSUME WaitBioError \/ WaitBioOk PROVE Waiting' /\ completed <= completed'
  <2>1. wPc = "bio" /\ wPc' = "bio" /\ wBio <= p.last /\ wBio' = wBio + 1
        /\ UNCHANGED <<wPack, completed>>
    BY <1>7 DEF WaitBioError, WaitBioOk, WaitingForBio, Ack, lsidVars
  <2>2. \A j \in wBio'..p.last : j \in wBio..p.last
    BY <1>1, <1>2, <2>1
  <2>3. wBio' \in Nat /\ p.first <= wBio' /\ wBio' <= p.last + 1
    BY <1>1, <1>2, <2>1
  <2> QED
    BY <1>1, <1>2, <1>4, <1>5, <2>1, <2>2, <2>3
<1>8. ASSUME WaitBioFua PROVE Waiting' /\ completed <= completed'
  <2>1. /\ wPc = "bio" /\ wPc' = "fua" /\ wBio <= p.last /\ UNCHANGED <<wPack, wBio>>
        /\ completed' = biowLsid[wBio] + LogPb(kind[wBio]) /\ IsFua(kind[wBio])
    BY <1>8 DEF WaitBioFua, WaitingForBio
  <2>2. ldevFlush'["wait"].lsid = completed'
    BY <1>8 DEF WaitBioFua, FlushBegin, LogInv, TypeOK, LogTypes
  <2>3. wBio \in p.first..p.last /\ HasData(kind[wBio]) /\ wBio \in wBio..p.last
    BY <1>1, <1>2, <2>1 DEF IsFua, HasData
  <2>4. /\ EndOf(wBio) \in Nat /\ EndOf(wBio) <= NextLsid(p) /\ biowLsid[wBio] <= EndOf(wBio)
        /\ biowLsid[wBio] \in Nat
    BY <1>2, <2>1, <2>3, BioInPack
  <2>5. completed <= biowLsid[wBio]
    BY <1>5, <2>1, <2>3
  <2>6. completed' = EndOf(wBio)
    BY <2>1 DEF EndOf
  <2> QED
    BY <1>1, <1>2, <1>4, <2>1, <2>2, <2>4, <2>5, <2>6
<1>9. ASSUME NEW ok \in BOOLEAN, WaitFuaFlushed(ok) PROVE Waiting' /\ completed <= completed'
  <2>1. wPc = "fua" /\ wPc' = "bio" /\ wBio' = wBio + 1 /\ UNCHANGED <<wPack, completed>>
    BY <1>9 DEF WaitFuaFlushed, Ack
  <2>2. wBio <= p.last /\ IsFua(kind[wBio]) /\ completed = EndOf(wBio)
    BY <2>1 DEF LogInv, Waiting
  <2>3. wBio \in p.first..p.last /\ HasData(kind[wBio])
    BY <1>1, <1>2, <2>1, <2>2 DEF IsFua, HasData
  <2>4. /\ EndOf(wBio) <= NextLsid(p)
        /\ \A j \in (wBio + 1)..p.last : EndOf(wBio) <= biowLsid[j]
    BY <1>2, <2>1, <2>3, BioInPack
  <2>5. wBio' \in Nat /\ p.first <= wBio' /\ wBio' <= p.last + 1
    BY <1>1, <1>2, <2>1, <2>2
  <2> QED
    BY <1>1, <1>4, <2>1, <2>2, <2>4, <2>5
<1>10. ASSUME WaitPackEnd PROVE Waiting' /\ completed <= completed'
  <2>1. /\ wPc = "bio" /\ wPc' = "idle" /\ wBio > p.last /\ UNCHANGED <<wPack, wBio>>
        /\ completed' = completed \/ completed' = NextLsid(p)
    BY <1>10 DEF WaitPackEnd, CompletedAfter
  <2>2. completed <= NextLsid(p) /\ NextLsid(p) \in Nat /\ p.last < wBio
    BY <1>1, <1>2, <1>5, <2>1
  <2> QED
    BY <1>1, <1>2, <1>4, <2>1, <2>2
<1> QED
  BY <1>3, <1>6, <1>7, <1>8, <1>9, <1>10 DEF WaitTask

\* What a step does to the packs being built: a pack after it starts where one before it
\* did, or is the one that a bio was just added to.
LEMMA WpacksMove ==
  ASSUME LogInv, [Next]_vars, NEW k \in DOMAIN wpacks'
  PROVE  \/ k \in DOMAIN wpacks /\ wpacks'[k] = wpacks[k]
         \/ k \in DOMAIN wpacks /\ SamePack(wpacks'[k], wpacks[k])
            /\ wpacks'[k].newPermanent <= flush'
         \/ /\ AddBioWrapper /\ latest <= wpacks'[k].lsid /\ completed <= wpacks'[k].lsid
            /\ wBio <= wpacks'[k].first /\ wpacks'[k].newPermanent <= flush
<1>1. CASE UNCHANGED wpacks
  BY <1>1
<1>2. CASE AddBioWrapper
  <2>1. PICK p, m : Adds(p, m) /\ m \in Nat \ {0}
    BY <1>2, AddsPack
  <2>2. /\ DOMAIN wpacks' = 1..m /\ wpacks'[m] = p
        /\ \A i \in 1..(m - 1) : i \in DOMAIN wpacks /\ wpacks'[i] = wpacks[i]
        /\ latest <= p.lsid /\ completed <= p.lsid /\ wBio <= p.first /\ p.newPermanent <= flush
    BY <1>2, <2>1, AddedPack DEF Adds
  <2>3. k = m \/ k \in 1..(m - 1)
    BY <2>1, <2>2
  <2> QED
    BY <1>2, <2>2, <2>3
<1>3. ASSUME NEW e \in BOOLEAN, StoreLsids(e)
      PROVE  k \in DOMAIN wpacks /\ SamePack(wpacks'[k], wpacks[k])
             /\ wpacks'[k].newPermanent <= flush'
  <2>1. /\ wpacks' \in Seq(Packs) /\ Len(wpacks') = Len(wpacks)
        /\ \A i \in 1..Len(wpacks) : /\ SamePack(wpacks'[i], wpacks[i])
                                     /\ wpacks'[i].newPermanent <= flush'
    BY <1>3, StoreLsidsDoes
  <2>2. DOMAIN wpacks' = 1..Len(wpacks) /\ DOMAIN wpacks = 1..Len(wpacks)
    BY <2>1, SeqTypes DEF LogInv
  <2> QED
    BY <2>1, <2>2
<1>4. CASE wpacks' = <<>>
  BY <1>4
<1>5. ASSUME \/ RefuseOverflow \/ SubmitLogpacks \/ RingReadOnly
             \/ \E c \in Callers : SyncRefused(c) \/ SyncFail(c)
      PROVE  wpacks' = <<>> \/ wpacks' = wpacks
  BY <1>5, WhoGivesUp DEF GivesUp, SubmitLogpacks, SubmitReturn
<1> QED
  BY <1>1, <1>2, <1>3, <1>4, <1>5, Writers

\* The wait task takes packs and bios in order, and completed stays behind it.
LEMMA WaitingKept ==
  ASSUME LogInv, [Next]_vars
  PROVE  Waiting'
<1>1. CASE WaitTask
  BY <1>1, WaitTaskMoves
<1>2. CASE ~WaitTask
  <2>1. UNCHANGED <<completed, wBio, wPc, wPack>>
    BY <1>2, Writers DEF WaitTask
  <2>2. ldevFlush'["wait"] = ldevFlush["wait"]
    <3>1. ASSUME \/ RingForceFlush \/ DataForceFlush
                 \/ \E ok \in BOOLEAN : RingFlushed(ok) \/ DataFlushed(ok)
          PROVE  ldevFlush'["wait"] = ldevFlush["wait"]
      BY <3>1 DEF RingForceFlush, DataForceFlush, RingFlushed, DataFlushed, FlushBegin, FlushEnd,
                  LogInv, TypeOK, LogTypes
    <3> QED
      BY <1>2, <3>1, Writers DEF WaitTask
  <2>3. Waiting /\ completed \in Nat /\ wBio \in Nat /\ wPack \in Nat
    BY DEF LogInv, TypeOK, LsidTypes, WaitTypes
  <2>4. completed' <= latest' /\ 1 <= wBio' /\ wBio' <= sNext'
    BY <2>1, <2>3, LatestGrows, SNextGrows DEF Waiting
  <2>5. ASSUME NEW k \in DOMAIN wpacks'
        PROVE  completed <= wpacks'[k].lsid /\ wBio <= wpacks'[k].first
    <3>1. CASE k \in DOMAIN wpacks /\ wpacks'[k] = wpacks[k]
      BY <2>3, <3>1 DEF Waiting
    <3>2. CASE k \in DOMAIN wpacks /\ SamePack(wpacks'[k], wpacks[k])
      BY <2>3, <3>2 DEF Waiting, SamePack
    <3> QED
      BY <2>5, <3>1, <3>2, WpacksMove
  <2>6. ASSUME NEW k \in DOMAIN packs', k > wPack
        PROVE  completed <= packs'[k].lsid /\ wBio <= packs'[k].first
    <3>1. CASE k \in DOMAIN packs
      BY <2>3, <2>6, <3>1, PacksGrow DEF Waiting
    <3>2. CASE k \notin DOMAIN packs
      BY <2>3, <3>2, PacksGrow DEF Waiting, SamePack
    <3> QED
      BY <3>1, <3>2
  <2>7. wPack <= Len(packs)
    <3>1. wPack <= wTo /\ wTo <= Len(packs) /\ wTo \in Nat /\ Len(packs) \in Nat
      BY SeqTypes DEF LogInv, Ranges, TypeOK, WaitTypes
    <3> QED
      BY <2>3, <3>1
  <2>8. ASSUME NEW k \in DOMAIN packs', k < wPack \/ (k = wPack /\ wPc = "idle")
        PROVE  packs'[k].last < wBio
    <3>1. k \in DOMAIN packs
      BY <2>3, <2>7, <2>8, PacksGrow
    <3> QED
      BY <2>3, <2>8, <3>1, PacksGrow DEF Waiting
  <2>9. ASSUME wPc # "idle"
        PROVE  /\ wPack \in DOMAIN packs /\ packs'[wPack] = packs[wPack]
               /\ \A i \in packs[wPack].first..packs[wPack].last :
                    kind'[i] = kind[i] /\ biowLsid'[i] = biowLsid[i]
    BY <2>9, WaitBioSent, PacksGrow, PacksStay
  <2>10. wPc # "idle" => packs'[wPack].first <= wBio /\ wBio <= packs'[wPack].last + 1
    BY <2>3, <2>9 DEF Waiting
  <2>11. wPc = "header" => wBio = packs'[wPack].first /\ completed <= packs'[wPack].lsid
    BY <2>3, <2>9 DEF Waiting
  <2>12. wPc \in {"header", "bio"} => completed <= NextLsid(packs'[wPack])
    BY <2>3, <2>9 DEF Waiting
  <2>13. ASSUME wPc \in {"header", "bio"}, NEW j \in wBio..packs'[wPack].last, HasData(kind'[j])
         PROVE  completed <= biowLsid'[j]
    <3>1. j \in packs[wPack].first..packs[wPack].last /\ j \in wBio..packs[wPack].last
      <4>1. packs[wPack].first \in Nat /\ packs[wPack].last \in Nat /\ packs[wPack].first <= wBio
        BY <2>3, <2>13, WaitBioSent, PackTypes DEF Waiting
      <4> QED
        BY <2>3, <2>9, <2>13, <4>1
    <3> QED
      BY <2>3, <2>9, <2>13, <3>1 DEF Waiting
  <2>14. ASSUME wPc = "fua"
         PROVE  /\ wBio <= packs'[wPack].last /\ IsFua(kind'[wBio])
                /\ completed = biowLsid'[wBio] + LogPb(kind'[wBio])
                /\ ldevFlush'["wait"].lsid = completed
    <3>1. /\ wBio <= packs[wPack].last /\ IsFua(kind[wBio])
          /\ completed = biowLsid[wBio] + LogPb(kind[wBio]) /\ ldevFlush["wait"].lsid = completed
      BY <2>3, <2>14 DEF Waiting, EndOf
    <3>2. wBio \in packs[wPack].first..packs[wPack].last
      <4>1. packs[wPack].first \in Nat /\ packs[wPack].last \in Nat /\ packs[wPack].first <= wBio
        BY <2>3, <2>14, WaitBioSent, PackTypes DEF Waiting
      <4> QED
        BY <2>3, <3>1, <4>1
    <3> QED
      BY <2>2, <2>9, <2>14, <3>1, <3>2
  <2> QED
    BY <2>1, <2>4, <2>5, <2>6, <2>8, <2>10, <2>11, <2>12, <2>13, <2>14 DEF Waiting, EndOf
<1> QED
  BY <1>1, <1>2

-----------------------------------------------------------------------------
(* The lsids that follow *)

\* completed, flush and permanent only grow, one behind the other.
LEMMA LsidsGrow ==
  ASSUME LogInv, [Next]_vars
  PROVE  /\ completed \in Nat /\ flush \in Nat /\ permanent \in Nat
         /\ completed' \in Nat /\ flush' \in Nat /\ permanent' \in Nat
         /\ completed <= completed' /\ flush <= flush' /\ permanent <= permanent'
         /\ flush' <= completed' /\ permanent' <= flush'
<1>0. /\ completed \in Nat /\ flush \in Nat /\ permanent \in Nat
      /\ permanent <= flush /\ flush <= completed
      /\ \A t \in {"submit", "wait", "data"} : ldevFlush[t].lsid \in Nat /\ ldevFlush[t].lsid <= flush
  BY DEF LogInv, TypeOK, LsidTypes, LogTypes, Flushes, Following
<1>1. completed' \in Nat /\ flush' \in Nat /\ permanent' \in Nat
  BY LsidTypesKept DEF LsidTypes
<1>2. completed <= completed'
  BY <1>0, WaitTaskMoves, Writers DEF WaitTask
<1>3. flush <= flush' /\ flush' <= completed'
  <2>1. ASSUME RingForceFlush \/ DataForceFlush PROVE flush <= flush' /\ flush' <= completed
    BY <1>0, <2>1 DEF RingForceFlush, DataForceFlush, FlushBegin, MaxOf
  <2>2. ASSUME WaitBioFua PROVE flush <= flush' /\ flush' <= completed'
    BY <1>0, <1>1, <1>2, <2>2 DEF WaitBioFua, FlushBegin, MaxOf
  <2>3. ASSUME NEW e \in BOOLEAN, StoreLsids(e) PROVE flush <= flush' /\ flush' <= completed
    BY <2>3, StoreLsidsDoes
  <2> QED
    BY <1>0, <1>1, <1>2, <2>1, <2>2, <2>3, Writers
<1>4. permanent <= permanent' /\ permanent' <= flush
  <2>1. ASSUME NEW ok \in BOOLEAN, RingFlushed(ok) \/ WaitFuaFlushed(ok) \/ DataFlushed(ok)
        PROVE  permanent <= permanent' /\ permanent' <= flush
    BY <1>0, <2>1 DEF RingFlushed, WaitFuaFlushed, DataFlushed, FlushEnd, MaxOf
  <2>2. ASSUME WaitHeader PROVE permanent <= permanent' /\ permanent' <= flush
    <3>1. wPack \in DOMAIN packs /\ packs[wPack].newPermanent \in Nat
      BY <2>2, WaitBioSent, PackTypes DEF WaitHeader
    <3>2. packs[wPack].newPermanent <= flush
      BY <3>1 DEF LogInv, Following
    <3> QED
      BY <1>0, <2>2, <3>1, <3>2 DEF WaitHeader, MaxOf
  <2> QED
    BY <1>0, <2>1, <2>2, Writers
<1> QED
  BY <1>0, <1>1, <1>2, <1>3, <1>4

\* written is the end of the last pack collected, and only grows.
LEMMA WrittenGrows ==
  ASSUME LogInv, [Next]_vars
  PROVE  /\ written \in Nat /\ written' \in Nat /\ written <= written'
         /\ written' = IF gcDone' = 0 THEN 0 ELSE NextLsid(packs'[gcDone'])
<1>0. /\ written \in Nat /\ gcDone \in Nat /\ gcBatch \in Nat /\ gcTo \in Nat /\ wPack \in Nat
      /\ wTo \in Nat /\ Len(packs) \in Nat
      /\ gcDone <= gcBatch /\ gcBatch <= Len(packs) /\ DOMAIN packs = 1..Len(packs)
      /\ written = IF gcDone = 0 THEN 0 ELSE NextLsid(packs[gcDone])
  BY SeqTypes DEF LogInv, TypeOK, LsidTypes, WaitTypes, Ranges, Following
<1>1. CASE GcLogpacks
  <2>1. /\ gcDone < gcBatch /\ written' = NextLsid(packs[gcBatch]) /\ gcDone' = gcBatch
        /\ packs' = packs
    BY <1>1 DEF GcLogpacks, logVars
  <2>2. gcBatch \in DOMAIN packs /\ (gcDone # 0 => gcDone \in DOMAIN packs)
    BY <1>0, <2>1
  <2>3. /\ packs[gcBatch] \in Packs /\ (gcDone # 0 => packs[gcDone] \in Packs)
        /\ (gcDone # 0 => Precedes(packs[gcDone], packs[gcBatch]))
    BY <1>0, <2>1, <2>2, SeqTypes DEF LogInv, Layout
  <2>4. /\ NextLsid(packs[gcBatch]) \in Nat /\ packs[gcBatch].lsid \in Nat
        /\ packs[gcBatch].lsid <= NextLsid(packs[gcBatch])
    BY <2>3, PackTypes, PackEnds
  <2> QED
    BY <1>0, <2>1, <2>2, <2>3, <2>4 DEF Precedes
<1>2. CASE UNCHANGED <<written, gcDone>>
  <2>1. gcDone # 0 => gcDone \in DOMAIN packs
    BY <1>0
  <2> QED
    BY <1>0, <1>2, <2>1, PacksGrow
<1> QED
  BY <1>1, <1>2, Writers

\* The other lsids follow completed.
LEMMA FollowingKept ==
  ASSUME LogInv, [Next]_vars
  PROVE  Following'
<1>0. Following /\ TypeOK
  BY DEF LogInv
<1>1. ASSUME NEW t \in {"submit", "wait", "data"} PROVE ldevFlush'[t].lsid <= flush'
  <2>0. ldevFlush[t].lsid \in Nat /\ ldevFlush[t].lsid <= flush
        /\ ldevFlush \in [{"submit", "wait", "data"} -> Flushes]
    BY <1>0 DEF TypeOK, LogTypes, Flushes, Following
  <2>1. ASSUME NEW u \in {"submit", "wait", "data"}, NEW comp \in Nat, FlushBegin(u, comp)
        PROVE  ldevFlush'[t].lsid <= flush'
    BY <2>0, <2>1, LsidsGrow DEF FlushBegin, MaxOf
  <2>2. ASSUME NEW u \in {"submit", "wait", "data"}, NEW ok \in BOOLEAN, FlushEnd(u, ok)
        PROVE  ldevFlush'[t].lsid <= flush'
    BY <2>0, <2>2, LsidsGrow DEF FlushEnd, NoFlush
  <2>3. ASSUME RingForceFlush \/ DataForceFlush \/ WaitBioFua PROVE ldevFlush'[t].lsid <= flush'
    BY <2>1, <2>3, LsidsGrow DEF RingForceFlush, DataForceFlush, WaitBioFua
  <2>4. ASSUME NEW ok \in BOOLEAN, RingFlushed(ok) \/ WaitFuaFlushed(ok) \/ DataFlushed(ok)
        PROVE  ldevFlush'[t].lsid <= flush'
    BY <2>2, <2>4 DEF RingFlushed, WaitFuaFlushed, DataFlushed
  <2> QED
    BY <2>0, <2>3, <2>4, LsidsGrow, Writers
<1>2. ASSUME NEW k \in DOMAIN wpacks' PROVE wpacks'[k].newPermanent <= flush'
  <2>1. CASE k \in DOMAIN wpacks /\ wpacks'[k] = wpacks[k]
    <3>1. wpacks[k].newPermanent \in Nat /\ wpacks[k].newPermanent <= flush
      BY <1>0, <2>1, SeqTypes, PackTypes DEF Following
    <3> QED
      BY <2>1, <3>1, LsidsGrow
  <2>2. CASE AddBioWrapper /\ wpacks'[k].newPermanent <= flush
    <3>1. flush' = flush
      BY <2>2 DEF AddBioWrapper, lsidVars
    <3> QED
      BY <2>2, <3>1
  <2> QED
    BY <1>2, <2>1, <2>2, WpacksMove
<1>3. ASSUME NEW k \in DOMAIN packs' PROVE packs'[k].newPermanent <= flush'
  <2>1. CASE k \in DOMAIN packs
    <3>1. packs[k].newPermanent \in Nat /\ packs[k].newPermanent <= flush
      BY <1>0, <2>1, SeqTypes, PackTypes DEF Following
    <3> QED
      BY <2>1, <3>1, LsidsGrow, PacksGrow
  <2>2. CASE k \notin DOMAIN packs
    <3> DEFINE i == k - Len(packs)
    <3>1. i \in DOMAIN wpacks /\ packs'[k].newPermanent = wpacks[i].newPermanent
      BY <1>3, <2>2, PacksGrow
    <3> HIDE DEF i
    <3>2. wpacks[i].newPermanent \in Nat /\ wpacks[i].newPermanent <= flush
      BY <1>0, <3>1, SeqTypes, PackTypes DEF Following
    <3> QED
      BY <3>1, <3>2, LsidsGrow
  <2> QED
    BY <2>1, <2>2
<1>4. /\ prevWritten \in Nat /\ super.written \in Nat /\ prevWritten <= written
      /\ super.written <= written
      /\ \A c \in Callers : sync[c].written \in Nat /\ sync[c].written <= written
      /\ sync \in [Callers -> [pc : {"idle", "store", "test", "load", "write", "update"},
                               written : Nat, oldest : Nat, ios : SUBSET Nat]]
  BY <1>0 DEF TypeOK, LsidTypes, SyncTypes, Following
<1>5. prevWritten' <= written'
  <2>1. ASSUME NEW c \in Callers, SyncDone(c) PROVE prevWritten' = sync[c].written
    BY <2>1 DEF SyncDone
  <2> QED
    BY <1>4, <2>1, WrittenGrows, Writers
<1>6. super'.written <= written'
  <2>1. ASSUME NEW c \in Callers, SyncWrite(c) PROVE super'.written = sync[c].written
    BY <2>1 DEF SyncWrite
  <2> QED
    BY <1>4, <2>1, WrittenGrows, Writers
<1>7. ASSUME NEW d \in Callers PROVE sync'[d].written <= written'
  <2>0. sync[d].written <= written' /\ 0 <= written' /\ written <= written'
    BY <1>4, WrittenGrows
  <2>1. ASSUME \/ SetOldestStore \/ RingTakeCheckpoint \/ CheckpointTask
               \/ \E lsid \in 1..MaxOldest : SetOldest(lsid)
        PROVE  sync'[d].written <= written'
    BY <1>4, <2>0, <2>1 DEF SetOldestStore, RingTakeCheckpoint, CheckpointTask, SetOldest
  <2>2. ASSUME NEW c \in Callers, SyncRefused(c) \/ SyncDone(c) \/ SyncFail(c)
        PROVE  sync'[d].written <= written'
    <3>1. sync' = [sync EXCEPT ![c] = NoSync]
      BY <2>2 DEF SyncRefused, SyncDone, SyncFail, SyncReturn
    <3> QED
      BY <1>4, <2>0, <3>1 DEF NoSync
  <2>3. ASSUME NEW c \in Callers, SyncTest(c) PROVE sync'[d].written <= written'
    BY <1>4, <2>0, <2>3 DEF SyncTest
  <2>4. ASSUME NEW c \in Callers, SyncLoad(c) PROVE sync'[d].written <= written'
    BY <1>4, <2>0, <2>4 DEF SyncLoad
  <2>5. ASSUME NEW c \in Callers, SyncWrite(c) PROVE sync'[d].written <= written'
    BY <1>4, <2>0, <2>5 DEF SyncWrite
  <2> QED
    BY <2>0, <2>1, <2>2, <2>3, <2>4, <2>5, Writers DEF SyncSuperBlock
<1> QED
  BY <1>1, <1>2, <1>3, <1>5, <1>6, <1>7, LsidsGrow, WrittenGrows DEF Following

-----------------------------------------------------------------------------
(* The invariant *)

\* LogInv holds when the device starts.
LEMMA InitLog == Init => LogInv
<1> SUFFICES ASSUME Init PROVE LogInv
  OBVIOUS
<1>0. /\ Len(<<>>) = 0 /\ DOMAIN <<>> = {} /\ \A S : <<>> \in Seq(S)
  BY EmptySeq
<1>1. ClientTypes
  BY <1>0 DEF Init, ClientTypes
<1>2. LsidTypes /\ WaitTypes
  BY DEF Init, LsidTypes, WaitTypes
<1>3. SubmitTypes
  BY <1>0 DEF Init, SubmitTypes, NoLsids
<1>4. LogTypes
  BY <1>0 DEF Init, LogTypes, NoFlush, Flushes
<1>5. DataTypes
  BY <1>0 DEF Init, DataTypes
<1>6. SyncTypes
  BY DEF Init, SyncTypes, NoSync
<1>7. Ranges
  BY <1>0 DEF Init, Ranges, RingLoop, NoSync, Callers
<1>8. Layout
  BY <1>0 DEF Init, Layout, RingLoop
<1>9. Waiting
  BY <1>0 DEF Init, Waiting
<1>10. Following
  BY <1>0 DEF Init, Following, NoFlush, NoSync
<1> QED
  BY <1>1, <1>2, <1>3, <1>4, <1>5, <1>6, <1>7, <1>8, <1>9, <1>10 DEF LogInv, TypeOK

\* LogInv is kept by every step.
LEMMA NextLog == LogInv /\ [Next]_vars => LogInv'
BY TypesKept, RangesKept, LayoutKept, WaitingKept, FollowingKept DEF LogInv

\* LogInv is an invariant, whatever fails.
LEMMA LogInvariant == Spec => []LogInv
BY InitLog, NextLog, PTL DEF Spec

\* The variables of the write path keep their types: no lsid is ever negative, no list
\* or interval of bios runs past its end, whatever fails.
THEOREM LogTypeOK == Spec => []TypeOK
<1>1. LogInv => TypeOK
  BY DEF LogInv
<1> QED
  BY <1>1, LogInvariant, PTL

-----------------------------------------------------------------------------
(* What survives a power failure *)

\* The wait task is past log IO io of pack number k.
Passed(k, io) ==
  \/ io > 0 /\ (io < wBio \/ (io = wBio /\ wPc = "fua"))
  \/ io < 0 /\ (k < wPack \/ (k = wPack /\ wPc # "header"))

\* The log IOs belong to packs, and none both succeeds and fails.
IosKnown ==
  /\ logDone \subseteq logIo /\ logDone \cap logFailed = {}
  /\ \A io \in logIo : \E k \in DOMAIN packs : -io <= packs[k].last

\* A pack that failed makes the device read-only before the wait task leaves it.
FailureSeen ==
  /\ wPc # "idle" /\ wFailed /\ wBio > packs[wPack].first => readOnly
  /\ wPc = "fua" => ~wFailed

\* Nothing that the wait task has passed has failed.
NoErrorSeen == IF wPc = "idle" THEN ~readOnly ELSE ~wFailed

Waited ==
  NoErrorSeen =>
    \A k \in DOMAIN packs : \A io \in IosOf(packs[k]) : Passed(k, io) => io \in logDone

-----------------------------------------------------------------------------
\* The log IOs of a pack: those of its bios with data, and its header's.
LEMMA IosAre ==
  ASSUME TypeOK, NEW p \in Packs, PackOK(p), NEW io \in IosOf(p)
  PROVE  /\ io \in Int /\ io # 0
         /\ io > 0 => io \in p.first..p.last /\ LogPb(kind[io]) > 0
         /\ io < 0 => io = -p.first /\ HasHeaderIo(p)
<1>1. p.first \in Nat /\ p.last \in Nat /\ 1 <= p.first
  BY PackTypes DEF PackOK, PackIn
<1>2. CASE io \in p.first..p.last /\ LogPb(kind[io]) > 0
  BY <1>1, <1>2
<1>3. CASE io = -p.first /\ HasHeaderIo(p)
  BY <1>1, <1>3
<1> QED
  BY <1>2, <1>3 DEF IosOf, HeaderIo

\* They never change once the pack is submitted.
LEMMA IosStay ==
  ASSUME LogInv, [Next]_vars, NEW k \in DOMAIN packs
  PROVE  IosOf(packs[k])' = IosOf(packs[k])
<1>1. packs'[k] = packs[k]
  BY PacksGrow
<1>2. \A i \in packs[k].first..packs[k].last : kind'[i] = kind[i]
  BY PacksStay
<1> QED
  BY <1>1, <1>2 DEF IosOf

\* The packs that a step submits lie behind what the wait task has done.
LEMMA NewPacks ==
  ASSUME LogInv, [Next]_vars, NEW k \in DOMAIN packs', k \notin DOMAIN packs
  PROVE  /\ SubmitLogpacks /\ packs'[k] \in Packs /\ PackOK(packs[k])' /\ k > wPack
         /\ completed <= packs'[k].lsid /\ wBio <= packs'[k].first
         /\ \A j \in DOMAIN packs : packs[j].last < packs'[k].first
         /\ HeaderShouldFlush(packs'[k]) => packs'[k].flushes = logDone
         /\ packs'[k].newPermanent <= flush
<1>1. /\ SubmitLogpacks /\ k - Len(packs) \in DOMAIN wpacks
      /\ SamePack(packs'[k], wpacks[k - Len(packs)])
      /\ packs'[k].newPermanent = wpacks[k - Len(packs)].newPermanent
      /\ Len(packs) \in Nat /\ DOMAIN packs' = 1..Len(packs') /\ DOMAIN packs = 1..Len(packs)
      /\ Len(packs') \in Nat
  BY PacksGrow
<1>2. packs'[k] \in Packs /\ (HeaderShouldFlush(packs'[k]) => packs'[k].flushes = logDone)
  BY <1>1, SubmittedPack
<1>3. PackOK(packs[k])'
  BY PacksLaidKept DEF PacksLaid
<1>4. k > wPack
  BY <1>1 DEF LogInv, Ranges, TypeOK, WaitTypes
<1> DEFINE q == wpacks[k - Len(packs)]
<1>5. completed <= q.lsid /\ wBio <= q.first
  BY <1>1 DEF LogInv, Waiting
<1>6. \A j \in DOMAIN packs : packs[j].last < q.first
  BY <1>1 DEF LogInv, Layout, Precedes
<1>7. q.newPermanent <= flush
  BY <1>1 DEF LogInv, Following
<1> QED
  BY <1>1, <1>2, <1>3, <1>4, <1>5, <1>6, <1>7 DEF SamePack

\* A log IO belongs to a pack and has one outcome.
LEMMA IosKnownKept ==
  ASSUME LogInv, IosKnown, [Next]_vars
  PROVE  IosKnown'
<1>1. ASSUME NEW io \in logIo, LogIoDone(io) PROVE IosKnown'
  BY <1>1 DEF IosKnown, LogIoDone
<1>2. ASSUME NEW io \in logIo, LogIoFail(io) PROVE IosKnown'
  BY <1>2 DEF IosKnown, LogIoFail
<1>3. ASSUME SubmitLogpacks PROVE IosKnown'
  <2>1. UNCHANGED <<logDone, logFailed, kind>>
        /\ logIo' = logIo \cup UNION {IosOf(wpacks[k]) : k \in DOMAIN wpacks}
    BY <1>3 DEF SubmitLogpacks, clientVars
  <2>2. logDone' \subseteq logIo' /\ logDone' \cap logFailed' = {}
    BY <2>1 DEF IosKnown
  <2> SUFFICES ASSUME NEW io \in logIo' PROVE \E k \in DOMAIN packs' : -io <= packs'[k].last
    BY <2>2 DEF IosKnown
  <2>3. CASE io \in logIo
    BY <2>3, PacksGrow DEF IosKnown
  <2>4. ASSUME NEW k \in DOMAIN wpacks, io \in IosOf(wpacks[k])
        PROVE  \E j \in DOMAIN packs' : -io <= packs'[j].last
    <3>1. wpacks[k] \in Packs /\ PackOK(wpacks[k]) /\ TypeOK
      BY LastWpack DEF LogInv
    <3>2. io \in Int /\ -io <= wpacks[k].last
      <4>1. wpacks[k].first \in Nat /\ wpacks[k].last \in Nat /\ wpacks[k].first <= wpacks[k].last
        BY <3>1, PackTypes DEF PackOK, PackIn
      <4>2. io \in Int /\ (io < 0 => io = -wpacks[k].first)
        BY <2>4, <3>1, IosAre
      <4> QED
        BY <4>1, <4>2
    <3>3. /\ packs' \in Seq(Packs) /\ Len(packs') = Len(packs) + Len(wpacks)
          /\ SamePack(packs'[Len(packs) + k], wpacks[k])
          /\ Len(packs) \in Nat /\ Len(wpacks) \in Nat /\ k \in 1..Len(wpacks)
      BY <1>3, SubmitLogpacksDoes, SeqTypes DEF LogInv
    <3>4. Len(packs) + k \in 1..Len(packs')
      BY <3>3
    <3>5. DOMAIN packs' = 1..Len(packs')
      BY PacksGrow
    <3> QED
      BY <3>2, <3>3, <3>4, <3>5 DEF SamePack
  <2> QED
    BY <2>1, <2>3, <2>4
<1>4. ASSUME UNCHANGED <<logDone, logFailed, logIo, packs>> PROVE IosKnown'
  BY <1>4 DEF IosKnown
<1> QED
  BY <1>1, <1>2, <1>3, <1>4, Writers

\* Read-only mode is never left.
LEMMA ReadOnlyStays ==
  ASSUME LogInv, [Next]_vars, readOnly
  PROVE  readOnly'
<1>1. ASSUME NEW t, NEW ok, FlushEnd(t, ok) PROVE readOnly'
  BY <1>1 DEF FlushEnd
<1> QED
  BY <1>1, Writers DEF WaitBioError, RingFlushed, WaitFuaFlushed, DataFlushed, GcDataError, SyncFail

\* No step leaves a failed pack without the device being read-only.
LEMMA FailureSeenKept ==
  ASSUME LogInv, FailureSeen, [Next]_vars
  PROVE  FailureSeen'
<1>0. wPc \in {"idle", "header", "bio", "fua"} /\ wBio \in Nat
  BY DEF LogInv, TypeOK, WaitTypes
<1>1. ASSUME WaitStart PROVE FailureSeen'
  <2>1. wPc' = "header" /\ wBio' = packs[wPack + 1].first /\ wPack' = wPack + 1 /\ packs' = packs
    BY <1>1 DEF WaitStart, logVars
  <2>2. wPack + 1 \in DOMAIN packs
    BY <1>1, SeqTypes, LogAssumption DEF WaitStart, LogInv, Ranges, TypeOK, WaitTypes, MinOf
  <2>3. packs[wPack + 1].first \in Nat
    BY <2>2, SeqTypes, PackTypes DEF LogInv
  <2> QED
    BY <2>1, <2>3 DEF FailureSeen
<1>2. ASSUME WaitHeader PROVE FailureSeen'
  <2>1. wPc = "header" /\ wPc' = "bio" /\ wBio' = wBio /\ wPack' = wPack /\ packs' = packs
    BY <1>2 DEF WaitHeader, logVars
  <2>2. wBio = packs[wPack].first
    BY <2>1 DEF LogInv, Waiting
  <2> QED
    BY <1>0, <2>1, <2>2 DEF FailureSeen
<1>3. ASSUME WaitBioError PROVE FailureSeen'
  BY <1>3 DEF WaitBioError, WaitingForBio, FailureSeen
<1>4. ASSUME WaitBioOk PROVE FailureSeen'
  BY <1>4 DEF WaitBioOk, WaitingForBio, BioFailed, FailureSeen
<1>5. ASSUME WaitBioFua PROVE FailureSeen'
  BY <1>5 DEF WaitBioFua, BioFailed, FailureSeen
<1>6. ASSUME NEW ok \in BOOLEAN, WaitFuaFlushed(ok) PROVE FailureSeen'
  BY <1>6 DEF WaitFuaFlushed, FailureSeen
<1>7. ASSUME WaitPackEnd PROVE FailureSeen'
  BY <1>7 DEF WaitPackEnd, FailureSeen
<1>8. ASSUME UNCHANGED <<wPc, wPack, wBio, wFailed>> PROVE FailureSeen'
  <2>1. wPc # "idle" => packs'[wPack] = packs[wPack]
    BY WaitBioSent, PacksGrow
  <2> QED
    BY <1>8, <2>1, ReadOnlyStays DEF FailureSeen
<1> QED
  BY <1>1, <1>2, <1>3, <1>4, <1>5, <1>6, <1>7, <1>8, Writers

\* A log IO that the next bio of the wait task needs has succeeded unless that bio fails.
LEMMA BioDone ==
  ASSUME IosKnown, WaitingForBio, ~BioFailed, LogPb(kind[wBio]) > 0
  PROVE  wBio \in logDone
  BY DEF WaitingForBio, BioFailed

\* The wait task passes only log IOs that are done.
LEMMA WaitedByTask ==
  ASSUME LogInv, FailureSeen, IosKnown, Waited, WaitTask
  PROVE  Waited'
<1>0. UNCHANGED <<packs, kind, logDone>>
  BY DEF WaitTask, WaitStart, WaitHeader, WaitBioError, WaitBioOk, WaitBioFua, WaitFuaFlushed,
         WaitPackEnd, clientVars, logVars
<1>1. /\ wPc \in {"idle", "header", "bio", "fua"} /\ wBio \in Nat /\ wPack \in Nat
      /\ DOMAIN packs = 1..Len(packs) /\ Len(packs) \in Nat /\ TypeOK
  BY SeqTypes DEF LogInv, TypeOK, WaitTypes
<1>2. ASSUME NEW k \in DOMAIN packs, NEW io \in IosOf(packs[k])
      PROVE  /\ io \in Int /\ io # 0 /\ k \in Nat
             /\ packs[k].first \in Nat /\ packs[k].last \in Nat
             /\ io > 0 => packs[k].first <= io /\ io <= packs[k].last /\ LogPb(kind[io]) > 0
             /\ io < 0 => io = HeaderIo(packs[k]) /\ HasHeaderIo(packs[k])
  <2>1. packs[k] \in Packs /\ PackOK(packs[k])
    BY SeqTypes DEF LogInv, Layout
  <2>2. packs[k].first \in Nat /\ packs[k].last \in Nat
    BY <2>1, PackTypes
  <2> QED
    BY <1>1, <1>2, <2>1, <2>2, IosAre DEF HeaderIo
<1> DEFINE D(k, io) == Passed(k, io)' => io \in logDone
<1>3. ASSUME NoErrorSeen' => \A k \in DOMAIN packs : \A io \in IosOf(packs[k]) : D(k, io)
      PROVE  Waited'
  <2>1. ASSUME NEW k \in DOMAIN packs PROVE IosOf(packs[k])' = IosOf(packs[k])
    BY <1>0 DEF IosOf
  <2> QED
    BY <1>0, <1>3, <2>1 DEF Waited
<1>4. ASSUME WaitStart, NoErrorSeen', NEW k \in DOMAIN packs, NEW io \in IosOf(packs[k])
      PROVE  D(k, io)
  <2>1. wPc = "idle" /\ wPc' = "header" /\ wBio' = packs[wPack + 1].first /\ wPack' = wPack + 1
        /\ wFailed' = readOnly
    BY <1>4 DEF WaitStart
  <2>2. wPack + 1 \in DOMAIN packs
    BY <1>1, <1>4, LogAssumption DEF WaitStart, LogInv, Ranges, TypeOK, WaitTypes, MinOf
  <2>3. ~readOnly /\ NoErrorSeen
    BY <1>4, <2>1 DEF NoErrorSeen
  <2>4. Passed(k, io) => io \in logDone
    BY <2>3 DEF Waited
  <2>5. k > wPack \/ packs[k].last < wBio
    BY <1>1, <2>1 DEF LogInv, Waiting
  <2>6. k > wPack => packs[wPack + 1].first <= packs[k].first
    <3>1. k = wPack + 1 \/ k > wPack + 1 \/ k <= wPack
      BY <1>1
    <3>2. ASSUME k > wPack + 1 PROVE packs[wPack + 1].last < packs[k].first
      BY <2>2, <3>2 DEF LogInv, Layout, Precedes
    <3>3. /\ packs[wPack + 1].first <= packs[wPack + 1].last
          /\ packs[wPack + 1].first \in Nat /\ packs[wPack + 1].last \in Nat /\ packs[k].first \in Nat
      BY <1>2, <2>2, SeqTypes, PackTypes DEF LogInv, Layout, PackOK, PackIn
    <3> QED
      BY <1>1, <3>1, <3>2, <3>3
  <2>7. packs[wPack + 1].first \in Nat
    BY <2>2, SeqTypes, PackTypes DEF LogInv
  <2>8. Passed(k, io)' => Passed(k, io)
    BY <1>1, <1>2, <2>1, <2>5, <2>6, <2>7 DEF Passed
  <2> QED
    BY <2>4, <2>8
<1>5. ASSUME WaitHeader, NoErrorSeen', NEW k \in DOMAIN packs, NEW io \in IosOf(packs[k])
      PROVE  D(k, io)
  <2>1. wPc = "header" /\ wPc' = "bio" /\ wBio' = wBio /\ wPack' = wPack
        /\ (HasHeaderIo(packs[wPack]) => HeaderIo(packs[wPack]) \in logDone \cup logFailed)
        /\ wFailed' = (wFailed \/ (HasHeaderIo(packs[wPack]) /\ HeaderIo(packs[wPack]) \in logFailed))
    BY <1>5 DEF WaitHeader
  <2>2. ~wFailed /\ NoErrorSeen /\ (HasHeaderIo(packs[wPack]) => HeaderIo(packs[wPack]) \in logDone)
    BY <1>5, <2>1 DEF NoErrorSeen
  <2>3. Passed(k, io) => io \in logDone
    BY <2>2 DEF Waited
  <2>4. io < 0 /\ k = wPack => io \in logDone
    BY <1>2, <2>2
  <2> QED
    BY <1>1, <1>2, <2>1, <2>3, <2>4 DEF Passed
<1>6. ASSUME WaitBioError PROVE ~NoErrorSeen'
  BY <1>6 DEF WaitBioError, WaitingForBio, NoErrorSeen
<1>7. ASSUME WaitBioOk, NoErrorSeen', NEW k \in DOMAIN packs, NEW io \in IosOf(packs[k])
      PROVE  D(k, io)
  <2>1. wPc = "bio" /\ wPc' = "bio" /\ wBio' = wBio + 1 /\ wPack' = wPack /\ ~wFailed
    BY <1>7 DEF WaitBioOk, WaitingForBio, BioFailed, Ack
  <2>2. NoErrorSeen
    BY <2>1 DEF NoErrorSeen
  <2>3. Passed(k, io) => io \in logDone
    BY <2>2 DEF Waited
  <2>4. io = wBio => io \in logDone
    BY <1>1, <1>2, <1>7, BioDone DEF WaitBioOk
  <2> QED
    BY <1>1, <1>2, <2>1, <2>3, <2>4 DEF Passed
<1>8. ASSUME WaitBioFua, NoErrorSeen', NEW k \in DOMAIN packs, NEW io \in IosOf(packs[k])
      PROVE  D(k, io)
  <2>1. wPc = "bio" /\ wPc' = "fua" /\ wBio' = wBio /\ wPack' = wPack /\ ~wFailed
    BY <1>8 DEF WaitBioFua, WaitingForBio, BioFailed
  <2>2. NoErrorSeen
    BY <2>1 DEF NoErrorSeen
  <2>3. Passed(k, io) => io \in logDone
    BY <2>2 DEF Waited
  <2>4. io = wBio => io \in logDone
    BY <1>1, <1>2, <1>8, BioDone DEF WaitBioFua
  <2> QED
    BY <1>1, <1>2, <2>1, <2>3, <2>4 DEF Passed
<1>9. ASSUME NEW ok \in BOOLEAN, WaitFuaFlushed(ok), NoErrorSeen',
             NEW k \in DOMAIN packs, NEW io \in IosOf(packs[k])
      PROVE  D(k, io)
  <2>1. wPc = "fua" /\ wPc' = "bio" /\ wBio' = wBio + 1 /\ wPack' = wPack /\ wFailed' = wFailed
    BY <1>9 DEF WaitFuaFlushed, Ack
  <2>2. NoErrorSeen
    BY <1>9, <2>1 DEF NoErrorSeen
  <2>3. Passed(k, io) => io \in logDone
    BY <2>2 DEF Waited
  <2> QED
    BY <1>1, <1>2, <2>1, <2>3 DEF Passed
<1>10. ASSUME WaitPackEnd, NoErrorSeen', NEW k \in DOMAIN packs, NEW io \in IosOf(packs[k])
      PROVE  D(k, io)
  <2>1. wPc = "bio" /\ wPc' = "idle" /\ wBio' = wBio /\ wPack' = wPack /\ readOnly' = readOnly
        /\ wBio > packs[wPack].last
    BY <1>10 DEF WaitPackEnd
  <2>2. packs[wPack].first \in Nat /\ packs[wPack].last \in Nat /\ packs[wPack].first <= packs[wPack].last
    BY <2>1, WaitBioSent, PackTypes DEF PackOK, PackIn
  <2>3. NoErrorSeen
    BY <1>1, <1>10, <2>1, <2>2 DEF NoErrorSeen, FailureSeen
  <2>4. Passed(k, io) => io \in logDone
    BY <2>3 DEF Waited
  <2> QED
    BY <1>1, <1>2, <2>1, <2>4 DEF Passed
<1> HIDE DEF D
<1> QED
  BY <1>3, <1>4, <1>5, <1>6, <1>7, <1>8, <1>9, <1>10 DEF WaitTask

\* The wait task passes a log IO only when it is done, unless the pack fails.
LEMMA WaitedKept ==
  ASSUME LogInv, FailureSeen, IosKnown, Waited, [Next]_vars
  PROVE  Waited'
<1>1. ASSUME WaitTask PROVE Waited'
  BY <1>1, WaitedByTask
<1>2. ASSUME UNCHANGED <<wPc, wPack, wBio, wFailed>> PROVE Waited'
  <2> SUFFICES ASSUME NoErrorSeen', NEW k \in DOMAIN packs', NEW io \in IosOf(packs[k])',
                      Passed(k, io)'
               PROVE  io \in logDone'
    BY DEF Waited
  <2>1. NoErrorSeen
    BY <1>2, ReadOnlyStays DEF NoErrorSeen
  <2>2. logDone \subseteq logDone'
    BY Writers DEF LogIoDone
  <2>3. Passed(k, io)
    BY <1>2 DEF Passed
  <2>4. CASE k \in DOMAIN packs
    BY <2>1, <2>2, <2>3, <2>4, IosStay DEF Waited
  <2>5. CASE k \notin DOMAIN packs
    <3>1. /\ packs'[k] \in Packs /\ PackOK(packs[k])' /\ k > wPack /\ wBio <= packs'[k].first
          /\ \A j \in DOMAIN packs : packs[j].last < packs'[k].first
      BY <2>5, NewPacks
    <3>2. packs'[k].first \in Nat /\ packs'[k].last \in Nat /\ 1 <= packs'[k].first
      BY <3>1, PackTypes DEF PackOK, PackIn
    <3>3. /\ io \in Int /\ io # 0 /\ packs'[k].first \in Nat
          /\ io > 0 => packs'[k].first <= io
      BY <3>2 DEF IosOf, HeaderIo
    <3>4. wPc = "fua" => wBio < packs'[k].first
      <4>1. wPc = "fua" => wPack \in DOMAIN packs /\ wBio <= packs[wPack].last /\ packs[wPack].last \in Nat
        BY WaitBioSent, PackTypes DEF LogInv, Waiting
      <4> QED
        BY <3>1, <3>3, <4>1 DEF LogInv, TypeOK, WaitTypes
    <3>5. wBio \in Nat /\ wPack \in Nat /\ k \in Nat
      BY PacksGrow DEF LogInv, TypeOK, WaitTypes
    <3> QED
      BY <2>3, <3>1, <3>3, <3>4, <3>5 DEF Passed
  <2> QED
    BY <2>4, <2>5
<1> QED
  BY <1>1, <1>2, Writers DEF WaitTask

-----------------------------------------------------------------------------
Placed(i) == \E k \in DOMAIN packs : i \in packs[k].first..packs[k].last

\* The bios answered "ok" lie in packs before the wait task; permanent has passed those with
\* REQ_FUA.
Answered ==
  \A i \in Bios : answer[i] = "ok" =>
    i < wBio /\ Placed(i) /\ (IsFua(kind[i]) => EndOf(i) <= permanent)

\* The wait task acknowledges the bio it is at.
Acks == WaitBioOk \/ \E ok \in BOOLEAN : WaitFuaFlushed(ok)

\* What the wait task does then: the bio lies in its pack, and nothing before it has failed.
LEMMA AcksDoes ==
  ASSUME LogInv, FailureSeen, Acks
  PROVE  /\ wPc \in {"bio", "fua"} /\ wPc' = "bio" /\ wPack' = wPack /\ wBio' = wBio + 1
         /\ wPack \in DOMAIN packs /\ wBio \in packs[wPack].first..packs[wPack].last
         /\ wBio \in Bios /\ ~wFailed' /\ UNCHANGED <<kind, packs, biowLsid, logDone>>
         /\ answer' = [answer EXCEPT ![wBio] = "ok"]
         /\ dataQueue' = IF HasData(kind[wBio]) THEN Append(dataQueue, wBio) ELSE dataQueue
<1>1. /\ wPc \in {"bio", "fua"} /\ wPc' = "bio" /\ wPack' = wPack /\ wBio' = wBio + 1
      /\ UNCHANGED <<kind, packs, biowLsid, logDone>>
      /\ answer' = [answer EXCEPT ![wBio] = "ok"]
      /\ dataQueue' = IF HasData(kind[wBio]) THEN Append(dataQueue, wBio) ELSE dataQueue
  BY DEF Acks, WaitBioOk, WaitFuaFlushed, WaitingForBio, Ack, logVars
<1>2. wPack \in DOMAIN packs /\ packs[wPack] \in Packs /\ wBio \in Nat /\ wBio <= packs[wPack].last
      /\ packs[wPack].first <= wBio
  <2>1. WaitBioOk => wBio <= packs[wPack].last
    BY DEF WaitBioOk, WaitingForBio
  <2>2. (\E ok \in BOOLEAN : WaitFuaFlushed(ok)) => wBio <= packs[wPack].last
    BY DEF WaitFuaFlushed, LogInv, Waiting
  <2> QED
    BY <1>1, <2>1, <2>2, WaitBioSent DEF Acks, LogInv, Waiting
<1>3. packs[wPack].first \in Nat /\ packs[wPack].last \in Nat
  BY <1>2, PackTypes
<1>4. ~wFailed'
  BY DEF Acks, WaitBioOk, WaitFuaFlushed, BioFailed, FailureSeen
<1>5. wBio \in Bios
  BY <1>1, <1>2, WaitBioSent
<1> QED
  BY <1>1, <1>2, <1>3, <1>4, <1>5

\* Only that makes an answer "ok".
LEMMA AnswerMoves ==
  ASSUME LogInv, [Next]_vars, NEW i \in Bios', answer'[i] = "ok"
  PROVE  \/ i \in Bios /\ answer[i] = "ok"
         \/ Acks /\ i = wBio
<1>1. /\ answer \in Seq({"none", "ok", "error"}) /\ Len(answer) = Len(kind) /\ Len(kind) \in Nat
      /\ answer' \in Seq({"none", "ok", "error"}) /\ Len(answer') = Len(kind')
      /\ Len(kind') \in Nat
  BY ClientTypesKept, BiosKept DEF LogInv, TypeOK, ClientTypes
<1>2. Bios = 1..Len(answer) /\ Bios' = 1..Len(answer')
  BY <1>1 DEF Bios
<1>3. CASE UNCHANGED answer
  BY <1>2, <1>3
<1>4. ASSUME NEW k \in Kinds, MakeRequest(k) PROVE i \in Bios /\ answer[i] = "ok"
  <2>1. answer' = Append(answer, "none")
    BY <1>4 DEF MakeRequest
  <2>2. /\ Len(answer') = Len(answer) + 1 /\ answer'[Len(answer) + 1] = "none"
        /\ \A j \in 1..Len(answer) : answer'[j] = answer[j]
    BY <1>1, <2>1, AppendProperties
  <2> QED
    BY <1>1, <1>2, <2>2
<1>5. ASSUME NEW a, NEW b, Fail(a, b) PROVE i \in Bios /\ answer[i] = "ok"
  <2>1. DOMAIN answer' = Bios /\ DOMAIN answer' = 1..Len(answer')
    BY <1>1, <1>5 DEF Fail
  <2> QED
    BY <1>2, <1>5, <2>1 DEF Fail
<1>6. GivesUp => i \in Bios /\ answer[i] = "ok"
  BY <1>5 DEF GivesUp
<1>7. SubmitDequeueReadOnly => i \in Bios /\ answer[i] = "ok"
  BY <1>5 DEF SubmitDequeueReadOnly
<1>8. ASSUME NEW x, NEW a, answer' = [answer EXCEPT ![x] = a]
      PROVE  i \in Bios /\ (i # x => answer'[i] = answer[i]) /\ (i = x => answer'[i] = a)
  <2>1. Len(answer') = Len(answer) /\ DOMAIN answer = 1..Len(answer)
    BY <1>1, <1>8
  <2> QED
    BY <1>2, <1>8, <2>1
<1>9. WaitBioError => i \in Bios /\ answer[i] = "ok"
  BY <1>8, SMTT(40), ZenonT(40) DEF WaitBioError
<1>10. Acks => (i \in Bios /\ answer[i] = "ok") \/ i = wBio
  BY <1>8 DEF Acks, WaitBioOk, WaitFuaFlushed, Ack
<1> QED
  BY <1>3, <1>4, <1>6, <1>7, <1>9, <1>10, WhoGivesUp, Writers DEF Acks

\* The wait task goes through the bios once.
LEMMA WaitBioGrows ==
  ASSUME LogInv, [Next]_vars
  PROVE  wBio \in Nat /\ wBio' \in Nat /\ wBio <= wBio'
<1>1. wBio \in Nat /\ wBio' \in Nat
  BY TypesKept DEF LogInv, TypeOK, WaitTypes
<1>2. ASSUME WaitStart PROVE wBio <= wBio'
  <2>1. wBio' = packs[wPack + 1].first /\ wPack + 1 \in DOMAIN packs /\ wPack + 1 > wPack
    BY <1>2, SeqTypes, LogAssumption DEF WaitStart, LogInv, Ranges, TypeOK, WaitTypes, MinOf
  <2> QED
    BY <2>1 DEF LogInv, Waiting
<1>3. WaitBioError \/ Acks => wBio' = wBio + 1
  BY DEF WaitBioError, Acks, WaitBioOk, WaitFuaFlushed, Ack
<1> QED
  BY <1>1, <1>2, <1>3, Writers DEF Acks

\* A bio in a pack of the log device stays there, with its end.
LEMMA PlacedStays ==
  ASSUME LogInv, [Next]_vars, NEW i, Placed(i)
  PROVE  /\ Placed(i)' /\ i \in Bios /\ i \in Bios'
         /\ kind'[i] = kind[i] /\ EndOf(i)' = EndOf(i) /\ EndOf(i) \in Nat
<1>1. PICK k \in DOMAIN packs : i \in packs[k].first..packs[k].last
  BY DEF Placed
<1>2. k \in DOMAIN packs' /\ packs'[k] = packs[k]
  BY PacksGrow
<1>3. i \in Bios /\ kind'[i] = kind[i] /\ biowLsid'[i] = biowLsid[i]
  BY <1>1, PacksStay
<1>4. i \in Bios'
  BY <1>3, BiosKept DEF Bios
<1>5. EndOf(i) \in Nat
  BY <1>3, SeqTypes DEF LogInv
<1> QED
  BY <1>1, <1>2, <1>3, <1>4, <1>5 DEF Placed, EndOf

\* Only bios that the wait task has passed are answered "ok".
LEMMA AnsweredKept ==
  ASSUME LogInv, FailureSeen, Answered, [Next]_vars
  PROVE  Answered'
<1> SUFFICES ASSUME NEW i \in Bios', answer'[i] = "ok"
             PROVE  i < wBio' /\ Placed(i)' /\ (IsFua(kind'[i]) => EndOf(i)' <= permanent')
  BY DEF Answered
<1>0. permanent \in Nat /\ permanent' \in Nat /\ permanent <= permanent'
  BY LsidsGrow
<1>1. ASSUME i \in Bios, answer[i] = "ok"
      PROVE  i < wBio' /\ Placed(i)' /\ (IsFua(kind'[i]) => EndOf(i)' <= permanent')
  <2>1. i < wBio /\ Placed(i) /\ (IsFua(kind[i]) => EndOf(i) <= permanent)
    BY <1>1 DEF Answered
  <2>2. Placed(i)' /\ kind'[i] = kind[i] /\ EndOf(i)' = EndOf(i) /\ EndOf(i) \in Nat
    BY <2>1, PlacedStays
  <2>3. i < wBio'
    BY <1>1, <2>1, WaitBioGrows, BiosKept DEF Bios
  <2> QED
    BY <1>0, <2>1, <2>2, <2>3
<1>2. ASSUME Acks, i = wBio
      PROVE  i < wBio' /\ Placed(i)' /\ (IsFua(kind'[i]) => EndOf(i)' <= permanent')
  <2>1. /\ wPack \in DOMAIN packs /\ wBio \in packs[wPack].first..packs[wPack].last
        /\ wBio \in Bios /\ wBio' = wBio + 1 /\ kind' = kind
    BY <1>2, AcksDoes
  <2>2. Placed(i)' /\ EndOf(i)' = EndOf(i) /\ EndOf(i) \in Nat
    BY <1>2, <2>1, PlacedStays DEF Placed
  <2>3. i < wBio'
    BY <1>2, <2>1, WaitBioGrows
  <2>4. ASSUME NEW ok \in BOOLEAN, WaitFuaFlushed(ok) PROVE EndOf(i) <= permanent'
    <3>1. wPc = "fua" /\ permanent' = MaxOf(permanent, ldevFlush["wait"].lsid)
      BY <2>4 DEF WaitFuaFlushed, FlushEnd
    <3>2. ldevFlush["wait"].lsid = EndOf(wBio)
      BY <3>1 DEF LogInv, Waiting
    <3> QED
      BY <1>0, <1>2, <2>2, <3>1, <3>2 DEF MaxOf
  <2>5. WaitBioOk => ~IsFua(kind[i])
    BY <1>2 DEF WaitBioOk
  <2> QED
    BY <1>2, <2>1, <2>2, <2>3, <2>4, <2>5 DEF Acks
<1> QED
  BY <1>1, <1>2, AnswerMoves

\* Every step keeps AnsweredPrefix.
LEMMA AnsweredPrefixKept ==
  ASSUME LogInv, FailureSeen, IosKnown, Waited, Answered, AnsweredPrefix, [Next]_vars
  PROVE  AnsweredPrefix'
<1> SUFFICES ASSUME NEW j \in Bios', answer'[j] = "ok", NEW k \in DOMAIN packs',
                    packs'[k].first <= j, NEW io \in IosOf(packs[k])', io <= j
             PROVE  io \in logDone'
  BY DEF AnsweredPrefix
<1>0. j \in Nat /\ wBio \in Nat /\ k \in Nat /\ wPack \in Nat
  BY BiosKept, PacksGrow DEF Bios, LogInv, TypeOK, WaitTypes
<1>1. ASSUME j \in Bios, answer[j] = "ok" PROVE io \in logDone'
  <2>1. j < wBio
    BY <1>1 DEF Answered
  <2>2. k \in DOMAIN packs
    <3>1. ASSUME k \notin DOMAIN packs PROVE FALSE
      <4>1. wBio <= packs'[k].first /\ packs'[k] \in Packs
        BY <3>1, NewPacks
      <4>2. packs'[k].first \in Nat
        BY <4>1, PackTypes
      <4> QED
        BY <1>0, <2>1, <4>1, <4>2
    <3> QED
      BY <3>1
  <2>3. packs'[k] = packs[k] /\ io \in IosOf(packs[k])
    BY <2>2, PacksGrow, IosStay
  <2>4. logDone \subseteq logDone'
    BY Writers DEF LogIoDone
  <2> QED
    BY <1>1, <2>2, <2>3, <2>4 DEF AnsweredPrefix
<1>2. ASSUME Acks, j = wBio PROVE io \in logDone'
  <2>1. /\ wPack \in DOMAIN packs /\ wBio \in packs[wPack].first..packs[wPack].last
        /\ wBio' = wBio + 1 /\ packs' = packs /\ wPc' = "bio" /\ wPack' = wPack /\ ~wFailed'
    BY <1>2, AcksDoes
  <2>2. NoErrorSeen'
    BY <2>1 DEF NoErrorSeen
  <2>3. ~(k > wPack)
    <3>1. k > wPack => packs[wPack].last < packs[k].first
      BY <2>1 DEF LogInv, Layout, Precedes
    <3>2. packs[wPack].last \in Nat /\ packs[wPack].first \in Nat /\ packs[k].first \in Nat
      BY <2>1, SeqTypes, PackTypes DEF LogInv
    <3> QED
      BY <1>0, <1>2, <2>1, <3>1, <3>2
  <2>4. io \in Int /\ io # 0
    <3>1. packs[k] \in Packs /\ PackOK(packs[k]) /\ TypeOK /\ io \in IosOf(packs[k])
      BY <2>1, SeqTypes, IosStay DEF LogInv, Layout
    <3> QED
      BY <3>1, IosAre
  <2>5. Passed(k, io)'
    BY <1>0, <1>2, <2>1, <2>3, <2>4 DEF Passed
  <2> QED
    BY <2>2, <2>5, WaitedKept DEF Waited
<1> QED
  BY <1>1, <1>2, AnswerMoves

-----------------------------------------------------------------------------
\* Every log IO of packs ps before lsid is in ios.
Done(ps, ks, bs, lsid, ios) ==
  \A k \in DOMAIN ps : ps[k].nRec > 0 =>
    /\ ps[k].lsid < lsid => HeaderIo(ps[k]) \in ios
    /\ \A j \in ps[k].first..ps[k].last : LogPb(ks[j]) > 0 /\ bs[j] < lsid => j \in ios

DoneBelow(lsid, ios) == Done(packs, kind, biowLsid, lsid, ios)

Tasks == {"submit", "wait", "data"}

\* What is done below completed, what the flushes under way and the headers that flush
\* will cover, and what is stable below permanent.
DoneCompleted == DoneBelow(completed, logDone)
CoveredByFlush == \A t \in Tasks : DoneBelow(ldevFlush[t].lsid, ldevFlush[t].ios)
CoveredByHeader ==
  /\ \A k \in DOMAIN packs : HeaderShouldFlush(packs[k]) =>
       DoneBelow(packs[k].newPermanent, packs[k].flushes)
  /\ \A k \in DOMAIN packs : HeaderIo(packs[k]) \in logDone => packs[k].flushes \subseteq logStable
StablePermanent == flushFails = 0 => DoneBelow(permanent, logStable)

\* What a bio's lsid is when its pack is on the log device.
LEMMA LoggedBio ==
  ASSUME LogInv, NEW k \in DOMAIN packs, NEW j \in packs[k].first..packs[k].last,
         LogPb(kind[j]) > 0
  PROVE  /\ HasData(kind[j]) /\ j \in Nat /\ biowLsid[j] \in Nat /\ packs[k].lsid \in Nat
         /\ packs[k].nRec > 0 /\ packs[k].lsid < biowLsid[j] /\ biowLsid[j] < EndOf(j)
         /\ EndOf(j) \in Nat /\ EndOf(j) <= NextLsid(packs[k])
         /\ \A i \in (j + 1)..packs[k].last : EndOf(j) <= biowLsid[i]
<1>1. HasData(kind[j])
  BY DEF LogPb, HasData
<1>2. packs[k].lsid \in Nat
  BY SeqTypes, PackTypes DEF LogInv
<1>3. /\ j \in Bios /\ biowLsid[j] \in Nat /\ EndOf(j) \in Nat
      /\ packs[k].nRec > 0 /\ packs[k].lsid < biowLsid[j] /\ EndOf(j) <= NextLsid(packs[k])
      /\ \A i \in (j + 1)..packs[k].last : EndOf(j) <= biowLsid[i]
  BY <1>1, BioInPack
<1>4. j \in Nat /\ LogPb(kind[j]) \in 0..1
  BY <1>3, SeqTypes DEF LogInv
<1>5. biowLsid[j] < EndOf(j)
  BY <1>3, <1>4 DEF EndOf
<1> QED
  BY <1>1, <1>2, <1>3, <1>4, <1>5

\* Fewer packs, or more IOs.
LEMMA DoneWeakens ==
  ASSUME LogInv, NEW l \in Nat, NEW m \in Nat, NEW s, NEW t, DoneBelow(l, s), m <= l,
         s \subseteq t
  PROVE  DoneBelow(m, t)
<1> SUFFICES ASSUME NEW k \in DOMAIN packs, packs[k].nRec > 0
             PROVE  /\ packs[k].lsid < m => HeaderIo(packs[k]) \in t
                    /\ \A j \in packs[k].first..packs[k].last :
                         LogPb(kind[j]) > 0 /\ biowLsid[j] < m => j \in t
  BY DEF DoneBelow, Done
<1>1. packs[k].lsid \in Nat
  BY SeqTypes, PackTypes DEF LogInv
<1>2. packs[k].lsid < m => HeaderIo(packs[k]) \in t
  BY <1>1 DEF DoneBelow, Done
<1>3. ASSUME NEW j \in packs[k].first..packs[k].last, LogPb(kind[j]) > 0, biowLsid[j] < m
      PROVE  j \in t
  <2>1. biowLsid[j] \in Nat
    BY <1>3, LoggedBio
  <2>2. biowLsid[j] < l
    BY <1>3, <2>1
  <2> QED
    BY <1>3, <2>2 DEF DoneBelow, Done
<1> QED
  BY <1>2, <1>3

\* Nothing that a step submits lies below completed.
LEMMA DoneStays ==
  ASSUME LogInv, [Next]_vars, NEW l \in Nat, NEW s, DoneBelow(l, s),
         l <= completed \/ packs' = packs
  PROVE  Done(packs', kind', biowLsid', l, s)
<1> SUFFICES ASSUME NEW k \in DOMAIN packs', packs'[k].nRec > 0
             PROVE  /\ packs'[k].lsid < l => HeaderIo(packs'[k]) \in s
                    /\ \A j \in packs'[k].first..packs'[k].last :
                         LogPb(kind'[j]) > 0 /\ biowLsid'[j] < l => j \in s
  BY DEF Done
<1>1. CASE k \in DOMAIN packs
  <2>1. packs'[k] = packs[k]
    BY <1>1, PacksGrow
  <2>2. \A j \in packs[k].first..packs[k].last : kind'[j] = kind[j] /\ biowLsid'[j] = biowLsid[j]
    BY <1>1, PacksStay
  <2> QED
    BY <1>1, <2>1, <2>2 DEF DoneBelow, Done
<1>2. CASE k \notin DOMAIN packs
  <2>1. packs'[k] \in Packs /\ PackOK(packs[k])' /\ completed <= packs'[k].lsid
    BY <1>2, NewPacks
  <2>2. l <= completed /\ completed \in Nat /\ packs'[k].lsid \in Nat
        /\ packs'[k].first \in Nat /\ packs'[k].last \in Nat /\ 1 <= packs'[k].first
        /\ packs'[k].last <= Len(kind')
    BY <1>2, <2>1, PackTypes, LsidsGrow DEF PackOK, PackIn
  <2>3. ASSUME NEW j \in packs'[k].first..packs'[k].last PROVE ~(biowLsid'[j] < l)
    <3>1. packs'[k].lsid < biowLsid'[j]
      BY <2>1, <2>3 DEF PackOK, PackIn
    <3>2. biowLsid' \in Seq(Nat) /\ Len(biowLsid') = Len(kind') /\ Len(kind') \in Nat
      BY ClientTypesKept, BiosKept DEF ClientTypes
    <3>3. j \in 1..Len(biowLsid')
      BY <2>2, <3>2
    <3>4. biowLsid'[j] \in Nat
      BY <3>2, <3>3
    <3> QED
      BY <2>1, <2>2, <3>1, <3>4
  <2> QED
    BY <2>1, <2>2, <2>3
<1> QED
  BY <1>1, <1>2

\* No pack lies before lsid 0.
LEMMA DoneNothing ==
  ASSUME LogInv, NEW s
  PROVE  DoneBelow(0, s)
<1>1. \A k \in DOMAIN packs : packs[k].lsid \in Nat
  BY SeqTypes, PackTypes DEF LogInv
<1>2. \A k \in DOMAIN packs : \A j \in packs[k].first..packs[k].last :
        LogPb(kind[j]) > 0 => biowLsid[j] \in Nat
  BY LoggedBio
<1> QED
  BY <1>1, <1>2 DEF DoneBelow, Done

\* When the log IOs of the packs before wPack, and those of the bios up to b in it, are
\* done, everything below an lsid that lies behind none but those is.
LEMMA DoneUpTo ==
  ASSUME LogInv, NEW b \in Nat, NEW l \in Nat, wPack \in DOMAIN packs,
         packs[wPack].first <= b, l <= NextLsid(packs[wPack]),
         \A j \in packs[wPack].first..packs[wPack].last :
           LogPb(kind[j]) > 0 /\ biowLsid[j] < l => j <= b,
         \A k \in DOMAIN packs : \A io \in IosOf(packs[k]) :
           (io > 0 /\ io <= b) \/ (io < 0 /\ k <= wPack) => io \in logDone
  PROVE  DoneBelow(l, logDone)
<1> SUFFICES ASSUME NEW k \in DOMAIN packs, packs[k].nRec > 0
             PROVE  /\ packs[k].lsid < l => HeaderIo(packs[k]) \in logDone
                    /\ \A j \in packs[k].first..packs[k].last :
                         LogPb(kind[j]) > 0 /\ biowLsid[j] < l => j \in logDone
  BY DEF DoneBelow, Done
<1>1. /\ packs[k].lsid \in Nat /\ packs[k].first \in Nat /\ packs[k].last \in Nat
      /\ 1 <= packs[k].first /\ NextLsid(packs[wPack]) \in Nat /\ packs[wPack].first \in Nat
      /\ k \in Nat /\ wPack \in Nat
  BY SeqTypes, PackTypes DEF LogInv, Layout, PackOK, PackIn
<1>2. k > wPack => NextLsid(packs[wPack]) <= packs[k].lsid
  BY DEF LogInv, Layout, Precedes
<1>3. k < wPack => packs[k].last < packs[wPack].first
  BY DEF LogInv, Layout, Precedes
<1>4. ASSUME packs[k].lsid < l PROVE HeaderIo(packs[k]) \in logDone
  <2>1. k <= wPack
    BY <1>1, <1>2, <1>4
  <2>2. HeaderIo(packs[k]) \in IosOf(packs[k])
    BY DEF IosOf, HasHeaderIo
  <2>3. HeaderIo(packs[k]) < 0
    BY <1>1 DEF HeaderIo
  <2> QED
    BY <2>1, <2>2, <2>3
<1>5. ASSUME NEW j \in packs[k].first..packs[k].last, LogPb(kind[j]) > 0, biowLsid[j] < l
      PROVE  j \in logDone
  <2>1. biowLsid[j] \in Nat /\ packs[k].lsid < biowLsid[j] /\ j \in Nat
    BY <1>5, LoggedBio
  <2>2. j \in IosOf(packs[k]) /\ j > 0
    BY <1>1, <1>5 DEF IosOf
  <2>3. k <= wPack
    BY <1>1, <1>2, <1>5, <2>1
  <2>4. k < wPack => j <= b
    BY <1>1, <1>3, <1>5, <2>1
  <2>5. k = wPack => j <= b
    BY <1>5
  <2>6. j <= b
    BY <1>1, <2>3, <2>4, <2>5
  <2> QED
    BY <2>2, <2>6
<1> QED
  BY <1>4, <1>5

\* completed only moves past log IOs that are done.
LEMMA CompletedDone ==
  ASSUME LogInv, FailureSeen, IosKnown, Waited, DoneCompleted, [Next]_vars
  PROVE  DoneBelow(completed', logDone)
<1>0. completed \in Nat /\ completed' \in Nat /\ wBio \in Nat /\ wPack \in Nat
  BY LsidsGrow DEF LogInv, TypeOK, WaitTypes
<1> DEFINE p == packs[wPack]
<1>1. ASSUME NEW k \in DOMAIN packs, NEW io \in IosOf(packs[k])
      PROVE  io \in Int /\ io # 0 /\ k \in Nat
  <2>1. packs[k] \in Packs /\ PackOK(packs[k]) /\ TypeOK /\ k \in Nat
    BY SeqTypes DEF LogInv, Layout
  <2> QED
    BY <1>1, <2>1, IosAre
<1>2. ASSUME wPc = "bio"
      PROVE  /\ wPack \in DOMAIN packs /\ p.first <= wBio /\ wBio <= p.last + 1
             /\ p.first \in Nat /\ p.last \in Nat /\ p.first <= p.last /\ NextLsid(p) \in Nat
  BY <1>2, WaitBioSent, PackTypes DEF LogInv, Waiting, PackOK, PackIn
<1>3. ASSUME WaitBioFua PROVE DoneBelow(completed', logDone)
  <2>1. /\ wPc = "bio" /\ wBio <= p.last /\ ~wFailed /\ IsFua(kind[wBio])
        /\ completed' = EndOf(wBio) /\ wPc' = "fua" /\ wFailed' = wFailed
        /\ wBio' = wBio /\ wPack' = wPack /\ UNCHANGED <<packs, kind, logDone>>
    BY <1>3 DEF WaitBioFua, WaitingForBio, BioFailed, EndOf, clientVars, logVars
  <2>2. Waited' /\ NoErrorSeen'
    BY <2>1, WaitedKept DEF NoErrorSeen
  <2>3. \A k \in DOMAIN packs : \A io \in IosOf(packs[k]) :
          (io > 0 /\ io <= wBio) \/ (io < 0 /\ k <= wPack) => io \in logDone
    <3> SUFFICES ASSUME NEW k \in DOMAIN packs, NEW io \in IosOf(packs[k]),
                        (io > 0 /\ io <= wBio) \/ (io < 0 /\ k <= wPack)
                 PROVE  io \in logDone
      OBVIOUS
    <3>1. Passed(k, io)'
      BY <1>0, <1>1, <2>1 DEF Passed
    <3>2. io \in IosOf(packs[k])'
      BY IosStay
    <3> QED
      BY <2>1, <2>2, <3>1, <3>2 DEF Waited
  <2>4. wBio \in p.first..p.last /\ HasData(kind[wBio])
    BY <1>0, <1>2, <2>1 DEF IsFua, HasData
  <2>5. /\ EndOf(wBio) \in Nat /\ EndOf(wBio) <= NextLsid(p)
        /\ \A j \in (wBio + 1)..p.last : EndOf(wBio) <= biowLsid[j]
    BY <1>2, <2>1, <2>4, BioInPack
  <2>6. ASSUME NEW j \in p.first..p.last, LogPb(kind[j]) > 0, biowLsid[j] < completed'
        PROVE  j <= wBio
    <3>1. biowLsid[j] \in Nat /\ j \in Nat
      BY <1>2, <2>1, <2>6, LoggedBio
    <3>2. j > wBio => j \in (wBio + 1)..p.last
      BY <1>0, <3>1, <2>6, <1>2, <2>1
    <3> QED
      BY <1>0, <2>1, <2>5, <2>6, <3>1, <3>2
  <2> HIDE DEF p
  <2>7. packs[wPack] = p
    BY DEF p
  <2> QED
    BY <1>0, <1>2, <2>1, <2>3, <2>5, <2>6, <2>7, DoneUpTo
<1>4. ASSUME WaitPackEnd PROVE DoneBelow(completed', logDone)
  <2>1. /\ wPc = "bio" /\ wBio > p.last
        /\ completed' = (IF wFailed THEN completed ELSE NextLsid(p))
    BY <1>4 DEF WaitPackEnd, CompletedAfter
  <2>2. CASE wFailed
    BY <2>1, <2>2 DEF DoneCompleted
  <2>3. CASE ~wFailed
    <3>1. NoErrorSeen
      BY <2>1, <2>3 DEF NoErrorSeen
    <3>2. \A k \in DOMAIN packs : \A io \in IosOf(packs[k]) :
            (io > 0 /\ io <= p.last) \/ (io < 0 /\ k <= wPack) => io \in logDone
      <4> SUFFICES ASSUME NEW k \in DOMAIN packs, NEW io \in IosOf(packs[k]),
                          (io > 0 /\ io <= p.last) \/ (io < 0 /\ k <= wPack)
                   PROVE  io \in logDone
        OBVIOUS
      <4>1. Passed(k, io)
        BY <1>0, <1>1, <1>2, <2>1 DEF Passed
      <4> QED
        BY <3>1, <4>1 DEF Waited
    <3>3. \A j \in p.first..p.last : j <= p.last
      BY <1>2, <2>1
    <3>4. completed' = NextLsid(p) /\ NextLsid(p) <= NextLsid(p)
      BY <1>2, <2>1, <2>3
    <3> HIDE DEF p
    <3>5. packs[wPack] = p
      BY DEF p
    <3> QED
      BY <1>2, <2>1, <3>2, <3>3, <3>4, <3>5, DoneUpTo
  <2> QED
    BY <2>2, <2>3
<1>5. ASSUME UNCHANGED completed PROVE DoneBelow(completed', logDone)
  BY <1>5 DEF DoneCompleted
<1> QED
  BY <1>3, <1>4, <1>5, Writers

\* A log IO that is done, or stable, stays so.
LEMMA LogIosGrow ==
  ASSUME LogInv, [Next]_vars
  PROVE  logDone \subseteq logDone' /\ logStable \subseteq logStable'
<1>1. logDone \subseteq logDone'
  BY Writers DEF LogIoDone
<1>2. ASSUME NEW t, NEW ok, FlushEnd(t, ok) PROVE logStable \subseteq logStable'
  BY <1>2 DEF FlushEnd
<1>3. logStable \subseteq logStable'
  BY <1>2, Writers DEF LogIoDone, RingFlushed, WaitFuaFlushed, DataFlushed
<1> QED
  BY <1>1, <1>3

\* completed_lsid goes up only over packs whose log IOs are done.
LEMMA DoneCompletedKept ==
  ASSUME LogInv, FailureSeen, IosKnown, Waited, DoneCompleted, [Next]_vars
  PROVE  DoneCompleted'
<1>1. completed \in Nat /\ completed' \in Nat
  BY LsidsGrow
<1>2. DoneBelow(completed', logDone')
  <2>1. completed' <= completed'
    BY <1>1
  <2> QED
    BY <1>1, <2>1, CompletedDone, LogIosGrow, DoneWeakens
<1>3. completed' = completed \/ packs' = packs
  BY Writers DEF WaitBioFua, WaitPackEnd, logVars
<1>4. completed' <= completed \/ packs' = packs
  BY <1>1, <1>3
<1> QED
  BY <1>1, <1>2, <1>4, DoneStays DEF DoneCompleted, DoneBelow

\* What a flush of the log device does to the list of flushes.
LEMMA FlushMoves ==
  ASSUME LogInv, [Next]_vars, NEW t \in Tasks
  PROVE  \/ ldevFlush'[t] = ldevFlush[t]
         \/ ldevFlush'[t].lsid = completed' /\ ldevFlush'[t].ios = logDone /\ packs' = packs
         \/ ldevFlush'[t] = NoFlush
<1>0. ldevFlush \in [Tasks -> Flushes] /\ DOMAIN ldevFlush = Tasks
  BY DEF LogInv, TypeOK, LogTypes, Tasks
<1>1. ASSUME NEW u \in Tasks, NEW l, FlushBegin(u, l), l = completed', packs' = packs
      PROVE  \/ ldevFlush'[t] = ldevFlush[t]
             \/ ldevFlush'[t].lsid = completed' /\ ldevFlush'[t].ios = logDone /\ packs' = packs
  BY <1>0, <1>1 DEF FlushBegin
<1>2. ASSUME NEW u \in Tasks, NEW ok, FlushEnd(u, ok)
      PROVE  ldevFlush'[t] = ldevFlush[t] \/ ldevFlush'[t] = NoFlush
  BY <1>0, <1>2 DEF FlushEnd
<1>3. RingForceFlush => FlushBegin("submit", completed) /\ completed' = completed /\ packs' = packs
  BY DEF RingForceFlush, logVars
<1>4. WaitBioFua => FlushBegin("wait", completed') /\ packs' = packs
  BY DEF WaitBioFua, logVars
<1>5. DataForceFlush => FlushBegin("data", completed) /\ completed' = completed /\ packs' = packs
  BY DEF DataForceFlush, logVars
<1>6. ASSUME NEW ok \in BOOLEAN, RingFlushed(ok) \/ WaitFuaFlushed(ok) \/ DataFlushed(ok)
      PROVE  \E u \in Tasks : FlushEnd(u, ok)
  BY <1>6 DEF RingFlushed, WaitFuaFlushed, DataFlushed, Tasks
<1>7. \A u \in {"submit", "wait", "data"} : u \in Tasks
  BY DEF Tasks
<1> QED
  BY <1>1, <1>2, <1>3, <1>4, <1>5, <1>6, <1>7, Writers

\* A flush of the log device covers the packs before the lsid that its caller took.
LEMMA CoveredByFlushKept ==
  ASSUME LogInv, FailureSeen, IosKnown, Waited, DoneCompleted, CoveredByFlush, [Next]_vars
  PROVE  CoveredByFlush'
<1> SUFFICES ASSUME NEW t \in Tasks
             PROVE  Done(packs', kind', biowLsid', ldevFlush'[t].lsid, ldevFlush'[t].ios)
  BY DEF CoveredByFlush, DoneBelow
<1>0. completed \in Nat /\ completed' \in Nat /\ flush \in Nat /\ flush <= completed
  BY LsidsGrow DEF LogInv, Following
<1>1. ldevFlush[t].lsid \in Nat /\ ldevFlush[t].lsid <= flush
  BY DEF LogInv, Following, TypeOK, LogTypes, Tasks, Flushes
<1>2. CASE ldevFlush'[t] = ldevFlush[t]
  <2>1. ldevFlush[t].lsid <= completed
    BY <1>0, <1>1
  <2> QED
    BY <1>1, <1>2, <2>1, DoneStays DEF CoveredByFlush
<1>3. CASE ldevFlush'[t].lsid = completed' /\ ldevFlush'[t].ios = logDone /\ packs' = packs
  BY <1>0, <1>3, CompletedDone, DoneStays
<1>4. CASE ldevFlush'[t] = NoFlush
  <2>1. 0 <= completed /\ ldevFlush'[t].lsid = 0
    BY <1>0, <1>4 DEF NoFlush
  <2> QED
    BY <2>1, DoneNothing, DoneStays
<1> QED
  BY <1>2, <1>3, <1>4, FlushMoves

\* A header with a flush covers the packs before the permanent_lsid it will give.
LEMMA CoveredByHeaderKept ==
  ASSUME LogInv, IosKnown, DoneCompleted, CoveredByHeader, [Next]_vars
  PROVE  CoveredByHeader'
<1>0. completed \in Nat /\ flush \in Nat /\ flush <= completed
  BY LsidsGrow DEF LogInv, Following
<1>1. ASSUME NEW k \in DOMAIN packs', HeaderShouldFlush(packs'[k])
      PROVE  Done(packs', kind', biowLsid', packs'[k].newPermanent, packs'[k].flushes)
  <2>1. CASE k \in DOMAIN packs
    <3>1. packs'[k] = packs[k]
      BY <2>1, PacksGrow
    <3>2. packs[k].newPermanent \in Nat /\ packs[k].newPermanent <= flush
      BY <2>1, SeqTypes, PackTypes DEF LogInv, Following
    <3>3. packs[k].newPermanent <= completed
      BY <1>0, <3>2
    <3>4. DoneBelow(packs[k].newPermanent, packs[k].flushes)
      BY <1>1, <2>1, <3>1 DEF CoveredByHeader
    <3> QED
      BY <3>1, <3>2, <3>3, <3>4, DoneStays
  <2>2. CASE k \notin DOMAIN packs
    <3>1. packs'[k] \in Packs /\ packs'[k].flushes = logDone /\ packs'[k].newPermanent <= flush
      BY <1>1, <2>2, NewPacks
    <3>2. packs'[k].newPermanent \in Nat
      BY <3>1, PackTypes
    <3>3. packs'[k].newPermanent <= completed
      BY <1>0, <3>1, <3>2
    <3>4. DoneBelow(packs'[k].newPermanent, logDone)
      BY <1>0, <3>2, <3>3, DoneWeakens DEF DoneCompleted
    <3> QED
      BY <3>1, <3>2, <3>3, <3>4, DoneStays
  <2> QED
    BY <2>1, <2>2
<1>2. ASSUME NEW k \in DOMAIN packs', HeaderIo(packs'[k]) \in logDone'
      PROVE  packs'[k].flushes \subseteq logStable'
  <2>1. CASE k \in DOMAIN packs
    <3>1. packs'[k] = packs[k]
      BY <2>1, PacksGrow
    <3>2. CASE HeaderIo(packs[k]) \in logDone
      BY <2>1, <3>1, <3>2, LogIosGrow DEF CoveredByHeader
    <3>3. CASE HeaderIo(packs[k]) \notin logDone
      <4>1. PICK io \in logIo : LogIoDone(io)
        BY <1>2, <3>1, <3>3, Writers
      <4>2. /\ logDone' = logDone \cup {io}
            /\ logStable' = logStable \cup
                 UNION {packs[i].flushes : i \in {j \in DOMAIN packs : HeaderIo(packs[j]) = io}}
        BY <4>1 DEF LogIoDone
      <4>3. HeaderIo(packs[k]) = io
        BY <1>2, <3>1, <3>3, <4>2
      <4> QED
        BY <2>1, <3>1, <4>2, <4>3
    <3> QED
      BY <3>2, <3>3
  <2>2. CASE k \notin DOMAIN packs
    <3>1. SubmitLogpacks /\ packs'[k] \in Packs
          /\ \A j \in DOMAIN packs : packs[j].last < packs'[k].first
      BY <2>2, NewPacks
    <3>2. HeaderIo(packs'[k]) \in logIo
      BY <1>2, <3>1 DEF SubmitLogpacks, IosKnown
    <3>3. PICK j \in DOMAIN packs : -HeaderIo(packs'[k]) <= packs[j].last
      BY <3>2 DEF IosKnown
    <3>4. packs'[k].first \in Nat /\ packs[j].last \in Nat
      BY <3>1, SeqTypes, PackTypes DEF LogInv
    <3> QED
      BY <3>1, <3>3, <3>4 DEF HeaderIo
  <2> QED
    BY <2>1, <2>2
<1> QED
  BY <1>1, <1>2 DEF CoveredByHeader, DoneBelow, HeaderShouldFlush, HeaderIo

\* permanent only moves past log IOs that a successful flush has made stable.
LEMMA PermanentStable ==
  ASSUME LogInv, CoveredByFlush, CoveredByHeader, StablePermanent, [Next]_vars, flushFails' = 0
  PROVE  DoneBelow(permanent', logStable')
<1>0. permanent \in Nat /\ flushFails \in Nat
  BY DEF LogInv, TypeOK, LsidTypes, SyncTypes
<1>1. ASSUME flushFails = 0 PROVE DoneBelow(permanent, logStable')
  <2>1. DoneBelow(permanent, logStable) /\ permanent <= permanent
    BY <1>0, <1>1 DEF StablePermanent
  <2> QED
    BY <1>0, <2>1, LogIosGrow, DoneWeakens
<1>2. ASSUME NEW t \in Tasks, NEW ok, FlushEnd(t, ok) PROVE DoneBelow(permanent', logStable')
  <2>1. /\ permanent' = MaxOf(permanent, ldevFlush[t].lsid)
        /\ ldevFlush[t].ios \subseteq logStable' /\ flushFails = 0
    BY <1>0, <1>2 DEF FlushEnd
  <2>2. ldevFlush[t].lsid \in Nat /\ ldevFlush[t].lsid <= ldevFlush[t].lsid
    BY DEF LogInv, TypeOK, LogTypes, Tasks, Flushes
  <2>3. DoneBelow(ldevFlush[t].lsid, logStable')
    BY <2>1, <2>2, DoneWeakens DEF CoveredByFlush
  <2>4. permanent' = permanent \/ permanent' = ldevFlush[t].lsid
    BY <2>1 DEF MaxOf
  <2> QED
    BY <1>1, <2>1, <2>3, <2>4
<1>3. ASSUME WaitHeader PROVE DoneBelow(permanent', logStable')
  <2> DEFINE p == packs[wPack]
  <2>1. flushFails = 0 /\ wPc = "header"
    BY <1>3 DEF WaitHeader, boundVars
  <2>2. wPack \in DOMAIN packs /\ p \in Packs
    BY <2>1, WaitBioSent
  <2>3. \/ permanent' = permanent
        \/ /\ permanent' = p.newPermanent /\ HeaderShouldFlush(p)
           /\ HeaderIo(p) \in logDone
    BY <1>3 DEF WaitHeader, HasHeaderIo, MaxOf
  <2>4. ASSUME HeaderShouldFlush(p), HeaderIo(p) \in logDone
        PROVE  DoneBelow(p.newPermanent, logStable')
    <3>1. DoneBelow(p.newPermanent, p.flushes) /\ p.flushes \subseteq logStable'
      BY <2>2, <2>4, LogIosGrow DEF CoveredByHeader
    <3>2. p.newPermanent \in Nat /\ p.newPermanent <= p.newPermanent
      BY <2>2, PackTypes
    <3> HIDE DEF p
    <3> QED
      BY <3>1, <3>2, DoneWeakens
  <2> QED
    BY <1>1, <2>1, <2>3, <2>4
<1>4. ASSUME NEW ok \in BOOLEAN, RingFlushed(ok) \/ WaitFuaFlushed(ok) \/ DataFlushed(ok)
      PROVE  DoneBelow(permanent', logStable')
  <2>1. \E t \in Tasks : FlushEnd(t, ok)
    BY <1>4 DEF RingFlushed, WaitFuaFlushed, DataFlushed, Tasks
  <2> QED
    BY <1>2, <2>1
<1>5. ASSUME UNCHANGED <<permanent, flushFails>> PROVE DoneBelow(permanent', logStable')
  BY <1>1, <1>5
<1> QED
  BY <1>3, <1>4, <1>5, Writers

\* permanent_lsid goes up only after such a flush.
LEMMA StablePermanentKept ==
  ASSUME LogInv, CoveredByFlush, CoveredByHeader, StablePermanent, [Next]_vars
  PROVE  StablePermanent'
<1> SUFFICES ASSUME flushFails' = 0
             PROVE  Done(packs', kind', biowLsid', permanent', logStable')
  BY DEF StablePermanent, DoneBelow
<1>1. permanent \in Nat /\ permanent' \in Nat /\ completed \in Nat /\ permanent <= completed
  <2>1. permanent <= flush /\ flush <= completed
    BY DEF LogInv, Following
  <2> QED
    BY <2>1, LsidsGrow
<1>2. permanent' = permanent \/ packs' = packs
  BY Writers DEF WaitHeader, RingFlushed, WaitFuaFlushed, DataFlushed, logVars
<1>3. permanent' <= completed \/ packs' = packs
  BY <1>1, <1>2
<1> QED
  BY <1>1, <1>3, PermanentStable, DoneStays

-----------------------------------------------------------------------------
\* Bio i has been answered and is on its way to the data device; ks are the kinds of the
\* bios and as their answers.
SentIn(i, ks, as) == i \in 1..Len(ks) /\ HasData(ks[i]) /\ as[i] = "ok"

Sent(i) == SentIn(i, kind, answer)

Ordered(s) == \A m, n \in DOMAIN s : m < n => s[m] < s[n]

\* What is sent to the data device lies below permanent.
Queued ==
  /\ \A m \in DOMAIN dataQueue : Sent(dataQueue[m])
  /\ \A m \in DOMAIN dList : Sent(dList[m])
  /\ Ordered(dataQueue) /\ Ordered(dList)
Issued ==
  /\ dPc # "idle" => dList # <<>>
  /\ dPc = "submit" => DataLsid(dList) <= permanent
  /\ dPc = "flush" => DataLsid(dList) <= ldevFlush["data"].lsid
  /\ \A i \in dIssued : Sent(i) /\ EndOf(i) <= permanent

\* An answer "ok" stays.
LEMMA OkStays ==
  ASSUME LogInv, Answered, [Next]_vars, NEW i \in Bios, answer[i] = "ok"
  PROVE  answer'[i] = "ok" /\ i \in Bios'
<1>0. /\ answer \in Seq({"none", "ok", "error"}) /\ Len(answer) = Len(kind) /\ Len(kind) \in Nat
      /\ Bios = 1..Len(answer) /\ i \in Nat
  BY BiosKept DEF LogInv, TypeOK, ClientTypes, Bios
<1>1. i < wBio /\ wBio \in Nat /\ wBio <= sNext /\ sNext <= queuedFrom /\ queuedFrom \in Nat
      /\ sNext \in Nat /\ i \in Bios'
  BY PlacedStays DEF Answered, LogInv, Waiting, Ranges, TypeOK, WaitTypes, SubmitTypes
<1>2. ASSUME NEW a \in Nat, NEW b, Fail(a, b), i < a PROVE answer'[i] = "ok"
  <2>1. i \notin a..b
    BY <1>0, <1>2
  <2> QED
    BY <1>2, <2>1 DEF Fail
<1>3. GivesUp => answer'[i] = "ok"
  <2> SUFFICES ASSUME GivesUp PROVE answer'[i] = "ok"
    OBVIOUS
  <2>1. 1 \in DOMAIN wpacks
    BY DEF GivesUp, LogInv, TypeOK, SubmitTypes
  <2>2. wBio <= wpacks[1].first /\ wpacks[1].first \in Nat
    BY <2>1, SeqTypes, PackTypes DEF LogInv, Waiting
  <2>3. Fail(wpacks[1].first, queuedFrom - 1)
    BY DEF GivesUp
  <2>4. i < wpacks[1].first
    BY <1>0, <1>1, <2>2
  <2> QED
    BY <1>2, <2>2, <2>3, <2>4
<1>4. SubmitDequeueReadOnly => answer'[i] = "ok"
  <2>1. i < queuedFrom
    BY <1>0, <1>1
  <2> QED
    BY <1>1, <1>2, <2>1 DEF SubmitDequeueReadOnly
<1>5. ASSUME NEW k \in Kinds, MakeRequest(k) PROVE answer'[i] = "ok"
  <2>1. answer' = Append(answer, "none")
    BY <1>5 DEF MakeRequest
  <2>2. \A j \in 1..Len(answer) : answer'[j] = answer[j]
    BY <1>0, <2>1, AppendProperties
  <2> QED
    BY <1>0, <2>2
<1>6. WaitBioError \/ Acks => answer'[i] = "ok"
  BY <1>0, <1>1 DEF WaitBioError, Acks, WaitBioOk, WaitFuaFlushed, Ack
<1>7. UNCHANGED answer => answer'[i] = "ok"
  OBVIOUS
<1> QED
  BY <1>1, <1>3, <1>4, <1>5, <1>6, <1>7, WhoGivesUp, Writers DEF Acks

\* A bio that was sent to the data device keeps its place in the log.
LEMMA SentStays ==
  ASSUME LogInv, Answered, [Next]_vars, NEW i, Sent(i)
  PROVE  /\ SentIn(i, kind', answer') /\ Placed(i) /\ i \in Nat /\ i < wBio
         /\ EndOf(i)' = EndOf(i) /\ EndOf(i) \in Nat /\ DataLsid(<<i>>) = EndOf(i)
<1>1. i \in Bios /\ answer[i] = "ok" /\ HasData(kind[i]) /\ i < wBio /\ Placed(i)
  BY DEF Sent, SentIn, Bios, Answered
<1>2. kind'[i] = kind[i] /\ EndOf(i)' = EndOf(i) /\ EndOf(i) \in Nat
  BY <1>1, PlacedStays
<1>3. answer'[i] = "ok" /\ i \in Bios'
  BY <1>1, OkStays
<1>4. i \in Nat
  BY <1>1, BiosKept DEF Bios
<1>5. Len(<<i>>) = 1 /\ <<i>>[1] = i
  OBVIOUS
<1> QED
  BY <1>1, <1>2, <1>3, <1>4, <1>5 DEF SentIn, Bios, DataLsid, EndOf

\* The log of bios lies in their order.
LEMMA EndsOrdered ==
  ASSUME LogInv, NEW i, NEW j, Placed(i), Placed(j), HasData(kind[i]), HasData(kind[j]), i < j
  PROVE  /\ EndOf(i) <= EndOf(j)
         /\ \A k \in DOMAIN packs : packs[k].first <= i /\ packs[k].nRec > 0 =>
              packs[k].lsid < EndOf(j)
<1>1. PICK a \in DOMAIN packs : i \in packs[a].first..packs[a].last
  BY DEF Placed
<1>2. PICK b \in DOMAIN packs : j \in packs[b].first..packs[b].last
  BY DEF Placed
<1>3. /\ EndOf(i) \in Nat /\ EndOf(i) <= NextLsid(packs[a])
      /\ \A x \in (i + 1)..packs[a].last : EndOf(i) <= biowLsid[x]
  BY <1>1, BioInPack
<1>4. EndOf(j) \in Nat /\ biowLsid[j] \in Nat /\ packs[b].lsid < biowLsid[j] /\ biowLsid[j] <= EndOf(j)
  BY <1>2, BioInPack
<1>5. /\ NextLsid(packs[a]) \in Nat /\ packs[b].lsid \in Nat
      /\ packs[a].first \in Nat /\ packs[a].last \in Nat /\ packs[b].first \in Nat
      /\ packs[b].last \in Nat /\ a \in Nat /\ b \in Nat /\ i \in Nat /\ j \in Nat
  BY <1>1, <1>2, SeqTypes, PackTypes, SMTT(40) DEF LogInv
<1>6. (a < b => NextLsid(packs[a]) <= packs[b].lsid) /\ (b < a => packs[b].last < packs[a].first)
  BY DEF LogInv, Layout, Precedes
<1>7. EndOf(i) <= EndOf(j)
  <2>1. CASE a < b
    BY <1>3, <1>4, <1>5, <1>6, <2>1
  <2>2. CASE a = b
    <3>1. j \in (i + 1)..packs[a].last
      BY <1>2, <1>5, <2>2
    <3> QED
      BY <1>3, <1>4, <3>1
  <2>3. CASE b < a
    BY <1>1, <1>2, <1>5, <1>6, <2>3
  <2> QED
    BY <1>5, <2>1, <2>2, <2>3
<1>8. ASSUME NEW k \in DOMAIN packs, packs[k].first <= i, packs[k].nRec > 0
      PROVE  packs[k].lsid < EndOf(j)
  <2>1. /\ packs[k].lsid \in Nat /\ NextLsid(packs[k]) \in Nat /\ packs[k].first \in Nat /\ k \in Nat
        /\ packs[k].lsid < NextLsid(packs[k])
    BY <1>8, SeqTypes, PackTypes, PackEnds DEF LogInv
  <2>2. k < b => NextLsid(packs[k]) <= packs[b].lsid
    BY DEF LogInv, Layout, Precedes
  <2>3. b < k => packs[b].last < packs[k].first
    BY DEF LogInv, Layout, Precedes
  <2> QED
    BY <1>2, <1>4, <1>5, <1>8, <2>1, <2>2, <2>3
<1> QED
  BY <1>7, <1>8

\* A piece of a list of bios, from x + 1 to y.
LEMMA Piece ==
  ASSUME NEW s \in Seq(Nat), Ordered(s), \A m \in DOMAIN s : Sent(s[m]),
         NEW x \in Nat, NEW y \in Nat, x <= y, y <= Len(s)
  PROVE  /\ Ordered(SubSeq(s, x + 1, y)) /\ \A m \in DOMAIN SubSeq(s, x + 1, y) : Sent(SubSeq(s, x + 1, y)[m])
         /\ Len(SubSeq(s, x + 1, y)) = y - x /\ SubSeq(s, x + 1, y) \in Seq(Nat)
<1> DEFINE r == SubSeq(s, x + 1, y)
<1>1. r \in Seq(Nat) /\ Len(r) = y - x /\ \A i \in 1..(y - x) : r[i] = s[x + i]
  <2>1. \A i \in (x + 1)..y : s[i] \in Nat
    OBVIOUS
  <2>2. r \in Seq(Nat) /\ Len(r) = (IF x + 1 <= y THEN y - (x + 1) + 1 ELSE 0)
        /\ \A i \in 1..(y - (x + 1) + 1) : r[i] = s[x + 1 + i - 1]
    BY <2>1, SubSeqProperties, SMTT(40)
  <2>3. Len(r) = y - x
    BY <2>2
  <2>4. \A i \in 1..(y - x) : r[i] = s[x + i]
    BY <2>2, SMTT(40)
  <2> QED
    BY <2>2, <2>3, <2>4
<1>2. DOMAIN r = 1..(y - x) /\ \A m \in DOMAIN r : x + m \in DOMAIN s
  BY <1>1
<1> HIDE DEF r
<1>3. Ordered(r)
  BY <1>1, <1>2 DEF Ordered
<1>4. \A m \in DOMAIN r : Sent(r[m])
  BY <1>1, <1>2
<1> QED
  BY <1>1, <1>3, <1>4 DEF r

\* The list l that DataDequeue takes.
LEMMA DataDequeueDoes ==
  ASSUME LogInv, Queued, DataDequeue
  PROVE  /\ dPc = "idle" /\ UNCHANGED <<permanent, dIssued, kind, biowLsid>>
         /\ Ordered(dataQueue') /\ \A m \in DOMAIN dataQueue' : Sent(dataQueue'[m])
         /\ \/ dPc' = "idle" /\ dList' = dList
            \/ /\ Ordered(dList') /\ \A m \in DOMAIN dList' : Sent(dList'[m])
               /\ dList' # <<>> /\ dPc' \in {"submit", "check"}
               /\ dPc' = "submit" => DataLsid(dList') <= permanent
<1> DEFINE n == MinOf(IoBulk, Len(dataQueue))
           l == SubSeq(dataQueue, 1, n)
<1>1. dataQueue \in Seq(Nat) /\ Len(dataQueue) \in Nat /\ Len(dataQueue) # 0
  BY DEF LogInv, TypeOK, DataTypes, DataDequeue
<1>2. n \in Nat /\ 1 <= n /\ n <= Len(dataQueue)
  BY <1>1, LogAssumption DEF MinOf
<1>3. /\ dPc = "idle" /\ UNCHANGED <<permanent, dIssued, kind, biowLsid>>
      /\ dataQueue' = SubSeq(dataQueue, n + 1, Len(dataQueue))
      /\ \/ dPc' = dPc /\ dList' = dList
         \/ dList' = l /\ dPc' = IF DataLsid(l) <= permanent THEN "submit" ELSE "check"
  BY DEF DataDequeue, lsidVars, clientVars, logVars
<1> HIDE DEF n
<1>4. Ordered(dataQueue) /\ \A m \in DOMAIN dataQueue : Sent(dataQueue[m])
  BY DEF Queued
<1>5. Ordered(dataQueue') /\ \A m \in DOMAIN dataQueue' : Sent(dataQueue'[m])
  <2>1. Len(dataQueue) <= Len(dataQueue)
    BY <1>1
  <2> QED
    BY <1>1, <1>2, <1>3, <1>4, <2>1, Piece
<1>6. Ordered(l) /\ (\A m \in DOMAIN l : Sent(l[m])) /\ Len(l) = n /\ l \in Seq(Nat)
  <2>1. l = SubSeq(dataQueue, 0 + 1, n) /\ 0 \in Nat /\ 0 <= n /\ n - 0 = n
    BY <1>2
  <2> HIDE DEF l
  <2> QED
    BY <1>1, <1>2, <1>4, <2>1, Piece
<1> HIDE DEF l
<1>7. l # <<>>
  <2>1. Len(<<>>) = 0
    OBVIOUS
  <2> QED
    BY <1>2, <1>6, <2>1
<1> QED
  BY <1>3, <1>5, <1>6, <1>7

\* The data queue holds bios that were answered, in their order.
LEMMA QueuedKept ==
  ASSUME LogInv, FailureSeen, Answered, Queued, [Next]_vars
  PROVE  Queued'
<1>1. /\ dataQueue \in Seq(Nat) /\ dList \in Seq(Nat)
      /\ dataQueue' \in Seq(Nat) /\ dList' \in Seq(Nat)
  BY TypesKept DEF LogInv, TypeOK, DataTypes
<1>2. ASSUME NEW s, \A m \in DOMAIN s : Sent(s[m]) PROVE \A m \in DOMAIN s : SentIn(s[m], kind', answer')
  BY <1>2, SentStays
<1>3. ASSUME NEW s, s \in {<<>>, dataQueue, dList}
      PROVE  Ordered(s) /\ \A m \in DOMAIN s : Sent(s[m])
  BY <1>3 DEF Queued, Ordered
<1>4. ASSUME Acks PROVE Ordered(dataQueue') /\ \A m \in DOMAIN dataQueue' : SentIn(dataQueue'[m], kind', answer')
  <2>1. /\ dataQueue' = IF HasData(kind[wBio]) THEN Append(dataQueue, wBio) ELSE dataQueue
        /\ wBio \in Bios /\ kind' = kind /\ answer' = [answer EXCEPT ![wBio] = "ok"]
    BY <1>4, AcksDoes
  <2>2. CASE ~HasData(kind[wBio])
    BY <1>2, <1>3, <2>1, <2>2
  <2>3. CASE HasData(kind[wBio])
    <3>1. dataQueue' = Append(dataQueue, wBio) /\ wBio \in Nat
      BY <2>1, <2>3 DEF LogInv, TypeOK, WaitTypes
    <3>2. /\ Len(dataQueue') = Len(dataQueue) + 1 /\ dataQueue'[Len(dataQueue) + 1] = wBio
          /\ Len(dataQueue) \in Nat
          /\ \A m \in 1..Len(dataQueue) : dataQueue'[m] = dataQueue[m]
      BY <1>1, <3>1, AppendProperties
    <3>3. DOMAIN dataQueue' = 1..(Len(dataQueue) + 1) /\ DOMAIN dataQueue = 1..Len(dataQueue)
      BY <1>1, <3>2
    <3>4. SentIn(wBio, kind', answer')
      <4>1. answer'[wBio] = "ok" /\ Bios' = Bios
        BY <2>1 DEF LogInv, TypeOK, ClientTypes, Bios
      <4> QED
        BY <2>1, <2>3, <4>1 DEF SentIn, Bios
    <3>5. \A m \in DOMAIN dataQueue : dataQueue[m] \in Nat /\ dataQueue[m] < wBio
      BY <1>1, SentStays DEF Queued
    <3>6. \A m \in DOMAIN dataQueue : SentIn(dataQueue[m], kind', answer')
      BY <1>2, <1>3
    <3>7. ASSUME NEW m \in DOMAIN dataQueue' PROVE SentIn(dataQueue'[m], kind', answer')
      <4>1. m = Len(dataQueue) + 1 \/ m \in DOMAIN dataQueue
        BY <3>2, <3>3
      <4> QED
        BY <3>2, <3>3, <3>4, <3>6, <4>1
    <3>8. Ordered(dataQueue')
      <4> SUFFICES ASSUME NEW m \in DOMAIN dataQueue', NEW n \in DOMAIN dataQueue', m < n
                   PROVE  dataQueue'[m] < dataQueue'[n]
        BY DEF Ordered
      <4>1. m \in DOMAIN dataQueue /\ (n \in DOMAIN dataQueue \/ n = Len(dataQueue) + 1)
        BY <3>2, <3>3
      <4>2. n \in DOMAIN dataQueue => dataQueue[m] < dataQueue[n]
        BY <4>1 DEF Queued, Ordered
      <4> QED
        BY <3>2, <3>3, <3>5, <4>1, <4>2
    <3> QED
      BY <3>7, <3>8
  <2> QED
    BY <2>2, <2>3
<1>5. ASSUME DataDequeue PROVE Queued'
  <2>1. /\ Ordered(dataQueue') /\ \A m \in DOMAIN dataQueue' : Sent(dataQueue'[m])
        /\ Ordered(dList') /\ \A m \in DOMAIN dList' : Sent(dList'[m])
    BY <1>3, <1>5, DataDequeueDoes
  <2>2. /\ \A m \in DOMAIN dataQueue' : SentIn(dataQueue'[m], kind', answer')
        /\ \A m \in DOMAIN dList' : SentIn(dList'[m], kind', answer')
    BY <2>1, SentStays
  <2> QED
    BY <2>1, <2>2 DEF Queued, Ordered, Sent
<1>6. ASSUME ~DataDequeue PROVE Ordered(dataQueue') /\ \A m \in DOMAIN dataQueue' : SentIn(dataQueue'[m], kind', answer')
  <2>1. Acks \/ dataQueue' = dataQueue
    BY <1>6, Writers DEF Acks
  <2> QED
    BY <1>2, <1>3, <1>4, <2>1
<1>7. ASSUME ~DataDequeue PROVE Ordered(dList') /\ \A m \in DOMAIN dList' : SentIn(dList'[m], kind', answer')
  <2>1. dList' = <<>> \/ dList' = dList
    BY <1>7, Writers DEF DataPermanent, DataRetryReadOnly, DataFlushed, DataSubmit, DataCancel
  <2> QED
    BY <1>2, <1>3, <2>1
<1> QED
  BY <1>5, <1>6, <1>7 DEF Queued, Ordered, Sent

\* The last of the list is the one whose log ends last.
LEMMA DataLsidIs ==
  ASSUME LogInv, Answered, Queued, dList # <<>>
  PROVE  /\ DataLsid(dList) \in Nat /\ Sent(dList[Len(dList)]) /\ Len(dList) \in DOMAIN dList
         /\ DataLsid(dList) = EndOf(dList[Len(dList)])
         /\ \A i \in DataBios : Sent(i) /\ EndOf(i) \in Nat /\ EndOf(i) <= DataLsid(dList)
<1>1. dList \in Seq(Nat) /\ Len(dList) \in Nat /\ Len(dList) # 0 /\ DOMAIN dList = 1..Len(dList)
  BY DEF LogInv, TypeOK, DataTypes
<1> DEFINE j == dList[Len(dList)]
<1>2. Len(dList) \in DOMAIN dList /\ Sent(j)
  BY <1>1 DEF Queued
<1>3. \A i : Sent(i) => Placed(i) /\ HasData(kind[i]) /\ EndOf(i) \in Nat
  BY SeqTypes DEF Sent, SentIn, Bios, Answered, LogInv
<1>4. DataLsid(dList) = EndOf(j)
  BY DEF DataLsid, EndOf
<1>5. ASSUME NEW i \in DataBios PROVE Sent(i) /\ EndOf(i) \in Nat /\ EndOf(i) <= DataLsid(dList)
  <2>1. PICK m \in DOMAIN dList : i = dList[m]
    BY DEF DataBios
  <2>2. Sent(i)
    BY <2>1 DEF Queued
  <2>3. m = Len(dList) \/ i < j
    BY <1>1, <1>2, <2>1 DEF Queued, Ordered
  <2>4. i < j => EndOf(i) <= EndOf(j)
    BY <1>2, <1>3, <2>2, EndsOrdered
  <2> HIDE DEF j
  <2>5. EndOf(i) \in Nat /\ EndOf(j) \in Nat
    BY <1>2, <1>3, <2>2
  <2>6. m = Len(dList) => i = j
    BY <2>1 DEF j
  <2> QED
    BY <1>4, <2>2, <2>3, <2>4, <2>5, <2>6
<1> QED
  BY <1>2, <1>3, <1>4, <1>5

\* The data task submits a write only when permanent_lsid has passed its log.
LEMMA IssuedKept ==
  ASSUME LogInv, FailureSeen, Answered, Queued, Issued, [Next]_vars
  PROVE  Issued'
<1>0. permanent \in Nat /\ permanent' \in Nat /\ permanent <= permanent'
  BY LsidsGrow
<1>1. ASSUME NEW i, Sent(i), EndOf(i) <= permanent'
      PROVE  SentIn(i, kind', answer') /\ EndOf(i)' <= permanent'
  BY <1>1, SentStays
<1>2. ASSUME NEW i \in dIssued PROVE SentIn(i, kind', answer') /\ EndOf(i)' <= permanent'
  <2>1. Sent(i) /\ EndOf(i) <= permanent /\ EndOf(i) \in Nat
    BY SentStays DEF Issued
  <2>2. EndOf(i) <= permanent'
    BY <1>0, <2>1
  <2> QED
    BY <1>1, <2>1, <2>2
<1>3. ASSUME dPc' = "idle", dIssued' = dIssued PROVE Issued'
  BY <1>2, <1>3 DEF Issued, Sent
<1>4. ASSUME dPc' = "idle", dIssued' = dIssued \cup DataBios, dList # <<>>,
             DataLsid(dList) <= permanent'
      PROVE  Issued'
  <2>1. ASSUME NEW i \in DataBios PROVE SentIn(i, kind', answer') /\ EndOf(i)' <= permanent'
    <3>1. Sent(i) /\ EndOf(i) \in Nat /\ EndOf(i) <= DataLsid(dList) /\ DataLsid(dList) \in Nat
      BY <1>4, DataLsidIs
    <3>2. EndOf(i) <= permanent'
      BY <1>0, <1>4, <3>1
    <3> QED
      BY <1>1, <3>1, <3>2
  <2> QED
    BY <1>2, <1>4, <2>1 DEF Issued, Sent
<1>5. ASSUME DataDequeue PROVE Issued'
  <2>1. UNCHANGED <<permanent, dIssued, kind, biowLsid>> /\ dPc = "idle"
    BY <1>5, DataDequeueDoes
  <2>2. CASE dPc' = "idle"
    BY <1>3, <2>1, <2>2
  <2>3. CASE dList' # <<>> /\ dPc' \in {"submit", "check"}
             /\ (dPc' = "submit" => DataLsid(dList') <= permanent)
    <3>1. DataLsid(dList)' = DataLsid(dList')
      BY <2>1 DEF DataLsid
    <3> QED
      BY <1>2, <2>1, <2>3, <3>1 DEF Issued, Sent
  <2> QED
    BY <1>5, <2>2, <2>3, DataDequeueDoes
<1>6. ASSUME DataPermanent PROVE Issued'
  <2>1. /\ dPc' = "idle" /\ dIssued' = dIssued \cup DataBios /\ permanent' = permanent
        /\ dPc # "idle" /\ (dPc = "submit" \/ DataLsid(dList) <= permanent)
    BY <1>6 DEF DataPermanent, DataSubmit, lsidVars
  <2> QED
    BY <1>4, <2>1 DEF Issued
<1>7. ASSUME DataRetryReadOnly PROVE Issued'
  BY <1>3, <1>7 DEF DataRetryReadOnly, DataCancel
<1>8. ASSUME DataForceFlush PROVE Issued'
  <2>1. /\ dPc' = "flush" /\ dPc = "check" /\ dList' = dList /\ dIssued' = dIssued
        /\ UNCHANGED <<kind, biowLsid>> /\ DataLsid(dList) <= completed
    BY <1>8 DEF DataForceFlush, clientVars, logVars
  <2>2. ldevFlush'["data"].lsid = completed
    BY <1>8 DEF DataForceFlush, FlushBegin, LogInv, TypeOK, LogTypes
  <2>3. DataLsid(dList)' = DataLsid(dList)
    BY <2>1 DEF DataLsid
  <2> QED
    BY <1>2, <2>1, <2>2, <2>3 DEF Issued, Sent
<1>9. ASSUME NEW ok \in BOOLEAN, DataFlushed(ok) PROVE Issued'
  <2>1. dPc = "flush" /\ dPc' = "idle" /\ permanent' = MaxOf(permanent, ldevFlush["data"].lsid)
        /\ (dIssued' = dIssued \/ dIssued' = dIssued \cup DataBios)
    BY <1>9 DEF DataFlushed, FlushEnd, DataCancel, DataSubmit
  <2>2. dList # <<>> /\ DataLsid(dList) <= ldevFlush["data"].lsid
    BY <2>1 DEF Issued
  <2>3. ldevFlush["data"].lsid \in Nat
    BY DEF LogInv, TypeOK, LogTypes, Flushes
  <2>4. DataLsid(dList) \in Nat
    BY <2>2, DataLsidIs
  <2>5. DataLsid(dList) <= permanent'
    BY <1>0, <2>1, <2>2, <2>3, <2>4 DEF MaxOf
  <2> QED
    BY <1>3, <1>4, <2>1, <2>2, <2>5
<1>10. ASSUME UNCHANGED <<dPc, dList, dIssued>>, ldevFlush'["data"] = ldevFlush["data"] PROVE Issued'
  <2>1. ASSUME dList # <<>> PROVE DataLsid(dList)' = DataLsid(dList) /\ DataLsid(dList) \in Nat
    <3>1. Sent(dList[Len(dList)]) /\ DataLsid(dList) = EndOf(dList[Len(dList)])
          /\ DataLsid(dList) \in Nat
      BY <2>1, DataLsidIs
    <3>2. DataLsid(dList)' = EndOf(dList[Len(dList)])'
      BY DEF DataLsid, EndOf
    <3>3. Placed(dList[Len(dList)])
      BY <3>1, SentStays
    <3>4. PICK k \in DOMAIN packs : dList[Len(dList)] \in packs[k].first..packs[k].last
      BY <3>3 DEF Placed
    <3>5. /\ kind'[dList[Len(dList)]] = kind[dList[Len(dList)]]
          /\ biowLsid'[dList[Len(dList)]] = biowLsid[dList[Len(dList)]]
      BY <3>4, PacksStay
    <3>6. EndOf(dList[Len(dList)])' = EndOf(dList[Len(dList)])
      BY <1>10, <3>5 DEF EndOf
    <3> QED
      BY <3>1, <3>2, <3>6
  <2>2. dPc' = "submit" => DataLsid(dList)' <= permanent'
    BY <1>0, <1>10, <2>1 DEF Issued
  <2>3. dPc' = "flush" => DataLsid(dList)' <= ldevFlush'["data"].lsid
    BY <1>10, <2>1 DEF Issued
  <2>4. \A i \in dIssued' : Sent(i)' /\ EndOf(i)' <= permanent'
    BY <1>2, <1>10 DEF Sent
  <2> QED
    BY <1>10, <2>2, <2>3, <2>4 DEF Issued
<1>11. \/ DataTask
       \/ UNCHANGED <<dPc, dList, dIssued>> /\ ldevFlush'["data"] = ldevFlush["data"]
  <2>1. ASSUME ~DataTask PROVE UNCHANGED <<dPc, dList, dIssued>>
    BY <2>1, Writers DEF DataTask
  <2>2. ASSUME ~DataTask PROVE ldevFlush'["data"] = ldevFlush["data"]
    <3>1. ldevFlush \in [{"submit", "wait", "data"} -> Flushes]
      BY DEF LogInv, TypeOK, LogTypes
    <3>2. \/ UNCHANGED ldevFlush \/ RingForceFlush \/ WaitBioFua
          \/ \E ok \in BOOLEAN : RingFlushed(ok) \/ WaitFuaFlushed(ok)
      BY <2>2, Writers DEF DataTask
    <3> QED
      BY <3>1, <3>2 DEF RingForceFlush, WaitBioFua, RingFlushed, WaitFuaFlushed, FlushBegin, FlushEnd
  <2> QED
    BY <2>1, <2>2
<1> QED
  BY <1>5, <1>6, <1>7, <1>8, <1>9, <1>10, <1>11 DEF DataTask

\* A bio that permanent has passed would survive a power failure.
LEMMA PermanentDurable ==
  ASSUME LogInv, DoneBelow(permanent, logStable), NEW i, Placed(i), HasData(kind[i]),
         EndOf(i) <= permanent
  PROVE  Durable(i)
<1>0. permanent \in Nat
  BY DEF LogInv, TypeOK, LsidTypes
<1>1. PICK b \in DOMAIN packs : i \in packs[b].first..packs[b].last
  BY DEF Placed
<1>2. /\ EndOf(i) \in Nat /\ biowLsid[i] \in Nat /\ packs[b].lsid < biowLsid[i]
      /\ biowLsid[i] <= EndOf(i) /\ packs[b].lsid \in Nat /\ packs[b].last \in Nat
      /\ b \in Nat /\ i \in Nat
  BY <1>1, BioInPack, SeqTypes, PackTypes DEF LogInv
<1> SUFFICES ASSUME NEW k \in DOMAIN packs, packs[k].first <= i
             PROVE  /\ packs[k].nRec > 0 => HeaderIo(packs[k]) \in logStable
                    /\ \A j \in packs[k].first..MinOf(i, packs[k].last) :
                         LogPb(kind[j]) > 0 => j \in logStable
  BY DEF Durable, RedoPacks
<1>3. /\ packs[k].lsid \in Nat /\ packs[k].first \in Nat /\ packs[k].last \in Nat /\ k \in Nat
      /\ NextLsid(packs[k]) \in Nat /\ packs[k].lsid <= NextLsid(packs[k])
  BY SeqTypes, PackTypes, PackEnds DEF LogInv
<1>4. /\ k < b => NextLsid(packs[k]) <= packs[b].lsid
      /\ b < k => packs[b].last < packs[k].first
  BY DEF LogInv, Layout, Precedes
<1>5. k <= b /\ packs[k].lsid < permanent
  BY <1>0, <1>1, <1>2, <1>3, <1>4
<1>6. packs[k].nRec > 0 => HeaderIo(packs[k]) \in logStable
  BY <1>5 DEF DoneBelow, Done
<1>7. ASSUME NEW j \in packs[k].first..MinOf(i, packs[k].last), LogPb(kind[j]) > 0
      PROVE  j \in logStable
  <2>1. j \in packs[k].first..packs[k].last /\ j <= i /\ j \in Nat
    BY <1>2, <1>3 DEF MinOf
  <2>2. /\ HasData(kind[j]) /\ biowLsid[j] \in Nat /\ EndOf(j) \in Nat /\ biowLsid[j] < EndOf(j)
        /\ packs[k].nRec > 0
    BY <1>7, <2>1, LoggedBio
  <2>3. j < i => EndOf(j) <= EndOf(i)
    BY <2>1, <2>2, EndsOrdered DEF Placed
  <2>4. biowLsid[j] < permanent
    BY <1>0, <1>2, <2>1, <2>2, <2>3
  <2> QED
    BY <1>7, <2>1, <2>2, <2>4 DEF DoneBelow, Done
<1> QED
  BY <1>6, <1>7

-----------------------------------------------------------------------------
\* The invariant of this module.
DurableInv ==
  /\ IosKnown /\ FailureSeen /\ Waited /\ Answered /\ AnsweredPrefix
  /\ DoneCompleted /\ CoveredByFlush /\ CoveredByHeader /\ StablePermanent
  /\ Queued /\ Issued

\* DurableInv holds when the device starts.
LEMMA InitDurable == Init => DurableInv
<1> SUFFICES ASSUME Init PROVE DurableInv
  OBVIOUS
<1>1. /\ DOMAIN packs = {} /\ Bios = {} /\ dIssued = {} /\ logIo = {} /\ logDone = {}
      /\ DOMAIN dataQueue = {} /\ DOMAIN dList = {}
  BY DEF Init, Bios
<1>2. wPc = "idle" /\ dPc = "idle"
  BY DEF Init
<1>3. \A l, s : DoneBelow(l, s)
  BY <1>1 DEF DoneBelow, Done
<1>4. IosKnown /\ FailureSeen /\ Waited
  BY <1>1, <1>2 DEF IosKnown, FailureSeen, Waited
<1>5. Answered /\ AnsweredPrefix
  BY <1>1 DEF Answered, AnsweredPrefix
<1>6. DoneCompleted /\ CoveredByFlush /\ CoveredByHeader /\ StablePermanent
  BY <1>1, <1>3 DEF DoneCompleted, CoveredByFlush, CoveredByHeader, StablePermanent
<1>7. Queued /\ Issued
  BY <1>1, <1>2 DEF Queued, Issued, Ordered
<1> QED
  BY <1>4, <1>5, <1>6, <1>7 DEF DurableInv

\* DurableInv is kept by every step.
LEMMA NextDurable == LogInv /\ DurableInv /\ [Next]_vars => DurableInv'
BY IosKnownKept, FailureSeenKept, WaitedKept, AnsweredKept, AnsweredPrefixKept,
   DoneCompletedKept, CoveredByFlushKept, CoveredByHeaderKept, StablePermanentKept,
   QueuedKept, IssuedKept DEF DurableInv

\* DurableInv is an invariant.
LEMMA DurableInvariant == Spec => []DurableInv
BY LogInvariant, InitDurable, NextDurable, PTL DEF Spec

\* A bio is answered "ok" only when every log IO before it, the header of its own pack
\* included, has succeeded, whatever fails.
THEOREM AnsweredPrefixThm == Spec => []AnsweredPrefix
<1>1. DurableInv => AnsweredPrefix
  BY DEF DurableInv
<1> QED
  BY <1>1, DurableInvariant, PTL

\* Until a flush of the log device fails, a write is not submitted to the data device before
\* its log, and all the log before it, is stable.
THEOREM WriteAheadLogThm == Spec => [](flushFails = 0 => WriteAheadLog)
<1>1. LogInv /\ DurableInv => (flushFails = 0 => WriteAheadLog)
  <2> SUFFICES ASSUME LogInv, DurableInv, flushFails = 0, NEW i \in dIssued PROVE Durable(i)
    BY DEF WriteAheadLog
  <2>1. DoneBelow(permanent, logStable) /\ Sent(i) /\ EndOf(i) <= permanent
    BY DEF DurableInv, StablePermanent, Issued
  <2>2. Placed(i) /\ HasData(kind[i])
    BY <2>1 DEF Sent, SentIn, Bios, DurableInv, Answered
  <2> QED
    BY <2>1, <2>2, PermanentDurable
<1> QED
  BY <1>1, LogInvariant, DurableInvariant, PTL

\* Until then a REQ_FUA bio is answered only after it is durable.
THEOREM FuaDurableThm == Spec => [](flushFails = 0 => FuaDurable)
<1>1. LogInv /\ DurableInv => (flushFails = 0 => FuaDurable)
  <2> SUFFICES ASSUME LogInv, DurableInv, flushFails = 0, NEW i \in Bios,
                      IsFua(kind[i]), answer[i] = "ok"
               PROVE  Durable(i)
    BY DEF FuaDurable
  <2>1. DoneBelow(permanent, logStable) /\ EndOf(i) <= permanent /\ Placed(i)
    BY DEF DurableInv, StablePermanent, Answered
  <2>2. HasData(kind[i])
    BY DEF IsFua, HasData
  <2> QED
    BY <2>1, <2>2, PermanentDurable
<1> QED
  BY <1>1, LogInvariant, DurableInvariant, PTL

-----------------------------------------------------------------------------
(* The super block *)

NothingFailed == ioFails = 0 /\ flushFails = 0

\* The device becomes read-only only after a failure.
NoFailure ==
  NothingFailed => ~readOnly /\ logFailed = {} /\ dFailed = {} /\ ~wFailed

\* The data of the packs before lsid l is in s; ks and as are the kinds and answers of the bios.
CoverIn(ps, ks, as, l, s) ==
  \A k \in DOMAIN ps : NextLsid(ps[k]) <= l =>
    \A i \in ps[k].first..ps[k].last : HasData(ks[i]) /\ as[i] = "ok" => i \in s

CoverBelow(l, s) == CoverIn(packs, kind, answer, l, s)

\* What is done below written_lsid, what the flush of the data device will make stable, and
\* what is stable below the written_lsid on disk.
DataBelowWritten == NothingFailed => CoverBelow(written, dDone)
DataBelowSync ==
  NothingFailed => \A c \in Callers : sync[c].pc = "write" => CoverBelow(sync[c].written, sync[c].ios)
DataBelowSuper == NothingFailed => CoverBelow(super.written, dStable)

\* The failures are counted and never forgotten.
LEMMA FailuresStay ==
  ASSUME LogInv, [Next]_vars, NothingFailed'
  PROVE  NothingFailed
<1>1. ioFails \in Nat /\ flushFails \in Nat
  BY DEF LogInv, TypeOK, SyncTypes
<1>2. ioFails' = ioFails \/ ioFails' = ioFails + 1
  BY Writers DEF LogIoFail, DataIoFail, SyncFail
<1>3. ASSUME NEW t, NEW ok, FlushEnd(t, ok) PROVE flushFails' = flushFails \/ flushFails' = flushFails + 1
  BY <1>3 DEF FlushEnd
<1>4. flushFails' = flushFails \/ flushFails' = flushFails + 1
  BY <1>3, Writers DEF RingFlushed, WaitFuaFlushed, DataFlushed
<1> QED
  BY <1>1, <1>2, <1>4 DEF NothingFailed

\* The device becomes read-only only after a failure.
LEMMA NoFailureKept ==
  ASSUME LogInv, NoFailure, [Next]_vars
  PROVE  NoFailure'
<1> SUFFICES ASSUME NothingFailed' PROVE ~readOnly' /\ logFailed' = {} /\ dFailed' = {} /\ ~wFailed'
  BY DEF NoFailure
<1>1. NothingFailed /\ ~readOnly /\ logFailed = {} /\ dFailed = {} /\ ~wFailed
  BY FailuresStay DEF NoFailure
<1>2. ioFails = 0 /\ ioFails' = 0 /\ flushFails = 0 /\ flushFails' = 0
  BY <1>1 DEF NothingFailed
<1>3. /\ \A io \in logIo : ~LogIoFail(io)
      /\ \A i \in dIssued : ~DataIoFail(i)
      /\ \A c \in Callers : ~SyncFail(c)
  BY <1>2 DEF LogIoFail, DataIoFail, SyncFail
<1>4. ASSUME NEW t, NEW ok, FlushEnd(t, ok) PROVE readOnly' = readOnly
  BY <1>2, <1>4 DEF FlushEnd
<1>5. ~WaitBioError
  BY <1>1 DEF WaitBioError, BioFailed
<1>6. \A i \in GcBios : ~GcDataError(i)
  BY <1>1 DEF GcDataError
<1>7. ~readOnly'
  BY <1>1, <1>3, <1>4, <1>5, <1>6, Writers DEF RingFlushed, WaitFuaFlushed, DataFlushed
<1>8. logFailed' = {}
  BY <1>1, <1>3, Writers
<1>9. dFailed' = {}
  <2>1. DataDequeue => dFailed' = dFailed
    BY <1>1 DEF DataDequeue
  <2>2. ~DataRetryReadOnly
    BY <1>1 DEF DataRetryReadOnly
  <2>3. ASSUME NEW ok \in BOOLEAN, DataFlushed(ok) PROVE dFailed' = dFailed
    BY <1>7, <2>3 DEF DataFlushed, DataSubmit
  <2> QED
    BY <1>1, <1>3, <2>1, <2>2, <2>3, Writers
<1>10. ~wFailed'
  BY <1>1, <1>5, Writers DEF WaitStart, WaitHeader, WaitPackEnd
<1> QED
  BY <1>7, <1>8, <1>9, <1>10

\* More writes of the data device.
LEMMA CoverWeakens ==
  ASSUME NEW l, NEW s, NEW t, CoverBelow(l, s), s \subseteq t
  PROVE  CoverBelow(l, t)
BY DEF CoverBelow, CoverIn

\* A pack with data that ends before pack number b does is not behind it.
LEMMA PackNotAfter ==
  ASSUME LogInv, NEW k \in DOMAIN packs, NEW b \in DOMAIN packs, packs[k].nRec > 0,
         NextLsid(packs[k]) <= NextLsid(packs[b])
  PROVE  k <= b
<1>1. /\ packs[k].lsid \in Nat /\ NextLsid(packs[k]) \in Nat /\ NextLsid(packs[b]) \in Nat
      /\ packs[k].lsid < NextLsid(packs[k]) /\ k \in Nat /\ b \in Nat
  BY SeqTypes, PackTypes, PackEnds DEF LogInv
<1>2. b < k => NextLsid(packs[b]) <= packs[k].lsid
  BY DEF LogInv, Layout, Precedes
<1> QED
  BY <1>1, <1>2

\* A pack with data before written has been collected.
LEMMA PackCollected ==
  ASSUME LogInv, NEW k \in DOMAIN packs, packs[k].nRec > 0, NextLsid(packs[k]) <= written
  PROVE  k <= gcDone /\ (wPc # "idle" => k < wPack) /\ gcDone \in DOMAIN packs
<1>1. /\ gcDone \in Nat /\ gcBatch \in Nat /\ gcTo \in Nat /\ wPack \in Nat /\ wTo \in Nat
      /\ Len(packs) \in Nat /\ DOMAIN packs = 1..Len(packs) /\ k \in Nat
  BY SeqTypes DEF LogInv, TypeOK, WaitTypes
<1>2. packs[k].lsid \in Nat /\ NextLsid(packs[k]) \in Nat /\ packs[k].lsid < NextLsid(packs[k])
  BY SeqTypes, PackTypes, PackEnds DEF LogInv
<1>3. written = IF gcDone = 0 THEN 0 ELSE NextLsid(packs[gcDone])
  BY DEF LogInv, Following
<1>4. gcDone # 0
  BY <1>2, <1>3
<1>5. gcDone \in DOMAIN packs /\ gcDone <= gcTo /\ (wPc # "idle" => gcTo < wPack)
  BY <1>1, <1>4 DEF LogInv, Ranges
<1>6. k <= gcDone
  BY <1>3, <1>4, <1>5, PackNotAfter
<1> QED
  BY <1>1, <1>5, <1>6

\* The bios of the packs before written have been answered for good, and the packs that a
\* step submits have no answers yet.
LEMMA CoverStays ==
  ASSUME LogInv, FailureSeen, Answered, [Next]_vars, NEW l \in Nat, l <= written, NEW s,
         CoverBelow(l, s)
  PROVE  CoverIn(packs', kind', answer', l, s)
<1> SUFFICES ASSUME NEW k \in DOMAIN packs', NextLsid(packs'[k]) <= l,
                    NEW i \in packs'[k].first..packs'[k].last, HasData(kind'[i]), answer'[i] = "ok"
             PROVE  i \in s
  BY DEF CoverIn
<1>1. CASE k \in DOMAIN packs
  <2>1. packs'[k] = packs[k] /\ i \in Bios /\ kind'[i] = kind[i]
    BY <1>1, PacksGrow, PacksStay
  <2>2. i \in Bios'
    BY <2>1, BiosKept DEF Bios
  <2>3. packs[k].nRec > 0
    BY <1>1, <2>1, BioInPack
  <2>4. NextLsid(packs[k]) \in Nat /\ written \in Nat
    BY <1>1, SeqTypes, PackTypes DEF LogInv, TypeOK, LsidTypes
  <2>5. k <= gcDone /\ (wPc # "idle" => k < wPack)
    BY <1>1, <2>1, <2>3, <2>4, PackCollected
  <2>6. ~(Acks /\ i = wBio)
    <3>1. Acks => wPc # "idle" /\ wBio \in Nat
      BY AcksDoes DEF LogInv, TypeOK, WaitTypes
    <3>2. k < wPack => packs[k].last < wBio
      BY <1>1 DEF LogInv, Waiting
    <3>3. packs[k].last \in Nat /\ packs[k].first \in Nat
      BY <1>1, SeqTypes, PackTypes DEF LogInv
    <3> QED
      BY <2>1, <2>5, <3>1, <3>2, <3>3
  <2>7. answer[i] = "ok"
    BY <2>2, <2>6, AnswerMoves
  <2> QED
    BY <1>1, <2>1, <2>7 DEF CoverBelow, CoverIn
<1>2. CASE k \notin DOMAIN packs
  <2>1. SubmitLogpacks /\ packs'[k] \in Packs /\ PackOK(packs[k])' /\ wBio <= packs'[k].first
    BY <1>2, NewPacks
  <2>2. packs'[k].first \in Nat /\ packs'[k].last \in Nat /\ 1 <= packs'[k].first
        /\ packs'[k].last <= Len(kind') /\ Len(kind') \in Nat
    BY <2>1, PackTypes, BiosKept DEF PackOK, PackIn
  <2>3. i \in Bios'
    BY <2>2 DEF Bios
  <2>4. i < wBio'
    BY <2>3, AnsweredKept DEF Answered
  <2>5. wBio' = wBio /\ wBio \in Nat
    BY <2>1 DEF SubmitLogpacks, waitVars, LogInv, TypeOK, WaitTypes
  <2> QED
    BY <2>1, <2>2, <2>4, <2>5
<1> QED
  BY <1>1, <1>2

\* written passes packs whose data is done, if nothing has failed.
LEMMA DataBelowWrittenKept ==
  ASSUME LogInv, FailureSeen, Answered, NoFailure, DataBelowWritten, [Next]_vars
  PROVE  DataBelowWritten'
<1> SUFFICES ASSUME NothingFailed' PROVE CoverIn(packs', kind', answer', written', dDone')
  BY DEF DataBelowWritten, CoverBelow
<1>1. NothingFailed /\ dFailed = {} /\ CoverBelow(written, dDone)
  BY FailuresStay DEF NoFailure, DataBelowWritten
<1>2. written \in Nat /\ written <= written
  BY DEF LogInv, TypeOK, LsidTypes
<1>3. ASSUME GcLogpacks PROVE CoverIn(packs', kind', answer', written', dDone')
  <2>1. /\ gcDone < gcBatch /\ GcBios \subseteq dDone \cup dFailed
        /\ written' = NextLsid(packs[gcBatch]) /\ UNCHANGED <<packs, kind, answer, dDone>>
    BY <1>3 DEF GcLogpacks, DataOver, clientVars, logVars, dataVars
  <2>2. gcDone \in Nat /\ gcBatch \in DOMAIN packs /\ gcBatch \in Nat
    BY <2>1, SeqTypes DEF LogInv, Ranges, TypeOK, WaitTypes
  <2> SUFFICES ASSUME NEW k \in DOMAIN packs, NextLsid(packs[k]) <= NextLsid(packs[gcBatch]),
                      NEW i \in packs[k].first..packs[k].last, HasData(kind[i]), answer[i] = "ok"
               PROVE  i \in dDone
    BY <2>1 DEF CoverIn
  <2>3. packs[k].nRec > 0 /\ k \in Nat
    BY BioInPack, SeqTypes DEF LogInv
  <2>4. k <= gcBatch
    BY <2>2, <2>3, PackNotAfter
  <2>5. CASE k <= gcDone
    <3>1. gcDone \in DOMAIN packs /\ gcDone # 0 /\ written = NextLsid(packs[gcDone])
      BY <2>1, <2>2, <2>3, <2>5, SeqTypes DEF LogInv, Following
    <3>2. k = gcDone \/ NextLsid(packs[k]) <= packs[gcDone].lsid
      BY <2>2, <2>3, <2>5, <3>1 DEF LogInv, Layout, Precedes
    <3>3. /\ NextLsid(packs[k]) \in Nat /\ NextLsid(packs[gcDone]) \in Nat
          /\ packs[gcDone].lsid \in Nat /\ packs[gcDone].lsid <= NextLsid(packs[gcDone])
      BY <3>1, SeqTypes, PackTypes, PackEnds DEF LogInv
    <3>4. NextLsid(packs[k]) <= written
      BY <3>1, <3>2, <3>3
    <3> QED
      BY <1>1, <3>4 DEF CoverBelow, CoverIn
  <2>6. CASE k \in gcDone + 1 .. gcBatch
    <3>1. i \in DataBiosOf(packs[k])
      BY DEF DataBiosOf
    <3>2. i \in GcBios
      BY <2>6, <3>1 DEF GcBios
    <3> QED
      BY <1>1, <2>1, <3>2
  <2> QED
    BY <2>2, <2>3, <2>4, <2>5, <2>6
<1>4. ASSUME UNCHANGED written PROVE CoverIn(packs', kind', answer', written', dDone')
  <2>1. dDone \subseteq dDone'
    BY Writers DEF DataIoDone
  <2>2. CoverBelow(written, dDone')
    BY <1>1, <2>1, CoverWeakens
  <2> QED
    BY <1>2, <1>4, <2>2, CoverStays
<1> QED
  BY <1>3, <1>4, Writers

\* A sync that is about to write has loaded written and flushes what was done then.
LEMMA SyncLoads ==
  ASSUME LogInv, [Next]_vars, NEW c \in Callers, sync'[c].pc = "write"
  PROVE  \/ sync'[c] = sync[c] /\ sync[c].pc = "write"
         \/ sync'[c].written = written /\ sync'[c].ios = dDone
<1>0. sync \in [Callers -> [pc : {"idle", "store", "test", "load", "write", "update"},
                           written : Nat, oldest : Nat, ios : SUBSET Nat]]
  BY DEF LogInv, TypeOK, SyncTypes
<1>1. ASSUME NEW d \in Callers, NEW r, sync' = [sync EXCEPT ![d] = r], r.pc # "write"
      PROVE  sync'[c] = sync[c]
  BY <1>0, <1>1
<1>2. ASSUME NEW d \in Callers, NEW ok, NEW prev, SyncReturn(d, ok, prev)
      PROVE  sync'[c] = sync[c]
  BY <1>1, <1>2 DEF SyncReturn, NoSync
<1>3. ASSUME NEW d \in Callers, SyncLoad(d)
      PROVE  sync'[c] = sync[c] \/ (sync'[c].written = written /\ sync'[c].ios = dDone)
  BY <1>0, <1>3 DEF SyncLoad
<1>4. ASSUME NEW d \in Callers, SyncWrite(d) \/ SyncTest(d) PROVE sync'[c] = sync[c]
  BY <1>0, <1>4 DEF SyncWrite, SyncTest
<1>5. ASSUME \/ SetOldestStore \/ RingTakeCheckpoint \/ CheckpointTask
             \/ \E lsid \in 1..MaxOldest : SetOldest(lsid)
      PROVE  sync'[c] = sync[c]
  BY <1>0, <1>5 DEF SetOldestStore, RingTakeCheckpoint, CheckpointTask, SetOldest, Callers
<1> QED
  BY <1>2, <1>3, <1>4, <1>5, Writers DEF SyncSuperBlock, SyncRefused, SyncDone, SyncFail

\* A sync writes a written_lsid below which its flush of the data device covers all.
LEMMA DataBelowSyncKept ==
  ASSUME LogInv, FailureSeen, Answered, DataBelowWritten, DataBelowSync, [Next]_vars
  PROVE  DataBelowSync'
<1> SUFFICES ASSUME NothingFailed', NEW c \in Callers, sync'[c].pc = "write"
             PROVE  CoverIn(packs', kind', answer', sync'[c].written, sync'[c].ios)
  BY DEF DataBelowSync, CoverBelow
<1>1. NothingFailed /\ written \in Nat /\ written <= written
  BY FailuresStay DEF LogInv, TypeOK, LsidTypes
<1>2. CASE sync'[c] = sync[c] /\ sync[c].pc = "write"
  <2>1. CoverBelow(sync[c].written, sync[c].ios)
    BY <1>1, <1>2 DEF DataBelowSync
  <2>2. sync[c].written \in Nat /\ sync[c].written <= written
    BY DEF LogInv, TypeOK, SyncTypes, Following
  <2> QED
    BY <1>2, <2>1, <2>2, CoverStays
<1>3. CASE sync'[c].written = written /\ sync'[c].ios = dDone
  <2>1. CoverBelow(written, dDone)
    BY <1>1 DEF DataBelowWritten
  <2> QED
    BY <1>1, <1>3, <2>1, CoverStays
<1> QED
  BY <1>2, <1>3, SyncLoads

\* So does the super block that it leaves on disk.
LEMMA DataBelowSuperKept ==
  ASSUME LogInv, FailureSeen, Answered, DataBelowSync, DataBelowSuper, [Next]_vars
  PROVE  DataBelowSuper'
<1> SUFFICES ASSUME NothingFailed' PROVE CoverIn(packs', kind', answer', super'.written, dStable')
  BY DEF DataBelowSuper, CoverBelow
<1>1. NothingFailed /\ super.written \in Nat /\ super.written <= written
  BY FailuresStay DEF LogInv, TypeOK, SyncTypes, Following
<1>2. CASE UNCHANGED <<super, dStable>>
  <2>1. CoverBelow(super.written, dStable)
    BY <1>1 DEF DataBelowSuper
  <2> QED
    BY <1>1, <1>2, <2>1, CoverStays
<1>3. ASSUME NEW c \in Callers, SyncWrite(c)
      PROVE  CoverIn(packs', kind', answer', super'.written, dStable')
  <2>1. /\ sync[c].pc = "write" /\ super'.written = sync[c].written
        /\ sync[c].ios \subseteq dStable'
    BY <1>3 DEF SyncWrite
  <2>2. sync[c].written \in Nat /\ sync[c].written <= written
    BY DEF LogInv, TypeOK, SyncTypes, Following
  <2>3. CoverBelow(sync[c].written, sync[c].ios)
    BY <1>1, <2>1 DEF DataBelowSync
  <2>4. CoverBelow(sync[c].written, dStable')
    BY <2>1, <2>3, CoverWeakens
  <2> QED
    BY <2>1, <2>2, <2>4, CoverStays
<1> QED
  BY <1>2, <1>3, Writers

SuperInv == NoFailure /\ DataBelowWritten /\ DataBelowSync /\ DataBelowSuper

\* SuperInv holds when the device starts.
LEMMA InitSuper == Init => SuperInv
<1> SUFFICES ASSUME Init PROVE SuperInv
  OBVIOUS
<1>1. \A l, s : CoverBelow(l, s)
  BY DEF Init, CoverBelow, CoverIn
<1>2. NoFailure
  BY DEF Init, NoFailure
<1> QED
  BY <1>1, <1>2 DEF SuperInv, DataBelowWritten, DataBelowSync, DataBelowSuper

\* SuperInv is kept by every step.
LEMMA NextSuper == LogInv /\ DurableInv /\ SuperInv /\ [Next]_vars => SuperInv'
BY NoFailureKept, DataBelowWrittenKept, DataBelowSyncKept, DataBelowSuperKept
   DEF SuperInv, DurableInv

\* Until an IO fails, the data of all logpacks before the written_lsid of the super block is
\* on the data device for good, so redo may start after them.
THEOREM SuperBlockCoversThm == Spec => [](NothingFailed => SuperBlockCovers)
<1>1. SuperInv => (NothingFailed => SuperBlockCovers)
  BY DEF SuperInv, DataBelowSuper, CoverBelow, CoverIn, SuperBlockCovers, DataBiosOf
<1> QED
  BY <1>1, LogInvariant, DurableInvariant, InitSuper, NextSuper, PTL DEF Spec

-----------------------------------------------------------------------------
(* Flushes without REQ_FUA bios *)

\* No bio, and so no pack, has REQ_FUA: pack_header_should_flush then depends on the header
\* alone.
NoFua ==
  /\ \A i \in Bios : ~IsFua(kind[i])
  /\ \A k \in DOMAIN wpacks : wpacks[k].fua = FALSE
  /\ \A k \in DOMAIN packs : packs[k].fua = FALSE

\* What a bio waits for was answered before it.
AckedOk == \A i \in Bios : \A j \in ackedBefore[i] : j \in Bios /\ answer[j] = "ok"

\* A list of packs with a flush has it in the header of its first pack.
FlushFirst ==
  /\ \A k \in DOMAIN wpacks : \A i \in wpacks[k].first..wpacks[k].last : HasFlush(kind[i]) => isFlush
  /\ sPc \in RingLoop /\ isFlush => wpacks[1].flushHeader = TRUE

\* The flush of pack number m covers all that redo reads to reach bio j.
Reaches(m, j) ==
  \A n \in DOMAIN packs : packs[n].first <= j =>
    \A io \in IosOf(packs[n]) : io <= j => io \in packs[m].flushes

\* Up to the pack of a bio with a flush there is a header that flushes what was answered
\* before the bio was sent.
FlushBefore ==
  \A k \in DOMAIN packs : \A i \in packs[k].first..packs[k].last : HasFlush(kind[i]) =>
    \E m \in 1..k : HeaderShouldFlush(packs[m]) /\ \A j \in ackedBefore[i] : Reaches(m, j)

\* Without REQ_FUA requests no pack has the flag and no task flushes for one.
LEMMA NoFuaKept ==
  ASSUME \A k \in Kinds : ~IsFua(k), LogInv, NoFua, [Next]_vars
  PROVE  NoFua'
<1>1. \A i \in Bios' : ~IsFua(kind'[i])
  <2>1. CASE UNCHANGED kind
    BY <2>1 DEF NoFua, Bios
  <2>2. ASSUME NEW k \in Kinds, MakeRequest(k) PROVE \A i \in Bios' : ~IsFua(kind'[i])
    <3>1. kind' = Append(kind, k) /\ kind \in Seq(AllKinds) /\ k \in AllKinds
      BY <2>2, LogAssumption DEF MakeRequest, LogInv, TypeOK, ClientTypes
    <3>2. /\ Len(kind') = Len(kind) + 1 /\ kind'[Len(kind) + 1] = k /\ Len(kind) \in Nat
          /\ \A i \in 1..Len(kind) : kind'[i] = kind[i]
      BY <3>1, AppendProperties
    <3>3. \A i \in Bios' : i \in 1..Len(kind) \/ i = Len(kind) + 1
      BY <3>2 DEF Bios
    <3> QED
      BY <3>2, <3>3 DEF NoFua, Bios
  <2> QED
    BY <2>1, <2>2, Writers
<1>2. \A k \in DOMAIN wpacks' : wpacks'[k].fua = FALSE
  <2>1. ASSUME AddBioWrapper, NEW k \in DOMAIN wpacks' PROVE wpacks'[k].fua = FALSE
    <3>1. wpacks \in Seq(Packs) /\ Len(wpacks) \in Nat /\ DOMAIN wpacks = 1..Len(wpacks)
      BY SeqTypes DEF LogInv, TypeOK, SubmitTypes
    <3>2. sNext \in Bios /\ ~IsFua(kind[sNext])
      BY <2>1, AddBioWrapperDoes DEF NoFua
    <3>3. PICK p, x : /\ Places(p, x)
                      /\ \/ Starts(p)
                         \/ /\ Len(wpacks) \in DOMAIN wpacks
                            /\ Extends(p, wpacks[Len(wpacks)])
      BY <2>1, AddBioWrapperDoes
    <3>4. p \in Packs
      BY <3>3 DEF Places
    <3>5. CASE Starts(p)
      <4>1. wpacks' = Append(wpacks, p) /\ p.fua = IsFua(kind[sNext])
        BY <3>5 DEF Starts
      <4>2. p.fua = FALSE
        BY <3>2, <4>1
      <4>3. /\ Len(wpacks') = Len(wpacks) + 1 /\ wpacks'[Len(wpacks) + 1] = p
            /\ \A i \in 1..Len(wpacks) : wpacks'[i] = wpacks[i]
            /\ wpacks' \in Seq(Packs)
        BY <3>1, <3>4, <4>1, AppendProperties
      <4>4. k \in DOMAIN wpacks \/ k = Len(wpacks) + 1
        BY <3>1, <4>3
      <4> QED
        BY <3>1, <4>2, <4>3, <4>4 DEF NoFua
    <3>6. CASE Len(wpacks) \in DOMAIN wpacks /\ Extends(p, wpacks[Len(wpacks)])
      <4>1. /\ wpacks' = [wpacks EXCEPT ![Len(wpacks)] = p]
            /\ p.fua = (wpacks[Len(wpacks)].fua \/ IsFua(kind[sNext]))
        BY <3>6 DEF Extends
      <4>2. p.fua = FALSE
        <5>1. wpacks[Len(wpacks)].fua = FALSE
          BY <3>6 DEF NoFua
        <5> QED
          BY <3>2, <4>1, <5>1
      <4>3. k \in DOMAIN wpacks /\ wpacks'[k] = IF k = Len(wpacks) THEN p ELSE wpacks[k]
        BY <3>1, <4>1
      <4> QED
        BY <4>2, <4>3 DEF NoFua
    <3> QED
      BY <3>3, <3>5, <3>6
  <2>2. ASSUME ~AddBioWrapper, NEW k \in DOMAIN wpacks' PROVE wpacks'[k].fua = FALSE
    <3>1. k \in DOMAIN wpacks /\ (wpacks'[k] = wpacks[k] \/ SamePack(wpacks'[k], wpacks[k]))
      BY <2>2, WpacksMove
    <3>2. wpacks'[k].fua = wpacks[k].fua
      BY <3>1 DEF SamePack
    <3> QED
      BY <3>1, <3>2 DEF NoFua
  <2> QED
    BY <2>1, <2>2
<1>3. ASSUME NEW k \in DOMAIN packs' PROVE packs'[k].fua = FALSE
  <2>1. CASE k \in DOMAIN packs
    BY <2>1, PacksGrow DEF NoFua
  <2>2. CASE k \notin DOMAIN packs
    <3>1. k - Len(packs) \in DOMAIN wpacks /\ packs'[k].fua = wpacks[k - Len(packs)].fua
      BY <2>2, PacksGrow DEF SamePack
    <3> QED
      BY <3>1 DEF NoFua
  <2> QED
    BY <2>1, <2>2
<1> QED
  BY <1>1, <1>2, <1>3 DEF NoFua

\* The list of answers that a bio saw never changes.
LEMMA AckedStays ==
  ASSUME LogInv, [Next]_vars
  PROVE  /\ \A i \in Bios : ackedBefore'[i] = ackedBefore[i]
         /\ \A i \in Bios' : i \notin Bios => ackedBefore'[i] = {b \in Bios : answer[b] = "ok"}
<1>1. /\ ackedBefore \in Seq(SUBSET Nat) /\ Len(ackedBefore) = Len(kind) /\ Len(kind) \in Nat
      /\ Bios = 1..Len(kind) /\ \A b \in Bios : b \in Nat
  BY BiosKept DEF LogInv, TypeOK, ClientTypes, Bios
<1>2. CASE UNCHANGED <<kind, ackedBefore>>
  BY <1>2 DEF Bios
<1>3. ASSUME NEW k \in Kinds, MakeRequest(k)
      PROVE  /\ \A i \in Bios : ackedBefore'[i] = ackedBefore[i]
             /\ \A i \in Bios' : i \notin Bios => ackedBefore'[i] = {b \in Bios : answer[b] = "ok"}
  <2> DEFINE a == {b \in Bios : answer[b] = "ok"}
  <2>1. ackedBefore' = Append(ackedBefore, a) /\ kind' = Append(kind, k) /\ a \in SUBSET Nat
    BY <1>1, <1>3 DEF MakeRequest
  <2>2. kind \in Seq(AllKinds) /\ k \in AllKinds
    BY LogAssumption DEF LogInv, TypeOK, ClientTypes
  <2> HIDE DEF a
  <2>3. /\ ackedBefore'[Len(kind) + 1] = a
        /\ \A i \in 1..Len(kind) : ackedBefore'[i] = ackedBefore[i]
    BY <1>1, <2>1, AppendProperties
  <2>4. Len(kind') = Len(kind) + 1
    BY <2>1, <2>2, AppendProperties
  <2>5. \A i \in Bios' : i \in Bios \/ i = Len(kind) + 1
    BY <1>1, <2>4 DEF Bios
  <2> QED
    BY <1>1, <2>3, <2>5 DEF a
<1> QED
  BY <1>2, <1>3, Writers

\* What a bio waits for stays answered.
LEMMA AckedOkKept ==
  ASSUME LogInv, Answered, AckedOk, [Next]_vars
  PROVE  AckedOk'
<1> SUFFICES ASSUME NEW i \in Bios', NEW j \in ackedBefore'[i]
             PROVE  j \in Bios' /\ answer'[j] = "ok"
  BY DEF AckedOk
<1>1. j \in Bios /\ answer[j] = "ok"
  BY AckedStays DEF AckedOk
<1> QED
  BY <1>1, OkStays

\* The submit task enters the ring buffer loop only by storing the lsids.
LEMMA RingLoopFrom ==
  ASSUME LogInv, [Next]_vars, sPc' \in RingLoop
  PROVE  \/ \E e \in BOOLEAN : StoreLsids(e)
         \/ sPc \in RingLoop /\ UNCHANGED <<wpacks, isFlush>>
<1>1. ASSUME GivesUp PROVE FALSE
  BY <1>1 DEF GivesUp, RingLoop
<1>2. ~RefuseOverflow /\ ~RingReadOnly
      /\ \A c \in Callers : SyncRefused(c) \/ SyncFail(c) => UNCHANGED <<sPc, wpacks, isFlush>>
  BY <1>1, WhoGivesUp
<1>3. ~SubmitDequeue /\ ~SubmitLogpacks
  BY DEF SubmitDequeue, SubmitLogpacks, SubmitReturn, RingLoop
<1>4. AddBioWrapper => sPc' = "create"
  BY DEF AddBioWrapper
<1>5. ~AddBioWrapper
  BY <1>4 DEF RingLoop
<1>6. UNCHANGED <<wpacks, isFlush>> \/ \E e \in BOOLEAN : StoreLsids(e)
  BY <1>2, <1>3, <1>5, Writers
<1>7. \A c \in Callers : SyncDone(c) => sPc' = sPc \/ sPc = "sync"
  BY DEF SyncDone, SyncReturn, LogInv, Ranges
<1>8. \/ UNCHANGED sPc \/ sPc \in RingLoop
      \/ \E e \in BOOLEAN : StoreLsids(e)
  BY <1>2, <1>3, <1>7, Writers DEF RingLoop, RingForceFlush, RingTakeCheckpoint, RingCheckpoint, RingFlushed
<1> QED
  BY <1>6, <1>8

\* create_logpack_list puts the flush into the first pack of its list.
LEMMA FlushFirstKept ==
  ASSUME LogInv, NoFua, FlushFirst, [Next]_vars
  PROVE  FlushFirst'
<1>1. ASSUME NEW k \in DOMAIN wpacks', NEW i \in wpacks'[k].first..wpacks'[k].last, HasFlush(kind'[i])
      PROVE  isFlush'
  <2>1. ASSUME AddBioWrapper PROVE isFlush'
    <3>1. PICK p, m : Adds(p, m) /\ m \in Nat \ {0}
      BY <2>1, AddsPack
    <3>2. kind' = kind /\ isFlush' = (isFlush \/ (HasFlush(kind[sNext]) /\ ~IsFua(kind[sNext])))
          /\ sNext \in Bios
      BY <2>1, AddsPack DEF AddBioWrapper, clientVars
    <3>3. ~IsFua(kind[sNext])
      BY <3>2 DEF NoFua
    <3>4. i = sNext \/ \E j \in DOMAIN wpacks : i \in wpacks[j].first..wpacks[j].last
      <4>1. DOMAIN wpacks' = 1..m /\ p \in Packs /\ wpacks'[m] = p /\ p.last = sNext
            /\ \A j \in 1..(m - 1) : j \in DOMAIN wpacks /\ wpacks'[j] = wpacks[j]
        BY <2>1, <3>1, AddedPack DEF Adds
      <4>2. CASE k \in 1..(m - 1)
        BY <4>1, <4>2
      <4>3. CASE k = m
        <5>1. p.first \in Nat /\ p.last \in Nat /\ sNext \in Nat
          BY <4>1, PackTypes
        <5>2. CASE p.first = sNext
          BY <4>1, <4>3, <5>1, <5>2
        <5>3. CASE m = Len(wpacks) /\ m # 0 /\ p.first = wpacks[m].first
          <6>1. m \in DOMAIN wpacks /\ wpacks[m].last = sNext - 1
            BY <3>1, <5>3, SeqTypes DEF LogInv, Layout
          <6>2. i = sNext \/ i \in wpacks[m].first..wpacks[m].last
            BY <4>1, <4>3, <5>1, <5>3, <6>1
          <6> QED
            BY <6>1, <6>2
        <5> QED
          BY <3>1, <5>2, <5>3 DEF Adds
      <4> QED
        BY <3>1, <4>1, <4>2, <4>3
    <3> QED
      BY <1>1, <3>2, <3>3, <3>4 DEF FlushFirst
  <2>2. ASSUME ~AddBioWrapper PROVE isFlush'
    <3>1. k \in DOMAIN wpacks /\ (wpacks'[k] = wpacks[k] \/ SamePack(wpacks'[k], wpacks[k]))
      BY <2>2, WpacksMove
    <3>2. i \in wpacks[k].first..wpacks[k].last
      BY <3>1 DEF SamePack
    <3>3. kind'[i] = kind[i]
      <4>1. wpacks[k] \in Packs /\ PackOK(wpacks[k])
        BY <3>1, LastWpack
      <4>2. i \in 1..Len(kind)
        BY <3>2, <4>1, PackTypes, BiosKept DEF PackOK, PackIn
      <4> QED
        BY <4>2, BiosKept
    <3>4. isFlush
      BY <1>1, <3>1, <3>2, <3>3 DEF FlushFirst
    <3>5. isFlush' = isFlush
      <4>1. wpacks' # <<>>
        OBVIOUS
      <4>2. GivesUp \/ SubmitLogpacks => wpacks' = <<>>
        BY DEF GivesUp, SubmitLogpacks, SubmitReturn
      <4>3. \/ UNCHANGED isFlush \/ RefuseOverflow \/ SubmitLogpacks \/ RingReadOnly
            \/ \E c \in Callers : SyncRefused(c) \/ SyncFail(c)
        BY <2>2, Writers
      <4> QED
        BY <4>1, <4>2, <4>3, WhoGivesUp
    <3> QED
      BY <3>4, <3>5
  <2> QED
    BY <2>1, <2>2
<1>2. ASSUME sPc' \in RingLoop, isFlush' PROVE wpacks'[1].flushHeader = TRUE
  <2>1. ASSUME NEW e \in BOOLEAN, StoreLsids(e) PROVE wpacks'[1].flushHeader = TRUE
    <3>1. isFlush' = isFlush
      BY <2>1 DEF StoreLsids
    <3>2. wpacks' = [wpacks EXCEPT ![1] = [@ EXCEPT !.flushHeader = TRUE, !.newPermanent = completed]]
      BY <1>2, <2>1, <3>1 DEF StoreLsids
    <3>3. 1 \in DOMAIN wpacks /\ wpacks[1] \in Packs
      <4>1. wpacks # <<>>
        BY <2>1, StoreLsidsDoes
      <4> QED
        BY <4>1 DEF LogInv, TypeOK, SubmitTypes
    <3>4. wpacks'[1] = [wpacks[1] EXCEPT !.flushHeader = TRUE, !.newPermanent = completed]
      BY <3>2, <3>3
    <3> QED
      BY <3>3, <3>4 DEF Packs
  <2>2. ASSUME sPc \in RingLoop, UNCHANGED <<wpacks, isFlush>> PROVE wpacks'[1].flushHeader = TRUE
    BY <1>2, <2>2 DEF FlushFirst
  <2> QED
    BY <1>2, <2>1, <2>2, RingLoopFrom
<1> QED
  BY <1>1, <1>2 DEF FlushFirst

\* A flush never loses what it reaches: the packs submitted later lie behind bio j.
LEMMA ReachesStays ==
  ASSUME LogInv, Answered, [Next]_vars, NEW m \in DOMAIN packs, NEW j \in Bios, answer[j] = "ok",
         Reaches(m, j)
  PROVE  Reaches(m, j)'
<1> SUFFICES ASSUME NEW n \in DOMAIN packs', packs'[n].first <= j, NEW io \in IosOf(packs[n])',
                    io <= j
             PROVE  io \in packs'[m].flushes
  BY DEF Reaches
<1>1. n \in DOMAIN packs
  <2> SUFFICES ASSUME n \notin DOMAIN packs PROVE FALSE
    OBVIOUS
  <2>1. wBio <= packs'[n].first /\ packs'[n] \in Packs
    BY NewPacks
  <2>2. packs'[n].first \in Nat /\ j < wBio /\ j \in Nat /\ wBio \in Nat
    BY <2>1, PackTypes, BiosKept, WaitBioGrows DEF Answered, Bios
  <2> QED
    BY <2>1, <2>2
<1>2. packs'[n] = packs[n] /\ packs'[m] = packs[m] /\ io \in IosOf(packs[n])
  BY <1>1, PacksGrow, IosStay
<1> QED
  BY <1>1, <1>2 DEF Reaches

\* The flush of a bio comes after everything that was answered before it.
LEMMA FlushBeforeKept ==
  ASSUME LogInv, DurableInv, NoFua, AckedOk, FlushFirst, FlushBefore, [Next]_vars
  PROVE  FlushBefore'
<1> SUFFICES ASSUME NEW k \in DOMAIN packs', NEW i \in packs'[k].first..packs'[k].last,
                    HasFlush(kind'[i])
             PROVE  \E m \in 1..k : HeaderShouldFlush(packs'[m]) /\
                                    \A j \in ackedBefore'[i] : Reaches(m, j)'
  BY DEF FlushBefore, HeaderShouldFlush
<1>0. /\ Len(packs) \in Nat /\ DOMAIN packs = 1..Len(packs) /\ DOMAIN packs' = 1..Len(packs')
      /\ Len(packs') \in Nat /\ Len(packs) <= Len(packs')
  BY PacksGrow
<1>1. CASE k \in DOMAIN packs
  <2>1. packs'[k] = packs[k] /\ i \in Bios /\ kind'[i] = kind[i]
    BY <1>1, PacksGrow, PacksStay
  <2>2. ackedBefore'[i] = ackedBefore[i]
    BY <2>1, AckedStays
  <2>3. PICK m \in 1..k : HeaderShouldFlush(packs[m]) /\ \A j \in ackedBefore[i] : Reaches(m, j)
    BY <1>1, <2>1 DEF FlushBefore
  <2>4. m \in DOMAIN packs /\ packs'[m] = packs[m]
    BY <1>0, <1>1, <2>3, PacksGrow
  <2>5. ASSUME NEW j \in ackedBefore[i] PROVE Reaches(m, j)'
    <3>1. j \in Bios /\ answer[j] = "ok" /\ Answered
      BY <2>1 DEF AckedOk, DurableInv
    <3> QED
      BY <2>3, <2>4, <3>1, ReachesStays
  <2> QED
    BY <2>2, <2>3, <2>4, <2>5
<1>2. CASE k \notin DOMAIN packs
  <2>1. SubmitLogpacks /\ k - Len(packs) \in DOMAIN wpacks /\ SamePack(packs'[k], wpacks[k - Len(packs)])
    BY <1>2, PacksGrow
  <2>2. /\ UNCHANGED <<kind, ackedBefore, answer, wBio, logDone>> /\ sPc = "ring"
    BY <2>1 DEF SubmitLogpacks, clientVars, waitVars
  <2>3. i \in wpacks[k - Len(packs)].first..wpacks[k - Len(packs)].last
    BY <2>1 DEF SamePack
  <2>4. isFlush /\ wpacks[1].flushHeader = TRUE
    BY <2>1, <2>2, <2>3 DEF FlushFirst, RingLoop
  <2>5. PICK m \in 1..k : m \in DOMAIN packs' /\ m \notin DOMAIN packs /\ m - Len(packs) = 1
                          /\ 1 \in DOMAIN wpacks
    <3>1. /\ Len(packs) + 1 \in 1..k /\ Len(packs) + 1 \in DOMAIN packs'
          /\ Len(packs) + 1 \notin DOMAIN packs /\ (Len(packs) + 1) - Len(packs) = 1
          /\ 1 \in DOMAIN wpacks
      BY <1>0, <1>2, <2>1, SeqTypes DEF LogInv
    <3> QED
      BY <3>1
  <2>6. /\ SamePack(packs'[m], wpacks[1]) /\ packs'[m].flushHeader = wpacks[1].flushHeader
        /\ HeaderShouldFlush(packs'[m]) => packs'[m].flushes = logDone
    BY <2>1, <2>5, SubmittedPack
  <2>7. packs'[m].fua = FALSE /\ packs'[m].flushHeader = TRUE
    <3>1. packs'[m].fua = wpacks[1].fua
      BY <2>6 DEF SamePack
    <3>2. wpacks[1].fua = FALSE
      BY <2>5 DEF NoFua
    <3> QED
      BY <2>4, <2>6, <3>1, <3>2
  <2>8. HeaderShouldFlush(packs'[m])
    BY <2>7 DEF HeaderShouldFlush
  <2>9. packs'[m].flushes = logDone
    BY <2>6, <2>8
  <2>10. i \in Bios
    <3>1. wpacks[k - Len(packs)] \in Packs /\ PackOK(wpacks[k - Len(packs)])
      BY <2>1, LastWpack
    <3> QED
      BY <2>3, <3>1, PackTypes, BiosKept DEF PackOK, PackIn, Bios
  <2>11. ASSUME NEW j \in ackedBefore[i] PROVE Reaches(m, j)'
    <3>1. j \in Bios /\ answer[j] = "ok"
      BY <2>10 DEF AckedOk
    <3>2. j \in Bios' /\ answer'[j] = "ok"
      BY <2>2, <3>1 DEF Bios
    <3>3. AnsweredPrefix'
      BY NextDurable DEF DurableInv
    <3>4. \A n \in DOMAIN packs' : packs'[n].first <= j =>
            \A io \in IosOf(packs[n])' : io <= j => io \in logDone'
      BY <3>2, <3>3 DEF AnsweredPrefix
    <3>5. logDone' = packs'[m].flushes
      BY <2>2, <2>9
    <3> QED
      BY <3>4, <3>5 DEF Reaches
  <2> QED
    BY <2>2, <2>5, <2>8, <2>11
<1> QED
  BY <1>1, <1>2

FlushInv == NoFua /\ AckedOk /\ FlushFirst /\ FlushBefore

\* FlushInv holds when the device starts.
LEMMA InitFlush == Init => FlushInv
<1> SUFFICES ASSUME Init PROVE FlushInv
  OBVIOUS
<1>1. DOMAIN packs = {} /\ DOMAIN wpacks = {} /\ Bios = {} /\ sPc = "idle"
  BY DEF Init, Bios
<1> QED
  BY <1>1 DEF FlushInv, NoFua, AckedOk, FlushFirst, FlushBefore, RingLoop

\* FlushInv is kept by every step.
LEMMA NextFlush ==
  ASSUME \A k \in Kinds : ~IsFua(k)
  PROVE  LogInv /\ DurableInv /\ FlushInv /\ [Next]_vars => FlushInv'
BY NoFuaKept, AckedOkKept, FlushFirstKept, FlushBeforeKept DEF FlushInv, DurableInv

\* Whatever fails, while clients send no REQ_FUA bio, a bio with a flush is answered only
\* after every write answered before it was sent is durable.
THEOREM FlushDurableThm ==
  ASSUME \A k \in Kinds : ~IsFua(k)
  PROVE  Spec => []FlushDurable
<1>1. LogInv /\ DurableInv /\ FlushInv => FlushDurable
  <2> SUFFICES ASSUME LogInv, DurableInv, FlushInv, NEW i \in Bios, HasFlush(kind[i]),
                      answer[i] = "ok", NEW j \in ackedBefore[i]
               PROVE  Durable(j)
    BY DEF FlushDurable
  <2>1. PICK k \in DOMAIN packs : i \in packs[k].first..packs[k].last
    BY DEF DurableInv, Answered, Placed
  <2>2. PICK m \in 1..k : HeaderShouldFlush(packs[m]) /\ Reaches(m, j)
    BY <2>1 DEF FlushInv, FlushBefore
  <2>3. m \in DOMAIN packs /\ m \in Nat /\ k \in Nat /\ packs[m] \in Packs /\ PackOK(packs[m])
        /\ packs[k] \in Packs
    BY <2>1, <2>2, SeqTypes, SMTT(40) DEF LogInv, Layout
  <2>4. /\ packs[m].first \in Nat /\ packs[m].last \in Nat /\ packs[k].first \in Nat
        /\ packs[k].last \in Nat /\ 1 <= packs[m].first /\ packs[m].first <= packs[m].last
    BY <2>3, PackTypes DEF PackOK, PackIn
  <2>5. m = k \/ packs[m].last < packs[k].first
    BY <2>1, <2>2, <2>3 DEF LogInv, Layout, Precedes
  <2>6. packs[m].first <= i /\ HeaderIo(packs[m]) <= i
    BY <2>1, <2>4, <2>5 DEF HeaderIo
  <2>7. HeaderIo(packs[m]) \in IosOf(packs[m])
    BY <2>2 DEF IosOf, HasHeaderIo
  <2>8. HeaderIo(packs[m]) \in logDone
    BY <2>3, <2>6, <2>7 DEF DurableInv, AnsweredPrefix
  <2>9. packs[m].flushes \subseteq logStable
    BY <2>3, <2>8 DEF DurableInv, CoveredByHeader
  <2>10. j \in Nat
    BY SeqTypes DEF FlushInv, AckedOk, LogInv
  <2> SUFFICES ASSUME NEW n \in DOMAIN packs, packs[n].first <= j
               PROVE  /\ packs[n].nRec > 0 => HeaderIo(packs[n]) \in logStable
                      /\ \A x \in packs[n].first..MinOf(j, packs[n].last) :
                           LogPb(kind[x]) > 0 => x \in logStable
    BY DEF Durable, RedoPacks
  <2>11. packs[n].first \in Nat /\ packs[n].last \in Nat
    BY SeqTypes, PackTypes DEF LogInv
  <2>12. \A io \in IosOf(packs[n]) : io <= j => io \in logStable
    BY <2>2, <2>9 DEF Reaches
  <2>13. packs[n].nRec > 0 => HeaderIo(packs[n]) \in IosOf(packs[n])
    BY DEF IosOf, HasHeaderIo
  <2>14. HeaderIo(packs[n]) <= j
    BY <2>10, <2>11 DEF HeaderIo
  <2>15. ASSUME NEW x \in packs[n].first..MinOf(j, packs[n].last), LogPb(kind[x]) > 0
         PROVE  x \in logStable
    <3>1. x \in packs[n].first..packs[n].last /\ x <= j
      BY <2>10, <2>11 DEF MinOf
    <3>2. x \in IosOf(packs[n])
      BY <2>15, <3>1 DEF IosOf
    <3> QED
      BY <2>12, <3>1, <3>2
  <2> QED
    BY <2>12, <2>13, <2>14, <2>15
<1> QED
  BY <1>1, LogInvariant, DurableInvariant, InitFlush, NextFlush, PTL DEF Spec


(***************************************************************************)
(* Super block syncs.  Unless set_oldest_lsid syncs too (MaxOldest = 0),   *)
(* at most one sync is under way: the submit task stops the checkpoint     *)
(* task before it syncs itself.                                            *)
(***************************************************************************)
OneSync ==
  /\ oldest = 0 /\ sync["ioctl"].pc = "idle"
  /\ sync["submit"].pc # "idle" => sPc = "sync"
  /\ sPc = "sync" => ~ckptOn /\ sync["task"].pc = "idle"

\* The super block on disk, and what the tasks remember of it.
SuperFollows ==
  /\ prevWritten <= super.written /\ seen.prevWritten <= prevWritten
  /\ \A c \in Callers : sync[c].pc = "write" => super.written <= sync[c].written
  /\ \A c \in Callers : sync[c].pc = "update" => super.written = sync[c].written

SyncInv == OneSync /\ SuperFollows /\ RingNotOverrun

\* sync has the states of walb_sync_super_block.
LEMMA SyncIs ==
  ASSUME LogInv
  PROVE  /\ sync \in [Callers -> [pc : {"idle", "store", "test", "load", "write", "update"},
                                  written : Nat, oldest : Nat, ios : SUBSET Nat]]
         /\ \A c \in Callers : sync[c].written \in Nat
         /\ prevWritten \in Nat /\ super.written \in Nat /\ written \in Nat
         /\ seen.prevWritten \in Nat
BY DEF LogInv, TypeOK, SyncTypes, LsidTypes, SubmitTypes

\* While nobody sets oldest_lsid only one thread at a time syncs the super block.
LEMMA OneSyncKept ==
  ASSUME LogInv, OneSync, [Next]_vars, MaxOldest = 0
  PROVE  OneSync'
<1>0. sync \in [Callers -> [pc : {"idle", "store", "test", "load", "write", "update"},
                            written : Nat, oldest : Nat, ios : SUBSET Nat]]
  BY SyncIs
<1>1. \A lsid \in 1..MaxOldest : FALSE
  OBVIOUS
<1>2. ~SetOldestStore
  BY DEF OneSync, SetOldestStore
<1>3. oldest' = 0
  BY <1>2, Writers DEF OneSync
<1>4. ASSUME NEW c \in Callers, c # "ioctl", \A d \in Callers : d # c => sync'[d] = sync[d]
      PROVE  sync'["ioctl"].pc = "idle"
  BY <1>4 DEF OneSync, Callers
<1>5. ASSUME RingTakeCheckpoint PROVE OneSync'
  <2>1. /\ sync["task"] = NoSync /\ sync' = [sync EXCEPT !["submit"].pc = "test"]
        /\ ckptOn' = FALSE /\ sPc' = "sync"
    BY <1>5 DEF RingTakeCheckpoint, RingCheckpoint
  <2>2. sync'["task"].pc = "idle" /\ sync'["ioctl"] = sync["ioctl"]
    BY <1>0, <2>1 DEF NoSync, Callers
  <2> QED
    BY <1>3, <2>1, <2>2 DEF OneSync
<1>6. ASSUME CheckpointTask PROVE OneSync'
  <2>1. ckptOn /\ sync' = [sync EXCEPT !["task"].pc = "test"] /\ UNCHANGED <<sPc, ckptOn>>
    BY <1>6 DEF CheckpointTask, submitVars
  <2>2. sync'["submit"] = sync["submit"] /\ sync'["ioctl"] = sync["ioctl"]
    BY <1>0, <2>1 DEF Callers
  <2> QED
    BY <1>3, <2>1, <2>2 DEF OneSync
<1>7. ASSUME NEW c \in Callers, SyncTest(c) \/ SyncLoad(c) \/ SyncWrite(c) PROVE OneSync'
  <2>1. UNCHANGED <<sPc, ckptOn>> /\ sync[c].pc # "idle"
    BY <1>7 DEF SyncTest, SyncLoad, SyncWrite, submitVars
  <2>2. \A d \in Callers : d # c => sync'[d] = sync[d]
    BY <1>0, <1>7 DEF SyncTest, SyncLoad, SyncWrite
  <2>3. c # "ioctl"
    BY <2>1 DEF OneSync
  <2>4. sPc = "sync" => c # "task"
    BY <2>1 DEF OneSync
  <2>5. sync'["submit"].pc # "idle" => sync["submit"].pc # "idle"
    BY <2>1, <2>2 DEF Callers
  <2>6. sPc = "sync" => sync'["task"].pc = "idle"
    BY <2>2, <2>4 DEF OneSync, Callers
  <2> QED
    BY <1>3, <1>4, <2>1, <2>2, <2>3, <2>5, <2>6 DEF OneSync
<1>8. ASSUME NEW c \in Callers, SyncRefused(c) \/ SyncDone(c) \/ SyncFail(c) PROVE OneSync'
  <2>1. sync' = [sync EXCEPT ![c] = NoSync] /\ sync[c].pc # "idle"
    BY <1>8 DEF SyncRefused, SyncDone, SyncFail, SyncReturn
  <2>2. sync'[c].pc = "idle" /\ \A d \in Callers : d # c => sync'[d] = sync[d]
    BY <1>0, <2>1 DEF NoSync
  <2>3. c # "ioctl"
    BY <2>1 DEF OneSync
  <2>4. c = "task" => UNCHANGED sPc
    BY <1>8 DEF SyncRefused, SyncDone, SyncFail, SyncReturn
  <2>5. c = "submit" => sPc' # "sync"
    BY <1>8 DEF SyncRefused, SyncDone, SyncFail, SyncReturn, SubmitError, SubmitReturn
  <2>6. c = "task" => sPc # "sync"
    BY <2>1 DEF OneSync
  <2>7. CASE c = "task"
    BY <1>3, <1>4, <2>2, <2>3, <2>4, <2>6, <2>7 DEF OneSync, Callers
  <2>8. CASE c = "submit"
    BY <1>3, <1>4, <2>2, <2>3, <2>5, <2>8 DEF OneSync, Callers
  <2> QED
    BY <2>3, <2>7, <2>8 DEF Callers
<1>9. ASSUME UNCHANGED sync, sPc # "sync", sPc' # "sync" PROVE OneSync'
  BY <1>3, <1>9 DEF OneSync
<1>10. ASSUME \/ SubmitDequeue \/ RefuseOverflow \/ SubmitLogpacks \/ RingForceFlush
              \/ RingReadOnly \/ RingSkipCheckpoint
              \/ \E e \in BOOLEAN : StoreLsids(e)
              \/ \E ok \in BOOLEAN : RingFlushed(ok)
       PROVE  UNCHANGED sync /\ sPc # "sync" /\ sPc' # "sync"
  BY <1>10 DEF SubmitDequeue, RefuseOverflow, SubmitLogpacks, RingForceFlush, RingReadOnly,
               RingSkipCheckpoint, RingCheckpoint, StoreLsids, Created, RingFlushed, ckptVars,
               SubmitError, SubmitReturn
<1>11. ASSUME UNCHANGED <<sync, sPc, ckptOn>> PROVE OneSync'
  BY <1>3, <1>11 DEF OneSync
<1> QED
  BY <1>1, <1>2, <1>5, <1>6, <1>7, <1>8, <1>9, <1>10, <1>11, Writers DEF SyncSuperBlock

\* The sync that writes the super block is the only one.
LEMMA OthersIdle ==
  ASSUME LogInv, OneSync, NEW c \in Callers, sync[c].pc # "idle", NEW d \in Callers, d # c
  PROVE  sync[d].pc = "idle"
BY DEF OneSync, Callers

\* The written_lsid on disk does not go down, and the tasks remember it.
LEMMA SuperFollowsKept ==
  ASSUME LogInv, OneSync, SuperFollows, [Next]_vars, MaxOldest = 0
  PROVE  /\ SuperFollows'
         /\ super'.written \in Nat /\ super'.written >= super.written
         /\ prevWritten' \in Nat /\ prevWritten' >= prevWritten
<1>0. /\ sync \in [Callers -> [pc : {"idle", "store", "test", "load", "write", "update"},
                            written : Nat, oldest : Nat, ios : SUBSET Nat]]
      /\ \A c \in Callers : sync[c].written \in Nat
      /\ prevWritten \in Nat /\ super.written \in Nat /\ written \in Nat
      /\ seen.prevWritten \in Nat /\ super.written <= written
  BY SyncIs DEF LogInv, Following
<1>a. prevWritten' \in Nat /\ super'.written \in Nat
  BY LsidTypesKept, SyncTypesKept DEF LsidTypes, SyncTypes
<1>1. super'.written >= super.written
  <2>1. ASSUME NEW c \in Callers, SyncWrite(c) PROVE super'.written >= super.written
    BY <1>0, <2>1 DEF SyncWrite, SuperFollows
  <2> QED
    BY <1>0, <2>1, Writers
<1>2. prevWritten' >= prevWritten /\ prevWritten' <= super'.written
  <2>1. ASSUME NEW c \in Callers, SyncDone(c)
        PROVE  prevWritten' >= prevWritten /\ prevWritten' <= super'.written
    BY <1>0, <2>1 DEF SyncDone, SuperFollows
  <2>2. CASE UNCHANGED prevWritten
    BY <1>0, <1>a, <1>1, <2>2 DEF SuperFollows
  <2> QED
    BY <2>1, <2>2, Writers
<1>3. seen'.prevWritten <= prevWritten'
  <2>0. seen \in [completed : Nat, flush : Nat, written : Nat, prevWritten : Nat, oldest : Nat]
    BY DEF LogInv, TypeOK, SubmitTypes
  <2>1. ASSUME SubmitDequeue PROVE seen'.prevWritten = prevWritten
    BY <2>1 DEF SubmitDequeue
  <2>2. ASSUME \/ RefuseOverflow \/ RingReadOnly \/ SubmitLogpacks
               \/ \E c \in Callers : SyncRefused(c) \/ SyncFail(c)
        PROVE  seen' = NoLsids \/ seen' = seen
    BY <2>2, WhoGivesUp DEF GivesUp, SubmitLogpacks, SubmitReturn
  <2>3. ASSUME NEW prev \in Nat, Reload(prev) PROVE seen'.prevWritten = prev
    BY <2>0, <2>3 DEF Reload
  <2>4. ASSUME RingSkipCheckpoint \/ \E ok \in BOOLEAN : RingFlushed(ok)
        PROVE  seen'.prevWritten = prevWritten
    BY <1>0, <2>3, <2>4 DEF RingSkipCheckpoint, RingFlushed
  <2>5. ASSUME NEW c \in Callers, SyncDone(c)
        PROVE  seen' = seen \/ seen'.prevWritten = prevWritten'
    BY <1>0, <2>3, <2>5 DEF SyncDone, SyncReturn
  <2>6. seen.prevWritten <= prevWritten /\ NoLsids.prevWritten = 0
    BY DEF SuperFollows, NoLsids
  <2>7. \/ seen' = NoLsids \/ seen' = seen \/ seen'.prevWritten = prevWritten
        \/ seen'.prevWritten = prevWritten'
    BY <2>1, <2>2, <2>4, <2>5, Writers
  <2> QED
    BY <1>0, <1>a, <1>2, <2>6, <2>7
<1> DEFINE W(c) == /\ sync[c].pc = "write" => super.written <= sync[c].written
                   /\ sync[c].pc = "update" => super.written = sync[c].written
<1>4. ASSUME NEW d \in Callers PROVE W(d)'
  <2>0. W(d)
    BY DEF SuperFollows
  <2>1. ASSUME NEW c \in Callers, SyncWrite(c) PROVE W(d)'
    <3>1. super'.written = sync[c].written
      BY <2>1 DEF SyncWrite
    <3>2. CASE d = c
      <4>1. sync'[d].pc = "update" /\ sync'[d].written = sync[c].written
        BY <1>0, <2>1, <3>2 DEF SyncWrite
      <4> QED
        BY <3>1, <4>1
    <3>3. CASE d # c
      <4>1. sync'[d] = sync[d]
        BY <1>0, <2>1, <3>3 DEF SyncWrite
      <4>2. sync[d].pc = "idle"
        BY <2>1, <3>3, OthersIdle DEF SyncWrite
      <4> QED
        BY <4>1, <4>2
    <3> QED
      BY <3>2, <3>3
  <2>2. ASSUME UNCHANGED super, sync'[d] = sync[d] PROVE W(d)'
    BY <2>0, <2>2
  <2>3. ASSUME NEW c \in Callers, NEW r, sync' = [sync EXCEPT ![c] = r], UNCHANGED super,
               d = c => r.pc \notin {"write", "update"}
        PROVE  W(d)'
    <3>1. CASE d = c
      BY <1>0, <2>3, <3>1
    <3>2. CASE d # c
      BY <1>0, <2>2, <2>3, <3>2
    <3> QED
      BY <3>1, <3>2
  <2>4. ASSUME NEW c \in Callers, SyncRefused(c) \/ SyncDone(c) \/ SyncFail(c) PROVE W(d)'
    <3>1. sync' = [sync EXCEPT ![c] = NoSync] /\ UNCHANGED super
      BY <2>4 DEF SyncRefused, SyncDone, SyncFail, SyncReturn
    <3> QED
      BY <2>3, <3>1 DEF NoSync
  <2>5. ASSUME NEW c \in Callers, NEW pc \in {"test", "load"}, sync' = [sync EXCEPT ![c].pc = pc],
               UNCHANGED super
        PROVE  W(d)'
    <3>1. CASE d = c
      <4>1. sync'[d].pc = pc
        BY <1>0, <2>5, <3>1
      <4> QED
        BY <4>1
    <3>2. CASE d # c
      BY <1>0, <2>2, <2>5, <3>2
    <3> QED
      BY <3>1, <3>2
  <2>6. ASSUME RingTakeCheckpoint \/ CheckpointTask \/ SetOldestStore PROVE W(d)'
    BY <2>5, <2>6 DEF RingTakeCheckpoint, CheckpointTask, SetOldestStore, Callers
  <2>7. ASSUME NEW c \in Callers, SyncTest(c) PROVE W(d)'
    BY <2>5, <2>7 DEF SyncTest
  <2>8. ASSUME NEW c \in Callers, SyncLoad(c) PROVE W(d)'
    <3>1. UNCHANGED super
      BY <2>8 DEF SyncLoad
    <3>2. CASE d = c
      <4>1. sync'[d].pc = "write" /\ sync'[d].written = written
        BY <1>0, <2>8, <3>2 DEF SyncLoad
      <4> QED
        BY <1>0, <3>1, <4>1
    <3>3. CASE d # c
      BY <1>0, <2>2, <2>8, <3>1, <3>3 DEF SyncLoad
    <3> QED
      BY <3>2, <3>3
  <2>9. ASSUME UNCHANGED sync PROVE W(d)'
    <3>1. UNCHANGED super \/ \E c \in Callers : SyncWrite(c)
      BY Writers
    <3> QED
      BY <2>1, <2>2, <2>9, <3>1
  <2>10. \A lsid \in 1..MaxOldest : FALSE
    OBVIOUS
  <2> HIDE DEF W
  <2> QED
    BY <2>1, <2>4, <2>6, <2>7, <2>8, <2>9, <2>10, Writers DEF SyncSuperBlock
<1> QED
  BY <1>a, <1>1, <1>2, <1>3, <1>4 DEF SuperFollows

\* The submit task waits for the super block before it goes around the ring.
LEMMA RingKept ==
  ASSUME LogInv, SuperFollows, RingNotOverrun, [Next]_vars,
         super'.written \in Nat, super'.written >= super.written
  PROVE  RingNotOverrun'
<1>0. /\ prevWritten \in Nat /\ super.written \in Nat /\ seen.prevWritten \in Nat
      /\ latest \in Nat /\ RingSize \in Nat
      /\ seen.prevWritten <= super.written
  BY SyncIs, LogAssumption DEF LogInv, TypeOK, LsidTypes, SuperFollows
<1> SUFFICES ASSUME NEW k \in DOMAIN packs' PROVE NextLsid(packs'[k]) - super'.written <= RingSize
  BY DEF RingNotOverrun
<1>1. CASE k \in DOMAIN packs
  <2>1. packs'[k] = packs[k]
    BY <1>1, PacksGrow
  <2>2. NextLsid(packs[k]) \in Nat /\ NextLsid(packs[k]) - super.written <= RingSize
    BY <1>1, SeqTypes, PackTypes DEF LogInv, RingNotOverrun
  <2> QED
    BY <1>0, <2>1, <2>2
<1>2. CASE k \notin DOMAIN packs
  <2>1. SubmitLogpacks
    BY <1>2, PacksGrow
  <2>2. latest - seen.prevWritten <= RingSize
    BY <2>1 DEF SubmitLogpacks, RingHasRoom
  <2>3. NextLsid(packs'[k]) <= latest' /\ latest' = latest
    BY <2>1, PacksLaidKept DEF PacksLaid, SubmitLogpacks, lsidVars
  <2>4. NextLsid(packs'[k]) \in Nat
    BY <2>1, SubmittedPack, PackTypes
  <2> QED
    BY <1>0, <2>2, <2>3, <2>4
<1> QED
  BY <1>1, <1>2

\* SyncInv holds when the device starts.
LEMMA InitSync == Init => SyncInv
<1> SUFFICES ASSUME Init PROVE SyncInv
  OBVIOUS
<1>1. sync = [c \in Callers |-> NoSync] /\ \A c \in Callers : sync[c].pc = "idle"
  BY DEF Init, NoSync
<1>2. OneSync
  BY <1>1 DEF Init, OneSync, Callers
<1>3. SuperFollows
  BY <1>1 DEF Init, SuperFollows, NoLsids
<1>4. RingNotOverrun
  BY DEF Init, RingNotOverrun
<1> QED
  BY <1>2, <1>3, <1>4 DEF SyncInv

\* SyncInv is kept by every step.
LEMMA NextSync ==
  ASSUME MaxOldest = 0
  PROVE  LogInv /\ SyncInv /\ [Next]_vars => SyncInv'
<1> SUFFICES ASSUME LogInv, SyncInv, [Next]_vars PROVE SyncInv'
  OBVIOUS
<1>1. OneSync'
  BY OneSyncKept DEF SyncInv
<1>2. SuperFollows' /\ super'.written \in Nat /\ super'.written >= super.written
  BY SuperFollowsKept DEF SyncInv
<1>3. RingNotOverrun'
  BY <1>2, RingKept DEF SyncInv
<1> QED
  BY <1>1, <1>2, <1>3 DEF SyncInv

\* Unless set_oldest_lsid syncs the super block beside the checkpoints, what has been
\* submitted to the log device never reaches more than the ring buffer's size past the
\* written_lsid on disk, from which redo would start.
THEOREM RingNotOverrunThm ==
  ASSUME MaxOldest = 0
  PROVE  Spec => []RingNotOverrun
<1>1. SyncInv => RingNotOverrun
  BY DEF SyncInv
<1> QED
  BY <1>1, LogInvariant, InitSync, NextSync, PTL DEF Spec

\* Under the same condition no lsid ever moves back, in memory or in the super block,
\* whatever fails.
THEOREM LsidsMonotoneThm ==
  ASSUME MaxOldest = 0
  PROVE  Spec => LsidsMonotone
<1> DEFINE Grow == /\ super'.written >= super.written
                   /\ latest' >= latest /\ completed' >= completed /\ flush' >= flush
                   /\ permanent' >= permanent /\ written' >= written /\ prevWritten' >= prevWritten
<1>1. LogInv /\ SyncInv /\ [Next]_vars => Grow
  <2> SUFFICES ASSUME LogInv, SyncInv, [Next]_vars PROVE Grow
    OBVIOUS
  <2>1. super'.written >= super.written /\ prevWritten' >= prevWritten
    BY SuperFollowsKept DEF SyncInv
  <2> QED
    BY <2>1, LatestGrows, LsidsGrow, WrittenGrows
<1>2. LogInv /\ SyncInv /\ [Next]_vars => [Grow]_vars
  BY <1>1
<1> HIDE DEF Grow
<1>3. Spec => [][Grow]_vars
  BY <1>2, LogInvariant, InitSync, NextSync, PTL DEF Spec
<1> QED
  BY <1>3 DEF LsidsMonotone, Grow

\* The lsids of the write path grow even then.
THEOREM MemoryLsidsGrow ==
  Spec => [][/\ latest' >= latest /\ completed' >= completed /\ flush' >= flush
             /\ permanent' >= permanent /\ written' >= written]_vars
<1> DEFINE Grow == /\ latest' >= latest /\ completed' >= completed /\ flush' >= flush
                   /\ permanent' >= permanent /\ written' >= written
<1>1. LogInv /\ [Next]_vars => [Grow]_vars
  <2> SUFFICES ASSUME LogInv, [Next]_vars PROVE Grow
    OBVIOUS
  <2> QED
    BY LatestGrows, LsidsGrow, WrittenGrows
<1> HIDE DEF Grow
<1>2. Spec => [][Grow]_vars
  BY <1>1, LogInvariant, PTL DEF Spec
<1> QED
  BY <1>2 DEF Grow

-----------------------------------------------------------------------------
(***************************************************************************)
(* The log has no hole.  The only way to leave one is to store latest, give *)
(* the packs up and go on: a sync that finds no memory does that.          *)
(***************************************************************************)
\* The packs being built lie one after the other.
Joined == \A k \in DOMAIN wpacks : k > 1 => wpacks[k].lsid = NextLsid(wpacks[k - 1])

\* Where the packs on the log device end.
EndOfPacks == IF packs = <<>> THEN 0 ELSE NextLsid(packs[Len(packs)])

\* The packs on the log device lie one after the other, the packs being built go on
\* from them, and so does latest while no pack is under way.
NoHole ==
  /\ LogContiguous
  /\ wpacks # <<>> => wpacks[1].lsid = EndOfPacks
  /\ sPc = "create" => latest = EndOfPacks
  /\ sPc = "idle" => latest = EndOfPacks \/ readOnly

\* Packs that are the same but for their flush end at the same lsid.
LEMMA SameEnds ==
  ASSUME NEW p, NEW q, SamePack(p, q)
  PROVE  p.lsid = q.lsid /\ NextLsid(p) = NextLsid(q) /\ p.nRec = q.nRec
BY DEF SamePack, NextLsid

\* Where the pack starts that AddBioWrapper adds or extends.
LEMMA AddsAt ==
  ASSUME NEW p, NEW m \in Nat \ {0}, Adds(p, m), Len(wpacks) \in Nat
  PROVE  \/ m = Len(wpacks) + 1 /\ m = 1 /\ p.lsid = latest
         \/ m = Len(wpacks) + 1 /\ m > 1 /\ p.lsid = EndOfWpacks
         \/ m = Len(wpacks) /\ p.lsid = wpacks[m].lsid
<1>1. \/ m = Len(wpacks) + 1 /\ p.lsid = (IF m = 1 THEN latest ELSE EndOfWpacks)
      \/ m = Len(wpacks) /\ p.lsid = wpacks[m].lsid
  BY Zenon DEF Adds
<1> QED
  BY <1>1

\* Every step keeps the packs being built joined.
LEMMA JoinedKept ==
  ASSUME LogInv, Joined, [Next]_vars
  PROVE  Joined'
<1>0. DOMAIN wpacks = 1..Len(wpacks) /\ Len(wpacks) \in Nat
  BY SeqTypes DEF LogInv
<1> SUFFICES ASSUME NEW k \in DOMAIN wpacks', k > 1
             PROVE  wpacks'[k].lsid = NextLsid(wpacks'[k - 1])
  BY DEF Joined
<1>1. ASSUME UNCHANGED wpacks PROVE wpacks'[k].lsid = NextLsid(wpacks'[k - 1])
  BY <1>1 DEF Joined
<1>2. ASSUME AddBioWrapper PROVE wpacks'[k].lsid = NextLsid(wpacks'[k - 1])
  <2>1. PICK p, m : Adds(p, m) /\ m \in Nat \ {0}
    BY <1>2, AddsPack
  <2>2. /\ DOMAIN wpacks' = 1..m /\ wpacks'[m] = p
        /\ \A i \in 1..(m - 1) : i \in DOMAIN wpacks /\ wpacks'[i] = wpacks[i]
    BY <1>2, <2>1, AddedPack DEF Adds
  <2>a. \/ m = Len(wpacks) + 1 /\ m = 1 /\ p.lsid = latest
        \/ m = Len(wpacks) + 1 /\ m > 1 /\ p.lsid = EndOfWpacks
        \/ m = Len(wpacks) /\ p.lsid = wpacks[m].lsid
    BY <1>0, <2>1, AddsAt, Zenon
  <2>3. k - 1 \in 1..(m - 1) /\ wpacks'[k - 1] = wpacks[k - 1] /\ (k # m => k \in 1..(m - 1))
    BY <2>1, <2>2
  <2>4. CASE k # m
    BY <2>2, <2>3, <2>4 DEF Joined
  <2>5. CASE k = m /\ m = Len(wpacks) + 1
    <3>0. m # Len(wpacks) /\ m # 1 /\ k - 1 = Len(wpacks)
      <4>1. Len(wpacks) \in Nat /\ m \in Nat /\ k \in 1..m
        BY <1>0, <2>1, <2>2
      <4> QED
        BY <2>5, <4>1
    <3>1. p.lsid = EndOfWpacks
      BY <2>a, <3>0, Zenon
    <3> QED
      BY <2>2, <2>3, <2>5, <3>0, <3>1 DEF EndOfWpacks
  <2>6. CASE k = m /\ m # Len(wpacks) + 1
    <3>1. m = Len(wpacks) /\ m \in DOMAIN wpacks /\ p.lsid = wpacks[m].lsid
      BY <1>0, <2>1, <2>2, <2>a, <2>6
    <3> QED
      BY <2>2, <2>3, <2>6, <3>1 DEF Joined
  <2> QED
    BY <2>4, <2>5, <2>6
<1>3. ASSUME NEW e \in BOOLEAN, StoreLsids(e)
      PROVE  wpacks'[k].lsid = NextLsid(wpacks'[k - 1])
  <2>1. /\ wpacks' \in Seq(Packs) /\ Len(wpacks') = Len(wpacks)
        /\ \A i \in 1..Len(wpacks) : SamePack(wpacks'[i], wpacks[i])
    BY <1>3, StoreLsidsDoes
  <2>2. k \in 1..Len(wpacks) /\ k - 1 \in 1..Len(wpacks)
    BY <1>0, <2>1
  <2>3. SamePack(wpacks'[k], wpacks[k]) /\ SamePack(wpacks'[k - 1], wpacks[k - 1])
    BY <2>1, <2>2
  <2> QED
    BY <1>0, <2>2, <2>3, SameEnds DEF Joined
<1>4. ASSUME wpacks' = <<>> PROVE wpacks'[k].lsid = NextLsid(wpacks'[k - 1])
  BY <1>4
<1>5. ASSUME \/ RefuseOverflow \/ SubmitLogpacks \/ RingReadOnly
             \/ \E c \in Callers : SyncRefused(c) \/ SyncFail(c)
      PROVE  wpacks' = <<>> \/ wpacks' = wpacks
  BY <1>5, WhoGivesUp DEF GivesUp, SubmitLogpacks, SubmitReturn
<1> QED
  BY <1>1, <1>2, <1>3, <1>4, <1>5, Writers

\* The step that submits the packs goes on where the last pack ends.
LEMMA SubmitNoHole ==
  ASSUME LogInv, Joined, NoHole, SubmitLogpacks
  PROVE  NoHole'
<1>0. /\ DOMAIN wpacks = 1..Len(wpacks) /\ Len(wpacks) \in Nat /\ Len(wpacks) # 0
      /\ DOMAIN packs = 1..Len(packs) /\ Len(packs) \in Nat
      /\ sPc = "ring" /\ sPc' = "idle" /\ wpacks' = <<>> /\ latest' = latest
      /\ latest = EndOfWpacks
  BY SeqTypes, EmptySeq
  DEF LogInv, Ranges, Layout, RingLoop, SubmitLogpacks, SubmitReturn, lsidVars, TypeOK, SubmitTypes
<1>1. /\ packs' \in Seq(Packs) /\ Len(packs') = Len(packs) + Len(wpacks)
      /\ DOMAIN packs' = 1..(Len(packs) + Len(wpacks))
      /\ \A k \in 1..Len(packs) : packs'[k] = packs[k]
      /\ \A k \in 1..Len(wpacks) : SamePack(packs'[Len(packs) + k], wpacks[k])
  BY SubmitLogpacksDoes
<1>2. \A k \in 1..Len(wpacks) : /\ packs'[Len(packs) + k].lsid = wpacks[k].lsid
                                /\ NextLsid(packs'[Len(packs) + k]) = NextLsid(wpacks[k])
  BY <1>1, SameEnds
<1>3. ASSUME NEW k \in DOMAIN packs', k > 1 PROVE packs'[k].lsid = NextLsid(packs'[k - 1])
  <2>1. CASE k \in 1..Len(packs)
    <3>1. k - 1 \in 1..Len(packs)
      BY <1>0, <1>3, <2>1
    <3> QED
      BY <1>0, <1>1, <1>3, <2>1, <3>1 DEF NoHole, LogContiguous
  <2>2. CASE k = Len(packs) + 1
    <3>1. packs'[k].lsid = wpacks[1].lsid /\ 1 \in 1..Len(wpacks)
      BY <1>0, <1>2, <2>2
    <3>2. k - 1 = Len(packs) /\ Len(packs) \in 1..Len(packs) /\ packs # <<>> /\ wpacks # <<>>
      BY <1>0, <1>3, <2>2, EmptySeq
    <3>3. packs'[k - 1] = packs[Len(packs)]
      BY <1>1, <3>2
    <3> QED
      BY <3>1, <3>2, <3>3 DEF NoHole, EndOfPacks
  <2>3. CASE k > Len(packs) + 1
    <3>1. PICK i \in 1..Len(wpacks) : k = Len(packs) + i
      <4>1. k - Len(packs) \in 1..Len(wpacks) /\ k = Len(packs) + (k - Len(packs))
        BY <1>0, <1>1, <2>3
      <4> QED
        BY <4>1
    <3>2. i - 1 \in 1..Len(wpacks) /\ k - 1 = Len(packs) + (i - 1) /\ i > 1
      BY <1>0, <2>3, <3>1
    <3>3. NextLsid(packs'[k - 1]) = NextLsid(wpacks[i - 1])
      BY <1>2, <3>2
    <3> QED
      BY <1>0, <1>2, <3>1, <3>2, <3>3 DEF Joined
  <2> QED
    BY <1>0, <1>1, <2>1, <2>2, <2>3
<1>4. latest' = EndOfPacks'
  <2>1. Len(wpacks) \in 1..Len(wpacks) /\ Len(packs') # 0
    BY <1>0, <1>1
  <2>2. NextLsid(packs'[Len(packs')]) = NextLsid(wpacks[Len(wpacks)])
    BY <1>1, <1>2, <2>1
  <2>3. packs' # <<>>
    BY <2>1, EmptySeq
  <2> QED
    BY <1>0, <2>2, <2>3 DEF EndOfPacks, EndOfWpacks
<1> QED
  BY <1>0, <1>3, <1>4 DEF NoHole, LogContiguous

\* No step but a sync without memory leaves a hole.
LEMMA NoHoleKept ==
  ASSUME LogInv, Joined, NoHole, [Next]_vars, noMems' = noMems
  PROVE  NoHole'
<1>0. /\ DOMAIN wpacks = 1..Len(wpacks) /\ Len(wpacks) \in Nat
      /\ sPc \in {"idle", "create", "ring", "flush", "sync"} /\ noMems \in Nat
      /\ (sPc = "idle" => wpacks = <<>>)
  BY SeqTypes DEF LogInv, TypeOK, SubmitTypes, SyncTypes, Ranges
<1>1. ASSUME UNCHANGED packs PROVE EndOfPacks' = EndOfPacks /\ (LogContiguous' <=> LogContiguous)
  BY <1>1 DEF EndOfPacks, LogContiguous
<1>2. readOnly => readOnly'
  BY ReadOnlyStays
<1>3. ASSUME UNCHANGED <<packs, wpacks, sPc, latest>> PROVE NoHole'
  BY <1>1, <1>2, <1>3 DEF NoHole
<1>4. ASSUME SubmitDequeue PROVE NoHole'
  <2>1. sPc = "idle" /\ ~readOnly /\ sPc' = "create" /\ UNCHANGED <<packs, wpacks, latest>>
    BY <1>4 DEF SubmitDequeue, logVars, lsidVars
  <2> QED
    BY <1>1, <2>1 DEF NoHole
<1>5. ASSUME AddBioWrapper PROVE NoHole'
  <2>1. PICK p, m : Adds(p, m) /\ m \in Nat \ {0}
    BY <1>5, AddsPack
  <2>2. /\ DOMAIN wpacks' = 1..m /\ wpacks'[m] = p
        /\ \A i \in 1..(m - 1) : i \in DOMAIN wpacks /\ wpacks'[i] = wpacks[i]
    BY <1>5, <2>1, AddedPack DEF Adds
  <2>a. \/ m = Len(wpacks) + 1 /\ m = 1 /\ p.lsid = latest
        \/ m = Len(wpacks) + 1 /\ m > 1 /\ p.lsid = EndOfWpacks
        \/ m = Len(wpacks) /\ p.lsid = wpacks[m].lsid
    BY <1>0, <2>1, AddsAt, Zenon
  <2>3. sPc = "create" /\ UNCHANGED <<packs, latest, sPc>>
    BY <1>5, AddsPack
  <2>4. latest = EndOfPacks
    BY <2>3 DEF NoHole
  <2>5. CASE m = Len(wpacks) + 1 /\ m = 1
    <3>0. m # Len(wpacks) /\ ~(m > 1)
      <4>1. Len(wpacks) \in Nat /\ m \in Nat
        BY <1>0, <2>1
      <4> QED
        BY <2>5, <4>1
    <3>1. p.lsid = latest
      BY <2>a, <3>0, Zenon
    <3> QED
      BY <1>1, <2>2, <2>3, <2>4, <2>5, <3>1 DEF NoHole
  <2>6. CASE m # 1
    <3>1. 1 \in 1..(m - 1)
      BY <2>1, <2>6
    <3>2. wpacks'[1] = wpacks[1] /\ wpacks # <<>>
      BY <2>2, <3>1, EmptySeq
    <3> QED
      BY <1>1, <2>3, <3>2 DEF NoHole
  <2>7. CASE m = Len(wpacks) /\ m = 1
    <3>1. p.lsid = wpacks[1].lsid /\ wpacks # <<>>
      BY <1>0, <2>1, <2>a, <2>7, EmptySeq
    <3> QED
      BY <1>1, <2>2, <2>3, <2>7, <3>1 DEF NoHole
  <2> QED
    BY <1>0, <2>1, <2>a, <2>5, <2>6, <2>7
<1>6. ASSUME NEW e \in BOOLEAN, StoreLsids(e) PROVE NoHole'
  <2>1. /\ wpacks # <<>> /\ \A i \in 1..Len(wpacks) : SamePack(wpacks'[i], wpacks[i])
        /\ sPc' = "ring" /\ packs' = packs
    BY <1>6, StoreLsidsDoes DEF StoreLsids, logVars
  <2>2. 1 \in 1..Len(wpacks)
    BY <1>0, <2>1, EmptySeq DEF LogInv, TypeOK, SubmitTypes
  <2>3. wpacks'[1].lsid = wpacks[1].lsid
    BY <2>1, <2>2, SameEnds
  <2> QED
    BY <1>1, <2>1, <2>3 DEF NoHole
<1>7. ASSUME SubmitLogpacks PROVE NoHole'
  BY <1>7, SubmitNoHole
<1>8. ASSUME UNCHANGED <<packs, wpacks, latest>>, sPc \in RingLoop, sPc' \in RingLoop PROVE NoHole'
  BY <1>1, <1>8 DEF NoHole, RingLoop
<1>9. ASSUME \/ RingForceFlush \/ RingTakeCheckpoint
             \/ \E ok \in BOOLEAN : RingFlushed(ok)
             \/ \E c \in Callers : SyncDone(c) /\ sPc' # sPc
      PROVE  sPc \in RingLoop /\ sPc' \in RingLoop
  <2>1. ASSUME NEW c \in Callers, SyncDone(c), sPc' # sPc
        PROVE  sPc = "sync" /\ sPc' = "ring"
    BY <2>1 DEF SyncDone, SyncReturn, LogInv, Ranges
  <2> QED
    BY <1>9, <2>1 DEF RingForceFlush, RingTakeCheckpoint, RingCheckpoint, RingFlushed, RingLoop
<1>10. ASSUME UNCHANGED <<packs, latest>>, GivesUp, readOnly' \/ sPc = "create" PROVE NoHole'
  BY <1>1, <1>10 DEF NoHole, GivesUp
<1>11. ASSUME RefuseOverflow \/ RingReadOnly PROVE NoHole'
  BY <1>10, <1>11, WhoGivesUp DEF RefuseOverflow, RingReadOnly, Created, logVars, lsidVars
<1>12. ASSUME NEW c \in Callers, SyncRefused(c) \/ SyncFail(c) PROVE NoHole'
  <2>1. readOnly'
    <3>1. ASSUME SyncRefused(c) PROVE readOnly'
      <4>1. noMems' # noMems + 1
        BY <1>0
      <4>2. (readOnly \/ noMems' = noMems + 1) /\ readOnly' = readOnly
        BY <3>1, Zenon DEF SyncRefused
      <4> QED
        BY <4>1, <4>2
    <3> QED
      BY <1>12, <3>1 DEF SyncFail
  <2>2. UNCHANGED <<packs, latest>>
    BY <1>12 DEF SyncRefused, SyncFail, logVars, lsidVars
  <2>3. GivesUp \/ UNCHANGED <<sPc, wpacks>>
    BY <1>12, WhoGivesUp
  <2> QED
    BY <1>3, <1>10, <2>1, <2>2, <2>3
<1>13. CASE /\ ~SubmitDequeue /\ ~AddBioWrapper /\ ~(\E e \in BOOLEAN : StoreLsids(e))
            /\ ~SubmitLogpacks /\ ~RefuseOverflow /\ ~RingReadOnly
            /\ ~(\E c \in Callers : SyncRefused(c) \/ SyncFail(c))
  <2>1. UNCHANGED <<packs, wpacks, latest>>
    BY <1>13, Writers
  <2>2. \/ UNCHANGED sPc \/ RingForceFlush \/ RingTakeCheckpoint
        \/ \E ok \in BOOLEAN : RingFlushed(ok)
        \/ \E c \in Callers : SyncDone(c) /\ sPc' # sPc
    BY <1>13, Writers
  <2> QED
    BY <1>3, <1>8, <1>9, <2>1, <2>2
<1> QED
  BY <1>4, <1>5, <1>6, <1>7, <1>11, <1>12, <1>13

\* A sync that found no memory is never forgotten.
LEMMA NoMemStays ==
  ASSUME LogInv, [Next]_vars, noMems' = 0
  PROVE  noMems' = noMems
<1>0. noMems \in Nat
  BY DEF LogInv, TypeOK, SyncTypes
<1>1. ASSUME NEW c \in Callers, SyncRefused(c) PROVE noMems' = noMems
  BY <1>0, <1>1 DEF SyncRefused
<1> QED
  BY <1>1, Writers

HoleInv == Joined /\ (noMems = 0 => NoHole)

\* HoleInv holds when the device starts.
LEMMA InitHole == Init => HoleInv
BY EmptySeq DEF Init, HoleInv, Joined, NoHole, EndOfPacks, LogContiguous

\* HoleInv is kept by every step.
LEMMA NextHole == LogInv /\ HoleInv /\ [Next]_vars => HoleInv'
BY JoinedKept, NoHoleKept, NoMemStays DEF HoleInv

\* The next logpack starts where this one ends, on the log device: redo finds every pack by
\* that rule.  Unless a super block sync of create_logpack_list has found no memory: then the
\* lsids of the packs it gave up are left out.
THEOREM LogContiguousThm == Spec => [](noMems = 0 => LogContiguous)
<1>1. HoleInv => (noMems = 0 => LogContiguous)
  BY DEF HoleInv, NoHole
<1> QED
  BY <1>1, LogInvariant, InitHole, NextHole, PTL DEF Spec

-----------------------------------------------------------------------------
(***************************************************************************)
(* written stays behind permanent.  The gc worker moves written to the end *)
(* of a pack.  If the pack has records its last bio has been submitted to  *)
(* the data device, which wait_for_log_permanent allows only below         *)
(* permanent.  A zero-flush pack ends where the last pack with records     *)
(* before it ends: that pack is its anchor.                                *)
(***************************************************************************)
AnchoredIn(ps, l) == l = 0 \/ \E m \in DOMAIN ps : ps[m].nRec > 0 /\ NextLsid(ps[m]) = l

Anchors ==
  /\ \A k \in DOMAIN packs : AnchoredIn(packs, packs[k].lsid)
  /\ \A k \in DOMAIN wpacks :
       \/ AnchoredIn(packs, wpacks[k].lsid)
       \/ \E m \in 1..(k - 1) : wpacks[m].nRec > 0 /\ NextLsid(wpacks[m]) = wpacks[k].lsid

\* Until the device is read-only, every bio of a pack that the wait task has passed is
\* answered "ok".
AllAnswered == ~readOnly => \A i \in Bios : i < wBio /\ Placed(i) => answer[i] = "ok"

DoneIssued == dDone \subseteq dIssued

WrittenPermanent == ~readOnly /\ noMems = 0 => written <= permanent

\* The end of the packs on the log device is anchored.
LEMMA EndAnchored ==
  ASSUME LogInv, Anchors
  PROVE  AnchoredIn(packs, EndOfPacks)
<1>1. CASE packs = <<>>
  BY <1>1 DEF EndOfPacks, AnchoredIn
<1>2. CASE packs # <<>>
  <2>1. /\ Len(packs) \in DOMAIN packs /\ packs[Len(packs)] \in Packs
        /\ EndOfPacks = NextLsid(packs[Len(packs)])
    BY <1>2, SeqTypes, EmptySeq DEF LogInv, TypeOK, LogTypes, EndOfPacks
  <2>2. /\ packs[Len(packs)].nRec \in Nat
        /\ packs[Len(packs)].nRec = 0 => EndOfPacks = packs[Len(packs)].lsid
    BY <2>1, PackTypes, PackEnds
  <2>3. CASE packs[Len(packs)].nRec = 0
    BY <2>1, <2>2, <2>3 DEF Anchors
  <2>4. CASE packs[Len(packs)].nRec > 0
    BY <2>1, <2>4 DEF AnchoredIn
  <2> QED
    BY <2>2, <2>3, <2>4
<1> QED
  BY <1>1, <1>2

\* Packs stay anchored when others follow.
LEMMA AnchoredStays ==
  ASSUME LogInv, [Next]_vars, NEW l, AnchoredIn(packs, l)
  PROVE  AnchoredIn(packs', l)
<1>1. CASE l = 0
  BY <1>1 DEF AnchoredIn
<1>2. CASE l # 0
  <2>1. PICK m \in DOMAIN packs : packs[m].nRec > 0 /\ NextLsid(packs[m]) = l
    BY <1>2 DEF AnchoredIn
  <2>2. m \in DOMAIN packs' /\ packs'[m] = packs[m]
    BY <2>1, PacksGrow
  <2> QED
    BY <2>1, <2>2 DEF AnchoredIn
<1> QED
  BY <1>1, <1>2

\* Every step keeps the anchors.
LEMMA AnchorsKept ==
  ASSUME LogInv, NoHole, Anchors, [Next]_vars
  PROVE  Anchors'
<1>0. /\ DOMAIN wpacks = 1..Len(wpacks) /\ Len(wpacks) \in Nat
      /\ DOMAIN packs = 1..Len(packs) /\ Len(packs) \in Nat
  BY SeqTypes DEF LogInv
<1> DEFINE Held(k) == \/ AnchoredIn(packs, wpacks[k].lsid)
                      \/ \E m \in 1..(k - 1) :
                           wpacks[m].nRec > 0 /\ NextLsid(wpacks[m]) = wpacks[k].lsid
<1>1. \A k \in DOMAIN wpacks : Held(k)
  BY DEF Anchors
<1>2. ASSUME NEW k \in DOMAIN packs' PROVE AnchoredIn(packs', packs'[k].lsid)
  <2>1. CASE k \in DOMAIN packs
    BY <2>1, PacksGrow, AnchoredStays DEF Anchors
  <2>2. CASE k \notin DOMAIN packs
    <3>1. PICK i : i = k - Len(packs)
      OBVIOUS
    <3>2. SubmitLogpacks /\ i \in DOMAIN wpacks /\ SamePack(packs'[k], wpacks[i])
      BY <1>2, <2>2, <3>1, PacksGrow
    <3>3. packs'[k].lsid = wpacks[i].lsid
      BY <3>2, SameEnds
    <3>4. CASE AnchoredIn(packs, wpacks[i].lsid)
      BY <3>3, <3>4, AnchoredStays
    <3>5. ASSUME NEW m \in 1..(i - 1), wpacks[m].nRec > 0, NextLsid(wpacks[m]) = wpacks[i].lsid
          PROVE  AnchoredIn(packs', packs'[k].lsid)
      <4>1. m \in 1..Len(wpacks) /\ Len(packs) + m \in 1..(Len(packs) + Len(wpacks))
        BY <1>0, <3>2, <3>5
      <4>2. /\ SamePack(packs'[Len(packs) + m], wpacks[m])
            /\ DOMAIN packs' = 1..(Len(packs) + Len(wpacks))
        BY <3>2, <4>1, SubmitLogpacksDoes
      <4>3. /\ packs'[Len(packs) + m].nRec = wpacks[m].nRec
            /\ NextLsid(packs'[Len(packs) + m]) = NextLsid(wpacks[m])
        BY <4>2, SameEnds
      <4> QED
        BY <3>3, <3>5, <4>1, <4>2, <4>3 DEF AnchoredIn
    <3> QED
      BY <1>1, <3>2, <3>4, <3>5
  <2> QED
    BY <2>1, <2>2
<1>3. ASSUME NEW k \in DOMAIN wpacks'
      PROVE  \/ AnchoredIn(packs', wpacks'[k].lsid)
             \/ \E m \in 1..(k - 1) : wpacks'[m].nRec > 0 /\ NextLsid(wpacks'[m]) = wpacks'[k].lsid
  <2> DEFINE Goal == \/ AnchoredIn(packs', wpacks'[k].lsid)
                     \/ \E m \in 1..(k - 1) :
                          wpacks'[m].nRec > 0 /\ NextLsid(wpacks'[m]) = wpacks'[k].lsid
  <2>1. ASSUME k \in DOMAIN wpacks, wpacks'[k].lsid = wpacks[k].lsid,
               \A m \in 1..(k - 1) : /\ wpacks'[m].nRec = wpacks[m].nRec
                                     /\ NextLsid(wpacks'[m]) = NextLsid(wpacks[m])
        PROVE  Goal
    BY <1>1, <2>1, AnchoredStays
  <2>2. ASSUME UNCHANGED wpacks PROVE Goal
    BY <1>3, <2>1, <2>2
  <2>3. ASSUME NEW e \in BOOLEAN, StoreLsids(e) PROVE Goal
    <3>1. /\ wpacks' \in Seq(Packs) /\ Len(wpacks') = Len(wpacks)
          /\ \A i \in 1..Len(wpacks) : SamePack(wpacks'[i], wpacks[i])
      BY <2>3, StoreLsidsDoes
    <3>2. k \in 1..Len(wpacks) /\ \A m \in 1..(k - 1) : m \in 1..Len(wpacks)
      BY <1>0, <1>3, <3>1
    <3>3. \A i \in 1..Len(wpacks) : /\ wpacks'[i].lsid = wpacks[i].lsid
                                    /\ NextLsid(wpacks'[i]) = NextLsid(wpacks[i])
                                    /\ wpacks'[i].nRec = wpacks[i].nRec
      BY <3>1, SameEnds
    <3> QED
      BY <1>0, <2>1, <3>2, <3>3
  <2>4. ASSUME AddBioWrapper PROVE Goal
    <3>1. PICK p, m : Adds(p, m) /\ m \in Nat \ {0}
      BY <2>4, AddsPack
    <3>2. /\ DOMAIN wpacks' = 1..m /\ wpacks'[m] = p
          /\ \A i \in 1..(m - 1) : i \in DOMAIN wpacks /\ wpacks'[i] = wpacks[i]
      BY <2>4, <3>1, AddedPack DEF Adds
    <3>3. sPc = "create" /\ UNCHANGED <<packs, latest, sPc>>
      BY <2>4, AddsPack
    <3>4. \/ m = Len(wpacks) + 1 /\ m = 1 /\ p.lsid = latest
          \/ m = Len(wpacks) + 1 /\ m > 1 /\ p.lsid = EndOfWpacks
          \/ m = Len(wpacks) /\ p.lsid = wpacks[m].lsid
      BY <1>0, <3>1, AddsAt, Zenon
    <3>5. k \in 1..m /\ \A i \in 1..(k - 1) : i \in 1..(m - 1)
      BY <1>3, <3>1, <3>2
    <3>6. \A i \in 1..(k - 1) : wpacks'[i] = wpacks[i]
      BY <3>2, <3>5
    <3>7. CASE k # m
      <4>1. k \in 1..(m - 1)
        BY <3>1, <3>5, <3>7
      <4> QED
        BY <2>1, <3>2, <3>6, <4>1
    <3>8. CASE k = m /\ m = 1 /\ p.lsid = latest
      <4>1. latest = EndOfPacks
        BY <3>3 DEF NoHole
      <4> QED
        BY <3>2, <3>3, <3>8, <4>1, EndAnchored
    <3>9. CASE k = m /\ m = Len(wpacks) + 1 /\ m > 1 /\ p.lsid = EndOfWpacks
      <4>1. PICK n : n = Len(wpacks)
        OBVIOUS
      <4>2. /\ n \in DOMAIN wpacks /\ n \in 1..(k - 1) /\ wpacks'[n] = wpacks[n]
            /\ wpacks'[k].lsid = NextLsid(wpacks[n]) /\ wpacks[n] \in Packs
        <5>1. n \in DOMAIN wpacks /\ n \in 1..(k - 1)
          BY <1>0, <3>1, <3>9, <4>1
        <5> QED
          BY <3>2, <3>6, <3>9, <4>1, <5>1, SeqTypes DEF EndOfWpacks, LogInv
      <4>3. /\ wpacks[n].nRec \in Nat
            /\ wpacks[n].nRec = 0 => NextLsid(wpacks[n]) = wpacks[n].lsid
        BY <4>2, PackTypes, PackEnds
      <4>4. CASE wpacks[n].nRec > 0
        BY <4>2, <4>4
      <4>5. CASE wpacks[n].nRec = 0
        <5>1. wpacks'[k].lsid = wpacks[n].lsid /\ Held(n)
          BY <1>1, <4>2, <4>3, <4>5
        <5>2. \A i \in 1..(n - 1) : i \in 1..(k - 1) /\ wpacks'[i] = wpacks[i]
          <6>1. \A i \in 1..(n - 1) : i \in 1..(k - 1)
            BY <4>2, <3>5, <3>1
          <6> QED
            BY <3>6, <6>1
        <5> QED
          BY <3>3, <5>1, <5>2
      <4> QED
        BY <4>3, <4>4, <4>5
    <3>10. CASE k = m /\ m = Len(wpacks) /\ p.lsid = wpacks[m].lsid
      <4>1. k \in DOMAIN wpacks /\ wpacks'[k].lsid = wpacks[k].lsid
        BY <1>0, <3>1, <3>2, <3>10
      <4> QED
        BY <2>1, <3>6, <4>1
    <3> QED
      BY <3>4, <3>7, <3>8, <3>9, <3>10
  <2>5. ASSUME wpacks' = <<>> PROVE Goal
    BY <1>3, <2>5
  <2>6. ASSUME \/ RefuseOverflow \/ SubmitLogpacks \/ RingReadOnly
               \/ \E c \in Callers : SyncRefused(c) \/ SyncFail(c)
        PROVE  wpacks' = <<>> \/ wpacks' = wpacks
    BY <2>6, WhoGivesUp DEF GivesUp, SubmitLogpacks, SubmitReturn
  <2> HIDE DEF Goal
  <2>7. Goal
    BY <2>2, <2>3, <2>4, <2>5, <2>6, Writers
  <2> QED
    BY <2>7 DEF Goal
<1> QED
  BY <1>2, <1>3 DEF Anchors

\* The wait task passes no bio of a pack without answering it.
LEMMA AllAnsweredKept ==
  ASSUME LogInv, FailureSeen, Answered, AllAnswered, [Next]_vars
  PROVE  AllAnswered'
<1> SUFFICES ASSUME ~readOnly', NEW i \in Bios', i < wBio', Placed(i)'
             PROVE  answer'[i] = "ok"
  BY DEF AllAnswered
<1>0. ~readOnly /\ wBio \in Nat /\ wBio' \in Nat /\ wBio <= wBio'
  BY ReadOnlyStays, WaitBioGrows
<1>1. PICK k \in DOMAIN packs' : i \in packs'[k].first..packs'[k].last
  BY DEF Placed
<1>2. ASSUME i \in Bios, i < wBio, Placed(i) PROVE answer'[i] = "ok"
  BY <1>0, <1>2, OkStays DEF AllAnswered
<1>3. CASE k \notin DOMAIN packs
  <2>1. SubmitLogpacks /\ wBio <= packs'[k].first /\ packs'[k] \in Packs
    BY <1>3, NewPacks
  <2>2. wBio' = wBio
    BY <2>1 DEF SubmitLogpacks, waitVars
  <2>3. packs'[k].first \in Nat /\ packs'[k].last \in Nat
    BY <2>1, PackTypes
  <2> QED
    BY <1>0, <1>1, <2>1, <2>2, <2>3
<1>4. CASE k \in DOMAIN packs
  <2>1. /\ packs'[k] = packs[k] /\ packs[k] \in Packs
        /\ i \in packs[k].first..packs[k].last
    BY <1>1, <1>4, PacksGrow, PacksStay
  <2>2. i \in Bios /\ Placed(i) /\ i \in Nat
    BY <1>4, <2>1, PacksStay, PackTypes DEF Placed
  <2>3. ASSUME ~WaitStart, ~WaitBioError, ~Acks PROVE answer'[i] = "ok"
    BY <1>2, <2>2, <2>3, Writers DEF Acks
  <2>4. ASSUME WaitStart PROVE i < wBio
    <3>1. wPc = "idle" /\ wBio' = packs[wPack + 1].first /\ wPack < wTo'
          /\ wTo' = IF wPack < wTo THEN wTo ELSE MinOf(wTo + PackBulk, Len(packs))
      BY <2>4 DEF WaitStart
    <3>2. /\ wPack \in Nat /\ wTo \in Nat /\ Len(packs) \in Nat /\ DOMAIN packs = 1..Len(packs)
          /\ wPack <= wTo /\ wTo <= Len(packs) /\ PackBulk \in Nat
      BY SeqTypes, LogAssumption DEF LogInv, TypeOK, WaitTypes, Ranges
    <3>3. wPack + 1 \in DOMAIN packs
      BY <3>1, <3>2 DEF MinOf
    <3>4. /\ packs[wPack + 1] \in Packs /\ packs[wPack + 1].first \in Nat /\ packs[k].last \in Nat
          /\ packs[k].first \in Nat /\ k \in Nat /\ packs[wPack + 1].last \in Nat
      BY <1>4, <2>1, <3>2, <3>3, SeqTypes, PackTypes, SMTT(30), SMTT(40) DEF LogInv
    <3>5. /\ wPack + 1 < k => packs[wPack + 1].last < packs[k].first
          /\ packs[wPack + 1].first <= packs[wPack + 1].last
      BY <1>4, <3>3, PacksStay DEF LogInv, Layout, Precedes
    <3>6. k < wPack + 1
      BY <1>0, <2>1, <3>1, <3>2, <3>4, <3>5, SMTT(40)
    <3>7. packs[k].last < wBio
      BY <1>4, <3>1, <3>2, <3>4, <3>6 DEF LogInv, Waiting
    <3> QED
      BY <1>0, <2>1, <3>4, <3>7
  <2>5. ASSUME Acks PROVE answer'[i] = "ok"
    <3>1. wBio' = wBio + 1 /\ answer' = [answer EXCEPT ![wBio] = "ok"] /\ wBio \in Bios
      BY <2>5, AcksDoes
    <3>2. i = wBio \/ i < wBio
      BY <1>0, <2>2, <3>1
    <3>3. wBio \in DOMAIN answer
      BY <3>1, SeqTypes DEF LogInv, TypeOK, ClientTypes, Bios
    <3> QED
      BY <1>2, <2>2, <3>1, <3>2, <3>3
  <2>6. ~WaitBioError
    BY DEF WaitBioError
  <2> QED
    BY <1>2, <2>2, <2>3, <2>4, <2>5, <2>6
<1> QED
  BY <1>3, <1>4

\* Only an IO that was issued to the data device completes.
LEMMA DoneIssuedKept ==
  ASSUME LogInv, DoneIssued, [Next]_vars
  PROVE  DoneIssued'
<1>1. dIssued \subseteq dIssued'
  <2>1. ASSUME DataPermanent \/ \E ok \in BOOLEAN : DataFlushed(ok)
        PROVE  dIssued \subseteq dIssued'
    BY <2>1 DEF DataPermanent, DataFlushed, DataSubmit, DataCancel
  <2> QED
    BY <2>1, Writers
<1>2. ASSUME NEW i \in dIssued, DataIoDone(i) PROVE dDone' = dDone \cup {i} /\ i \in dIssued
  BY <1>2 DEF DataIoDone
<1> QED
  BY <1>1, <1>2, Writers DEF DoneIssued

\* A pack with records that the gc worker collects is permanent.
LEMMA CollectedPermanent ==
  ASSUME LogInv, DurableInv, AllAnswered, DoneIssued, ~readOnly, GcLogpacks,
         NEW k \in (gcDone + 1)..gcBatch, packs[k].nRec > 0
  PROVE  NextLsid(packs[k]) <= permanent
<1>0. /\ gcDone \in Nat /\ gcBatch \in Nat /\ gcTo \in Nat /\ wPack \in Nat /\ wTo \in Nat
      /\ Len(packs) \in Nat /\ DOMAIN packs = 1..Len(packs)
      /\ gcDone <= gcBatch /\ gcBatch <= gcTo /\ gcTo <= wPack /\ wPack <= wTo
      /\ wTo <= Len(packs) /\ (wPc # "idle" => gcTo < wPack)
  BY SeqTypes DEF LogInv, TypeOK, WaitTypes, Ranges
<1>1. k \in DOMAIN packs /\ (k < wPack \/ (k = wPack /\ wPc = "idle"))
  BY <1>0
<1>2. /\ packs[k] \in Packs /\ packs[k].first \in Nat /\ packs[k].last \in Nat
      /\ packs[k].first <= packs[k].last /\ packs[k].last < wBio
      /\ PackIn(packs[k], kind, biowLsid)
  BY <1>1, SeqTypes, PackTypes DEF LogInv, Layout, Waiting, PackOK, PackIn
<1>3. PICK i : i = packs[k].last
  OBVIOUS
<1>4. /\ i \in packs[k].first..packs[k].last /\ HasData(kind[i]) /\ EndOf(i) = NextLsid(packs[k])
      /\ Placed(i) /\ i < wBio
  BY <1>1, <1>2, <1>3 DEF PackIn, EndOf, Placed
<1>5. i \in Bios
  BY <1>1, <1>4, BioInPack
<1>6. answer[i] = "ok"
  BY <1>4, <1>5 DEF AllAnswered
<1>7. i \in GcBios
  BY <1>4, <1>6 DEF GcBios, DataBiosOf
<1>8. i \in dIssued
  BY <1>7 DEF GcLogpacks, DataOver, DoneIssued
<1> QED
  BY <1>4, <1>8 DEF DurableInv, Issued

\* written stays behind permanent.
LEMMA WrittenPermanentKept ==
  ASSUME LogInv, DurableInv, Anchors, AllAnswered, DoneIssued, WrittenPermanent, [Next]_vars,
         ~readOnly', noMems = 0
  PROVE  written' <= permanent'
<1>0. /\ ~readOnly /\ written \in Nat /\ permanent \in Nat /\ permanent' \in Nat
      /\ permanent <= permanent'
  BY ReadOnlyStays, LsidsGrow, WrittenGrows
<1>1. CASE UNCHANGED written
  BY <1>0, <1>1 DEF WrittenPermanent
<1>2. CASE GcLogpacks
  <2>1. /\ gcDone < gcBatch /\ written' = NextLsid(packs[gcBatch]) /\ permanent' = permanent
    BY <1>2 DEF GcLogpacks
  <2>2. /\ gcDone \in Nat /\ gcBatch \in Nat /\ gcTo \in Nat /\ wPack \in Nat /\ wTo \in Nat
        /\ Len(packs) \in Nat /\ DOMAIN packs = 1..Len(packs)
        /\ gcBatch <= gcTo /\ gcTo <= wPack /\ wPack <= wTo /\ wTo <= Len(packs)
        /\ written = IF gcDone = 0 THEN 0 ELSE NextLsid(packs[gcDone])
    BY SeqTypes DEF LogInv, TypeOK, WaitTypes, Ranges, Following
  <2>3. gcBatch \in DOMAIN packs /\ gcBatch \in (gcDone + 1)..gcBatch
    BY <2>1, <2>2
  <2>4. /\ packs[gcBatch] \in Packs /\ packs[gcBatch].nRec \in Nat /\ packs[gcBatch].lsid \in Nat
        /\ packs[gcBatch].nRec = 0 => NextLsid(packs[gcBatch]) = packs[gcBatch].lsid
    BY <2>3, SeqTypes, PackTypes, PackEnds DEF LogInv
  <2>5. CASE packs[gcBatch].nRec > 0
    BY <1>0, <1>2, <2>1, <2>3, <2>5, CollectedPermanent
  <2>6. CASE packs[gcBatch].nRec = 0 /\ packs[gcBatch].lsid = 0
    BY <1>0, <2>1, <2>4, <2>6
  <2>7. CASE packs[gcBatch].nRec = 0 /\ packs[gcBatch].lsid # 0
    <3>1. PICK m \in DOMAIN packs : packs[m].nRec > 0 /\ NextLsid(packs[m]) = packs[gcBatch].lsid
      BY <2>3, <2>7 DEF Anchors, AnchoredIn
    <3>2. m <= gcBatch
      BY <2>3, <2>4, <2>7, <3>1, PackNotAfter
    <3>3. CASE m > gcDone
      <4>1. m \in (gcDone + 1)..gcBatch
        BY <2>2, <3>1, <3>2, <3>3
      <4> QED
        BY <1>0, <1>2, <2>1, <2>4, <2>7, <3>1, <4>1, CollectedPermanent
    <3>4. CASE m <= gcDone
      <4>1. gcDone \in DOMAIN packs /\ written = NextLsid(packs[gcDone])
        BY <2>1, <2>2, <2>3, <3>1, <3>4
      <4>2. /\ packs[gcDone] \in Packs /\ packs[gcDone].lsid \in Nat
            /\ packs[gcDone].lsid <= NextLsid(packs[gcDone]) /\ NextLsid(packs[gcDone]) \in Nat
            /\ NextLsid(packs[m]) \in Nat
        BY <3>1, <4>1, SeqTypes, PackTypes, PackEnds DEF LogInv
      <4>3. m # gcDone => NextLsid(packs[m]) <= packs[gcDone].lsid
        BY <2>2, <3>1, <3>4, <4>1 DEF LogInv, Layout, Precedes
      <4>4. NextLsid(packs[m]) <= written
        BY <4>1, <4>2, <4>3
      <4> QED
        BY <1>0, <2>1, <2>4, <2>7, <3>1, <4>2, <4>4 DEF WrittenPermanent
    <3> QED
      BY <2>2, <3>1, <3>3, <3>4
  <2> QED
    BY <2>4, <2>5, <2>6, <2>7
<1> QED
  BY <1>1, <1>2, Writers

WrittenInv ==
  /\ HoleInv /\ AllAnswered /\ DoneIssued /\ WrittenPermanent
  /\ noMems = 0 => Anchors

\* WrittenInv holds when the device starts.
LEMMA InitWritten == Init => WrittenInv
<1> SUFFICES ASSUME Init PROVE WrittenInv
  OBVIOUS
<1>1. HoleInv
  BY InitHole
<1>2. DOMAIN packs = {} /\ DOMAIN wpacks = {} /\ Bios = {}
  BY EmptySeq DEF Init, Bios
<1> QED
  BY <1>1, <1>2 DEF Init, WrittenInv, AllAnswered, DoneIssued, WrittenPermanent, Anchors

\* WrittenInv is kept by every step.
LEMMA NextWritten == LogInv /\ DurableInv /\ WrittenInv /\ [Next]_vars => WrittenInv'
<1> SUFFICES ASSUME LogInv, DurableInv, WrittenInv, [Next]_vars PROVE WrittenInv'
  OBVIOUS
<1>1. HoleInv'
  BY NextHole DEF WrittenInv
<1>2. AllAnswered'
  BY AllAnsweredKept DEF WrittenInv, DurableInv
<1>3. DoneIssued'
  BY DoneIssuedKept DEF WrittenInv
<1>4. noMems' = 0 => noMems = 0
  BY NoMemStays
<1>5. noMems' = 0 => Anchors'
  BY <1>4, AnchorsKept DEF WrittenInv, HoleInv
<1>6. WrittenPermanent'
  BY <1>4, WrittenPermanentKept DEF WrittenInv, WrittenPermanent
<1> QED
  BY <1>1, <1>2, <1>3, <1>5, <1>6 DEF WrittenInv

-----------------------------------------------------------------------------
\* The oldest_lsid that set_oldest_lsid has tested lies behind written when it stores it.
OldestBehind ==
  /\ oldest <= written
  /\ sync["ioctl"].pc = "store" => sync["ioctl"].oldest <= written

\* However late the store comes after the test: written only grows.
LEMMA OldestBehindKept ==
  ASSUME LogInv, OldestBehind, [Next]_vars
  PROVE  OldestBehind'
<1>0. /\ sync \in [Callers -> [pc : {"idle", "store", "test", "load", "write", "update"},
                              written : Nat, oldest : Nat, ios : SUBSET Nat]]
      /\ "ioctl" \in Callers
  BY SyncIs DEF Callers
<1>1. oldest \in Nat /\ sync["ioctl"].oldest \in Nat /\ prevWritten \in Nat
      /\ prevWritten <= written
  BY <1>0 DEF LogInv, TypeOK, LsidTypes, Following
<1>2. written \in Nat /\ written' \in Nat /\ written <= written'
  BY WrittenGrows
<1>3. oldest' <= written'
  <2>1. oldest' = oldest \/ (sync["ioctl"].pc = "store" /\ oldest' = sync["ioctl"].oldest)
    BY Writers DEF SetOldestStore
  <2> QED
    BY <1>1, <1>2, <2>1 DEF OldestBehind
<1>4. ASSUME sync'["ioctl"].pc = "store" PROVE sync'["ioctl"].oldest <= written'
  <2>1. CASE sync'["ioctl"] = sync["ioctl"]
    BY <1>1, <1>2, <1>4, <2>1 DEF OldestBehind
  <2>2. ASSUME NEW lsid \in 1..MaxOldest, SetOldest(lsid)
        PROVE  sync'["ioctl"].oldest <= written'
    <3>1. sync'["ioctl"].oldest = lsid /\ lsid <= prevWritten
      BY <1>0, <2>2 DEF SetOldest
    <3> QED
      BY <1>1, <1>2, <3>1
  <2>3. ASSUME SetOldestStore PROVE FALSE
    BY <1>0, <1>4, <2>3 DEF SetOldestStore
  <2>4. ASSUME NEW c \in Callers, SyncSuperBlock(c), sync'["ioctl"] # sync["ioctl"] PROVE FALSE
    <3>1. /\ sync'[c].pc # "store"
          /\ c # "ioctl" => sync'["ioctl"] = sync["ioctl"]
      <4>1. CASE SyncRefused(c) \/ SyncDone(c) \/ SyncFail(c)
        <5>1. sync' = [sync EXCEPT ![c] = NoSync]
          BY <4>1 DEF SyncRefused, SyncDone, SyncFail, SyncReturn
        <5> QED
          BY <1>0, <5>1 DEF NoSync
      <4>2. CASE SyncLoad(c)
        BY <1>0, <4>2 DEF SyncLoad
      <4>3. CASE SyncTest(c)
        BY <1>0, <4>3 DEF SyncTest
      <4>4. CASE SyncWrite(c)
        BY <1>0, <4>4 DEF SyncWrite
      <4> QED
        BY <2>4, <4>1, <4>2, <4>3, <4>4 DEF SyncSuperBlock
    <3> QED
      BY <1>4, <2>4, <3>1
  <2>5. ASSUME RingTakeCheckpoint \/ CheckpointTask PROVE sync'["ioctl"] = sync["ioctl"]
    BY <1>0, <2>5 DEF RingTakeCheckpoint, CheckpointTask
  <2> QED
    BY <2>1, <2>2, <2>3, <2>4, <2>5, Writers
<1> QED
  BY <1>3, <1>4 DEF OldestBehind

\* What lsid_set_is_valid asserts, with oldest behind written, whatever set_oldest_lsid is
\* given and however its steps fall between those of the five activities.
THEOREM LsidOrderThm == Spec => []LsidOrder
<1>1. LogInv /\ OldestBehind /\ WrittenInv => LsidOrder
  BY DEF LsidOrder, OldestBehind, LogInv, Following, Waiting, WrittenInv, WrittenPermanent
<1>2. Init => OldestBehind
  BY DEF Init, OldestBehind, NoSync, Callers
<1>3. LogInv /\ OldestBehind /\ [Next]_vars => OldestBehind'
  BY OldestBehindKept
<1> QED
  BY <1>1, <1>2, <1>3, LogInvariant, DurableInvariant, InitWritten, NextWritten, PTL DEF Spec
=============================================================================
