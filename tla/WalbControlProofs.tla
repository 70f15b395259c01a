-------------------------- MODULE WalbControlProofs --------------------------
(***************************************************************************)
(* Proofs about the ioctls on a walb device, for any number of ioctls, any *)
(* lsid and any number of failures.                                        *)
(*                                                                         *)
(* For any number of threads freeze_state and is_frozen_usr agree, and no  *)
(* ioctl loses the checkpoint task.  clear_log is left out of these two    *)
(* (its name is not in Ops): in FRZ_CANCELING it goes on beside the thread *)
(* that cancels the melt timer, and then freeze_state is wrong.            *)
(*                                                                         *)
(* For one thread, clear_log included, the super block on disk never       *)
(* counts as written what is not.                                          *)
(***************************************************************************)
EXTENDS WalbControl, TLAPS

\* The ioctls that freeze the device, and the ones that start checkpointing again.
Freezes == {"freeze", "freeze_timeout"}
Restarters == {"take_checkpoint", "set_interval"}

Stopping == {"cancel", "join", "stopped"}
Syncing == {"test", "copy", "write", "update"}
Cancelling == {"cancel_timer", "canceled"}

\* Where a thread may be in ioctl o.
Steps(o) ==
  CASE o = "take_checkpoint" -> {"stop", "take", "start"} \cup Stopping \cup Syncing
    [] o = "set_interval"    -> {"interval", "stop", "start"} \cup Stopping
    [] o = "resize"          -> Syncing
    [] o \in Freezes         -> {"cancel_melt", "freeze", "stop", "frozen"} \cup Cancelling \cup Stopping
    [] o = "melt"            -> {"cancel_melt"} \cup Cancelling
    [] o = "melt_if_frozen"  -> {"cancel_melt", "melt", "start", "melted"} \cup Cancelling
    [] OTHER                 -> {}

InOp == \A t \in Threads : pc[t] = "idle" \/ pc[t] \in Steps(op[t])

\* The thread that freezes or melts the device has freeze_lock.
HasLock(t) ==
  \/ op[t] \in Freezes /\ pc[t] \in {"stop", "frozen"} \cup Stopping
  \/ op[t] = "melt_if_frozen" /\ pc[t] \in {"start", "melted"}

LockHeld ==
  /\ \A t \in Threads : freezeLock = t <=> HasLock(t)
  /\ ~Unlocked => frozen /\ frz \in {"MELTED", "FROZEN"}

\* One thread at a time cancels the melt timer.
OneCancels ==
  /\ \A t \in Threads : pc[t] \in Cancelling => frz = "CANCELING"
  /\ \A t, u \in Threads : pc[t] \in Cancelling /\ pc[u] \in Cancelling => t = u

FreezeInv == InOp /\ LockHeld /\ OneCancels /\ FrozenAgrees

\* Nothing has failed yet.
NoFailure == fails = 0 => ~readOnly /\ pc[Task] # "fail"

\* The state of the checkpoint task, as long as no checkpoint has failed.
TaskAgrees ==
  /\ cpState = "WAITING" => \/ dwork /\ pc[Task] = "idle"
                            \/ ~dwork /\ pc[Task] = "enter"
  /\ cpState = "RUNNING" => ~dwork /\ pc[Task] \notin {"idle", "enter"}
  /\ cpState = "STOPPED" => ~dwork /\ pc[Task] = "idle"
  /\ pc[Task] # "idle" => ~dwork

\* Exactly one thread stops it in CP_STOPPING.
OneStops ==
  /\ cpState = "STOPPING" <=> \E t \in Threads : pc[t] \in Stopping
  /\ \A t, u \in Threads : pc[t] \in Stopping /\ pc[u] \in Stopping => t = u
  /\ \A t \in Threads : pc[t] \in {"join", "stopped"} => ~dwork
  /\ \A t \in Threads : pc[t] = "stopped" => pc[Task] = "idle"

\* Somebody will start checkpointing again: ...
WillRestart == \E t \in Threads : op[t] \in Restarters /\ pc[t] # "idle"

\* ... a thread of its own accord, or whoever melts the device.
Restartable ==
  cpState = "STOPPED" /\ interval =>
    \/ WillRestart
    \/ \E t \in Threads : freezeLock = t /\ op[t] \in Freezes
    \/ frz # "MELTED" /\ \A t \in Threads : pc[t] # "melted"

CheckpointInv == NoFailure /\ (fails = 0 => TaskAgrees /\ OneStops /\ Restartable)

-----------------------------------------------------------------------------
\* Which steps write which variables.
LEMMA Writers ==
  ASSUME [Next]_vars
  PROVE
  /\ \/ UNCHANGED op
     \/ \E t \in Threads, o \in Ops : Ioctl(t, o)
     \/ \E t \in Threads : CancelMelt(t) \/ Canceled(t)
  /\ \/ UNCHANGED copy
     \/ \E p \in Procs : SyncLoad(p) \/ SyncCopy(p) \/ SyncWriteFail(p) \/ SyncUpdate(p)
  /\ \/ UNCHANGED interval
     \/ \E t \in Threads, on \in BOOLEAN : SetInterval(t, on)
  /\ \/ UNCHANGED cpState
     \/ \E t \in Threads : StopAnnounce(t) \/ StopEnd(t) \/ Start(t)
     \/ TaskEnter \/ TaskFail \/ TaskEnd \/ TaskMelt
  /\ \/ UNCHANGED dwork
     \/ \E t \in Threads : StopCancel(t) \/ Start(t)
     \/ TaskFire \/ TaskEnd \/ TaskMelt
  /\ \/ UNCHANGED frz
     \/ \E t \in Threads : CancelMelt(t) \/ Canceled(t) \/ FreezeEnd(t) \/ FreezeOther(t)
                           \/ MeltEnd(t) \/ FreezeDeep(t) \/ MeltDeep(t)
     \/ TaskMelt
  /\ \/ UNCHANGED freezeLock
     \/ \E t \in Threads : FreezeMelted(t) \/ FreezeEnd(t) \/ MeltFrozen(t) \/ MeltEnd(t)
  /\ \/ UNCHANGED meltWork
     \/ \E t \in Threads : CancelTimer(t) \/ FreezeEnd(t) \/ FreezeOther(t)
     \/ MeltFire \/ TaskMelt
  /\ \/ UNCHANGED frozen
     \/ \E t \in Threads : FreezeMelted(t) \/ MeltEnd(t) \/ FreezeDeep(t) \/ MeltDeep(t)
     \/ TaskMelt
  /\ \/ UNCHANGED written
     \/ Write
     \/ \E t \in Threads : ResetLsids(t) \/ RestoreLsids(t)
  /\ \/ UNCHANGED prevWritten
     \/ \E p \in Procs : SyncUpdate(p)
     \/ \E t \in Threads : ResetLsids(t) \/ RestoreLsids(t)
  /\ \/ UNCHANGED salt
     \/ \E t \in Threads : NewSalt(t)
  /\ \/ UNCHANGED super
     \/ \E p \in Procs : SyncWrite(p)
  /\ \/ UNCHANGED backup
     \/ \E t \in Threads : SaveLsids(t)
  /\ \/ UNCHANGED readOnly
     \/ \E p \in Procs : SyncWriteFail(p)
     \/ \E t \in Threads : ResetGrowFail(t) \/ InvalidateFail(t)
  /\ \/ UNCHANGED ioctls
     \/ \E t \in Threads, o \in Ops : Ioctl(t, o)
  /\ \/ UNCHANGED fails
     \/ \E p \in Procs : SyncRefused(p) \/ SyncWriteFail(p)
     \/ \E t \in Threads : ResetShrunk(t) \/ ResetGrowFail(t) \/ InvalidateFail(t)
<1> USE DEF procVars, cpVars, frzVars, lsidVars
<1>1. ASSUME NEW t \in Threads, NEW o \in Ops, Ioctl(t, o)
      PROVE  UNCHANGED <<copy, cpVars, frzVars, lsidVars, salt, super, backup, readOnly, fails>>
  BY <1>1 DEF Ioctl
<1>2. ASSUME Write
      PROVE  UNCHANGED <<op, copy, cpVars, frzVars, prevWritten, salt, super, backup,
                         readOnly, ioctls, fails>>
  BY <1>2 DEF Write
<1>3. ASSUME NEW t \in Threads, NEW on \in BOOLEAN, SetInterval(t, on)
      PROVE  UNCHANGED <<op, copy, cpState, dwork, frzVars, lsidVars, salt, super, backup,
                         readOnly, ioctls, fails>>
  BY <1>3 DEF SetInterval
<1>4. ASSUME NEW t \in Threads, StopNothing(t) \/ StopJoin(t) \/ MeltOther(t) \/ Invalidate(t)
      PROVE  UNCHANGED <<op, copy, cpVars, frzVars, lsidVars, salt, super, backup,
                         readOnly, ioctls, fails>>
  BY <1>4 DEF StopNothing, StopJoin, MeltOther, Invalidate
<1>5. ASSUME NEW t \in Threads, StopAnnounce(t) \/ StopEnd(t)
      PROVE  UNCHANGED <<op, copy, interval, dwork, frzVars, lsidVars, salt, super,
                         backup, readOnly, ioctls, fails>>
  BY <1>5 DEF StopAnnounce, StopEnd
<1>6. ASSUME NEW t \in Threads, StopCancel(t)
      PROVE  UNCHANGED <<op, copy, cpState, interval, frzVars, lsidVars, salt, super,
                         backup, readOnly, ioctls, fails>>
  BY <1>6 DEF StopCancel
<1>7. ASSUME NEW t \in Threads, Start(t)
      PROVE  UNCHANGED <<op, copy, interval, frzVars, lsidVars, salt, super, backup,
                         readOnly, ioctls, fails>>
  BY <1>7 DEF Start
<1>8. ASSUME TaskFire
      PROVE  UNCHANGED <<op, copy, cpState, interval, frzVars, lsidVars, salt, super,
                         backup, readOnly, ioctls, fails>>
  BY <1>8 DEF TaskFire
<1>9. ASSUME TaskEnter \/ TaskFail
      PROVE  UNCHANGED <<op, copy, interval, dwork, frzVars, lsidVars, salt, super,
                         backup, readOnly, ioctls, fails>>
  BY <1>9 DEF TaskEnter, TaskFail
<1>10. ASSUME TaskEnd
      PROVE  UNCHANGED <<op, copy, interval, frzVars, lsidVars, salt, super, backup,
                         readOnly, ioctls, fails>>
  BY <1>10 DEF TaskEnd
<1>11. ASSUME NEW p \in Procs, TakeCheckpoint(p)
      PROVE  UNCHANGED <<op, copy, cpVars, frzVars, lsidVars, salt, super, backup,
                         readOnly, ioctls, fails>>
  BY <1>11 DEF TakeCheckpoint
<1>12. ASSUME NEW p \in Procs, SyncRefused(p)
      PROVE  UNCHANGED <<op, copy, cpVars, frzVars, lsidVars, salt, super, backup,
                         readOnly, ioctls>>
  BY <1>12 DEF SyncRefused
<1>13. ASSUME NEW p \in Procs, SyncLoad(p) \/ SyncCopy(p)
      PROVE  UNCHANGED <<op, cpVars, frzVars, lsidVars, salt, super, backup, readOnly,
                         ioctls, fails>>
  BY <1>13 DEF SyncLoad, SyncCopy
<1>14. ASSUME NEW p \in Procs, SyncWrite(p)
      PROVE  UNCHANGED <<op, copy, cpVars, frzVars, lsidVars, salt, backup, readOnly,
                         ioctls, fails>>
  BY <1>14 DEF SyncWrite
<1>15. ASSUME NEW p \in Procs, SyncWriteFail(p)
      PROVE  UNCHANGED <<op, cpVars, frzVars, lsidVars, salt, super, backup, ioctls>>
  BY <1>15 DEF SyncWriteFail
<1>16. ASSUME NEW p \in Procs, SyncUpdate(p)
      PROVE  UNCHANGED <<op, cpVars, frzVars, written, salt, super, backup, readOnly,
                         ioctls, fails>>
  BY <1>16 DEF SyncUpdate
<1>17. ASSUME NEW t \in Threads, CancelMelt(t) \/ Canceled(t)
      PROVE  UNCHANGED <<copy, cpVars, freezeLock, meltWork, frozen, lsidVars, salt,
                         super, backup, readOnly, ioctls, fails>>
  BY <1>17 DEF CancelMelt, Canceled
<1>18. ASSUME NEW t \in Threads, CancelTimer(t)
      PROVE  UNCHANGED <<op, copy, cpVars, frz, freezeLock, frozen, lsidVars, salt, super,
                         backup, readOnly, ioctls, fails>>
  BY <1>18 DEF CancelTimer
<1>19. ASSUME NEW t \in Threads, FreezeMelted(t)
      PROVE  UNCHANGED <<op, copy, cpVars, frz, meltWork, lsidVars, salt, super, backup,
                         readOnly, ioctls, fails>>
  BY <1>19 DEF FreezeMelted
<1>20. ASSUME NEW t \in Threads, FreezeEnd(t)
      PROVE  UNCHANGED <<op, copy, cpVars, frozen, lsidVars, salt, super, backup,
                         readOnly, ioctls, fails>>
  BY <1>20 DEF FreezeEnd
<1>21. ASSUME NEW t \in Threads, FreezeOther(t)
      PROVE  UNCHANGED <<op, copy, cpVars, freezeLock, frozen, lsidVars, salt, super,
                         backup, readOnly, ioctls, fails>>
  BY <1>21 DEF FreezeOther
<1>22. ASSUME NEW t \in Threads, MeltFrozen(t)
      PROVE  UNCHANGED <<op, copy, cpVars, frz, meltWork, frozen, lsidVars, salt, super,
                         backup, readOnly, ioctls, fails>>
  BY <1>22 DEF MeltFrozen
<1>23. ASSUME NEW t \in Threads, MeltEnd(t)
      PROVE  UNCHANGED <<op, copy, cpVars, meltWork, lsidVars, salt, super, backup,
                         readOnly, ioctls, fails>>
  BY <1>23 DEF MeltEnd
<1>24. ASSUME MeltFire
      PROVE  UNCHANGED <<op, copy, cpVars, frz, freezeLock, frozen, lsidVars, salt, super,
                         backup, readOnly, ioctls, fails>>
  BY <1>24 DEF MeltFire
<1>25. ASSUME TaskMelt
      PROVE  UNCHANGED <<op, copy, interval, freezeLock, lsidVars, salt, super, backup,
                         readOnly, ioctls, fails>>
  BY <1>25 DEF TaskMelt
<1>26. ASSUME NEW t \in Threads, FreezeDeep(t) \/ MeltDeep(t)
      PROVE  UNCHANGED <<op, copy, cpVars, freezeLock, meltWork, lsidVars, salt, super,
                         backup, readOnly, ioctls, fails>>
  BY <1>26 DEF FreezeDeep, MeltDeep
<1>27. ASSUME NEW t \in Threads, SaveLsids(t)
      PROVE  UNCHANGED <<op, copy, cpVars, frzVars, lsidVars, salt, super, readOnly, ioctls,
                         fails>>
  BY <1>27 DEF SaveLsids
<1>28. ASSUME NEW t \in Threads, ResetShrunk(t)
      PROVE  UNCHANGED <<op, copy, cpVars, frzVars, lsidVars, salt, super, backup,
                         readOnly, ioctls>>
  BY <1>28 DEF ResetShrunk
<1>29. ASSUME NEW t \in Threads, ResetGrowFail(t) \/ InvalidateFail(t)
      PROVE  UNCHANGED <<op, copy, cpVars, frzVars, lsidVars, salt, super, backup, ioctls>>
  BY <1>29 DEF ResetGrowFail, InvalidateFail
<1>30. ASSUME NEW t \in Threads, NewSalt(t)
      PROVE  UNCHANGED <<op, copy, cpVars, frzVars, lsidVars, super, backup, readOnly,
                         ioctls, fails>>
  BY <1>30 DEF NewSalt
<1>31. ASSUME NEW t \in Threads, ResetLsids(t) \/ RestoreLsids(t)
      PROVE  UNCHANGED <<op, copy, cpVars, frzVars, salt, super, backup, readOnly, ioctls,
                         fails>>
  BY <1>31 DEF ResetLsids, RestoreLsids
<1>32. ASSUME UNCHANGED vars PROVE UNCHANGED <<procVars, copy, cpVars, frzVars, lsidVars, salt,
                                              super, backup, readOnly, ioctls, fails>>
  BY <1>32 DEF vars
<1> QED
  BY <1>1, <1>2, <1>3, <1>4, <1>5, <1>6, <1>7, <1>8, <1>9, <1>10, <1>11, <1>12, <1>13, <1>14,
     <1>15, <1>16, <1>17, <1>18, <1>19, <1>20, <1>21, <1>22, <1>23, <1>24, <1>25, <1>26,
     <1>27, <1>28, <1>29, <1>30, <1>31, <1>32
  DEF Next, ThreadStep, TaskStep, Stop, SyncSuperBlock, FreezeMelt, ClearLog, Procs

-----------------------------------------------------------------------------
(* Types *)

\* Where the steps lead to.
LEMMA NextLabels ==
  /\ \A o \in AllOps : FirstStep(o) \in Labels
  /\ \A t \in Threads : AfterStop(t) \in Labels /\ AfterStart(t) \in Labels
  /\ \A p \in Procs : AfterSync(p, TRUE) \in Labels /\ AfterSync(p, FALSE) \in Labels
<1>1. \A o \in AllOps : FirstStep(o) \in Labels
  BY DEF FirstStep, Labels, AllOps
<1>2. \A t \in Threads : AfterStop(t) \in Labels /\ AfterStart(t) \in Labels
  BY DEF AfterStop, AfterStart, Labels
<1>3. \A p \in Procs : AfterSync(p, TRUE) \in Labels /\ AfterSync(p, FALSE) \in Labels
  BY DEF AfterSync, Labels
<1> QED
  BY <1>1, <1>2, <1>3

\* A step moves one process at most.
LEMMA OneMoves ==
  ASSUME [Next]_vars
  PROVE  \/ UNCHANGED pc
         \/ \E t \in Threads, l \in Labels : Go(t, l)
         \/ (TaskFire \/ TaskStep) /\ \E l \in Labels : Go(Task, l)
<1> USE ControlAssumption, NextLabels
<1> DEFINE Moves(p) == \E l \in Labels : Go(p, l)
<1>1. ASSUME NEW t \in Threads, NEW o \in Ops, Ioctl(t, o) PROVE Moves(t)
  BY <1>1 DEF Ioctl
<1>2. ASSUME NEW t \in Threads, NEW on \in BOOLEAN, SetInterval(t, on) PROVE Moves(t)
  BY <1>2 DEF SetInterval, Labels
<1>3. ASSUME NEW t \in Threads, Stop(t) \/ Start(t) PROVE Moves(t)
  <2>1. ASSUME StopNothing(t) \/ StopEnd(t) \/ Start(t) PROVE Moves(t)
    BY <2>1 DEF StopNothing, StopEnd, Start
  <2>2. ASSUME StopAnnounce(t) \/ StopCancel(t) \/ StopJoin(t) PROVE Moves(t)
    BY <2>2 DEF StopAnnounce, StopCancel, StopJoin, Labels
  <2> QED
    BY <1>3, <2>1, <2>2 DEF Stop
<1>4. ASSUME NEW p \in Procs, TakeCheckpoint(p) \/ SyncSuperBlock(p) PROVE Moves(p)
  <2>1. ASSUME TakeCheckpoint(p) PROVE Moves(p)
    <3>1. (IF written = prevWritten THEN AfterSync(p, TRUE) ELSE "test") \in Labels
      BY DEF Labels
    <3> QED
      BY <2>1, <3>1 DEF TakeCheckpoint
  <2>2. ASSUME SyncRefused(p) \/ SyncWriteFail(p) \/ SyncUpdate(p) PROVE Moves(p)
    BY <2>2 DEF SyncRefused, SyncWriteFail, SyncUpdate
  <2>3. ASSUME SyncLoad(p) \/ SyncCopy(p) \/ SyncWrite(p) PROVE Moves(p)
    BY <2>3 DEF SyncLoad, SyncCopy, SyncWrite, Labels
  <2> QED
    BY <1>4, <2>1, <2>2, <2>3 DEF SyncSuperBlock
<1>5. ASSUME NEW t \in Threads, FreezeMelt(t) PROVE Moves(t)
  <2>1. ASSUME AfterCancelMelt(t) PROVE Moves(t)
    <3>1. (CASE op[t] = "melt" -> "cancel_melt" [] op[t] = "melt_if_frozen" -> "melt"
             [] OTHER -> "freeze") \in Labels
      BY DEF Labels
    <3> QED
      BY <2>1, <3>1 DEF AfterCancelMelt
  <2>2. ASSUME CancelMelt(t) \/ Canceled(t) PROVE Moves(t)
    BY <2>1, <2>2 DEF CancelMelt, Canceled, Labels
  <2>3. ASSUME CancelTimer(t) \/ FreezeMelted(t) \/ FreezeEnd(t) \/ FreezeOther(t) PROVE Moves(t)
    BY <2>3 DEF CancelTimer, FreezeMelted, FreezeEnd, FreezeOther, Labels
  <2>4. ASSUME MeltFrozen(t) \/ MeltEnd(t) \/ MeltOther(t) PROVE Moves(t)
    BY <2>4 DEF MeltFrozen, MeltEnd, MeltOther, Labels
  <2> QED
    BY <1>5, <2>2, <2>3, <2>4 DEF FreezeMelt
<1>6. ASSUME NEW t \in Threads, ClearLog(t) PROVE Moves(t)
  <2>1. ASSUME FreezeDeep(t) PROVE Moves(t)
    <3>1. (IF frz \in {"MELTED", "CANCELING"} THEN "stop" ELSE "idle") \in Labels
      BY DEF Labels
    <3> QED
      BY <2>1, <3>1 DEF FreezeDeep
  <2>2. ASSUME ResetShrunk(t) \/ SaveLsids(t) \/ ResetLsids(t) \/ ResetGrowFail(t) \/ NewSalt(t)
        PROVE  Moves(t)
    BY <2>2 DEF ResetShrunk, SaveLsids, ResetLsids, ResetGrowFail, NewSalt, Labels
  <2>3. ASSUME Invalidate(t) \/ InvalidateFail(t) \/ RestoreLsids(t) \/ MeltDeep(t) PROVE Moves(t)
    BY <2>3 DEF Invalidate, InvalidateFail, RestoreLsids, MeltDeep, Labels
  <2> QED
    BY <1>6, <2>1, <2>2, <2>3 DEF ClearLog
<1>7. ASSUME TaskFire \/ TaskFail \/ TaskEnd PROVE Moves(Task)
  BY <1>7 DEF TaskFire, TaskFail, TaskEnd, Labels
<1>8. ASSUME TaskEnter PROVE Moves(Task)
  <2>1. (IF cpState = "STOPPING" THEN "idle" ELSE "take") \in Labels
    BY DEF Labels
  <2> QED
    BY <1>8, <2>1 DEF TaskEnter
<1>9. ASSUME Write \/ MeltFire \/ TaskMelt \/ UNCHANGED vars PROVE UNCHANGED pc
  BY <1>9 DEF Write, MeltFire, TaskMelt, vars, procVars
<1> QED
  BY <1>1, <1>2, <1>3, <1>4, <1>5, <1>6, <1>7, <1>8, <1>9, Zenon
  DEF Next, ThreadStep, TaskStep, Procs, Moves

\* Every step keeps the types.
LEMMA TypesKept ==
  ASSUME TypeOK, [Next]_vars
  PROVE  TypeOK'
<1> USE ControlAssumption, Writers
<1>1. (pc \in [Procs -> Labels])'
  BY OneMoves DEF TypeOK, Go, Procs
<1>2. op' \in [Threads -> AllOps \cup {"none", "melt_if_frozen"}]
  <2>1. ASSUME NEW t \in Threads, NEW o \in Ops, Ioctl(t, o)
        PROVE  op' \in [Threads -> AllOps \cup {"none", "melt_if_frozen"}]
    BY <2>1 DEF Ioctl, TypeOK
  <2>2. ASSUME NEW t \in Threads, CancelMelt(t) \/ Canceled(t)
        PROVE  op' \in [Threads -> AllOps \cup {"none", "melt_if_frozen"}]
    BY <2>2 DEF CancelMelt, Canceled, AfterCancelMelt, TypeOK
  <2> QED
    BY <2>1, <2>2 DEF TypeOK
<1>3. copy' \in [Procs -> [written : Nat, salt : Nat]]
  <2>1. ASSUME NEW p \in Procs, SyncLoad(p) \/ SyncCopy(p)
        PROVE  copy' \in [Procs -> [written : Nat, salt : Nat]]
    <3>1. copy[p] \in [written : Nat, salt : Nat]
      BY DEF TypeOK
    <3>2. PICK c \in [written : Nat, salt : Nat] : copy' = [copy EXCEPT ![p] = c]
      <4>1. [copy[p] EXCEPT !.written = written] \in [written : Nat, salt : Nat]
        BY <3>1 DEF TypeOK
      <4>2. [copy[p] EXCEPT !.salt = salt] \in [written : Nat, salt : Nat]
        BY <3>1 DEF TypeOK
      <4> QED
        BY <2>1, <4>1, <4>2, Zenon DEF SyncLoad, SyncCopy
    <3> QED
      BY <3>2 DEF TypeOK
  <2>2. ASSUME NEW p \in Procs, SyncWriteFail(p) \/ SyncUpdate(p)
        PROVE  copy' \in [Procs -> [written : Nat, salt : Nat]]
    <3>1. NoCopy \in [written : Nat, salt : Nat]
      BY DEF NoCopy
    <3> QED
      BY <2>2, <3>1 DEF SyncWriteFail, SyncUpdate, TypeOK
  <2> QED
    BY <2>1, <2>2 DEF TypeOK
<1>4. cpState' \in {"STOPPED", "WAITING", "RUNNING", "STOPPING"}
  <2>1. ASSUME NEW t \in Threads, StopAnnounce(t) \/ StopEnd(t) \/ Start(t)
        PROVE  cpState' \in {"STOPPED", "WAITING", "RUNNING", "STOPPING"}
    BY <2>1 DEF StopAnnounce, StopEnd, Start, StartWork, TypeOK
  <2>2. ASSUME TaskEnter \/ TaskFail \/ TaskEnd \/ TaskMelt
        PROVE  cpState' \in {"STOPPED", "WAITING", "RUNNING", "STOPPING"}
    BY <2>2 DEF TaskEnter, TaskFail, TaskEnd, TaskMelt, StartWork, TypeOK
  <2> QED
    BY <2>1, <2>2 DEF TypeOK
<1>5. interval' \in BOOLEAN
  BY Zenon DEF SetInterval, TypeOK
<1>6. dwork' \in BOOLEAN
  <2>1. ASSUME NEW t \in Threads, StopCancel(t) \/ Start(t) PROVE dwork' \in BOOLEAN
    BY <2>1, Zenon DEF StopCancel, Start, StartWork, TypeOK
  <2>2. ASSUME TaskFire \/ TaskEnd \/ TaskMelt PROVE dwork' \in BOOLEAN
    BY <2>2, Zenon DEF TaskFire, TaskEnd, TaskMelt, StartWork, TypeOK
  <2> QED
    BY <2>1, <2>2, Zenon DEF TypeOK
<1>7. frz' \in {"MELTED", "FROZEN", "FROZEN_TIMEO", "FROZEN_DEEP", "CANCELING"}
  <2>1. ASSUME NEW t \in Threads, CancelMelt(t) \/ Canceled(t) \/ MeltEnd(t)
        PROVE  frz' \in {"MELTED", "FROZEN", "FROZEN_TIMEO", "FROZEN_DEEP", "CANCELING"}
    BY <2>1 DEF CancelMelt, Canceled, MeltEnd, TypeOK
  <2>2. ASSUME NEW t \in Threads, FreezeEnd(t) \/ FreezeOther(t)
        PROVE  frz' \in {"MELTED", "FROZEN", "FROZEN_TIMEO", "FROZEN_DEEP", "CANCELING"}
    BY <2>2 DEF FreezeEnd, FreezeOther, SetFrozen, TypeOK
  <2>3. ASSUME NEW t \in Threads, FreezeDeep(t) \/ MeltDeep(t)
        PROVE  frz' \in {"MELTED", "FROZEN", "FROZEN_TIMEO", "FROZEN_DEEP", "CANCELING"}
    BY <2>3 DEF FreezeDeep, MeltDeep, TypeOK
  <2>4. ASSUME TaskMelt
        PROVE  frz' \in {"MELTED", "FROZEN", "FROZEN_TIMEO", "FROZEN_DEEP", "CANCELING"}
    BY <2>4 DEF TaskMelt, TypeOK
  <2> QED
    BY <2>1, <2>2, <2>3, <2>4 DEF TypeOK
<1>8. (freezeLock \in Procs)'
  BY DEF FreezeMelted, FreezeEnd, MeltFrozen, MeltEnd, Procs, TypeOK
<1>9. meltWork' \in {"none", "queued", "running"}
  <2>1. ASSUME NEW t \in Threads, CancelTimer(t) \/ FreezeEnd(t) \/ FreezeOther(t)
        PROVE  meltWork' \in {"none", "queued", "running"}
    BY <2>1 DEF CancelTimer, FreezeEnd, FreezeOther, SetFrozen, TypeOK
  <2>2. ASSUME MeltFire \/ TaskMelt PROVE meltWork' \in {"none", "queued", "running"}
    BY <2>2 DEF MeltFire, TaskMelt, TypeOK
  <2> QED
    BY <2>1, <2>2 DEF TypeOK
<1>10. frozen' \in BOOLEAN
  <2>1. ASSUME NEW t \in Threads, FreezeMelted(t) \/ MeltEnd(t) PROVE frozen' \in BOOLEAN
    BY <2>1, Zenon DEF FreezeMelted, MeltEnd
  <2>2. ASSUME NEW t \in Threads, FreezeDeep(t) \/ MeltDeep(t) PROVE frozen' \in BOOLEAN
    BY <2>2, Zenon DEF FreezeDeep, MeltDeep, TypeOK
  <2>3. ASSUME TaskMelt PROVE frozen' \in BOOLEAN
    BY <2>3, Zenon DEF TaskMelt, TypeOK
  <2> QED
    BY <2>1, <2>2, <2>3, Zenon DEF TypeOK
<1>11. written' \in Nat /\ prevWritten' \in Nat
  <2>1. ASSUME Write PROVE written' \in Nat
    BY <2>1 DEF Write, TypeOK
  <2>2. ASSUME NEW t \in Threads, ResetLsids(t) \/ RestoreLsids(t)
        PROVE  written' \in Nat /\ prevWritten' \in Nat
    BY <2>2 DEF ResetLsids, RestoreLsids, TypeOK
  <2>3. ASSUME NEW p \in Procs, SyncUpdate(p) PROVE prevWritten' \in Nat
    BY <2>3 DEF SyncUpdate, TypeOK
  <2> QED
    BY <2>1, <2>2, <2>3 DEF TypeOK
<1>12. (salt \in Nat)'
  BY DEF NewSalt, TypeOK
<1>13. (super \in [written : Nat, salt : Nat])'
  BY DEF SyncWrite, TypeOK
<1>14. (backup \in [Threads -> Nat \X Nat])'
  BY DEF SaveLsids, BackupLsids, TypeOK
<1>15. readOnly' \in BOOLEAN
  BY Zenon DEF SyncWriteFail, ResetGrowFail, InvalidateFail, TypeOK
<1>16. (ioctls \in Nat)'
  BY DEF Ioctl, TypeOK
<1>17. (fails \in Nat)'
  <2>1. fails' = fails \/ fails' = fails + 1
    BY Zenon DEF SyncRefused, SyncWriteFail, ResetShrunk, ResetGrowFail, InvalidateFail, Failure
  <2> QED
    BY <2>1 DEF TypeOK
<1> QED
  BY <1>1, <1>2, <1>3, <1>4, <1>5, <1>6, <1>7, <1>8, <1>9, <1>10, <1>11, <1>12, <1>13, <1>14,
     <1>15, <1>16, <1>17, Zenon DEF TypeOK

\* Init has the types.
LEMMA InitTypes == Init => TypeOK
<1> SUFFICES ASSUME Init PROVE TypeOK
  OBVIOUS
<1>1. pc \in [Procs -> Labels] /\ op \in [Threads -> AllOps \cup {"none", "melt_if_frozen"}]
  BY DEF Init, Labels
<1>2. NoCopy \in [written : Nat, salt : Nat]
  BY DEF NoCopy
<1>3. copy \in [Procs -> [written : Nat, salt : Nat]] /\ super \in [written : Nat, salt : Nat]
  BY <1>2 DEF Init
<1>4. backup \in [Threads -> Nat \X Nat] /\ written \in Nat /\ prevWritten \in Nat /\ salt \in Nat
  BY DEF Init
<1>5. interval \in BOOLEAN /\ dwork \in BOOLEAN /\ frozen \in BOOLEAN /\ readOnly \in BOOLEAN
  BY DEF Init
<1> QED
  BY <1>1, <1>3, <1>4, <1>5 DEF Init, TypeOK, Procs

\* The variables of the ioctls keep their types, with clear_log too.
THEOREM ControlTypeOK == Spec => []TypeOK
BY InitTypes, TypesKept, PTL DEF Spec

-----------------------------------------------------------------------------
(* freeze_state and is_frozen_usr *)

\* Without clear_log no thread is in one of its steps.
LEMMA NoClearLog ==
  ASSUME InOp, NEW t \in Threads
  PROVE  ~ClearLog(t)
<1>1. pc[t] \notin {"freeze_deep", "reset", "zero", "salt", "invalidate", "restore", "melt_deep"}
  BY DEF InOp, Steps, Freezes, Stopping, Syncing, Cancelling
<1> QED
  BY <1>1 DEF ClearLog, FreezeDeep, ResetShrunk, SaveLsids, ResetLsids, ResetGrowFail, NewSalt,
     Invalidate, InvalidateFail, RestoreLsids, MeltDeep

\* Without clear_log a step keeps the invariant.
LEMMA FreezeKept ==
  ASSUME "clear_log" \notin Ops, TypeOK, FreezeInv, [Next]_vars
  PROVE  FreezeInv'
<1> USE ControlAssumption
<1> USE DEF TypeOK, Go, procVars, cpVars, frzVars, Procs, FreezeInv
<1>1. ASSUME NEW t \in Threads, NEW o \in Ops, Ioctl(t, o) PROVE FreezeInv'
  <2>1. InOp'
    BY <1>1 DEF Ioctl, FirstStep, AllOps, InOp, Steps, Freezes, Stopping, Syncing, Cancelling
  <2>2. LockHeld'
    BY <1>1 DEF Ioctl, FirstStep, AllOps, InOp, Steps, LockHeld, HasLock, Unlocked, Freezes,
       Stopping, Syncing, Cancelling
  <2>3. OneCancels'
    BY <1>1 DEF Ioctl, FirstStep, AllOps, InOp, Steps, OneCancels, Freezes, Stopping, Syncing,
       Cancelling
  <2>4. FrozenAgrees'
    BY <1>1 DEF Ioctl, FirstStep, AllOps, LockHeld, HasLock, FrozenAgrees, Unlocked, Freezes,
       Stopping, Syncing, Cancelling
  <2> QED
    BY <2>1, <2>2, <2>3, <2>4
<1>2. ASSUME NEW t \in Threads, NEW on \in BOOLEAN, SetInterval(t, on) PROVE FreezeInv'
  <2>1. InOp'
    BY <1>2 DEF SetInterval, InOp, Steps, Freezes, Stopping, Syncing, Cancelling
  <2>2. LockHeld'
    BY <1>2 DEF SetInterval, InOp, Steps, LockHeld, HasLock, Unlocked, Freezes, Stopping,
       Syncing, Cancelling
  <2>3. OneCancels'
    BY <1>2 DEF SetInterval, InOp, Steps, OneCancels, Freezes, Stopping, Syncing, Cancelling
  <2>4. FrozenAgrees'
    BY <1>2 DEF SetInterval, LockHeld, HasLock, FrozenAgrees, Unlocked, Freezes, Stopping,
       Syncing, Cancelling
  <2> QED
    BY <2>1, <2>2, <2>3, <2>4
<1>3. ASSUME NEW t \in Threads, StopNothing(t) \/ StopEnd(t) PROVE FreezeInv'
  <2>1. InOp'
    BY <1>3 DEF StopNothing, StopEnd, AfterStop, InOp, Steps, Freezes, Stopping, Syncing,
       Cancelling
  <2>2. LockHeld'
    BY <1>3 DEF StopNothing, StopEnd, AfterStop, InOp, Steps, LockHeld, HasLock, Unlocked,
       Freezes, Stopping, Syncing, Cancelling
  <2>3. OneCancels'
    BY <1>3 DEF StopNothing, StopEnd, AfterStop, InOp, Steps, OneCancels, Freezes, Stopping,
       Syncing, Cancelling
  <2>4. FrozenAgrees'
    BY <1>3 DEF StopNothing, StopEnd, AfterStop, LockHeld, HasLock, FrozenAgrees, Unlocked,
       Freezes, Stopping, Syncing, Cancelling
  <2> QED
    BY <2>1, <2>2, <2>3, <2>4
<1>4. ASSUME NEW t \in Threads, StopAnnounce(t) \/ StopCancel(t) \/ StopJoin(t) PROVE FreezeInv'
  <2>1. InOp'
    BY <1>4 DEF StopAnnounce, StopCancel, StopJoin, InOp, Steps, Freezes, Stopping, Syncing,
       Cancelling
  <2>2. LockHeld'
    BY <1>4 DEF StopAnnounce, StopCancel, StopJoin, InOp, Steps, LockHeld, HasLock, Unlocked,
       Freezes, Stopping, Syncing, Cancelling
  <2>3. OneCancels'
    BY <1>4 DEF StopAnnounce, StopCancel, StopJoin, InOp, Steps, OneCancels, Freezes,
       Stopping, Syncing, Cancelling
  <2>4. FrozenAgrees'
    BY <1>4 DEF StopAnnounce, StopCancel, StopJoin, LockHeld, HasLock, FrozenAgrees, Unlocked,
       Freezes, Stopping, Syncing, Cancelling
  <2> QED
    BY <2>1, <2>2, <2>3, <2>4
<1>5. ASSUME NEW t \in Threads, Start(t) PROVE FreezeInv'
  <2>1. InOp'
    BY <1>5 DEF Start, AfterStart, InOp, Steps, Freezes, Stopping, Syncing, Cancelling
  <2>2. LockHeld'
    BY <1>5 DEF Start, AfterStart, InOp, Steps, LockHeld, HasLock, Unlocked, Freezes,
       Stopping, Syncing, Cancelling
  <2>3. OneCancels'
    BY <1>5 DEF Start, AfterStart, InOp, Steps, OneCancels, Freezes, Stopping, Syncing,
       Cancelling
  <2>4. FrozenAgrees'
    BY <1>5 DEF Start, AfterStart, LockHeld, HasLock, FrozenAgrees, Unlocked, Freezes,
       Stopping, Syncing, Cancelling
  <2> QED
    BY <2>1, <2>2, <2>3, <2>4
<1>6. ASSUME NEW t \in Threads, TakeCheckpoint(t) PROVE FreezeInv'
  <2>1. InOp'
    BY <1>6 DEF TakeCheckpoint, AfterSync, InOp, Steps, Freezes, Stopping, Syncing, Cancelling
  <2>2. LockHeld'
    BY <1>6 DEF TakeCheckpoint, AfterSync, InOp, Steps, LockHeld, HasLock, Unlocked, Freezes,
       Stopping, Syncing, Cancelling
  <2>3. OneCancels'
    BY <1>6 DEF TakeCheckpoint, AfterSync, InOp, Steps, OneCancels, Freezes, Stopping,
       Syncing, Cancelling
  <2>4. FrozenAgrees'
    BY <1>6 DEF TakeCheckpoint, AfterSync, LockHeld, HasLock, FrozenAgrees, Unlocked, Freezes,
       Stopping, Syncing, Cancelling
  <2> QED
    BY <2>1, <2>2, <2>3, <2>4
<1>7. ASSUME NEW t \in Threads, SyncRefused(t) \/ SyncWriteFail(t) \/ SyncUpdate(t)
      PROVE  FreezeInv'
  <2>1. InOp'
    BY <1>7 DEF SyncRefused, SyncWriteFail, SyncUpdate, AfterSync, InOp, Steps, Freezes,
       Stopping, Syncing, Cancelling
  <2>2. LockHeld'
    BY <1>7 DEF SyncRefused, SyncWriteFail, SyncUpdate, AfterSync, InOp, Steps, LockHeld,
       HasLock, Unlocked, Freezes, Stopping, Syncing, Cancelling
  <2>3. OneCancels'
    BY <1>7 DEF SyncRefused, SyncWriteFail, SyncUpdate, AfterSync, InOp, Steps, OneCancels,
       Freezes, Stopping, Syncing, Cancelling
  <2>4. FrozenAgrees'
    BY <1>7 DEF SyncRefused, SyncWriteFail, SyncUpdate, AfterSync, LockHeld, HasLock,
       FrozenAgrees, Unlocked, Freezes, Stopping, Syncing, Cancelling
  <2> QED
    BY <2>1, <2>2, <2>3, <2>4
<1>8. ASSUME NEW t \in Threads, SyncLoad(t) \/ SyncCopy(t) \/ SyncWrite(t) PROVE FreezeInv'
  <2>1. InOp'
    BY <1>8 DEF SyncLoad, SyncCopy, SyncWrite, InOp, Steps, Freezes, Stopping, Syncing,
       Cancelling
  <2>2. LockHeld'
    BY <1>8 DEF SyncLoad, SyncCopy, SyncWrite, InOp, Steps, LockHeld, HasLock, Unlocked,
       Freezes, Stopping, Syncing, Cancelling
  <2>3. OneCancels'
    BY <1>8, SMTT(40) DEF SyncLoad, SyncCopy, SyncWrite, InOp, Steps, OneCancels, Freezes,
     Stopping,
       Syncing, Cancelling
  <2>4. FrozenAgrees'
    BY <1>8 DEF SyncLoad, SyncCopy, SyncWrite, LockHeld, HasLock, FrozenAgrees, Unlocked,
       Freezes, Stopping, Syncing, Cancelling
  <2> QED
    BY <2>1, <2>2, <2>3, <2>4
<1>9. ASSUME NEW t \in Threads, CancelMelt(t) PROVE FreezeInv'
  <2>1. InOp'
    BY <1>9 DEF CancelMelt, AfterCancelMelt, InOp, Steps, Freezes, Stopping, Syncing,
       Cancelling
  <2>2. LockHeld'
    BY <1>9 DEF CancelMelt, AfterCancelMelt, InOp, Steps, LockHeld, HasLock, Unlocked,
       Freezes, Stopping, Syncing, Cancelling
  <2>3. OneCancels'
    BY <1>9 DEF CancelMelt, AfterCancelMelt, InOp, Steps, OneCancels, Freezes, Stopping,
       Syncing, Cancelling
  <2>4. FrozenAgrees'
    BY <1>9 DEF CancelMelt, AfterCancelMelt, LockHeld, HasLock, FrozenAgrees, Unlocked,
       Freezes, Stopping, Syncing, Cancelling
  <2> QED
    BY <2>1, <2>2, <2>3, <2>4
<1>10. ASSUME NEW t \in Threads, CancelTimer(t) PROVE FreezeInv'
  <2>1. InOp'
    BY <1>10 DEF CancelTimer, InOp, Steps, Freezes, Stopping, Syncing, Cancelling
  <2>2. LockHeld'
    BY <1>10 DEF CancelTimer, InOp, Steps, LockHeld, HasLock, Unlocked, Freezes, Stopping,
       Syncing, Cancelling
  <2>3. OneCancels'
    BY <1>10 DEF CancelTimer, InOp, Steps, OneCancels, Freezes, Stopping, Syncing, Cancelling
  <2>4. FrozenAgrees'
    BY <1>10 DEF CancelTimer, LockHeld, HasLock, FrozenAgrees, Unlocked, Freezes, Stopping,
       Syncing, Cancelling
  <2> QED
    BY <2>1, <2>2, <2>3, <2>4
<1>11. ASSUME NEW t \in Threads, Canceled(t) PROVE FreezeInv'
  <2>1. InOp'
    BY <1>11 DEF Canceled, AfterCancelMelt, InOp, Steps, Freezes, Stopping, Syncing,
       Cancelling
  <2>2. LockHeld'
    BY <1>11 DEF Canceled, AfterCancelMelt, InOp, Steps, LockHeld, HasLock, Unlocked, Freezes,
       Stopping, Syncing, Cancelling
  <2>3. OneCancels'
    BY <1>11 DEF Canceled, AfterCancelMelt, InOp, Steps, OneCancels, Freezes, Stopping,
       Syncing, Cancelling
  <2>4. FrozenAgrees'
    BY <1>11 DEF Canceled, AfterCancelMelt, OneCancels, LockHeld, HasLock, FrozenAgrees,
       Unlocked, Freezes, Stopping, Syncing, Cancelling
  <2> QED
    BY <2>1, <2>2, <2>3, <2>4
<1>12. ASSUME NEW t \in Threads, FreezeMelted(t) PROVE FreezeInv'
  <2>1. InOp'
    BY <1>12 DEF FreezeMelted, InOp, Steps, Freezes, Stopping, Syncing, Cancelling
  <2>2. LockHeld'
    BY <1>12 DEF FreezeMelted, InOp, Steps, LockHeld, HasLock, Unlocked, Freezes, Stopping,
       Syncing, Cancelling
  <2>3. OneCancels'
    BY <1>12 DEF FreezeMelted, InOp, Steps, OneCancels, Freezes, Stopping, Syncing, Cancelling
  <2>4. FrozenAgrees'
    BY <1>12 DEF FreezeMelted, LockHeld, HasLock, FrozenAgrees, Unlocked, Freezes, Stopping,
       Syncing, Cancelling
  <2> QED
    BY <2>1, <2>2, <2>3, <2>4
<1>13. ASSUME NEW t \in Threads, FreezeEnd(t) PROVE FreezeInv'
  <2>1. freezeLock = t /\ op[t] \in Freezes
    BY <1>13 DEF FreezeEnd, InOp, Steps, LockHeld, HasLock, Freezes, Stopping, Syncing,
       Cancelling
  <2>2. frozen /\ frz \in {"MELTED", "FROZEN"} /\ \A u \in Threads : pc[u] \notin Cancelling
    BY <2>1 DEF LockHeld, Unlocked, OneCancels
  <2>3. InOp'
    BY <1>13 DEF FreezeEnd, SetFrozen, InOp, Steps, Freezes, Stopping, Syncing, Cancelling
  <2>4. LockHeld'
    BY <1>13, <2>1, <2>2 DEF FreezeEnd, SetFrozen, InOp, Steps, LockHeld, HasLock, Unlocked,
       Freezes, Stopping, Syncing, Cancelling
  <2>5. OneCancels'
    BY <1>13, <2>1, <2>2 DEF FreezeEnd, SetFrozen, InOp, Steps, OneCancels, Freezes, Stopping,
       Syncing, Cancelling
  <2>6. FrozenAgrees'
    BY <1>13, <2>1, <2>2 DEF FreezeEnd, SetFrozen, LockHeld, HasLock, FrozenAgrees, Unlocked,
       Freezes, Stopping, Syncing, Cancelling
  <2> QED
    BY <2>3, <2>4, <2>5, <2>6
<1>14. ASSUME NEW t \in Threads, FreezeOther(t) PROVE FreezeInv'
  <2>1. InOp'
    BY <1>14 DEF FreezeOther, SetFrozen, InOp, Steps, Freezes, Stopping, Syncing, Cancelling
  <2>2. LockHeld'
    BY <1>14 DEF FreezeOther, SetFrozen, InOp, Steps, LockHeld, HasLock, Unlocked, Freezes,
       Stopping, Syncing, Cancelling
  <2>3. OneCancels'
    BY <1>14 DEF FreezeOther, SetFrozen, InOp, Steps, OneCancels, Freezes, Stopping, Syncing,
       Cancelling
  <2>4. FrozenAgrees'
    BY <1>14 DEF FreezeOther, SetFrozen, LockHeld, HasLock, FrozenAgrees, Unlocked, Freezes,
       Stopping, Syncing, Cancelling
  <2> QED
    BY <2>1, <2>2, <2>3, <2>4
<1>15. ASSUME NEW t \in Threads, MeltFrozen(t) PROVE FreezeInv'
  <2>1. InOp'
    BY <1>15 DEF MeltFrozen, InOp, Steps, Freezes, Stopping, Syncing, Cancelling
  <2>2. LockHeld'
    BY <1>15 DEF MeltFrozen, FrozenAgrees, InOp, Steps, LockHeld, HasLock, Unlocked, Freezes,
       Stopping, Syncing, Cancelling
  <2>3. OneCancels'
    BY <1>15 DEF MeltFrozen, InOp, Steps, OneCancels, Freezes, Stopping, Syncing, Cancelling
  <2>4. FrozenAgrees'
    BY <1>15 DEF MeltFrozen, LockHeld, HasLock, FrozenAgrees, Unlocked, Freezes, Stopping,
       Syncing, Cancelling
  <2> QED
    BY <2>1, <2>2, <2>3, <2>4
<1>16. ASSUME NEW t \in Threads, MeltEnd(t) PROVE FreezeInv'
  <2>1. freezeLock = t /\ op[t] = "melt_if_frozen"
    BY <1>16 DEF MeltEnd, InOp, Steps, LockHeld, HasLock, Freezes, Stopping, Syncing,
       Cancelling
  <2>2. frozen /\ frz \in {"MELTED", "FROZEN"} /\ \A u \in Threads : pc[u] \notin Cancelling
    BY <2>1 DEF LockHeld, Unlocked, OneCancels
  <2>3. InOp'
    BY <1>16 DEF MeltEnd, InOp, Steps, Freezes, Stopping, Syncing, Cancelling
  <2>4. LockHeld'
    BY <1>16, <2>1, <2>2 DEF MeltEnd, InOp, Steps, LockHeld, HasLock, Unlocked, Freezes,
       Stopping, Syncing, Cancelling
  <2>5. OneCancels'
    BY <1>16, <2>1, <2>2 DEF MeltEnd, InOp, Steps, OneCancels, Freezes, Stopping, Syncing,
       Cancelling
  <2>6. FrozenAgrees'
    BY <1>16, <2>1, <2>2 DEF MeltEnd, LockHeld, HasLock, FrozenAgrees, Unlocked, Freezes,
       Stopping, Syncing, Cancelling
  <2> QED
    BY <2>3, <2>4, <2>5, <2>6
<1>17. ASSUME NEW t \in Threads, MeltOther(t) PROVE FreezeInv'
  <2>1. InOp'
    BY <1>17 DEF MeltOther, InOp, Steps, Freezes, Stopping, Syncing, Cancelling
  <2>2. LockHeld'
    BY <1>17 DEF MeltOther, InOp, Steps, LockHeld, HasLock, Unlocked, Freezes, Stopping,
       Syncing, Cancelling
  <2>3. OneCancels'
    BY <1>17 DEF MeltOther, InOp, Steps, OneCancels, Freezes, Stopping, Syncing, Cancelling
  <2>4. FrozenAgrees'
    BY <1>17 DEF MeltOther, LockHeld, HasLock, FrozenAgrees, Unlocked, Freezes, Stopping,
       Syncing, Cancelling
  <2> QED
    BY <2>1, <2>2, <2>3, <2>4
<1>18. ASSUME UNCHANGED <<op, frz, freezeLock, frozen>>, \A t \in Threads : pc'[t] = pc[t]
      PROVE  FreezeInv'
  BY <1>18 DEF InOp, LockHeld, HasLock, OneCancels, FrozenAgrees, Unlocked
<1>19. ASSUME TaskFire \/ TaskStep \/ MeltFire \/ Write \/ UNCHANGED vars PROVE FreezeInv'
  <2>1. ASSUME TaskFire \/ TaskEnter \/ TaskFail \/ TaskEnd PROVE FreezeInv'
    BY <2>1, <1>18 DEF TaskFire, TaskEnter, TaskFail, TaskEnd
  <2>2. ASSUME TakeCheckpoint(Task) \/ SyncSuperBlock(Task) PROVE FreezeInv'
    BY <2>2, <1>18 DEF TakeCheckpoint, SyncSuperBlock, SyncRefused, SyncLoad, SyncCopy,
     SyncWrite,
       SyncWriteFail, SyncUpdate
  <2>3. ASSUME MeltFire \/ Write \/ UNCHANGED vars PROVE FreezeInv'
    BY <2>3, <1>18 DEF MeltFire, Write, vars
  <2> QED
    BY <1>19, <2>1, <2>2, <2>3, Zenon DEF TaskStep
<1>20. ASSUME TaskMelt PROVE FreezeInv'
  BY <1>20 DEF TaskMelt, TaskMelts, InOp, LockHeld, HasLock, OneCancels, FrozenAgrees, Unlocked,
     Cancelling
<1> HIDE DEF FreezeInv
<1>21. InOp
  BY DEF FreezeInv
<1> QED
  BY <1>1, <1>2, <1>3, <1>4, <1>5, <1>6, <1>7, <1>8, <1>9, <1>10, <1>11, <1>12, <1>13, <1>14,
     <1>15, <1>16, <1>17, <1>19, <1>20, <1>21, NoClearLog, ZenonT(60)
  DEF Next, ThreadStep, Stop, SyncSuperBlock, FreezeMelt

\* Init has the invariant.
LEMMA InitFreeze == Init => FreezeInv
BY ControlAssumption DEF Init, FreezeInv, InOp, LockHeld, HasLock, OneCancels, FrozenAgrees,
     Unlocked,
   Freezes, Stopping, Cancelling, Procs

\* Any threads may freeze and melt the device, with and without a timeout, and the melt timer may
\* expire at any time: freeze_state and is_frozen_usr agree whenever freeze_lock is free.
THEOREM FrozenAgreesThm ==
  ASSUME "clear_log" \notin Ops
  PROVE  Spec => []FrozenAgrees
<1>1. TypeOK /\ FreezeInv /\ [Next]_vars => (TypeOK /\ FreezeInv)'
  BY TypesKept, FreezeKept
<1>2. Spec => [](TypeOK /\ FreezeInv)
  BY <1>1, InitTypes, InitFreeze, PTL DEF Spec
<1>3. FreezeInv => FrozenAgrees
  BY DEF FreezeInv
<1> QED
  BY <1>2, <1>3, PTL

-----------------------------------------------------------------------------
(* The checkpoint task *)

\* Without a failure a step keeps the state of the checkpoint task.
LEMMA CheckpointKept ==
  ASSUME "clear_log" \notin Ops, TypeOK, FreezeInv, CheckpointInv, [Next]_vars, fails = 0, fails' = 0
  PROVE  TaskAgrees' /\ OneStops' /\ Restartable'
<1> DEFINE Goal == TaskAgrees' /\ OneStops' /\ Restartable'
<1> USE ControlAssumption
<1>0. ~readOnly /\ pc[Task] # "fail" /\ TaskAgrees /\ OneStops /\ Restartable
      /\ InOp /\ LockHeld
  BY DEF CheckpointInv, NoFailure, FreezeInv
<1> USE DEF TypeOK, Go, procVars, cpVars, frzVars, Procs
<1>1. ASSUME NEW t \in Threads, NEW o \in Ops, Ioctl(t, o) PROVE Goal
  <2>1. TaskAgrees'
    BY <1>0, <1>1 DEF Ioctl, FirstStep, AllOps, TaskAgrees, OneStops, Stopping
  <2>2. OneStops'
    BY <1>0, <1>1 DEF Ioctl, FirstStep, AllOps, TaskAgrees, OneStops, Stopping, Syncing
  <2>3. Restartable'
    BY <1>0, <1>1 DEF Ioctl, FirstStep, AllOps, Restartable, WillRestart, Restarters, InOp,
       Steps, LockHeld, HasLock, Unlocked, Freezes, Stopping, Syncing, Cancelling
  <2> QED
    BY <2>1, <2>2, <2>3
<1>2. ASSUME NEW t \in Threads, NEW on \in BOOLEAN, SetInterval(t, on) PROVE Goal
  <2>1. TaskAgrees'
    BY <1>0, <1>2 DEF SetInterval, TaskAgrees, OneStops, Stopping
  <2>2. OneStops'
    BY <1>0, <1>2 DEF SetInterval, TaskAgrees, OneStops, Stopping, Syncing
  <2>3. Restartable'
    BY <1>0, <1>2 DEF SetInterval, Restartable, WillRestart, Restarters, InOp, Steps,
       LockHeld, HasLock, Unlocked, Freezes, Stopping, Syncing, Cancelling
  <2> QED
    BY <2>1, <2>2, <2>3
<1>3. ASSUME NEW t \in Threads, StopNothing(t) PROVE Goal
  <2>1. TaskAgrees'
    BY <1>0, <1>3 DEF StopNothing, AfterStop, Stoppable, TaskAgrees, OneStops, Stopping
  <2>2. OneStops'
    BY <1>0, <1>3 DEF StopNothing, AfterStop, Stoppable, TaskAgrees, OneStops, Stopping,
       Syncing
  <2>3. Restartable'
    BY <1>0, <1>3 DEF StopNothing, AfterStop, Stoppable, Restartable, WillRestart, Restarters,
       InOp, Steps, LockHeld, HasLock, Unlocked, Freezes, Stopping, Syncing, Cancelling
  <2> QED
    BY <2>1, <2>2, <2>3
<1>4. ASSUME NEW t \in Threads, StopAnnounce(t) PROVE Goal
  <2>1. TaskAgrees'
    BY <1>0, <1>4 DEF StopAnnounce, Stoppable, TaskAgrees, OneStops, Stopping
  <2>2. OneStops'
    BY <1>0, <1>4 DEF StopAnnounce, Stoppable, TaskAgrees, OneStops, Stopping, Syncing
  <2>3. Restartable'
    BY <1>0, <1>4 DEF StopAnnounce, Stoppable, Restartable, WillRestart, Restarters, InOp,
       Steps, LockHeld, HasLock, Unlocked, Freezes, Stopping, Syncing, Cancelling
  <2> QED
    BY <2>1, <2>2, <2>3
<1>5. ASSUME NEW t \in Threads, StopCancel(t) \/ StopJoin(t) PROVE Goal
  <2>1. TaskAgrees'
    BY <1>0, <1>5 DEF StopCancel, StopJoin, TaskAgrees, OneStops, Stopping
  <2>2. OneStops'
    BY <1>0, <1>5 DEF StopCancel, StopJoin, TaskAgrees, OneStops, Stopping, Syncing
  <2>3. Restartable'
    <3>1. CASE StopCancel(t)
      BY <1>0, <3>1 DEF StopCancel, Restartable, WillRestart, Restarters, InOp, Steps,
         LockHeld, HasLock, Unlocked, Freezes, Stopping, Syncing, Cancelling
    <3>2. CASE StopJoin(t)
      BY <1>0, <3>2 DEF StopJoin, Restartable, WillRestart, Restarters, InOp, Steps,
         LockHeld, HasLock, Unlocked, Freezes, Stopping, Syncing, Cancelling
    <3> QED
      BY <1>5, <3>1, <3>2
  <2> QED
    BY <2>1, <2>2, <2>3
<1>6. ASSUME NEW t \in Threads, StopEnd(t) PROVE Goal
  <2>1. TaskAgrees'
    BY <1>0, <1>6 DEF StopEnd, AfterStop, TaskAgrees, OneStops, Stopping
  <2>2. OneStops'
    BY <1>0, <1>6 DEF StopEnd, AfterStop, TaskAgrees, OneStops, Stopping, Syncing
  <2>3. Restartable'
    BY <1>0, <1>6 DEF StopEnd, AfterStop, Restartable, WillRestart, Restarters, InOp, Steps,
       LockHeld, HasLock, Unlocked, Freezes, Stopping, Syncing, Cancelling
  <2> QED
    BY <2>1, <2>2, <2>3
<1>7. ASSUME NEW t \in Threads, Start(t) PROVE Goal
  <2>1. TaskAgrees'
    BY <1>0, <1>7 DEF Start, StartWork, AfterStart, TaskAgrees, OneStops, Stopping
  <2>2. OneStops'
    BY <1>0, <1>7 DEF Start, StartWork, AfterStart, TaskAgrees, OneStops, Stopping, Syncing
  <2>3. Restartable'
    BY <1>0, <1>7 DEF Start, StartWork, AfterStart, Restartable, WillRestart, Restarters,
       InOp, Steps, LockHeld, HasLock, Unlocked, Freezes, Stopping, Syncing, Cancelling
  <2> QED
    BY <2>1, <2>2, <2>3
<1>8. ASSUME NEW t \in Threads, TakeCheckpoint(t) PROVE Goal
  <2>1. TaskAgrees'
    BY <1>0, <1>8 DEF TakeCheckpoint, AfterSync, TaskAgrees, OneStops, Stopping
  <2>2. OneStops'
    BY <1>0, <1>8 DEF TakeCheckpoint, AfterSync, TaskAgrees, OneStops, Stopping, Syncing
  <2>3. Restartable'
    BY <1>0, <1>8 DEF TakeCheckpoint, AfterSync, Restartable, WillRestart, Restarters, InOp,
       Steps, LockHeld, HasLock, Unlocked, Freezes, Stopping, Syncing, Cancelling
  <2> QED
    BY <2>1, <2>2, <2>3
<1>9. ASSUME NEW t \in Threads, SyncUpdate(t) PROVE Goal
  <2>1. TaskAgrees'
    BY <1>0, <1>9 DEF SyncUpdate, AfterSync, TaskAgrees, OneStops, Stopping
  <2>2. OneStops'
    BY <1>0, <1>9 DEF SyncUpdate, AfterSync, TaskAgrees, OneStops, Stopping, Syncing
  <2>3. Restartable'
    BY <1>0, <1>9 DEF SyncUpdate, AfterSync, Restartable, WillRestart, Restarters, InOp,
       Steps, LockHeld, HasLock, Unlocked, Freezes, Stopping, Syncing, Cancelling
  <2> QED
    BY <2>1, <2>2, <2>3
<1>10. ASSUME NEW t \in Threads, SyncLoad(t) \/ SyncCopy(t) \/ SyncWrite(t) PROVE Goal
  <2>1. TaskAgrees'
    BY <1>0, <1>10 DEF SyncLoad, SyncCopy, SyncWrite, TaskAgrees, OneStops, Stopping
  <2>2. OneStops'
    BY <1>0, <1>10 DEF SyncLoad, SyncCopy, SyncWrite, TaskAgrees, OneStops, Stopping, Syncing
  <2>3. Restartable'
    <3>1. CASE SyncLoad(t)
      BY <1>0, <3>1 DEF SyncLoad, Restartable, WillRestart, Restarters, InOp, Steps,
         LockHeld, HasLock, Unlocked, Freezes, Stopping, Syncing, Cancelling
    <3>2. CASE SyncCopy(t)
      BY <1>0, <3>2 DEF SyncCopy, Restartable, WillRestart, Restarters, InOp, Steps,
         LockHeld, HasLock, Unlocked, Freezes, Stopping, Syncing, Cancelling
    <3>3. CASE SyncWrite(t)
      BY <1>0, <3>3 DEF SyncWrite, Restartable, WillRestart, Restarters, InOp, Steps,
         LockHeld, HasLock, Unlocked, Freezes, Stopping, Syncing, Cancelling
    <3> QED
      BY <1>10, <3>1, <3>2, <3>3
  <2> QED
    BY <2>1, <2>2, <2>3
<1>11. ASSUME NEW t \in Threads, CancelMelt(t) PROVE Goal
  <2>1. TaskAgrees'
    BY <1>0, <1>11 DEF CancelMelt, AfterCancelMelt, TaskAgrees, OneStops, Stopping
  <2>2. OneStops'
    BY <1>0, <1>11, SMTT(40) DEF CancelMelt, AfterCancelMelt, TaskAgrees, OneStops, Stopping, Syncing
  <2>3. Restartable'
    BY <1>0, <1>11 DEF CancelMelt, AfterCancelMelt, Restartable, WillRestart, Restarters,
       InOp, Steps, LockHeld, HasLock, Unlocked, Freezes, Stopping, Syncing, Cancelling
  <2> QED
    BY <2>1, <2>2, <2>3
<1>12. ASSUME NEW t \in Threads, CancelTimer(t) PROVE Goal
  <2>1. TaskAgrees'
    BY <1>0, <1>12 DEF CancelTimer, TaskAgrees, OneStops, Stopping
  <2>2. OneStops'
    BY <1>0, <1>12 DEF CancelTimer, TaskAgrees, OneStops, Stopping, Syncing
  <2>3. Restartable'
    BY <1>0, <1>12 DEF CancelTimer, Restartable, WillRestart, Restarters, InOp, Steps,
       LockHeld, HasLock, Unlocked, Freezes, Stopping, Syncing, Cancelling
  <2> QED
    BY <2>1, <2>2, <2>3
<1>13. ASSUME NEW t \in Threads, Canceled(t) PROVE Goal
  <2>1. TaskAgrees'
    BY <1>0, <1>13 DEF Canceled, AfterCancelMelt, TaskAgrees, OneStops, Stopping
  <2>2. OneStops'
    BY <1>0, <1>13 DEF Canceled, AfterCancelMelt, TaskAgrees, OneStops, Stopping, Syncing
  <2>3. Restartable'
    BY <1>0, <1>13 DEF Canceled, AfterCancelMelt, Restartable, WillRestart, Restarters, InOp,
       Steps, LockHeld, HasLock, Unlocked, Freezes, Stopping, Syncing, Cancelling
  <2> QED
    BY <2>1, <2>2, <2>3
<1>14. ASSUME NEW t \in Threads, FreezeMelted(t) PROVE Goal
  <2>1. TaskAgrees'
    BY <1>0, <1>14 DEF FreezeMelted, TaskAgrees, OneStops, Stopping
  <2>2. OneStops'
    BY <1>0, <1>14 DEF FreezeMelted, TaskAgrees, OneStops, Stopping, Syncing
  <2>3. Restartable'
    BY <1>0, <1>14 DEF FreezeMelted, Restartable, WillRestart, Restarters, InOp, Steps,
       LockHeld, HasLock, Unlocked, Freezes, Stopping, Syncing, Cancelling
  <2> QED
    BY <2>1, <2>2, <2>3
<1>15. ASSUME NEW t \in Threads, FreezeEnd(t) PROVE Goal
  <2>1. TaskAgrees'
    BY <1>0, <1>15 DEF FreezeEnd, SetFrozen, TaskAgrees, OneStops, Stopping
  <2>2. OneStops'
    BY <1>0, <1>15 DEF FreezeEnd, SetFrozen, TaskAgrees, OneStops, Stopping, Syncing
  <2>3. Restartable'
    BY <1>0, <1>15 DEF FreezeEnd, SetFrozen, Restartable, WillRestart, Restarters, InOp,
       Steps, LockHeld, HasLock, Unlocked, Freezes, Stopping, Syncing, Cancelling
  <2> QED
    BY <2>1, <2>2, <2>3
<1>16. ASSUME NEW t \in Threads, FreezeOther(t) PROVE Goal
  <2>1. TaskAgrees'
    BY <1>0, <1>16 DEF FreezeOther, SetFrozen, TaskAgrees, OneStops, Stopping
  <2>2. OneStops'
    BY <1>0, <1>16 DEF FreezeOther, SetFrozen, TaskAgrees, OneStops, Stopping, Syncing
  <2>3. Restartable'
    BY <1>0, <1>16 DEF FreezeOther, SetFrozen, Restartable, WillRestart, Restarters, InOp,
       Steps, LockHeld, HasLock, Unlocked, Freezes, Stopping, Syncing, Cancelling
  <2> QED
    BY <2>1, <2>2, <2>3
<1>17. ASSUME NEW t \in Threads, MeltFrozen(t) PROVE Goal
  <2>1. TaskAgrees'
    BY <1>0, <1>17 DEF MeltFrozen, TaskAgrees, OneStops, Stopping
  <2>2. OneStops'
    BY <1>0, <1>17 DEF MeltFrozen, TaskAgrees, OneStops, Stopping, Syncing
  <2>3. Restartable'
    BY <1>0, <1>17 DEF MeltFrozen, Restartable, WillRestart, Restarters, InOp, Steps,
       LockHeld, HasLock, Unlocked, Freezes, Stopping, Syncing, Cancelling
  <2> QED
    BY <2>1, <2>2, <2>3
<1>18. ASSUME NEW t \in Threads, MeltEnd(t) PROVE Goal
  <2>1. TaskAgrees'
    BY <1>0, <1>18 DEF MeltEnd, TaskAgrees, OneStops, Stopping
  <2>2. OneStops'
    BY <1>0, <1>18 DEF MeltEnd, TaskAgrees, OneStops, Stopping, Syncing
  <2>3. Restartable'
    BY <1>0, <1>18 DEF MeltEnd, Restartable, WillRestart, Restarters, InOp, Steps, LockHeld,
       HasLock, Unlocked, Freezes, Stopping, Syncing, Cancelling
  <2> QED
    BY <2>1, <2>2, <2>3
<1>19. ASSUME NEW t \in Threads, MeltOther(t) PROVE Goal
  <2>1. TaskAgrees'
    BY <1>0, <1>19 DEF MeltOther, TaskAgrees, OneStops, Stopping
  <2>2. OneStops'
    BY <1>0, <1>19 DEF MeltOther, TaskAgrees, OneStops, Stopping, Syncing
  <2>3. Restartable'
    BY <1>0, <1>19 DEF MeltOther, Restartable, WillRestart, Restarters, InOp, Steps, LockHeld,
       HasLock, Unlocked, Freezes, Stopping, Syncing, Cancelling
  <2> QED
    BY <2>1, <2>2, <2>3
<1>20. ASSUME TaskFire PROVE Goal
  <2>1. TaskAgrees'
    BY <1>0, <1>20 DEF TaskFire, TaskAgrees, OneStops, Stopping
  <2>2. OneStops'
    BY <1>0, <1>20 DEF TaskFire, TaskAgrees, OneStops, Stopping, Syncing
  <2>3. Restartable'
    BY <1>0, <1>20 DEF TaskFire, Restartable, WillRestart, Restarters, InOp, Steps, LockHeld,
       HasLock, Unlocked, Freezes, Stopping, Syncing, Cancelling
  <2> QED
    BY <2>1, <2>2, <2>3
<1>21. ASSUME TaskEnter PROVE Goal
  <2>1. TaskAgrees'
    BY <1>0, <1>21 DEF TaskEnter, TaskAgrees, OneStops, Stopping
  <2>2. OneStops'
    BY <1>0, <1>21 DEF TaskEnter, TaskAgrees, OneStops, Stopping, Syncing
  <2>3. Restartable'
    BY <1>0, <1>21 DEF TaskEnter, Restartable, WillRestart, Restarters, InOp, Steps, LockHeld,
       HasLock, Unlocked, Freezes, Stopping, Syncing, Cancelling
  <2> QED
    BY <2>1, <2>2, <2>3
<1>22. ASSUME TaskFail PROVE Goal
  <2>1. TaskAgrees'
    BY <1>0, <1>22 DEF TaskFail, TaskAgrees, OneStops, Stopping
  <2>2. OneStops'
    BY <1>0, <1>22 DEF TaskFail, TaskAgrees, OneStops, Stopping, Syncing
  <2>3. Restartable'
    BY <1>0, <1>22 DEF TaskFail, Restartable, WillRestart, Restarters, InOp, Steps, LockHeld,
       HasLock, Unlocked, Freezes, Stopping, Syncing, Cancelling
  <2> QED
    BY <2>1, <2>2, <2>3
<1>23. ASSUME TaskEnd PROVE Goal
  <2>1. TaskAgrees'
    BY <1>0, <1>23 DEF TaskEnd, TaskAgrees, OneStops, Stopping
  <2>2. OneStops'
    BY <1>0, <1>23 DEF TaskEnd, TaskAgrees, OneStops, Stopping, Syncing
  <2>3. Restartable'
    BY <1>0, <1>23 DEF TaskEnd, Restartable, WillRestart, Restarters, InOp, Steps, LockHeld,
       HasLock, Unlocked, Freezes, Stopping, Syncing, Cancelling
  <2> QED
    BY <2>1, <2>2, <2>3
<1>24. ASSUME TakeCheckpoint(Task) PROVE Goal
  <2>1. TaskAgrees'
    BY <1>0, <1>24 DEF TakeCheckpoint, AfterSync, TaskAgrees, OneStops, Stopping
  <2>2. OneStops'
    BY <1>0, <1>24 DEF TakeCheckpoint, AfterSync, TaskAgrees, OneStops, Stopping, Syncing
  <2>3. Restartable'
    BY <1>0, <1>24 DEF TakeCheckpoint, AfterSync, Restartable, WillRestart, Restarters, InOp,
       Steps, LockHeld, HasLock, Unlocked, Freezes, Stopping, Syncing, Cancelling
  <2> QED
    BY <2>1, <2>2, <2>3
<1>25. ASSUME SyncLoad(Task) \/ SyncCopy(Task) \/ SyncWrite(Task) PROVE Goal
  <2>1. TaskAgrees'
    BY <1>0, <1>25 DEF SyncLoad, SyncCopy, SyncWrite, TaskAgrees, OneStops, Stopping
  <2>2. OneStops'
    BY <1>0, <1>25 DEF SyncLoad, SyncCopy, SyncWrite, TaskAgrees, OneStops, Stopping, Syncing
  <2>3. Restartable'
    <3>1. CASE SyncLoad(Task)
      BY <1>0, <3>1 DEF SyncLoad, Restartable, WillRestart, Restarters, InOp, Steps,
         LockHeld, HasLock, Unlocked, Freezes, Stopping, Syncing, Cancelling
    <3>2. CASE SyncCopy(Task)
      BY <1>0, <3>2 DEF SyncCopy, Restartable, WillRestart, Restarters, InOp, Steps,
         LockHeld, HasLock, Unlocked, Freezes, Stopping, Syncing, Cancelling
    <3>3. CASE SyncWrite(Task)
      BY <1>0, <3>3 DEF SyncWrite, Restartable, WillRestart, Restarters, InOp, Steps,
         LockHeld, HasLock, Unlocked, Freezes, Stopping, Syncing, Cancelling
    <3> QED
      BY <1>25, <3>1, <3>2, <3>3
  <2> QED
    BY <2>1, <2>2, <2>3
<1>26. ASSUME SyncUpdate(Task) PROVE Goal
  <2>1. TaskAgrees'
    BY <1>0, <1>26 DEF SyncUpdate, AfterSync, TaskAgrees, OneStops, Stopping
  <2>2. OneStops'
    BY <1>0, <1>26 DEF SyncUpdate, AfterSync, TaskAgrees, OneStops, Stopping, Syncing
  <2>3. Restartable'
    BY <1>0, <1>26 DEF SyncUpdate, AfterSync, Restartable, WillRestart, Restarters, InOp,
       Steps, LockHeld, HasLock, Unlocked, Freezes, Stopping, Syncing, Cancelling
  <2> QED
    BY <2>1, <2>2, <2>3
<1>27. ASSUME TaskMelt PROVE Goal
  <2>1. TaskAgrees'
    BY <1>0, <1>27 DEF TaskMelt, StartWork, TaskAgrees, OneStops, Stopping
  <2>2. OneStops'
    BY <1>0, <1>27 DEF TaskMelt, StartWork, TaskAgrees, OneStops, Stopping, Syncing
  <2>3. Restartable'
    BY <1>0, <1>27 DEF TaskMelt, StartWork, Restartable, WillRestart, Restarters, InOp, Steps,
       LockHeld, HasLock, Unlocked, Freezes, Stopping, Syncing, Cancelling
  <2> QED
    BY <2>1, <2>2, <2>3
<1>28. ASSUME NEW p \in Procs PROVE ~SyncRefused(p) /\ ~SyncWriteFail(p)
  <2>1. ~Failure
    BY DEF Failure
  <2> QED
    BY <1>0, <2>1, Zenon DEF SyncRefused, SyncWriteFail
<1>29. ASSUME MeltFire \/ Write \/ UNCHANGED vars PROVE Goal
  <2>1. UNCHANGED <<pc, op, cpState, interval, dwork, frz, freezeLock>>
    BY <1>29 DEF MeltFire, Write, vars
  <2> QED
    BY <1>0, <2>1 DEF TaskAgrees, OneStops, Restartable, WillRestart
<1> HIDE DEF Goal
<1>30. Goal
  BY <1>0, <1>1, <1>2, <1>3, <1>4, <1>5, <1>6, <1>7, <1>8, <1>9, <1>10, <1>11, <1>12, <1>13,
     <1>14, <1>15, <1>16, <1>17, <1>18, <1>19, <1>20, <1>21, <1>22, <1>23, <1>24, <1>25, <1>26,
     <1>27, <1>28, <1>29, NoClearLog, ZenonT(60)
  DEF Next, ThreadStep, TaskStep, Stop, SyncSuperBlock, FreezeMelt
<1> QED
  BY <1>30 DEF Goal

\* Nothing fails without being counted.
LEMMA NoFailureKept ==
  ASSUME TypeOK, NoFailure, [Next]_vars
  PROVE  NoFailure' /\ (fails' = 0 => fails = 0)
<1> USE ControlAssumption
<1>1. fails' = fails \/ fails' = fails + 1
  BY Writers, Zenon
  DEF SyncRefused, SyncWriteFail, ResetShrunk, ResetGrowFail, InvalidateFail, Failure
<1>2. fails' = 0 => fails = 0
  BY <1>1 DEF TypeOK
<1>3. ASSUME fails' = 0 PROVE ~readOnly' /\ pc'[Task] # "fail"
  <2>1. fails = 0 /\ ~readOnly /\ pc[Task] # "fail"
    BY <1>2, <1>3 DEF NoFailure
  <2>2. ~Failure
    BY <1>3, <2>1 DEF Failure
  <2>3. readOnly' = readOnly
    BY <2>2, Writers, Zenon DEF SyncWriteFail, ResetGrowFail, InvalidateFail
  <2>4. pc'[Task] = pc[Task] \/ TaskFire \/ TaskStep
    BY OneMoves DEF Go, TypeOK, Procs
  <2>5. ASSUME TaskFire \/ TaskEnter \/ TaskFail \/ TaskEnd PROVE pc'[Task] # "fail"
    BY <2>5, <2>1 DEF TaskFire, TaskEnter, TaskFail, TaskEnd, Go, TypeOK, Procs
  <2>6. ASSUME TakeCheckpoint(Task) \/ SyncSuperBlock(Task) PROVE pc'[Task] # "fail"
    BY <2>6, <2>1, <2>2 DEF TakeCheckpoint, SyncSuperBlock, SyncRefused, SyncLoad, SyncCopy,
       SyncWrite, SyncWriteFail, SyncUpdate, AfterSync, Go, TypeOK, Procs
  <2> QED
    BY <2>1, <2>3, <2>4, <2>5, <2>6, Zenon DEF TaskStep
<1> QED
  BY <1>2, <1>3 DEF NoFailure

\* Init has the invariant.
LEMMA InitCheckpoint == Init => CheckpointInv
BY ControlAssumption DEF Init, CheckpointInv, NoFailure, TaskAgrees, OneStops, Restartable,
     Stopping,
   Procs

\* However the ioctls of any threads overlap, none of them loses the checkpoint task: when all have
\* returned without a failure and the device is melted, the task is scheduled or running.
THEOREM CheckpointSurvivesThm ==
  ASSUME "clear_log" \notin Ops
  PROVE  Spec => []CheckpointSurvives
<1> DEFINE Inv == TypeOK /\ FreezeInv /\ CheckpointInv
<1>1. Inv /\ [Next]_vars => Inv'
  <2> SUFFICES ASSUME Inv, [Next]_vars PROVE Inv'
    OBVIOUS
  <2>1. TypeOK' /\ FreezeInv'
    BY TypesKept, FreezeKept
  <2>2. NoFailure' /\ (fails' = 0 => fails = 0)
    BY NoFailureKept DEF CheckpointInv
  <2>3. ASSUME fails' = 0 PROVE TaskAgrees' /\ OneStops' /\ Restartable'
    BY <2>2, <2>3, CheckpointKept
  <2> QED
    BY <2>1, <2>2, <2>3, Zenon DEF CheckpointInv
<1>2. Init => Inv
  BY InitTypes, InitFreeze, InitCheckpoint
<1>3. Inv => CheckpointSurvives
  BY ControlAssumption
  DEF CheckpointSurvives, TypeOK, FreezeInv, LockHeld, HasLock, Freezes, Stopping,
     CheckpointInv,
      TaskAgrees, OneStops, Restartable, WillRestart
<1> HIDE DEF Inv
<1> QED
  BY <1>1, <1>2, <1>3, PTL DEF Spec

-----------------------------------------------------------------------------
(* clear_log and the super block *)

\* One thread at a time issues ioctls.
OneThread == \A t, u \in Threads : t = u

\* Nothing fails while a melt timer may be set: the task that fails in CP_STOPPING stores
\* CP_STOPPED, task_melt then starts it again, and the stopper stores CP_STOPPED in turn.
TimerSafe == "freeze_timeout" \in Ops => fails = 0

\* Where a thread may be, in clear_log too.
ClearSteps(o) ==
  IF o = "clear_log"
    THEN {"freeze_deep", "stop", "reset", "zero", "salt", "invalidate", "restore", "start",
          "melt_deep"} \cup Stopping \cup Syncing
    ELSE Steps(o)

InAnyOp ==
  \A t \in Threads : /\ pc[t] = "idle" \/ pc[t] \in ClearSteps(op[t])
                     /\ op[t] \in Ops \cup {"none", "melt_if_frozen"}

\* The parts of clear_log: the device is frozen, checkpointing is stopped, the lsids are 0.
Clearing(t) == op[t] = "clear_log" /\ pc[t] \notin {"idle", "freeze_deep"}
ZeroLsids(t) == op[t] = "clear_log" /\ pc[t] \in {"salt", "invalidate", "restore"} \cup Syncing
Saved(t) == (op[t] = "clear_log" /\ pc[t] = "zero") \/ ZeroLsids(t)
Resetting(t) == (op[t] = "clear_log" /\ pc[t] = "reset") \/ Saved(t)

DeepFrozen ==
  /\ \A t \in Threads : Clearing(t) => frozen /\ frz = "FROZEN_DEEP"
  /\ frz = "CANCELING" => \E t \in Threads : pc[t] \in Cancelling
  /\ frz = "FROZEN_TIMEO" => "freeze_timeout" \in Ops

\* No task is queued or runs once checkpointing is stopped.
StoppedQuiet ==
  /\ pc[Task] # "idle" => ~dwork
  /\ cpState = "STOPPED" => ~dwork /\ pc[Task] = "idle"
  /\ \A t \in Threads : pc[t] \in Stopping =>
       cpState = "STOPPING" \/ (cpState = "STOPPED" /\ "freeze_timeout" \notin Ops)
  /\ cpState = "STOPPING" => \E t \in Threads : pc[t] \in Stopping
  /\ \A t \in Threads : pc[t] \in {"join", "stopped"} => ~dwork
  /\ \A t \in Threads : pc[t] = "stopped" => pc[Task] = "idle"
  /\ \A t \in Threads : Resetting(t) => cpState = "STOPPED"

\* What a sync has loaded is not more than what is written.
CopiesAgree ==
  /\ \A p \in Procs : pc[p] \in {"copy", "write", "update"} => copy[p].written <= written
  /\ \A p \in Procs : pc[p] = "write" => copy[p].salt = salt
  /\ \A t \in Threads : ZeroLsids(t) => written = 0
  /\ \A t \in Threads : Saved(t) => backup[t][2] <= backup[t][1]

SuperAgrees ==
  /\ prevWritten <= written
  /\ super.salt <= salt
  /\ \/ readOnly
     \/ \E t \in Threads : op[t] = "clear_log" /\ pc[t] = "salt"
     \/ super.salt = salt => super.written <= written
  /\ fails = 0 =>
       \/ super.salt = salt
       \/ \E t \in Threads : op[t] = "clear_log" /\ pc[t] \in {"test", "copy", "write"}

ClearInv ==
  InAnyOp /\ NoFailure /\ (TimerSafe => DeepFrozen /\ StoppedQuiet /\ CopiesAgree /\ SuperAgrees)

\* Every step keeps a thread inside its ioctl.
LEMMA InAnyOpKept ==
  ASSUME TypeOK, InAnyOp, [Next]_vars
  PROVE  InAnyOp'
<1> USE ControlAssumption
<1> USE DEF TypeOK, Go, procVars, cpVars, frzVars, lsidVars, Procs
<1>1. ASSUME NEW t \in Threads, NEW o \in Ops, Ioctl(t, o) PROVE InAnyOp'
  BY <1>1 DEF Ioctl, FirstStep, AllOps, InAnyOp, ClearSteps, Steps, Stopping, Syncing,
     Cancelling, Freezes
<1>2. ASSUME NEW t \in Threads, NEW on \in BOOLEAN, SetInterval(t, on) PROVE InAnyOp'
  BY <1>2 DEF SetInterval, InAnyOp, ClearSteps, Steps, Stopping, Syncing, Cancelling, Freezes
<1>3. ASSUME NEW t \in Threads, StopNothing(t) \/ StopEnd(t) PROVE InAnyOp'
  BY <1>3 DEF StopNothing, StopEnd, AfterStop, Stoppable, InAnyOp, ClearSteps, Steps,
     Stopping, Syncing, Cancelling, Freezes
<1>4. ASSUME NEW t \in Threads, StopAnnounce(t) \/ StopCancel(t) \/ StopJoin(t) PROVE InAnyOp'
  BY <1>4 DEF StopAnnounce, StopCancel, StopJoin, Stoppable, InAnyOp, ClearSteps, Steps,
     Stopping, Syncing, Cancelling, Freezes
<1>5. ASSUME NEW t \in Threads, Start(t) PROVE InAnyOp'
  BY <1>5 DEF Start, StartWork, AfterStart, InAnyOp, ClearSteps, Steps, Stopping, Syncing,
     Cancelling, Freezes
<1>6. ASSUME NEW p \in Procs, TakeCheckpoint(p) PROVE InAnyOp'
  BY <1>6 DEF TakeCheckpoint, AfterSync, InAnyOp, ClearSteps, Steps, Stopping, Syncing,
     Cancelling, Freezes
<1>7. ASSUME NEW p \in Procs, SyncRefused(p) \/ SyncWriteFail(p) PROVE InAnyOp'
  BY <1>7 DEF SyncRefused, SyncWriteFail, AfterSync, Failure, InAnyOp, ClearSteps, Steps,
     Stopping, Syncing, Cancelling, Freezes
<1>8. ASSUME NEW p \in Procs, SyncLoad(p) \/ SyncCopy(p) PROVE InAnyOp'
  BY <1>8 DEF SyncLoad, SyncCopy, InAnyOp, ClearSteps, Steps, Stopping, Syncing, Cancelling,
     Freezes
<1>9. ASSUME NEW p \in Procs, SyncWrite(p) PROVE InAnyOp'
  BY <1>9 DEF SyncWrite, InAnyOp, ClearSteps, Steps, Stopping, Syncing, Cancelling, Freezes
<1>10. ASSUME NEW p \in Procs, SyncUpdate(p) PROVE InAnyOp'
  BY <1>10 DEF SyncUpdate, AfterSync, InAnyOp, ClearSteps, Steps, Stopping, Syncing,
     Cancelling, Freezes
<1>11. ASSUME NEW t \in Threads, CancelMelt(t) \/ Canceled(t) PROVE InAnyOp'
  BY <1>11 DEF CancelMelt, Canceled, AfterCancelMelt, InAnyOp, ClearSteps, Steps, Stopping,
     Syncing, Cancelling, Freezes
<1>12. ASSUME NEW t \in Threads, CancelTimer(t) \/ FreezeMelted(t) PROVE InAnyOp'
  BY <1>12 DEF CancelTimer, FreezeMelted, InAnyOp, ClearSteps, Steps, Stopping, Syncing,
     Cancelling, Freezes
<1>13. ASSUME NEW t \in Threads, FreezeEnd(t) \/ FreezeOther(t) PROVE InAnyOp'
  BY <1>13 DEF FreezeEnd, FreezeOther, SetFrozen, InAnyOp, ClearSteps, Steps, Stopping,
     Syncing, Cancelling, Freezes
<1>14. ASSUME NEW t \in Threads, MeltFrozen(t) \/ MeltEnd(t) \/ MeltOther(t) PROVE InAnyOp'
  BY <1>14 DEF MeltFrozen, MeltEnd, MeltOther, InAnyOp, ClearSteps, Steps, Stopping, Syncing,
     Cancelling, Freezes
<1>15. ASSUME NEW t \in Threads, FreezeDeep(t) \/ MeltDeep(t) PROVE InAnyOp'
  BY <1>15 DEF FreezeDeep, MeltDeep, InAnyOp, ClearSteps, Steps, Stopping, Syncing,
     Cancelling, Freezes
<1>16. ASSUME NEW t \in Threads, SaveLsids(t) \/ ResetLsids(t) PROVE InAnyOp'
  BY <1>16 DEF SaveLsids, ResetLsids, BackupLsids, InAnyOp, ClearSteps, Steps, Stopping,
     Syncing,
     Cancelling, Freezes
<1>17. ASSUME NEW t \in Threads, ResetShrunk(t) \/ ResetGrowFail(t) PROVE InAnyOp'
  BY <1>17 DEF ResetShrunk, ResetGrowFail, Failure, InAnyOp, ClearSteps, Steps, Stopping,
     Syncing, Cancelling, Freezes
<1>18. ASSUME NEW t \in Threads, NewSalt(t) PROVE InAnyOp'
  BY <1>18 DEF NewSalt, InAnyOp, ClearSteps, Steps, Stopping, Syncing, Cancelling, Freezes
<1>19. ASSUME NEW t \in Threads, Invalidate(t) \/ InvalidateFail(t) PROVE InAnyOp'
  BY <1>19 DEF Invalidate, InvalidateFail, Failure, InAnyOp, ClearSteps, Steps, Stopping,
     Syncing, Cancelling, Freezes
<1>20. ASSUME NEW t \in Threads, RestoreLsids(t) PROVE InAnyOp'
  BY <1>20 DEF RestoreLsids, InAnyOp, ClearSteps, Steps, Stopping, Syncing, Cancelling,
     Freezes
<1>21. ASSUME TaskFire \/ TaskEnter \/ TaskFail \/ TaskEnd PROVE InAnyOp'
  BY <1>21 DEF TaskFire, TaskEnter, TaskFail, TaskEnd, InAnyOp, ClearSteps, Steps, Stopping,
     Syncing, Cancelling, Freezes
<1>22. ASSUME TaskMelt PROVE InAnyOp'
  BY <1>22 DEF TaskMelt, TaskMelts, StartWork, InAnyOp, ClearSteps, Steps, Stopping, Syncing,
     Cancelling, Freezes
<1>23. ASSUME MeltFire \/ Write \/ UNCHANGED vars PROVE InAnyOp'
  BY <1>23 DEF MeltFire, Write, vars, InAnyOp, ClearSteps, Steps, Stopping, Syncing,
     Cancelling, Freezes
<1> QED
  BY <1>1, <1>2, <1>3, <1>4, <1>5, <1>6, <1>7, <1>8, <1>9, <1>10, <1>11, <1>12, <1>13, <1>14,
     <1>15, <1>16, <1>17, <1>18, <1>19, <1>20, <1>21, <1>22, <1>23, Zenon
  DEF Next, ThreadStep, TaskStep, Stop, SyncSuperBlock, FreezeMelt, ClearLog

\* The device stays frozen through clear_log.
LEMMA DeepFrozenKept ==
  ASSUME OneThread, TypeOK, InAnyOp, DeepFrozen, [Next]_vars
  PROVE  DeepFrozen'
<1> USE ControlAssumption
<1> USE DEF TypeOK, Go, procVars, cpVars, frzVars, lsidVars, Procs
<1>1. ASSUME NEW t \in Threads, NEW o \in Ops, Ioctl(t, o) PROVE DeepFrozen'
  BY <1>1 DEF Ioctl, FirstStep, AllOps, OneThread, InAnyOp, ClearSteps, Steps, DeepFrozen,
     Clearing, ZeroLsids, Saved, Resetting, Stopping, Syncing, Cancelling, Freezes
<1>2. ASSUME NEW t \in Threads, NEW on \in BOOLEAN, SetInterval(t, on) PROVE DeepFrozen'
  BY <1>2 DEF SetInterval, OneThread, InAnyOp, ClearSteps, Steps, DeepFrozen, Clearing,
     ZeroLsids, Saved, Resetting, Stopping, Syncing, Cancelling, Freezes
<1>3. ASSUME NEW t \in Threads, StopNothing(t) \/ StopEnd(t) PROVE DeepFrozen'
  BY <1>3 DEF StopNothing, StopEnd, AfterStop, Stoppable, OneThread, InAnyOp, ClearSteps,
     Steps, DeepFrozen, Clearing, ZeroLsids, Saved, Resetting, Stopping, Syncing, Cancelling,
     Freezes
<1>4. ASSUME NEW t \in Threads, StopAnnounce(t) \/ StopCancel(t) \/ StopJoin(t) PROVE DeepFrozen'
  BY <1>4 DEF StopAnnounce, StopCancel, StopJoin, Stoppable, OneThread, InAnyOp, ClearSteps,
     Steps, DeepFrozen, Clearing, ZeroLsids, Saved, Resetting, Stopping, Syncing, Cancelling,
     Freezes
<1>5. ASSUME NEW t \in Threads, Start(t) PROVE DeepFrozen'
  BY <1>5 DEF Start, StartWork, AfterStart, OneThread, InAnyOp, ClearSteps, Steps, DeepFrozen,
     Clearing, ZeroLsids, Saved, Resetting, Stopping, Syncing, Cancelling, Freezes
<1>6. ASSUME NEW p \in Procs, TakeCheckpoint(p) PROVE DeepFrozen'
  BY <1>6 DEF TakeCheckpoint, AfterSync, OneThread, InAnyOp, ClearSteps, Steps, DeepFrozen,
     Clearing, ZeroLsids, Saved, Resetting, Stopping, Syncing, Cancelling, Freezes
<1>7. ASSUME NEW p \in Procs, SyncRefused(p) \/ SyncWriteFail(p) PROVE DeepFrozen'
  BY <1>7 DEF SyncRefused, SyncWriteFail, AfterSync, Failure, OneThread, InAnyOp, ClearSteps,
     Steps, DeepFrozen, Clearing, ZeroLsids, Saved, Resetting, Stopping, Syncing, Cancelling,
     Freezes
<1>8. ASSUME NEW p \in Procs, SyncLoad(p) \/ SyncCopy(p) PROVE DeepFrozen'
  BY <1>8 DEF SyncLoad, SyncCopy, OneThread, InAnyOp, ClearSteps, Steps, DeepFrozen, Clearing,
     ZeroLsids, Saved, Resetting, Stopping, Syncing, Cancelling, Freezes
<1>9. ASSUME NEW p \in Procs, SyncWrite(p) PROVE DeepFrozen'
  BY <1>9 DEF SyncWrite, OneThread, InAnyOp, ClearSteps, Steps, DeepFrozen, Clearing,
     ZeroLsids, Saved, Resetting, Stopping, Syncing, Cancelling, Freezes
<1>10. ASSUME NEW p \in Procs, SyncUpdate(p) PROVE DeepFrozen'
  BY <1>10 DEF SyncUpdate, AfterSync, OneThread, InAnyOp, ClearSteps, Steps, DeepFrozen,
     Clearing, ZeroLsids, Saved, Resetting, Stopping, Syncing, Cancelling, Freezes
<1>11. ASSUME NEW t \in Threads, CancelMelt(t) \/ Canceled(t) PROVE DeepFrozen'
  BY <1>11 DEF CancelMelt, Canceled, AfterCancelMelt, OneThread, InAnyOp, ClearSteps, Steps,
     DeepFrozen, Clearing, ZeroLsids, Saved, Resetting, Stopping, Syncing, Cancelling, Freezes
<1>12. ASSUME NEW t \in Threads, CancelTimer(t) \/ FreezeMelted(t) PROVE DeepFrozen'
  BY <1>12 DEF CancelTimer, FreezeMelted, OneThread, InAnyOp, ClearSteps, Steps, DeepFrozen,
     Clearing, ZeroLsids, Saved, Resetting, Stopping, Syncing, Cancelling, Freezes
<1>13. ASSUME NEW t \in Threads, FreezeEnd(t) \/ FreezeOther(t) PROVE DeepFrozen'
  BY <1>13 DEF FreezeEnd, FreezeOther, SetFrozen, OneThread, InAnyOp, ClearSteps, Steps,
     DeepFrozen, Clearing, ZeroLsids, Saved, Resetting, Stopping, Syncing, Cancelling, Freezes
<1>14. ASSUME NEW t \in Threads, MeltFrozen(t) \/ MeltEnd(t) \/ MeltOther(t) PROVE DeepFrozen'
  BY <1>14 DEF MeltFrozen, MeltEnd, MeltOther, OneThread, InAnyOp, ClearSteps, Steps,
     DeepFrozen, Clearing, ZeroLsids, Saved, Resetting, Stopping, Syncing, Cancelling, Freezes
<1>15. ASSUME NEW t \in Threads, FreezeDeep(t) \/ MeltDeep(t) PROVE DeepFrozen'
  BY <1>15 DEF FreezeDeep, MeltDeep, OneThread, InAnyOp, ClearSteps, Steps, DeepFrozen,
     Clearing, ZeroLsids, Saved, Resetting, Stopping, Syncing, Cancelling, Freezes
<1>16. ASSUME NEW t \in Threads, SaveLsids(t) \/ ResetLsids(t) PROVE DeepFrozen'
  BY <1>16 DEF SaveLsids, ResetLsids, BackupLsids, OneThread, InAnyOp, ClearSteps, Steps,
     DeepFrozen,
     Clearing, ZeroLsids, Saved, Resetting, Stopping, Syncing, Cancelling, Freezes
<1>17. ASSUME NEW t \in Threads, ResetShrunk(t) \/ ResetGrowFail(t) PROVE DeepFrozen'
  BY <1>17 DEF ResetShrunk, ResetGrowFail, Failure, OneThread, InAnyOp, ClearSteps, Steps,
     DeepFrozen, Clearing, ZeroLsids, Saved, Resetting, Stopping, Syncing, Cancelling, Freezes
<1>18. ASSUME NEW t \in Threads, NewSalt(t) PROVE DeepFrozen'
  BY <1>18 DEF NewSalt, OneThread, InAnyOp, ClearSteps, Steps, DeepFrozen, Clearing,
     ZeroLsids, Saved, Resetting, Stopping, Syncing, Cancelling, Freezes
<1>19. ASSUME NEW t \in Threads, Invalidate(t) \/ InvalidateFail(t) PROVE DeepFrozen'
  BY <1>19 DEF Invalidate, InvalidateFail, Failure, OneThread, InAnyOp, ClearSteps, Steps,
     DeepFrozen, Clearing, ZeroLsids, Saved, Resetting, Stopping, Syncing, Cancelling, Freezes
<1>20. ASSUME NEW t \in Threads, RestoreLsids(t) PROVE DeepFrozen'
  BY <1>20 DEF RestoreLsids, OneThread, InAnyOp, ClearSteps, Steps, DeepFrozen, Clearing,
     ZeroLsids, Saved, Resetting, Stopping, Syncing, Cancelling, Freezes
<1>21. ASSUME TaskFire \/ TaskEnter \/ TaskFail \/ TaskEnd PROVE DeepFrozen'
  BY <1>21 DEF TaskFire, TaskEnter, TaskFail, TaskEnd, OneThread, InAnyOp, ClearSteps, Steps,
     DeepFrozen, Clearing, ZeroLsids, Saved, Resetting, Stopping, Syncing, Cancelling, Freezes
<1>22. ASSUME TaskMelt PROVE DeepFrozen'
  BY <1>22 DEF TaskMelt, TaskMelts, StartWork, OneThread, InAnyOp, ClearSteps, Steps,
     DeepFrozen, Clearing, ZeroLsids, Saved, Resetting, Stopping, Syncing, Cancelling, Freezes
<1>23. ASSUME MeltFire \/ Write \/ UNCHANGED vars PROVE DeepFrozen'
  BY <1>23 DEF MeltFire, Write, vars, OneThread, InAnyOp, ClearSteps, Steps, DeepFrozen,
     Clearing, ZeroLsids, Saved, Resetting, Stopping, Syncing, Cancelling, Freezes
<1> QED
  BY <1>1, <1>2, <1>3, <1>4, <1>5, <1>6, <1>7, <1>8, <1>9, <1>10, <1>11, <1>12, <1>13, <1>14,
     <1>15, <1>16, <1>17, <1>18, <1>19, <1>20, <1>21, <1>22, <1>23, Zenon
  DEF Next, ThreadStep, TaskStep, Stop, SyncSuperBlock, FreezeMelt, ClearLog

\* Checkpointing stays stopped through clear_log.
LEMMA StoppedQuietKept ==
  ASSUME OneThread, TypeOK, InAnyOp, DeepFrozen, StoppedQuiet,
         "freeze_timeout" \in Ops => pc[Task] # "fail", [Next]_vars
  PROVE  StoppedQuiet'
<1> USE ControlAssumption
<1> USE DEF TypeOK, Go, procVars, cpVars, frzVars, lsidVars, Procs
<1>1. ASSUME NEW t \in Threads, NEW o \in Ops, Ioctl(t, o) PROVE StoppedQuiet'
  BY <1>1 DEF Ioctl, FirstStep, AllOps, OneThread, InAnyOp, ClearSteps, Steps, DeepFrozen,
     StoppedQuiet, Clearing, ZeroLsids, Saved, Resetting, Stopping, Syncing, Cancelling, Freezes
<1>2. ASSUME NEW t \in Threads, NEW on \in BOOLEAN, SetInterval(t, on) PROVE StoppedQuiet'
  BY <1>2 DEF SetInterval, OneThread, InAnyOp, ClearSteps, Steps, DeepFrozen, StoppedQuiet,
     Clearing, ZeroLsids, Saved, Resetting, Stopping, Syncing, Cancelling, Freezes
<1>3. ASSUME NEW t \in Threads, StopNothing(t) \/ StopEnd(t) PROVE StoppedQuiet'
  BY <1>3 DEF StopNothing, StopEnd, AfterStop, Stoppable, OneThread, InAnyOp, ClearSteps,
     Steps, DeepFrozen, StoppedQuiet, Clearing, ZeroLsids, Saved, Resetting, Stopping, Syncing,
     Cancelling, Freezes
<1>4. ASSUME NEW t \in Threads, StopAnnounce(t) \/ StopCancel(t) \/ StopJoin(t) PROVE StoppedQuiet'
  BY <1>4 DEF StopAnnounce, StopCancel, StopJoin, Stoppable, OneThread, InAnyOp, ClearSteps,
     Steps, DeepFrozen, StoppedQuiet, Clearing, ZeroLsids, Saved, Resetting, Stopping, Syncing,
     Cancelling, Freezes
<1>5. ASSUME NEW t \in Threads, Start(t) PROVE StoppedQuiet'
  BY <1>5 DEF Start, StartWork, AfterStart, OneThread, InAnyOp, ClearSteps, Steps, DeepFrozen,
     StoppedQuiet, Clearing, ZeroLsids, Saved, Resetting, Stopping, Syncing, Cancelling, Freezes
<1>6. ASSUME NEW p \in Procs, TakeCheckpoint(p) PROVE StoppedQuiet'
  BY <1>6 DEF TakeCheckpoint, AfterSync, OneThread, InAnyOp, ClearSteps, Steps, DeepFrozen,
     StoppedQuiet, Clearing, ZeroLsids, Saved, Resetting, Stopping, Syncing, Cancelling, Freezes
<1>7. ASSUME NEW p \in Procs, SyncRefused(p) \/ SyncWriteFail(p) PROVE StoppedQuiet'
  BY <1>7 DEF SyncRefused, SyncWriteFail, AfterSync, Failure, OneThread, InAnyOp, ClearSteps,
     Steps, DeepFrozen, StoppedQuiet, Clearing, ZeroLsids, Saved, Resetting, Stopping, Syncing,
     Cancelling, Freezes
<1>8. ASSUME NEW p \in Procs, SyncLoad(p) \/ SyncCopy(p) PROVE StoppedQuiet'
  BY <1>8 DEF SyncLoad, SyncCopy, OneThread, InAnyOp, ClearSteps, Steps, DeepFrozen,
     StoppedQuiet, Clearing, ZeroLsids, Saved, Resetting, Stopping, Syncing, Cancelling, Freezes
<1>9. ASSUME NEW p \in Procs, SyncWrite(p) PROVE StoppedQuiet'
  BY <1>9 DEF SyncWrite, OneThread, InAnyOp, ClearSteps, Steps, DeepFrozen, StoppedQuiet,
     Clearing, ZeroLsids, Saved, Resetting, Stopping, Syncing, Cancelling, Freezes
<1>10. ASSUME NEW p \in Procs, SyncUpdate(p) PROVE StoppedQuiet'
  BY <1>10 DEF SyncUpdate, AfterSync, OneThread, InAnyOp, ClearSteps, Steps, DeepFrozen,
     StoppedQuiet, Clearing, ZeroLsids, Saved, Resetting, Stopping, Syncing, Cancelling, Freezes
<1>11. ASSUME NEW t \in Threads, CancelMelt(t) \/ Canceled(t) PROVE StoppedQuiet'
  BY <1>11 DEF CancelMelt, Canceled, AfterCancelMelt, OneThread, InAnyOp, ClearSteps, Steps,
     DeepFrozen, StoppedQuiet, Clearing, ZeroLsids, Saved, Resetting, Stopping, Syncing,
     Cancelling,
     Freezes
<1>12. ASSUME NEW t \in Threads, CancelTimer(t) \/ FreezeMelted(t) PROVE StoppedQuiet'
  BY <1>12 DEF CancelTimer, FreezeMelted, OneThread, InAnyOp, ClearSteps, Steps, DeepFrozen,
     StoppedQuiet, Clearing, ZeroLsids, Saved, Resetting, Stopping, Syncing, Cancelling, Freezes
<1>13. ASSUME NEW t \in Threads, FreezeEnd(t) \/ FreezeOther(t) PROVE StoppedQuiet'
  BY <1>13 DEF FreezeEnd, FreezeOther, SetFrozen, OneThread, InAnyOp, ClearSteps, Steps,
     DeepFrozen, StoppedQuiet, Clearing, ZeroLsids, Saved, Resetting, Stopping, Syncing,
     Cancelling,
     Freezes
<1>14. ASSUME NEW t \in Threads, MeltFrozen(t) \/ MeltEnd(t) \/ MeltOther(t) PROVE StoppedQuiet'
  BY <1>14 DEF MeltFrozen, MeltEnd, MeltOther, OneThread, InAnyOp, ClearSteps, Steps,
     DeepFrozen, StoppedQuiet, Clearing, ZeroLsids, Saved, Resetting, Stopping, Syncing,
     Cancelling,
     Freezes
<1>15. ASSUME NEW t \in Threads, FreezeDeep(t) \/ MeltDeep(t) PROVE StoppedQuiet'
  BY <1>15 DEF FreezeDeep, MeltDeep, OneThread, InAnyOp, ClearSteps, Steps, DeepFrozen,
     StoppedQuiet, Clearing, ZeroLsids, Saved, Resetting, Stopping, Syncing, Cancelling, Freezes
<1>16. ASSUME NEW t \in Threads, SaveLsids(t) \/ ResetLsids(t) PROVE StoppedQuiet'
  BY <1>16 DEF SaveLsids, ResetLsids, BackupLsids, OneThread, InAnyOp, ClearSteps, Steps,
     DeepFrozen,
     StoppedQuiet, Clearing, ZeroLsids, Saved, Resetting, Stopping, Syncing, Cancelling, Freezes
<1>17. ASSUME NEW t \in Threads, ResetShrunk(t) \/ ResetGrowFail(t) PROVE StoppedQuiet'
  BY <1>17 DEF ResetShrunk, ResetGrowFail, Failure, OneThread, InAnyOp, ClearSteps, Steps,
     DeepFrozen, StoppedQuiet, Clearing, ZeroLsids, Saved, Resetting, Stopping, Syncing,
     Cancelling,
     Freezes
<1>18. ASSUME NEW t \in Threads, NewSalt(t) PROVE StoppedQuiet'
  BY <1>18 DEF NewSalt, OneThread, InAnyOp, ClearSteps, Steps, DeepFrozen, StoppedQuiet,
     Clearing, ZeroLsids, Saved, Resetting, Stopping, Syncing, Cancelling, Freezes
<1>19. ASSUME NEW t \in Threads, Invalidate(t) \/ InvalidateFail(t) PROVE StoppedQuiet'
  BY <1>19 DEF Invalidate, InvalidateFail, Failure, OneThread, InAnyOp, ClearSteps, Steps,
     DeepFrozen, StoppedQuiet, Clearing, ZeroLsids, Saved, Resetting, Stopping, Syncing,
     Cancelling,
     Freezes
<1>20. ASSUME NEW t \in Threads, RestoreLsids(t) PROVE StoppedQuiet'
  BY <1>20 DEF RestoreLsids, OneThread, InAnyOp, ClearSteps, Steps, DeepFrozen, StoppedQuiet,
     Clearing, ZeroLsids, Saved, Resetting, Stopping, Syncing, Cancelling, Freezes
<1>21. ASSUME TaskFire \/ TaskEnter \/ TaskFail \/ TaskEnd PROVE StoppedQuiet'
  BY <1>21 DEF TaskFire, TaskEnter, TaskFail, TaskEnd, OneThread, InAnyOp, ClearSteps, Steps,
     DeepFrozen, StoppedQuiet, Clearing, ZeroLsids, Saved, Resetting, Stopping, Syncing,
     Cancelling,
     Freezes
<1>22. ASSUME TaskMelt PROVE StoppedQuiet'
  BY <1>22 DEF TaskMelt, TaskMelts, StartWork, OneThread, InAnyOp, ClearSteps, Steps,
     DeepFrozen, StoppedQuiet, Clearing, ZeroLsids, Saved, Resetting, Stopping, Syncing,
     Cancelling,
     Freezes
<1>23. ASSUME MeltFire \/ Write \/ UNCHANGED vars PROVE StoppedQuiet'
  BY <1>23 DEF MeltFire, Write, vars, OneThread, InAnyOp, ClearSteps, Steps, DeepFrozen,
     StoppedQuiet, Clearing, ZeroLsids, Saved, Resetting, Stopping, Syncing, Cancelling, Freezes
<1> QED
  BY <1>1, <1>2, <1>3, <1>4, <1>5, <1>6, <1>7, <1>8, <1>9, <1>10, <1>11, <1>12, <1>13, <1>14,
     <1>15, <1>16, <1>17, <1>18, <1>19, <1>20, <1>21, <1>22, <1>23, Zenon
  DEF Next, ThreadStep, TaskStep, Stop, SyncSuperBlock, FreezeMelt, ClearLog

\* The copies of the syncs stay behind written.
LEMMA CopiesKept ==
  ASSUME OneThread, TypeOK, InAnyOp, DeepFrozen, StoppedQuiet, CopiesAgree, SuperAgrees, [Next]_vars
  PROVE  CopiesAgree'
<1> USE ControlAssumption
<1> USE DEF TypeOK, Go, procVars, cpVars, frzVars, lsidVars, Procs
<1>1. ASSUME NEW t \in Threads, NEW o \in Ops, Ioctl(t, o) PROVE CopiesAgree'
  BY <1>1 DEF Ioctl, FirstStep, AllOps, OneThread, InAnyOp, ClearSteps, Steps, DeepFrozen,
     StoppedQuiet, CopiesAgree, SuperAgrees, Clearing, ZeroLsids, Saved, Resetting, Stopping,
     Syncing, Cancelling, Freezes
<1>2. ASSUME NEW t \in Threads, NEW on \in BOOLEAN, SetInterval(t, on) PROVE CopiesAgree'
  BY <1>2 DEF SetInterval, OneThread, InAnyOp, ClearSteps, Steps, DeepFrozen, StoppedQuiet,
     CopiesAgree, SuperAgrees, Clearing, ZeroLsids, Saved, Resetting, Stopping, Syncing,
     Cancelling,
     Freezes
<1>3. ASSUME NEW t \in Threads, StopNothing(t) \/ StopEnd(t) PROVE CopiesAgree'
  BY <1>3 DEF StopNothing, StopEnd, AfterStop, Stoppable, OneThread, InAnyOp, ClearSteps,
     Steps, DeepFrozen, StoppedQuiet, CopiesAgree, SuperAgrees, Clearing, ZeroLsids, Saved,
     Resetting, Stopping, Syncing, Cancelling, Freezes
<1>4. ASSUME NEW t \in Threads, StopAnnounce(t) \/ StopCancel(t) \/ StopJoin(t) PROVE CopiesAgree'
  BY <1>4 DEF StopAnnounce, StopCancel, StopJoin, Stoppable, OneThread, InAnyOp, ClearSteps,
     Steps, DeepFrozen, StoppedQuiet, CopiesAgree, SuperAgrees, Clearing, ZeroLsids, Saved,
     Resetting, Stopping, Syncing, Cancelling, Freezes
<1>5. ASSUME NEW t \in Threads, Start(t) PROVE CopiesAgree'
  BY <1>5 DEF Start, StartWork, AfterStart, OneThread, InAnyOp, ClearSteps, Steps, DeepFrozen,
     StoppedQuiet, CopiesAgree, SuperAgrees, Clearing, ZeroLsids, Saved, Resetting, Stopping,
     Syncing, Cancelling, Freezes
<1>6. ASSUME NEW p \in Procs, TakeCheckpoint(p) PROVE CopiesAgree'
  BY <1>6 DEF TakeCheckpoint, AfterSync, OneThread, InAnyOp, ClearSteps, Steps, DeepFrozen,
     StoppedQuiet, CopiesAgree, SuperAgrees, Clearing, ZeroLsids, Saved, Resetting, Stopping,
     Syncing, Cancelling, Freezes
<1>7. ASSUME NEW p \in Procs, SyncRefused(p) \/ SyncWriteFail(p) PROVE CopiesAgree'
  BY <1>7 DEF SyncRefused, SyncWriteFail, AfterSync, Failure, OneThread, InAnyOp, ClearSteps,
     Steps, DeepFrozen, StoppedQuiet, CopiesAgree, SuperAgrees, Clearing, ZeroLsids, Saved,
     Resetting, Stopping, Syncing, Cancelling, Freezes
<1>8. ASSUME NEW p \in Procs, SyncLoad(p) \/ SyncCopy(p) PROVE CopiesAgree'
  BY <1>8 DEF SyncLoad, SyncCopy, OneThread, InAnyOp, ClearSteps, Steps, DeepFrozen,
     StoppedQuiet, CopiesAgree, SuperAgrees, Clearing, ZeroLsids, Saved, Resetting, Stopping,
     Syncing, Cancelling, Freezes
<1>9. ASSUME NEW p \in Procs, SyncWrite(p) PROVE CopiesAgree'
  BY <1>9 DEF SyncWrite, OneThread, InAnyOp, ClearSteps, Steps, DeepFrozen, StoppedQuiet,
     CopiesAgree, SuperAgrees, Clearing, ZeroLsids, Saved, Resetting, Stopping, Syncing,
     Cancelling,
     Freezes
<1>10. ASSUME NEW p \in Procs, SyncUpdate(p) PROVE CopiesAgree'
  BY <1>10 DEF SyncUpdate, AfterSync, OneThread, InAnyOp, ClearSteps, Steps, DeepFrozen,
     StoppedQuiet, CopiesAgree, SuperAgrees, Clearing, ZeroLsids, Saved, Resetting, Stopping,
     Syncing, Cancelling, Freezes
<1>11. ASSUME NEW t \in Threads, CancelMelt(t) \/ Canceled(t) PROVE CopiesAgree'
  BY <1>11 DEF CancelMelt, Canceled, AfterCancelMelt, OneThread, InAnyOp, ClearSteps, Steps,
     DeepFrozen, StoppedQuiet, CopiesAgree, SuperAgrees, Clearing, ZeroLsids, Saved, Resetting,
     Stopping, Syncing, Cancelling, Freezes
<1>12. ASSUME NEW t \in Threads, CancelTimer(t) \/ FreezeMelted(t) PROVE CopiesAgree'
  BY <1>12 DEF CancelTimer, FreezeMelted, OneThread, InAnyOp, ClearSteps, Steps, DeepFrozen,
     StoppedQuiet, CopiesAgree, SuperAgrees, Clearing, ZeroLsids, Saved, Resetting, Stopping,
     Syncing, Cancelling, Freezes
<1>13. ASSUME NEW t \in Threads, FreezeEnd(t) \/ FreezeOther(t) PROVE CopiesAgree'
  BY <1>13 DEF FreezeEnd, FreezeOther, SetFrozen, OneThread, InAnyOp, ClearSteps, Steps,
     DeepFrozen, StoppedQuiet, CopiesAgree, SuperAgrees, Clearing, ZeroLsids, Saved, Resetting,
     Stopping, Syncing, Cancelling, Freezes
<1>14. ASSUME NEW t \in Threads, MeltFrozen(t) \/ MeltEnd(t) \/ MeltOther(t) PROVE CopiesAgree'
  BY <1>14 DEF MeltFrozen, MeltEnd, MeltOther, OneThread, InAnyOp, ClearSteps, Steps,
     DeepFrozen, StoppedQuiet, CopiesAgree, SuperAgrees, Clearing, ZeroLsids, Saved, Resetting,
     Stopping, Syncing, Cancelling, Freezes
<1>15. ASSUME NEW t \in Threads, FreezeDeep(t) \/ MeltDeep(t) PROVE CopiesAgree'
  BY <1>15 DEF FreezeDeep, MeltDeep, OneThread, InAnyOp, ClearSteps, Steps, DeepFrozen,
     StoppedQuiet, CopiesAgree, SuperAgrees, Clearing, ZeroLsids, Saved, Resetting, Stopping,
     Syncing, Cancelling, Freezes
<1>16. ASSUME NEW t \in Threads, SaveLsids(t) \/ ResetLsids(t) PROVE CopiesAgree'
  BY <1>16 DEF SaveLsids, ResetLsids, BackupLsids, OneThread, InAnyOp, ClearSteps, Steps,
     DeepFrozen,
     StoppedQuiet, CopiesAgree, SuperAgrees, Clearing, ZeroLsids, Saved, Resetting, Stopping,
     Syncing, Cancelling, Freezes
<1>17. ASSUME NEW t \in Threads, ResetShrunk(t) \/ ResetGrowFail(t) PROVE CopiesAgree'
  BY <1>17 DEF ResetShrunk, ResetGrowFail, Failure, OneThread, InAnyOp, ClearSteps, Steps,
     DeepFrozen, StoppedQuiet, CopiesAgree, SuperAgrees, Clearing, ZeroLsids, Saved, Resetting,
     Stopping, Syncing, Cancelling, Freezes
<1>18. ASSUME NEW t \in Threads, NewSalt(t) PROVE CopiesAgree'
  BY <1>18 DEF NewSalt, OneThread, InAnyOp, ClearSteps, Steps, DeepFrozen, StoppedQuiet,
     CopiesAgree, SuperAgrees, Clearing, ZeroLsids, Saved, Resetting, Stopping, Syncing,
     Cancelling,
     Freezes
<1>19. ASSUME NEW t \in Threads, Invalidate(t) \/ InvalidateFail(t) PROVE CopiesAgree'
  BY <1>19 DEF Invalidate, InvalidateFail, Failure, OneThread, InAnyOp, ClearSteps, Steps,
     DeepFrozen, StoppedQuiet, CopiesAgree, SuperAgrees, Clearing, ZeroLsids, Saved, Resetting,
     Stopping, Syncing, Cancelling, Freezes
<1>20. ASSUME NEW t \in Threads, RestoreLsids(t) PROVE CopiesAgree'
  BY <1>20 DEF RestoreLsids, OneThread, InAnyOp, ClearSteps, Steps, DeepFrozen, StoppedQuiet,
     CopiesAgree, SuperAgrees, Clearing, ZeroLsids, Saved, Resetting, Stopping, Syncing,
     Cancelling,
     Freezes
<1>21. ASSUME TaskFire \/ TaskEnter \/ TaskFail \/ TaskEnd PROVE CopiesAgree'
  BY <1>21 DEF TaskFire, TaskEnter, TaskFail, TaskEnd, OneThread, InAnyOp, ClearSteps, Steps,
     DeepFrozen, StoppedQuiet, CopiesAgree, SuperAgrees, Clearing, ZeroLsids, Saved, Resetting,
     Stopping, Syncing, Cancelling, Freezes
<1>22. ASSUME TaskMelt PROVE CopiesAgree'
  BY <1>22 DEF TaskMelt, TaskMelts, StartWork, OneThread, InAnyOp, ClearSteps, Steps,
     DeepFrozen, StoppedQuiet, CopiesAgree, SuperAgrees, Clearing, ZeroLsids, Saved, Resetting,
     Stopping, Syncing, Cancelling, Freezes
<1>23. ASSUME MeltFire \/ Write \/ UNCHANGED vars PROVE CopiesAgree'
  BY <1>23 DEF MeltFire, Write, vars, OneThread, InAnyOp, ClearSteps, Steps, DeepFrozen,
     StoppedQuiet, CopiesAgree, SuperAgrees, Clearing, ZeroLsids, Saved, Resetting, Stopping,
     Syncing, Cancelling, Freezes
<1> QED
  BY <1>1, <1>2, <1>3, <1>4, <1>5, <1>6, <1>7, <1>8, <1>9, <1>10, <1>11, <1>12, <1>13, <1>14,
     <1>15, <1>16, <1>17, <1>18, <1>19, <1>20, <1>21, <1>22, <1>23, Zenon
  DEF Next, ThreadStep, TaskStep, Stop, SyncSuperBlock, FreezeMelt, ClearLog

\* The super block stays behind written.
LEMMA SuperKept ==
  ASSUME OneThread, TypeOK, InAnyOp, NoFailure, DeepFrozen, StoppedQuiet, CopiesAgree, SuperAgrees, [Next]_vars
  PROVE  SuperAgrees'
<1> USE ControlAssumption
<1> USE DEF TypeOK, Go, procVars, cpVars, frzVars, lsidVars, Procs
<1>1. ASSUME NEW t \in Threads, NEW o \in Ops, Ioctl(t, o) PROVE SuperAgrees'
  BY <1>1 DEF Ioctl, FirstStep, AllOps, OneThread, InAnyOp, ClearSteps, Steps, NoFailure,
     DeepFrozen, StoppedQuiet, CopiesAgree, SuperAgrees, Clearing, ZeroLsids, Saved, Resetting,
     Stopping, Syncing, Cancelling, Freezes
<1>2. ASSUME NEW t \in Threads, NEW on \in BOOLEAN, SetInterval(t, on) PROVE SuperAgrees'
  BY <1>2 DEF SetInterval, OneThread, InAnyOp, ClearSteps, Steps, NoFailure, DeepFrozen,
     StoppedQuiet, CopiesAgree, SuperAgrees, Clearing, ZeroLsids, Saved, Resetting, Stopping,
     Syncing, Cancelling, Freezes
<1>3. ASSUME NEW t \in Threads, StopNothing(t) \/ StopEnd(t) PROVE SuperAgrees'
  BY <1>3 DEF StopNothing, StopEnd, AfterStop, Stoppable, OneThread, InAnyOp, ClearSteps,
     Steps, NoFailure, DeepFrozen, StoppedQuiet, CopiesAgree, SuperAgrees, Clearing,
     ZeroLsids, Saved, Resetting, Stopping, Syncing, Cancelling, Freezes
<1>4. ASSUME NEW t \in Threads, StopAnnounce(t) \/ StopCancel(t) \/ StopJoin(t) PROVE SuperAgrees'
  BY <1>4 DEF StopAnnounce, StopCancel, StopJoin, Stoppable, OneThread, InAnyOp, ClearSteps,
     Steps, NoFailure, DeepFrozen, StoppedQuiet, CopiesAgree, SuperAgrees, Clearing,
     ZeroLsids, Saved, Resetting, Stopping, Syncing, Cancelling, Freezes
<1>5. ASSUME NEW t \in Threads, Start(t) PROVE SuperAgrees'
  BY <1>5 DEF Start, StartWork, AfterStart, OneThread, InAnyOp, ClearSteps, Steps, NoFailure,
     DeepFrozen, StoppedQuiet, CopiesAgree, SuperAgrees, Clearing, ZeroLsids, Saved, Resetting,
     Stopping, Syncing, Cancelling, Freezes
<1>6. ASSUME NEW p \in Procs, TakeCheckpoint(p) PROVE SuperAgrees'
  BY <1>6 DEF TakeCheckpoint, AfterSync, OneThread, InAnyOp, ClearSteps, Steps, NoFailure,
     DeepFrozen, StoppedQuiet, CopiesAgree, SuperAgrees, Clearing, ZeroLsids, Saved, Resetting,
     Stopping, Syncing, Cancelling, Freezes
<1>7. ASSUME NEW p \in Procs, SyncRefused(p) \/ SyncWriteFail(p) PROVE SuperAgrees'
  BY <1>7 DEF SyncRefused, SyncWriteFail, AfterSync, Failure, OneThread, InAnyOp, ClearSteps,
     Steps, NoFailure, DeepFrozen, StoppedQuiet, CopiesAgree, SuperAgrees, Clearing,
     ZeroLsids, Saved, Resetting, Stopping, Syncing, Cancelling, Freezes
<1>8. ASSUME NEW p \in Procs, SyncLoad(p) \/ SyncCopy(p) PROVE SuperAgrees'
  BY <1>8 DEF SyncLoad, SyncCopy, OneThread, InAnyOp, ClearSteps, Steps, NoFailure,
     DeepFrozen, StoppedQuiet, CopiesAgree, SuperAgrees, Clearing, ZeroLsids, Saved, Resetting,
     Stopping, Syncing, Cancelling, Freezes
<1>9. ASSUME NEW p \in Procs, SyncWrite(p) PROVE SuperAgrees'
  BY <1>9 DEF SyncWrite, OneThread, InAnyOp, ClearSteps, Steps, NoFailure, DeepFrozen,
     StoppedQuiet, CopiesAgree, SuperAgrees, Clearing, ZeroLsids, Saved, Resetting, Stopping,
     Syncing, Cancelling, Freezes
<1>10. ASSUME NEW p \in Procs, SyncUpdate(p) PROVE SuperAgrees'
  BY <1>10 DEF SyncUpdate, AfterSync, OneThread, InAnyOp, ClearSteps, Steps, NoFailure,
     DeepFrozen, StoppedQuiet, CopiesAgree, SuperAgrees, Clearing, ZeroLsids, Saved, Resetting,
     Stopping, Syncing, Cancelling, Freezes
<1>11. ASSUME NEW t \in Threads, CancelMelt(t) \/ Canceled(t) PROVE SuperAgrees'
  BY <1>11 DEF CancelMelt, Canceled, AfterCancelMelt, OneThread, InAnyOp, ClearSteps, Steps,
     NoFailure, DeepFrozen, StoppedQuiet, CopiesAgree, SuperAgrees, Clearing, ZeroLsids, Saved,
     Resetting, Stopping, Syncing, Cancelling, Freezes
<1>12. ASSUME NEW t \in Threads, CancelTimer(t) \/ FreezeMelted(t) PROVE SuperAgrees'
  BY <1>12 DEF CancelTimer, FreezeMelted, OneThread, InAnyOp, ClearSteps, Steps, NoFailure,
     DeepFrozen, StoppedQuiet, CopiesAgree, SuperAgrees, Clearing, ZeroLsids, Saved, Resetting,
     Stopping, Syncing, Cancelling, Freezes
<1>13. ASSUME NEW t \in Threads, FreezeEnd(t) \/ FreezeOther(t) PROVE SuperAgrees'
  BY <1>13 DEF FreezeEnd, FreezeOther, SetFrozen, OneThread, InAnyOp, ClearSteps, Steps,
     NoFailure, DeepFrozen, StoppedQuiet, CopiesAgree, SuperAgrees, Clearing, ZeroLsids, Saved,
     Resetting, Stopping, Syncing, Cancelling, Freezes
<1>14. ASSUME NEW t \in Threads, MeltFrozen(t) \/ MeltEnd(t) \/ MeltOther(t) PROVE SuperAgrees'
  BY <1>14 DEF MeltFrozen, MeltEnd, MeltOther, OneThread, InAnyOp, ClearSteps, Steps,
     NoFailure, DeepFrozen, StoppedQuiet, CopiesAgree, SuperAgrees, Clearing, ZeroLsids, Saved,
     Resetting, Stopping, Syncing, Cancelling, Freezes
<1>15. ASSUME NEW t \in Threads, FreezeDeep(t) \/ MeltDeep(t) PROVE SuperAgrees'
  BY <1>15 DEF FreezeDeep, MeltDeep, OneThread, InAnyOp, ClearSteps, Steps, NoFailure,
     DeepFrozen, StoppedQuiet, CopiesAgree, SuperAgrees, Clearing, ZeroLsids, Saved, Resetting,
     Stopping, Syncing, Cancelling, Freezes
<1>16. ASSUME NEW t \in Threads, SaveLsids(t) \/ ResetLsids(t) PROVE SuperAgrees'
  BY <1>16 DEF SaveLsids, ResetLsids, BackupLsids, OneThread, InAnyOp, ClearSteps, Steps,
     NoFailure,
     DeepFrozen, StoppedQuiet, CopiesAgree, SuperAgrees, Clearing, ZeroLsids, Saved, Resetting,
     Stopping, Syncing, Cancelling, Freezes
<1>17. ASSUME NEW t \in Threads, ResetShrunk(t) \/ ResetGrowFail(t) PROVE SuperAgrees'
  BY <1>17 DEF ResetShrunk, ResetGrowFail, Failure, OneThread, InAnyOp, ClearSteps, Steps,
     NoFailure, DeepFrozen, StoppedQuiet, CopiesAgree, SuperAgrees, Clearing, ZeroLsids, Saved,
     Resetting, Stopping, Syncing, Cancelling, Freezes
<1>18. ASSUME NEW t \in Threads, NewSalt(t) PROVE SuperAgrees'
  BY <1>18 DEF NewSalt, OneThread, InAnyOp, ClearSteps, Steps, NoFailure, DeepFrozen,
     StoppedQuiet, CopiesAgree, SuperAgrees, Clearing, ZeroLsids, Saved, Resetting, Stopping,
     Syncing, Cancelling, Freezes
<1>19. ASSUME NEW t \in Threads, Invalidate(t) \/ InvalidateFail(t) PROVE SuperAgrees'
  BY <1>19 DEF Invalidate, InvalidateFail, Failure, OneThread, InAnyOp, ClearSteps, Steps,
     NoFailure, DeepFrozen, StoppedQuiet, CopiesAgree, SuperAgrees, Clearing, ZeroLsids, Saved,
     Resetting, Stopping, Syncing, Cancelling, Freezes
<1>20. ASSUME NEW t \in Threads, RestoreLsids(t) PROVE SuperAgrees'
  BY <1>20 DEF RestoreLsids, OneThread, InAnyOp, ClearSteps, Steps, NoFailure, DeepFrozen,
     StoppedQuiet, CopiesAgree, SuperAgrees, Clearing, ZeroLsids, Saved, Resetting, Stopping,
     Syncing, Cancelling, Freezes
<1>21. ASSUME TaskFire \/ TaskEnter \/ TaskFail \/ TaskEnd PROVE SuperAgrees'
  BY <1>21 DEF TaskFire, TaskEnter, TaskFail, TaskEnd, OneThread, InAnyOp, ClearSteps, Steps,
     NoFailure, DeepFrozen, StoppedQuiet, CopiesAgree, SuperAgrees, Clearing, ZeroLsids, Saved,
     Resetting, Stopping, Syncing, Cancelling, Freezes
<1>22. ASSUME TaskMelt PROVE SuperAgrees'
  BY <1>22 DEF TaskMelt, TaskMelts, StartWork, OneThread, InAnyOp, ClearSteps, Steps,
     NoFailure, DeepFrozen, StoppedQuiet, CopiesAgree, SuperAgrees, Clearing, ZeroLsids, Saved,
     Resetting, Stopping, Syncing, Cancelling, Freezes
<1>23. ASSUME MeltFire \/ Write \/ UNCHANGED vars PROVE SuperAgrees'
  BY <1>23 DEF MeltFire, Write, vars, OneThread, InAnyOp, ClearSteps, Steps, NoFailure,
     DeepFrozen, StoppedQuiet, CopiesAgree, SuperAgrees, Clearing, ZeroLsids, Saved, Resetting,
     Stopping, Syncing, Cancelling, Freezes
<1> QED
  BY <1>1, <1>2, <1>3, <1>4, <1>5, <1>6, <1>7, <1>8, <1>9, <1>10, <1>11, <1>12, <1>13, <1>14,
     <1>15, <1>16, <1>17, <1>18, <1>19, <1>20, <1>21, <1>22, <1>23, Zenon
  DEF Next, ThreadStep, TaskStep, Stop, SyncSuperBlock, FreezeMelt, ClearLog

\* Init has the invariant.
LEMMA InitClear == Init => ClearInv
<1> SUFFICES ASSUME Init PROVE ClearInv
  OBVIOUS
<1>1. InAnyOp /\ NoFailure
  BY ControlAssumption DEF Init, InAnyOp, NoFailure, Procs
<1>2. DeepFrozen /\ StoppedQuiet
  BY ControlAssumption
  DEF Init, DeepFrozen, StoppedQuiet, Clearing, Saved, Resetting, ZeroLsids, Stopping, Syncing,
      Procs
<1>3. CopiesAgree /\ SuperAgrees
  BY ControlAssumption DEF Init, CopiesAgree, SuperAgrees, Saved, ZeroLsids, Syncing, NoCopy, Procs
<1> QED
  BY <1>1, <1>2, <1>3 DEF ClearInv

\* One thread issues any ioctls, clear_log among them, while writes, the checkpoint task and the melt
\* timer go on beside it and anything may fail: prev_written stays behind written, and while the
\* device takes writes the super block never counts as written what is not.  With a melt timer this
\* holds up to the first failure; without one, whatever fails.
THEOREM SuperBlockAgreesThm ==
  ASSUME OneThread
  PROVE  Spec => [](TimerSafe => SuperBlockAgrees)
<1> DEFINE Inv == TypeOK /\ ClearInv
<1>1. Inv /\ [Next]_vars => Inv'
  <2> SUFFICES ASSUME Inv, [Next]_vars PROVE Inv'
    OBVIOUS
  <2>1. TypeOK' /\ InAnyOp' /\ NoFailure' /\ (fails' = 0 => fails = 0)
    BY TypesKept, InAnyOpKept, NoFailureKept DEF ClearInv
  <2>2. ASSUME TimerSafe' PROVE DeepFrozen' /\ StoppedQuiet' /\ CopiesAgree' /\ SuperAgrees'
    <3>1. TimerSafe
      BY <2>1, <2>2 DEF TimerSafe
    <3>2. DeepFrozen /\ StoppedQuiet /\ CopiesAgree /\ SuperAgrees
      BY <3>1 DEF ClearInv
    <3>3. "freeze_timeout" \in Ops => pc[Task] # "fail"
      BY <3>1 DEF ClearInv, NoFailure, TimerSafe
    <3> QED
      BY <3>2, <3>3, DeepFrozenKept, StoppedQuietKept, CopiesKept, SuperKept DEF ClearInv
  <2> QED
    BY <2>1, <2>2, Zenon DEF ClearInv
<1>2. Init => Inv
  BY InitTypes, InitClear
<1>3. Inv => (TimerSafe => SuperBlockAgrees)
  <2> SUFFICES ASSUME Inv, TimerSafe PROVE SuperBlockAgrees
    OBVIOUS
  <2>1. DeepFrozen /\ SuperAgrees
    BY DEF ClearInv
  <2>2. ASSUME ~frozen, NEW t \in Threads, op[t] = "clear_log"
        PROVE  pc[t] \notin {"salt", "test", "copy", "write"}
    BY <2>1, <2>2 DEF DeepFrozen, Clearing
  <2> QED
    BY <2>1, <2>2 DEF SuperAgrees, SuperBlockAgrees
<1> HIDE DEF Inv
<1> QED
  BY <1>1, <1>2, <1>3, PTL DEF Spec
=============================================================================
