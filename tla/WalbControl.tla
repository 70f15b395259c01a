---------------------------- MODULE WalbControl ----------------------------
(***************************************************************************)
(* The management of a walb device: ioctls of wdev_ioctl.c, which several  *)
(* threads may issue at once, with what they share:                        *)
(*   the checkpoint task and its state      checkpoint.c                   *)
(*   the super block                        walb_sync_super_block, super.c *)
(*   the freeze state and the melt timer    wdev_util.c                    *)
(* A thread runs one ioctl at a time; the checkpoint task is the process   *)
(* Task.  Each step is one critical section, one wait or one IO.           *)
(*                                                                         *)
(* The write path is reduced to its effect here: while the device is not   *)
(* frozen, written grows; iocore_freeze waits until it is still.  WalbLog  *)
(* has the rest.                                                           *)
(***************************************************************************)
EXTENDS Naturals, FiniteSets

CONSTANTS
  Threads,    \* threads that issue ioctls
  Ops,        \* the ioctls they issue
  MaxIoctl,   \* bound: ioctls in a behaviour
  MaxLsid,    \* bound: the largest written lsid
  MaxFail     \* bound: failures

AllOps == {"take_checkpoint", "set_interval", "resize", "clear_log",
           "freeze", "freeze_timeout", "melt"}

Task == "task"

ASSUME ControlAssumption ==
  /\ Task \notin Threads
  /\ Ops \subseteq AllOps
  /\ MaxIoctl \in Nat /\ MaxLsid \in Nat /\ MaxFail \in Nat

Procs == Threads \cup {Task}

VARIABLES
  pc,            \* what each process does next
  op,            \* the ioctl of each thread
  copy,          \* copy[p]: the lsids and the copy of the super block of a sync
  (* struct checkpoint_data *)
  cpState,       \* CP_STOPPED, CP_WAITING, CP_RUNNING or CP_STOPPING
  interval,      \* checkpoint_interval > 0
  dwork,         \* the delayed work of the checkpoint task is queued
  (* freezing *)
  frz,           \* freeze_state
  freezeLock,    \* freeze_lock: its holder, or Task when it is free
  meltWork,      \* freeze_dwork: "none", "queued" or "running"
  frozen,        \* is_frozen_usr
  (* lsids and the super block *)
  written, prevWritten,
  salt,          \* log_checksum_salt, counted by clear_log
  super,         \* the super block on the log device
  backup,        \* backup[t]: the lsids clear_log saved
  readOnly,      \* WALB_STATE_READ_ONLY
  (* bounds *)
  ioctls, fails

procVars == <<pc, op>>
cpVars   == <<cpState, interval, dwork>>
frzVars  == <<frz, freezeLock, meltWork, frozen>>
lsidVars == <<written, prevWritten>>
vars == <<procVars, copy, cpVars, frzVars, lsidVars, salt, super, backup, readOnly,
          ioctls, fails>>

NoCopy == [written |-> 0, salt |-> 0]

\* alloc_wdev and walb_register_device: checkpointing has been started.
Init ==
  /\ pc = [p \in Procs |-> "idle"] /\ op = [t \in Threads |-> "none"]
  /\ copy = [p \in Procs |-> NoCopy]
  /\ cpState = "WAITING" /\ interval = TRUE /\ dwork = TRUE
  /\ frz = "MELTED" /\ freezeLock = Task /\ meltWork = "none" /\ frozen = FALSE
  /\ written = 0 /\ prevWritten = 0
  /\ salt = 0 /\ super = NoCopy
  /\ backup = [t \in Threads |-> <<0, 0>>]
  /\ readOnly = FALSE
  /\ ioctls = 0 /\ fails = 0

Go(p, label) == pc' = [pc EXCEPT ![p] = label]

\* One more failure, within the bound.
Failure == fails < MaxFail /\ fails' = fails + 1

-----------------------------------------------------------------------------
\* Where each ioctl begins.  A resize that changes nothing, or that is refused, and
\* the ioctls that only read are left out; the size itself is not modelled.
FirstStep(o) ==
  CASE o = "take_checkpoint" -> "stop"
    [] o = "set_interval"    -> "interval"
    [] o = "resize"          -> "test"
    [] o = "clear_log"       -> "freeze_deep"
    [] OTHER                 -> "cancel_melt"

\* walb_dispatch_ioctl_wdev
Ioctl(t, o) ==
  /\ pc[t] = "idle"
  /\ ioctls < MaxIoctl
  /\ ioctls' = ioctls + 1
  /\ op' = [op EXCEPT ![t] = o]
  /\ Go(t, FirstStep(o))
  /\ UNCHANGED <<copy, cpVars, frzVars, lsidVars, salt, super, backup, readOnly, fails>>

\* A write goes all the way to the data device and gc raises written.
Write ==
  /\ ~frozen /\ ~readOnly
  /\ written < MaxLsid
  /\ written' = written + 1
  /\ UNCHANGED <<procVars, copy, cpVars, frzVars, prevWritten, salt, super, backup,
                 readOnly, ioctls, fails>>

-----------------------------------------------------------------------------
(* checkpoint.c *)

\* set_checkpoint_interval, its first critical section.
SetInterval(t, on) ==
  /\ pc[t] = "interval"
  /\ interval' = on
  /\ Go(t, "stop")
  /\ UNCHANGED <<op, copy, cpState, dwork, frzVars, lsidVars, salt, super, backup,
                 readOnly, ioctls, fails>>

\* What the caller of stop_checkpointing does next.
AfterStop(t) ==
  CASE op[t] = "take_checkpoint" -> "take"
    [] op[t] = "set_interval"    -> "start"
    [] op[t] = "clear_log"       -> "reset"
    [] OTHER                     -> "frozen"

\* Mutated Stoppable: a task that has been started is not stopped.
StoppableWaiting == cpState = "WAITING"

\* The states in which stop_checkpointing has something to stop.
Stoppable == cpState \in {"WAITING", "RUNNING"}

\* stop_checkpointing: nothing to stop, or somebody else is stopping it ...
StopNothing(t) ==
  /\ pc[t] = "stop" /\ ~Stoppable
  /\ Go(t, AfterStop(t))
  /\ UNCHANGED <<op, copy, cpVars, frzVars, lsidVars, salt, super, backup, readOnly,
                 ioctls, fails>>

\* ... or announce it,
StopAnnounce(t) ==
  /\ pc[t] = "stop" /\ Stoppable
  /\ cpState' = "STOPPING"
  /\ Go(t, "cancel")
  /\ UNCHANGED <<op, copy, interval, dwork, frzVars, lsidVars, salt, super, backup,
                 readOnly, ioctls, fails>>

\* cancel_delayed_work_sync: take the work off its timer,
StopCancel(t) ==
  /\ pc[t] = "cancel"
  /\ dwork' = FALSE
  /\ Go(t, "join")
  /\ UNCHANGED <<op, copy, cpState, interval, frzVars, lsidVars, salt, super, backup,
                 readOnly, ioctls, fails>>

\* and wait for the task that is running.
StopJoin(t) ==
  /\ pc[t] = "join" /\ pc[Task] = "idle"
  /\ Go(t, "stopped")
  /\ UNCHANGED <<op, copy, cpVars, frzVars, lsidVars, salt, super, backup, readOnly,
                 ioctls, fails>>

\* CP_STOPPED
StopEnd(t) ==
  /\ pc[t] = "stopped"
  /\ cpState' = "STOPPED"
  /\ Go(t, AfterStop(t))
  /\ UNCHANGED <<op, copy, interval, dwork, frzVars, lsidVars, salt, super, backup,
                 readOnly, ioctls, fails>>

\* start_checkpointing
StartWork ==
  IF cpState = "STOPPED" /\ interval THEN cpState' = "WAITING" /\ dwork' = TRUE
                                     ELSE UNCHANGED <<cpState, dwork>>

\* What the caller of start_checkpointing does next.
AfterStart(t) ==
  CASE op[t] = "clear_log"      -> "melt_deep"
    [] op[t] = "melt_if_frozen" -> "melted"
    [] OTHER                    -> "idle"

Start(t) ==
  /\ pc[t] = "start"
  /\ StartWork
  /\ Go(t, AfterStart(t))
  /\ UNCHANGED <<op, copy, interval, frzVars, lsidVars, salt, super, backup, readOnly,
                 ioctls, fails>>

\* The timer of the checkpoint task expires.
TaskFire ==
  /\ dwork /\ pc[Task] = "idle"
  /\ dwork' = FALSE
  /\ Go(Task, "enter")
  /\ UNCHANGED <<op, copy, cpState, interval, frzVars, lsidVars, salt, super, backup,
                 readOnly, ioctls, fails>>

\* task_do_checkpointing: CP_WAITING --> CP_RUNNING, unless it should stop.
TaskEnter ==
  /\ pc[Task] = "enter"
  /\ cpState' = IF cpState = "WAITING" THEN "RUNNING" ELSE cpState
  /\ Go(Task, IF cpState = "STOPPING" THEN "idle" ELSE "take")
  /\ UNCHANGED <<op, copy, interval, dwork, frzVars, lsidVars, salt, super, backup,
                 readOnly, ioctls, fails>>

\* The checkpoint failed: the task stops itself.
TaskFail ==
  /\ pc[Task] = "fail"
  /\ cpState' = "STOPPED"
  /\ Go(Task, "idle")
  /\ UNCHANGED <<op, copy, interval, dwork, frzVars, lsidVars, salt, super, backup,
                 readOnly, ioctls, fails>>

\* CP_RUNNING --> CP_WAITING, unless it should stop.
TaskEnd ==
  /\ pc[Task] = "end"
  /\ IF cpState = "RUNNING" THEN cpState' = "WAITING" /\ dwork' = TRUE
                            ELSE UNCHANGED <<cpState, dwork>>
  /\ Go(Task, "idle")
  /\ UNCHANGED <<op, copy, interval, frzVars, lsidVars, salt, super, backup, readOnly,
                 ioctls, fails>>

-----------------------------------------------------------------------------
(* take_checkpoint and walb_sync_super_block, by a thread or by the task *)

\* Mutated AfterSync: take_checkpoint does not start checkpointing again.
AfterSyncNoRestart(p, ok) ==
  CASE p = Task                        -> IF ok THEN "end" ELSE "fail"
    [] p # Task /\ op[p] = "clear_log" -> IF ok THEN "invalidate" ELSE "restore"
    [] OTHER                           -> "idle"

\* What the caller does after a super block sync, or after none was needed.
AfterSync(p, ok) ==
  CASE p = Task                             -> IF ok THEN "end" ELSE "fail"
    [] p # Task /\ op[p] = "take_checkpoint" -> IF ok THEN "start" ELSE "idle"
    [] p # Task /\ op[p] = "clear_log"       -> IF ok THEN "invalidate" ELSE "restore"
    [] OTHER                                -> "idle"

TakeCheckpoint(p) ==
  /\ pc[p] = "take"
  /\ Go(p, IF written = prevWritten THEN AfterSync(p, TRUE) ELSE "test")
  /\ UNCHANGED <<op, copy, cpVars, frzVars, lsidVars, salt, super, backup, readOnly,
                 ioctls, fails>>

\* Read-only mode, or no memory.
SyncRefused(p) ==
  /\ pc[p] = "test"
  /\ \/ readOnly /\ UNCHANGED fails
     \/ ~readOnly /\ Failure
  /\ Go(p, AfterSync(p, FALSE))
  /\ UNCHANGED <<op, copy, cpVars, frzVars, lsidVars, salt, super, backup, readOnly, ioctls>>

\* Load written under lsid_lock ...
SyncLoad(p) ==
  /\ pc[p] = "test" /\ ~readOnly
  /\ copy' = [copy EXCEPT ![p].written = written]
  /\ Go(p, "copy")
  /\ UNCHANGED <<op, cpVars, frzVars, lsidVars, salt, super, backup, readOnly, ioctls, fails>>

\* ... and copy the super block under lsuper0_lock.
SyncCopy(p) ==
  /\ pc[p] = "copy"
  /\ copy' = [copy EXCEPT ![p].salt = salt]
  /\ Go(p, "write")
  /\ UNCHANGED <<op, cpVars, frzVars, lsidVars, salt, super, backup, readOnly, ioctls, fails>>

SyncWrite(p) ==
  /\ pc[p] = "write"
  /\ super' = copy[p]
  /\ Go(p, "update")
  /\ UNCHANGED <<op, copy, cpVars, frzVars, lsidVars, salt, backup, readOnly, ioctls, fails>>

SyncWriteFail(p) ==
  /\ pc[p] = "write"
  /\ Failure
  /\ readOnly' = TRUE
  /\ copy' = [copy EXCEPT ![p] = NoCopy]
  /\ Go(p, AfterSync(p, FALSE))
  /\ UNCHANGED <<op, cpVars, frzVars, lsidVars, salt, super, backup, ioctls>>

SyncUpdate(p) ==
  /\ pc[p] = "update"
  /\ prevWritten' = copy[p].written
  /\ copy' = [copy EXCEPT ![p] = NoCopy]
  /\ Go(p, AfterSync(p, TRUE))
  /\ UNCHANGED <<op, cpVars, frzVars, written, salt, super, backup, readOnly, ioctls, fails>>

SyncSuperBlock(p) ==
  SyncRefused(p) \/ SyncLoad(p) \/ SyncCopy(p) \/ SyncWrite(p) \/ SyncWriteFail(p)
    \/ SyncUpdate(p)

-----------------------------------------------------------------------------
(* freeze, melt and the melt timer *)

Unlocked == freezeLock = Task

\* What follows cancel_melt_work, which melt_if_frozen calls again.
AfterCancelMelt(t) ==
  /\ Go(t, CASE op[t] = "melt"           -> "cancel_melt"
             [] op[t] = "melt_if_frozen" -> "melt"
             [] OTHER                    -> "freeze")
  /\ op' = [op EXCEPT ![t] = IF @ = "melt" THEN "melt_if_frozen" ELSE @]

\* cancel_melt_work: the timer runs only in FRZ_FROZEN_TIMEO.
CancelMelt(t) ==
  /\ pc[t] = "cancel_melt" /\ Unlocked
  /\ \/ frz = "FROZEN_TIMEO" /\ frz' = "CANCELING" /\ Go(t, "cancel_timer") /\ UNCHANGED op
     \/ frz # "FROZEN_TIMEO" /\ UNCHANGED frz /\ AfterCancelMelt(t)
  /\ UNCHANGED <<copy, cpVars, freezeLock, meltWork, frozen, lsidVars, salt, super,
                 backup, readOnly, ioctls, fails>>

\* cancel_delayed_work_sync
CancelTimer(t) ==
  /\ pc[t] = "cancel_timer" /\ meltWork # "running"
  /\ meltWork' = "none"
  /\ Go(t, "canceled")
  /\ UNCHANGED <<op, copy, cpVars, frz, freezeLock, frozen, lsidVars, salt, super, backup,
                 readOnly, ioctls, fails>>

Canceled(t) ==
  /\ pc[t] = "canceled" /\ Unlocked
  /\ frz' = "FROZEN"
  /\ AfterCancelMelt(t)
  /\ UNCHANGED <<copy, cpVars, freezeLock, meltWork, frozen, lsidVars, salt, super,
                 backup, readOnly, ioctls, fails>>

\* Mutated SetFrozen: the timer is not started.
SetFrozenNoTimer(t) ==
  /\ frz' = IF op[t] = "freeze_timeout" THEN "FROZEN_TIMEO" ELSE "FROZEN"
  /\ UNCHANGED meltWork

\* The end of freeze_if_melted: frozen, and the timer is set if there is a timeout.
SetFrozen(t) ==
  IF op[t] = "freeze_timeout" THEN frz' = "FROZEN_TIMEO" /\ meltWork' = "queued"
                              ELSE frz' = "FROZEN" /\ UNCHANGED meltWork

\* freeze_if_melted: iocore_freeze, then stop_checkpointing, under freeze_lock ...
FreezeMelted(t) ==
  /\ pc[t] = "freeze" /\ Unlocked
  /\ frz = "MELTED"
  /\ freezeLock' = t
  /\ frozen' = TRUE
  /\ Go(t, "stop")
  /\ UNCHANGED <<op, copy, cpVars, frz, meltWork, lsidVars, salt, super, backup, readOnly,
                 ioctls, fails>>

\* Mutated FreezeEnd: freeze_lock is not released.
FreezeEndLocked(t) ==
  /\ pc[t] = "frozen"
  /\ SetFrozen(t)
  /\ Go(t, "idle")
  /\ UNCHANGED <<op, copy, cpVars, freezeLock, frozen, lsidVars, salt, super, backup, readOnly,
                 ioctls, fails>>

\* ... and the state is set and the lock released.
FreezeEnd(t) ==
  /\ pc[t] = "frozen"
  /\ SetFrozen(t)
  /\ freezeLock' = Task
  /\ Go(t, "idle")
  /\ UNCHANGED <<op, copy, cpVars, frozen, lsidVars, salt, super, backup, readOnly, ioctls,
                 fails>>

\* ... already frozen: only the timer is set.  Otherwise nothing is done.
FreezeOther(t) ==
  /\ pc[t] = "freeze" /\ Unlocked
  /\ frz # "MELTED"
  /\ IF frz = "FROZEN" THEN SetFrozen(t) ELSE UNCHANGED <<frz, meltWork>>
  /\ Go(t, "idle")
  /\ UNCHANGED <<op, copy, cpVars, freezeLock, frozen, lsidVars, salt, super, backup,
                 readOnly, ioctls, fails>>

\* melt_if_frozen: start_checkpointing, then iocore_melt, under freeze_lock ...
MeltFrozen(t) ==
  /\ pc[t] = "melt" /\ Unlocked
  /\ frz = "FROZEN"
  /\ freezeLock' = t
  /\ Go(t, "start")
  /\ UNCHANGED <<op, copy, cpVars, frz, meltWork, frozen, lsidVars, salt, super, backup,
                 readOnly, ioctls, fails>>

\* ... which end here ...
MeltEnd(t) ==
  /\ pc[t] = "melted"
  /\ frozen' = FALSE
  /\ frz' = "MELTED"
  /\ freezeLock' = Task
  /\ Go(t, "idle")
  /\ UNCHANGED <<op, copy, cpVars, meltWork, lsidVars, salt, super, backup, readOnly,
                 ioctls, fails>>

\* ... or nothing is to be melted.
MeltOther(t) ==
  /\ pc[t] = "melt" /\ Unlocked
  /\ frz # "FROZEN"
  /\ Go(t, "idle")
  /\ UNCHANGED <<op, copy, cpVars, frzVars, lsidVars, salt, super, backup, readOnly, ioctls,
                 fails>>

\* The timer expires ...
MeltFire ==
  /\ meltWork = "queued"
  /\ meltWork' = "running"
  /\ UNCHANGED <<procVars, copy, cpVars, frz, freezeLock, frozen, lsidVars, salt, super,
                 backup, readOnly, ioctls, fails>>

\* Mutated TaskMelts: a freeze that is being cancelled is melted too.
TaskMeltsCanceling == frz \in {"FROZEN_TIMEO", "CANCELING"}

TaskMelts == frz = "FROZEN_TIMEO"

\* ... and task_melt melts the device.
TaskMelt ==
  /\ meltWork = "running" /\ Unlocked
  /\ meltWork' = "none"
  /\ IF TaskMelts THEN StartWork /\ frozen' = FALSE /\ frz' = "MELTED"
                  ELSE UNCHANGED <<cpState, dwork, frozen, frz>>
  /\ UNCHANGED <<procVars, copy, interval, freezeLock, lsidVars, salt, super, backup,
                 readOnly, ioctls, fails>>

-----------------------------------------------------------------------------
(* ioctl_wdev_clear_log *)

\* freeze_for_reset_wal; FRZ_CANCELING only warns.
FreezeDeep(t) ==
  /\ pc[t] = "freeze_deep" /\ Unlocked
  /\ IF frz = "MELTED" THEN frz' = "FROZEN_DEEP" /\ frozen' = TRUE
                       ELSE UNCHANGED <<frz, frozen>>
  /\ Go(t, IF frz \in {"MELTED", "CANCELING"} THEN "stop" ELSE "idle")
  /\ UNCHANGED <<op, copy, cpVars, freezeLock, meltWork, lsidVars, salt, super, backup,
                 readOnly, ioctls, fails>>

\* backup_lsid_set
BackupLsids == <<written, prevWritten>>

\* The lsids are saved in one critical section of lsid_lock ...
SaveLsids(t) ==
  /\ pc[t] = "reset"
  /\ backup' = [backup EXCEPT ![t] = BackupLsids]
  /\ Go(t, "zero")
  /\ UNCHANGED <<op, copy, cpVars, frzVars, lsidVars, salt, super, readOnly, ioctls, fails>>

\* ... and set to 0 in the next one.
ResetLsids(t) ==
  /\ pc[t] = "zero"
  /\ written' = 0 /\ prevWritten' = 0
  /\ Go(t, "salt")
  /\ UNCHANGED <<op, copy, cpVars, frzVars, salt, super, backup, readOnly, ioctls, fails>>

\* The log device has shrunk: nothing is undone.
ResetShrunk(t) ==
  /\ pc[t] = "reset"
  /\ Failure
  /\ Go(t, "idle")
  /\ UNCHANGED <<op, copy, cpVars, frzVars, lsidVars, salt, super, backup, readOnly, ioctls>>

\* The log device has grown and resize_disk fails.
ResetGrowFail(t) ==
  /\ pc[t] = "salt"
  /\ Failure
  /\ readOnly' = TRUE
  /\ Go(t, "start")
  /\ UNCHANGED <<op, copy, cpVars, frzVars, lsidVars, salt, super, backup, ioctls>>

\* A new salt, in the super block image too, then the sync.
NewSalt(t) ==
  /\ pc[t] = "salt"
  /\ salt' = salt + 1
  /\ Go(t, "test")
  /\ UNCHANGED <<op, copy, cpVars, frzVars, lsidVars, super, backup, readOnly, ioctls, fails>>

\* The first logpack is invalidated and log overflow is cleared.
Invalidate(t) ==
  /\ pc[t] = "invalidate"
  /\ Go(t, "start")
  /\ UNCHANGED <<op, copy, cpVars, frzVars, lsidVars, salt, super, backup, readOnly, ioctls,
                 fails>>

InvalidateFail(t) ==
  /\ pc[t] = "invalidate"
  /\ Failure
  /\ readOnly' = TRUE
  /\ Go(t, "restore")
  /\ UNCHANGED <<op, copy, cpVars, frzVars, lsidVars, salt, super, backup, ioctls>>

\* restore_lsid_set; the salt stays.
RestoreLsids(t) ==
  /\ pc[t] = "restore"
  /\ written' = backup[t][1] /\ prevWritten' = backup[t][2]
  /\ Go(t, "start")
  /\ UNCHANGED <<op, copy, cpVars, frzVars, salt, super, backup, readOnly, ioctls, fails>>

\* melt_for_reset_wal
MeltDeep(t) ==
  /\ pc[t] = "melt_deep" /\ Unlocked
  /\ frozen' = FALSE
  /\ frz' = "MELTED"
  /\ Go(t, "idle")
  /\ UNCHANGED <<op, copy, cpVars, freezeLock, meltWork, lsidVars, salt, super, backup,
                 readOnly, ioctls, fails>>

-----------------------------------------------------------------------------
Stop(t) == StopNothing(t) \/ StopAnnounce(t) \/ StopCancel(t) \/ StopJoin(t) \/ StopEnd(t)

FreezeMelt(t) ==
  \/ CancelMelt(t) \/ CancelTimer(t) \/ Canceled(t)
  \/ FreezeMelted(t) \/ FreezeEnd(t) \/ FreezeOther(t)
  \/ MeltFrozen(t) \/ MeltEnd(t) \/ MeltOther(t)

ClearLog(t) ==
  \/ FreezeDeep(t) \/ ResetShrunk(t) \/ SaveLsids(t) \/ ResetLsids(t) \/ ResetGrowFail(t)
  \/ NewSalt(t) \/ Invalidate(t) \/ InvalidateFail(t) \/ RestoreLsids(t) \/ MeltDeep(t)

\* A thread goes on with its ioctl.
ThreadStep(t) ==
  \/ \E on \in BOOLEAN : SetInterval(t, on)
  \/ Stop(t) \/ Start(t) \/ TakeCheckpoint(t) \/ SyncSuperBlock(t)
  \/ FreezeMelt(t) \/ ClearLog(t)

\* The checkpoint task goes on.
TaskStep ==
  TaskEnter \/ TaskFail \/ TaskEnd \/ TakeCheckpoint(Task) \/ SyncSuperBlock(Task)

Next ==
  \/ \E t \in Threads : (\E o \in Ops : Ioctl(t, o)) \/ ThreadStep(t)
  \/ Write
  \/ TaskFire \/ TaskStep
  \/ MeltFire \/ TaskMelt

Spec == Init /\ [][Next]_vars

\* Threads and tasks are scheduled, and timers expire.
Fairness ==
  /\ \A t \in Threads : WF_vars(ThreadStep(t))
  /\ WF_vars(TaskFire) /\ WF_vars(TaskStep)
  /\ WF_vars(MeltFire) /\ WF_vars(TaskMelt)

FairSpec == Spec /\ Fairness

-----------------------------------------------------------------------------
Labels == {"idle", "interval", "stop", "cancel", "join", "stopped", "take", "start",
           "enter", "fail", "end", "test", "copy", "write", "update",
           "cancel_melt", "cancel_timer", "canceled", "freeze", "frozen", "melt", "melted",
           "freeze_deep", "reset", "zero", "salt", "invalidate", "restore", "melt_deep"}

TypeOK ==
  /\ pc \in [Procs -> Labels]
  /\ op \in [Threads -> AllOps \cup {"none", "melt_if_frozen"}]
  /\ copy \in [Procs -> [written : Nat, salt : Nat]]
  /\ cpState \in {"STOPPED", "WAITING", "RUNNING", "STOPPING"}
  /\ interval \in BOOLEAN /\ dwork \in BOOLEAN
  /\ frz \in {"MELTED", "FROZEN", "FROZEN_TIMEO", "FROZEN_DEEP", "CANCELING"}
  /\ freezeLock \in Procs
  /\ meltWork \in {"none", "queued", "running"} /\ frozen \in BOOLEAN
  /\ written \in Nat /\ prevWritten \in Nat
  /\ salt \in Nat
  /\ super \in [written : Nat, salt : Nat]
  /\ backup \in [Threads -> Nat \X Nat]
  /\ readOnly \in BOOLEAN /\ ioctls \in Nat /\ fails \in Nat

\* However ioctls overlap, none of them loses the checkpoint task: once all have
\* returned, without a failure, and the device is melted, it is scheduled or running.
CheckpointSurvives ==
  (/\ \A t \in Threads : pc[t] = "idle"
   /\ fails = 0 /\ interval /\ frz = "MELTED")
    => /\ cpState \in {"WAITING", "RUNNING"}
       /\ dwork \/ pc[Task] # "idle"

\* kern.h: prev_written <= written, though clear_log takes written back to 0 while a
\* checkpoint may be under way.  While the device takes writes, the super block never
\* counts as written what is not, and unless something failed it has the salt of the log.
SuperBlockAgrees ==
  /\ prevWritten <= written
  /\ (~frozen /\ ~readOnly) =>
       /\ super.salt = salt => super.written <= written
       /\ fails = 0 => super.salt = salt

\* freeze_state and is_frozen_usr agree: a frozen device takes no writes until it is
\* melted, a melted one takes them again.
FrozenAgrees == Unlocked => (frozen <=> frz # "MELTED")

\* Every ioctl returns: freezing, stopping and cancelling never wait for each other.
EveryIoctlReturns == \A t \in Threads : (pc[t] # "idle") ~> (pc[t] = "idle")

\* A freeze with a timeout ends, or somebody cancels the timer.
TimeoutMelts == (frz = "FROZEN_TIMEO") ~> (frz # "FROZEN_TIMEO")
=============================================================================
