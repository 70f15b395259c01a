# A TLA+ model of the walb driver

WalB is a Linux block device driver. A walb device joins a data device and a log
device: every write goes to the log first, in packs, is answered when its log is
written, and reaches the data device later. This directory models the driver's own
logic, module/ in the repository, checks it with TLC and proves part of it with
TLAPS.

## 1. The system

| Part | State | Operations | Hard because |
|---|---|---|---|
| Write path, `io.c` | queues between tasks, packs | submit task, log wait task, data submit task, data wait task, gc worker | five activities, none holds a lock across its IO |
| lsids, `kern.h` | latest, completed, flush, permanent, written, prev_written, oldest | moved by every task under one spinlock | their documented order has to survive every interleaving and failure |
| Overlapped IO, `overlapped_io.c` | multimap of data writes in flight, `n_overlapped` | check_and_insert, delete_and_notify | the two data tasks decide together who submits a write; only a window of the map is searched |
| Super block, `super.c` | `written_lsid`, `oldest_lsid` on the log device | walb_sync_super_block | called from three places, tests, loads, writes and stores in separate steps |
| Checkpointing, `checkpoint.c` | CP_* state, delayed work | start, stop, take_checkpoint | stop waits for a running task; several callers |
| Pending data, `pending_io.c`, `bio_wrapper.c` | writes answered but not yet on the data device | insert, delete, search and copy for a read | a read looks there under a lock and at the data device later; its size stops the queue |
| Tasks, `pack_work.c`, `worker.c` | WORKING bits, wake-up bit, counters of IOs under way | dispatch_task_if_necessary, generic_worker | a bit is set before the work it announces exists |
| Multimap, `treemap.c` | tree of cell lists, cursor, memory pools | add, del, lookup, cursor walk, delete through the cursor | the cursor remembers its neighbours; three allocations for one addition |
| Freezing, `wdev_util.c`, `io.c` | FRZ_* state, frozen queue, melt timer | freeze, melt, queue stop | a timer that melts, cancelled while it expires; two independent reasons to freeze |
| ioctl, `wdev_ioctl.c` | | take_checkpoint, set_checkpoint_interval, resize, set_oldest_lsid, clear_log, freeze, melt | several at once; clear_log resets every lsid |
| Redo, `redo.c` | log after a crash | read, replay | torn and stale packs |
| Logpack format, `logpack.c`, `log_record.h` | header and records | add_bio | ring buffer boundary, padding, limits |
| Devices, `walb.c`, `control.c`, `alldevs.c` | list of devices, what each device holds, shared caches | load, start, stop, unload, open, close | a dozen resources with an error path each; a forced stop under a user |
| sysfs, tools | | | formatting and sequential programs |

How they interact. A client's bio enters `logpack_submit_queue`. The submit task
builds packs, gives them lsids, waits until the ring buffer has room and submits them
to the log device. The log wait task waits for the IOs of each pack in turn, answers
the bios and passes them to the data tasks, which wait until the log is permanent
(`wait_for_log_permanent`), put overlapping writes in order and write the data device.
The gc worker waits for the data IOs of a pack and raises written. A checkpoint writes
written to the super block; only then may the ring buffer reuse the log before it.
Redo starts from the super block after a crash. A read copies what pending data
holds and reads the rest from the data device; too much pending data freezes the write
queue until the data device catches up. Pending and overlapped data are multimaps.

What makes it correct: data never overtakes its log; a flush or FUA request is
answered only when it is durable; overlapping writes reach the data device in log
order; the super block never claims more than what is on the data device; the ring
buffer never overwrites log that redo needs; a failure never lets an answered write
lie behind a torn one; a read is never older than what was answered before it; every
bio is answered and every freeze, start and stop returns; nothing leaks on an error path.

`PROJECT.json` lists every component, modelled or not, and the hazards that properties
are about, each with its line.

## 2. Modules

| Module | What it models |
|---|---|
| `WalbLog` | the write path, lsids, super block sync and checkpointing |
| `WalbControl` | ioctls by several threads, the checkpoint task, the freeze state and its timer, super block sync |
| `WalbRecovery` | crash, redo and restart, over several lives of the device |
| `WalbOverlap` | overlapped IO serialization between the two data tasks |
| `WalbSerial` | abstract: a write is issued after every earlier overlapping one is complete |
| `WalbPending`, `MCPending` | pending data: insertion, deletion, and reads that copy from it |
| `WalbQueue` | the flow of writes through five tasks: dispatch, queue stop, freeze and melt, gc |
| `WalbTreemap` | the multimap and its cursor |
| `WalbMultimap` | abstract: a list of pairs ordered by key, and a place in it |
| `WalbDevices`, `MCDevices` | loading, starting, stopping and destroying devices beside their users |
| `WalbOverlapProofs` | theorems about `WalbOverlap`, among them that it implements `WalbSerial` |
| `WalbPendingProofs`, `WalbQueueProofs`, `WalbTreemapProofs` | theorems about `WalbPending`, `WalbQueue` and `WalbTreemap` |
| `WalbLogProofs` | theorems about `WalbLog`: what survives a power failure, the lsids, the ring buffer and the super block |
| `WalbRecoveryProofs` | theorems about `WalbRecovery`: what crashes and redos leave |
| `WalbControlProofs`, `WalbDevicesProofs` | theorems about `WalbControl` and `WalbDevices` |

### WalbOverlap

`biows` are the writes in the order of their lsids, which is the order in which they
enter `datapack_submit_queue`; the lists the two tasks move them through are intervals
(`first..last` is `biow_list`, `..waitTo` went to `datapack_wait_queue`, `..waitedTo` is
done). `overlapped` is the multimap, `maxSectors` is `max_sectors_in_overlapped`,
`nOverlapped` and `delayed` are the fields of struct bio_wrapper, `shouldSubmit` is
`should_submit_list`. Each action is one critical section or one submission:
`CheckAndInsert` is overlapped_check_and_insert, `SubmitData` and `EnqueueWait` finish
task_submit_bio_wrapper_list, `DeleteAndNotify` and `SubmitDelayed` are
wait_for_write_bio_wrapper. `FoundBy` is the cursor walk from `StartPos`, in which the
window depends on the largest write inserted since the map was last empty.
`CheckAndInsertNoMem` is a failed multimap_add, which the task retries.

### WalbLog

A bio is its number in the order of arrival; its kind (write, flush, preflush, fua,
preflush_fua, discard) is all that the write path looks at. Log IOs are named by bio,
or by minus the first bio of a pack for the header. Actions, by activity:

* clients: `MakeRequest`; management: `SetOldest`, `SetOldestStore` and the sync they start;
* submit task: `SubmitDequeue`, `AddBioWrapper` (writepack_add_bio_wrapper),
  `RefuseOverflow`, `StoreLsids`, then the ring buffer loop (`RingForceFlush`,
  `RingFlushed`, `RingReadOnly`, `RingSkipCheckpoint`, `RingTakeCheckpoint`) and
  `SubmitLogpacks`;
* log wait task: `WaitStart`, `WaitHeader`, `WaitBioOk`, `WaitBioFua`,
  `WaitFuaFlushed`, `WaitBioError`, `WaitPackEnd`;
* data task: `DataDequeue`, `DataPermanent`, `DataRetryReadOnly`, `DataForceFlush`,
  `DataFlushed`;
* gc worker: `GcDequeue`, `GcDataError`, `GcLogpacks`;
* checkpointing: `CheckpointTask` and `SyncSuperBlock(c)` for each of three callers;
* devices: log and data IOs complete or fail in any order.

What survives a power failure is tracked by `logStable` and `dStable`: a flush of a
device covers the IOs that were complete when it was issued. `super` is the super
block on disk, apart from `prevWritten`, its copy in memory. `Durable(i)` says that a
crash now would not lose bio i: its data is stable, or redo, starting at
`super.written`, finds every log IO up to it.

Abstractions. Every bio with data takes one block of log and every flush or discard
none, so a pack never needs a padding record. Data IOs are issued as soon as the log
is permanent; `WalbOverlap` refines when. Reads, pending data and the queue stop are
`WalbPending` and `WalbQueue`. One management client issues ioctls, one at a time. All lsids
start at 0 and are naturals: they are 64 bit and do not wrap in the life of a device.
A log device without a write cache is the special case in which nothing depends on
`logStable`.

### WalbControl

Threads issue ioctls; `pc[t]` says where a thread is between two critical sections,
waits or IOs, and the checkpoint task is one more process. `cpState`, `interval` and
`dwork` are struct checkpoint_data; `frz`, `freezeLock`, `meltWork` and `frozen` are
freeze_state, freeze_lock, freeze_dwork and is_frozen_usr. `StopNothing`,
`StopAnnounce`, `StopCancel`, `StopJoin` and `StopEnd` are stop_checkpointing, split
where it releases its lock; `StartWork` is start_checkpointing; `TaskFire`,
`TaskEnter`, `TaskFail` and `TaskEnd` are task_do_checkpointing around
`TakeCheckpoint`. `CancelMelt`, `CancelTimer` and `Canceled` are cancel_melt_work,
`FreezeMelted`, `FreezeEnd` and `FreezeOther` freeze_if_melted, `MeltFrozen`,
`MeltEnd` and `MeltOther` melt_if_frozen, `TaskMelt` the timer's work. `FreezeDeep` to
`MeltDeep` are ioctl_wdev_clear_log with its error exits; `SaveLsids` and `ResetLsids` are
its two critical sections of lsid_lock. The super block has the written lsid and the salt
of the log, which clear_log replaces.

The write path is one action, `Write`, that raises written while the device is
neither frozen nor read-only. iocore_freeze waits until nothing is in flight; here it
is one step, as `Write` has nothing in flight.

### WalbRecovery

`log` is the ring buffer, block by block: a header with its records, or the data of a
write; a checksum matches when the block holds the very write that the record names.
Log IOs land in any order (`LandLog`) and `Crash` loses the rest. The write path is
`SubmitPack`, `AckPack` (in order, when the log of the pack has landed: durable
answers, see `WalbLog` for what a flush adds), `LandData`, `Collect`, `Checkpoint`.
`Start` is prepare_wdev, `Shutdown` is finalize_wdev. execute_redo is `RedoLogpack` for
each pack (all records valid, none, or some: the three cases of redo_logpack),
`RedoRewrite` (the header of a torn pack), `RedoEndOfLog`, `RedoEnd` (lsids and super
block), and the failures `RedoHeaderFail`, `RedoBlockFail`, `RedoWriteFail`,
`RedoDataFail`. `acked`, `redone`, `dropped`, `stale`, `ignored` and `top` are history.

Every write takes one block, so there is no padding; positions are single blocks. The
data device takes discards (otherwise both paths leave them out).
A discard is redone as an IO without a length, because its length is shifted right by 9
once more than it should be: it takes part in the order of the data IOs, overlaps nothing
and changes nothing. Discarded data may read as anything, so no property depends on it.

### WalbPending

A write is named by its lsid and goes through `Insert` (log wait task, under
pending_data_lock: it deletes what it fully overwrites), `Answer`, `DdevWrite`, `Notify`
and `Delete` (data wait task). `map` is the multimap, `max` is `max_sectors_in_pending`,
which decides how far before a read the search `Found` starts. A read is `ReadStart`
(clone, `SplitForChunk`, and `CopyFound`: for each pending write found, in the order of
lsids, `CopyOverlapped`, all in one critical section), `ReadDdev` for each bio that was not
copied, and `ReadEnd`. The bios of a read are apart, so a set stands for their list. The mark
of a copied bio is the field `copied`; `SplitCopied` drops it from split0 as
bio_wrapper_copy_overlapped does. `got`, `need` and `seen` say what a read returned and
what it had to return.

### WalbQueue

`biow[i].st` is how far a write is; `queue` holds the frozen queue and the queues of the
four tasks and the gc worker; `frozen` has the two reasons to freeze and
IOCORE_STATE_IS_QUEUE_STOPPED. `Push`, `FrozenEmptied` and `Melted` are
push_into_lpack_submit_queue, make_frozen_queue_empty and melt_detail. `DispatchOk`,
`DispatchNoMem` and `DispatchRetry` are dispatch_task_if_necessary, split at the
allocation. `SubmitLog*`, `WaitLog*`, `SubmitDataTake` and `Cancel*`, `WaitData*` and
`Gc*` are the tasks, an action for each critical section: `CancelDelete`, `CancelMelt` and
`CancelComplete` are cancel_write_bio_wrapper. `Freeze`, `FreezeWait` and `Melt` are
iocore_freeze and iocore_melt, for a user who freezes at all (`Freezes`). The log does not
fail here, and a batch is one pack: that is the subject of `WalbLog`.

### WalbTreemap and WalbMultimap

`tmap` maps each key that has a node to its list of cells; `cursor` has the node, the
two neighbours it remembers, the head and the cell; `pool` counts what the three
mempools have given out. The descent of a lookup may end at either neighbour of a key
that is missing (`Descent`), which is all that the shape of the red-black tree can
change. The refinement mapping is `Items`, the pairs in order, and `Place`, the cursor's
index in them. A search puts its arguments into `ret`, so that the abstract search that
matches it is the same search.

### WalbDevices

Each device has a `stage` and a list `todo` of what the stage has still to take or
release: the sequences `PrepareOrder`, `RegisterOrder`, `UnregisterOrder`,
`FinalizeOrder` and `DestroyOrder` are the bodies of the functions of the same names,
and every step of a start may fail. `lock` is all_wdevs_lock_. ioctl_stop_dev releases
it before it finalizes the device, and leaves destroy_wdev to a work item when users
remain, so these steps run beside other ioctls.

## 3. Runs

| Run | Shows |
|---|---|
| `overlap` | overlapping writes keep their order, `n_overlapped` is exact though a window is searched, nobody submits twice, the tasks implement `WalbSerial`, every write is finally done |
| `log` | order of the lsids, write-ahead logging, FUA, and error_before_overflow_ with a moving oldest |
| `log_ring` | ring buffer, super block, flushes and contiguity, when the ring buffer is too small |
| `log_fail` | failed IOs, flushes and allocations: answers, monotone lsids, liveness |
| `control` | two threads of ioctls, the checkpoint task and the melt timer: the checkpoint task is never lost, freeze state and queue agree, every ioctl returns, a freeze with a timeout ends |
| `control_clear` | any three ioctls, clear_log among them, with one failure: lsids, salt and super block agree |
| `recovery` | two crashes anywhere, redo included, and one failed IO of redo: nothing answered is lost, nothing that redo dropped comes back, the log can be extracted, redo ends |
| `treemap` | every sequence of calls, with failed allocations: the multimap implements `WalbMultimap`, the cursor never points at freed memory, no node, head or cell leaks |
| `pending` | a read is never older than what was answered, or read, before it began; pending data is exact |
| `queue` | pending sectors are exact, a freeze returns and then nothing is in flight, writes keep their order, every queue drains: with a stop at the limit on pending data, a user's freeze, timeouts and one failure |
| `devices` | the list is exact, nothing leaks whichever step fails, no user loses the device under him, every start and stop ends |
| `pending_read` (violation) | a read of two pending writes, of which the newer begins inside the older, returns old data |

Bounds. `overlap`: three writes of one or two sectors at four positions, batches of two;
three are needed so that a write can wait for one that waits itself, and four positions
so that the search window matters. `log`: two bios of all six kinds (packing rules
depend on pairs), a ring buffer of three blocks, which two packs of one write overflow
and one pack of two writes does not. `log_ring`: three bios, so that the ring buffer
turns while a checkpoint is under way. `log_fail`: one failure of each sort. `control`:
two threads, three ioctls in all, because a race needs two at once after one that has
set the scene (a freeze with a timeout, say); no failures, which `control_clear` has.
`control_clear` has one thread because clear_log is not safe beside other ioctls (see
the hazards at `wdev_ioctl.c` in `PROJECT.json`), but the checkpoint task and the timer
run beside it. `recovery`: three requests in packs of one or two, two packs under way at
once and a ring buffer of four blocks, so that packs tear at every place and the ring
buffer turns; one position, where every loss of order shows. `treemap`: three keys, so
that a cursor has two neighbours, and two values, so that a list of cells has an end
that is not its beginning; memory may always run out. `pending`: three writes on four
sectors with chunks of three, so that a write can hide one that is being read and a
chunk splits a read; the writes are nested or apart, because `ReadFresh` is false for
writes that begin inside another one (`pending_read`). `queue`: the limits on pending
data are 3 and 2, a write has three sectors and a discard four, though it counts as one.
A discard thus stops the queue when it is inserted, whatever is pending, and a write does
when something is. There are two writes, so that the stop after a discard finds the other
one still to come and holds it in the frozen queue; one fault, a user who freezes, and
queue_stop_timeout may pass. A wait task that does not melt, or a should_start_queue that
forgets that its subtraction is unsigned, violates `QueueDrains` there. The exception of
`QueueDrains`, which two writes cannot reach, needs three (`StopEnds` in section 5).
`devices`: two devices, one user, two minor ids and three requests that collide in their
disks, names and minor ids. `pending_read` has the smallest bounds that show the
behaviour.

CHECK_DEADLOCK is off where a device with no more bios, or no more ioctls, stops,
rightly; liveness properties cover getting stuck. `treemap`, `queue` and `devices`
check it: there a caller can always go on.

Fairness. Weak fairness of each task: work in a queue is always followed by queueing the
task on a workqueue or waking the worker. Weak fairness of IO completion: the devices
answer. The data task finally forces a flush because the timeout of
wait_for_log_permanent expires. In `WalbRecovery` redo goes on and data IOs complete. In
`WalbControl` each thread goes on and timers expire. In `WalbQueue` each task, each
thread inside a dispatch and the gc worker go on, the data device answers, and a user
who has frozen the device melts it again; a failed allocation is not obliged to fail
again, so the retry ends. In `WalbDevices` a thread inside an ioctl or a work item goes
on (weak), a counted IO ends (weak), and users finally close what they have opened,
however often they do IO in between (strong): without that destroy_wdev polls for ever,
by design. Nothing is assumed of clients, of the checkpoint timer of `WalbLog` or of new
ioctls, and no failure is obliged to happen.

## 4. Proofs

Each proof module proves, for every value of the constants that its module's named
assumption allows, properties that the runs check on small instances. The bounds
(`MaxBio`, `MaxFail`, `MaxWrites`, ...) are among these constants, so the theorems hold
for behaviours of any length.

| Module | Theorems | Conditions beyond the assumption on the constants |
|---|---|---|
| `WalbOverlapProofs` | `TypeOK`, `OverlappedInOrder`, `SubmittedWaitsForNobody`, `SubmittedOnce`, `NOverlappedExact`, the refinement of `WalbSerial` | |
| `WalbPendingProofs` | `PendingExact` | |
| | `ReadFresh` | no write that is not a discard begins inside another one |
| `WalbQueueProofs` | `FifoOrder`, `PendingExact`, `FrozenQuiet` | |
| `WalbTreemapProofs` | `CursorValid`, `PoolExact`, `MapOK` | |
| `WalbLogProofs` | `TypeOK`, `AnsweredPrefix` | |
| | `WriteAheadLog`, `FuaDurable` | no flush of the log device has failed |
| | `SuperBlockCovers` | no IO and no flush has failed |
| | `FlushDurable` | clients send no REQ_FUA |
| | `LsidOrder` | |
| | `RingNotOverrun`, `LsidsMonotone` | set_oldest_lsid is not called (`MaxOldest = 0`) |
| | `LogContiguous` | no super block sync has found no memory |
| | `MemoryLsidsGrow` | |
| `WalbRecoveryProofs` | `TypeOK` | |
| | `NothingLost`, `NoResurrection`, `LogIntact` | redo has noticed every error, and left no later header behind a torn pack (`Clean`) |
| `WalbControlProofs` | `TypeOK` | |
| | `FrozenAgrees`, `CheckpointSurvives` | no clear_log; any number of threads |
| | `SuperBlockAgrees` | one thread; with a melt timer, nothing has failed |
| `WalbDevicesProofs` | `UsersHaveDevice`, `NothingLeaked`, `ListExact` | finitely many devices, as memory is finite |

Every condition is one that the code needs: section 5 says what happens without it. The
conditions on failures are part of the invariant (`flushFails = 0 => ...`), so the
theorems speak of every behaviour up to its first such failure. `SubmittedOnce`,
`MemoryLsidsGrow` and `MapOK` (the multimap of `WalbTreemap` has no empty list) are proved and not checked by a run.

Almost none of these properties is inductive. What each proof adds:

* `WalbOverlap`, `IInv`: the intervals of the lists are nested (`waitedTo <= waitTo <= last`
  and so on); the multimap holds exactly the writes that are inserted and not yet deleted;
  `maxSectors` bounds the length of each member of the map, which is what makes the window
  of `FoundBy` wide enough; a write that is not delayed, or that is about to be submitted
  by the wait task, has `n_overlapped` 0. `NOverlappedExact` is the heart: from it,
  `n_overlapped` 0 means no earlier overlapping write is in the map, and a write leaves the
  map only when complete. Refinement then needs one step per action: `Enqueue` is Arrive,
  the two submissions are Issue, `Complete` is Complete, everything else stutters.
* `WalbPending`, `PendingInv`: both tasks take the writes in the order of their lsids, so a
  write that a newer one covers is deleted first; `max` bounds every member of the map.
* `WalbPending`, `FreshInv`: for `ReadFresh`. Overlapping writes land on the data device in
  their order, so a sector that no pending write covers holds at least what users know of
  it, from then on; a read owes each of its sectors either what it copied or what the data
  device will hold when a bio that is still to be read returns. That the bios that remain
  are in such sectors is the loop invariant `CopiedUpTo` of the copies: a copied bio lies
  in a write found. It needs the condition on writes, as `split0` is otherwise a part of a
  copied bio that has lost its mark, and is read from the device (`pending_read`). The copies
  are a recursive function, whose existence is a lemma (`CopiesExist`).
* `WalbQueue`, `QueueInv`: the submit queue and behind it the frozen queue are one line, in
  the order of the requests, later than every write with an lsid; below each of its
  members no request is still to come. A melt leaves the line as it is, a push appends to
  it in either queue, a batch is its beginning. `PendingExact` and `FrozenQuiet` need to know
  that a task finds each write in the state that the task before it left it in, and that
  nobody else has it (`Places`, `Tasks`); then each step moves a known write from one state
  to the next, `pending_sectors` and the two counters stay the sizes of the sets they count
  (`Counts`; the sectors of the writes are a set of pairs, whose size is the sum), and a
  freeze that saw a counter at zero knows that its set is empty and why it stays so
  (`Freezing`). `Ends` follows the end of the last pack from latest_lsid to written_lsid.
* `WalbTreemap`, `MapInv`: besides the two properties, no key has an empty list of cells or
  a value twice. The neighbours that the cursor remembers are described by what they are
  next to (`IsNext`, `IsPrev`) and not by how the tree was walked, so that after a deletion
  the ones it holds are the ones it would find.
* `WalbLog`, `LogInv`: the lists of the tasks are intervals that follow each other; the
  packs lie one after the other in the order of their bios (`Layout`), and the wait task
  is somewhere in them, with `completed` behind it (`Waiting`). What a pack is and where it
  lies never changes once it is built, so most of the work is in the steps that build,
  store and submit packs.
* `WalbLog`, `DurableInv`: the wait task only passes a log IO that has succeeded, or
  else the pack fails (`Waited`); so every log IO below completed is done, each flush under
  way covers the IOs below the lsid its caller took, and every log IO below permanent is
  stable (`StablePermanent`). A write goes to the data device when permanent has passed it
  (`Issued`). `SuperInv` follows the data from the gc worker over a sync to the super block;
  `FlushInv` says that the first pack of a list carries the flush and that it covers all
  that redo reads to reach a bio that was answered before.
* `WalbLog`, of the lsids: `OneSync` (without set_oldest_lsid one thread at a time syncs),
  `SuperFollows` (the written_lsid on disk and what the tasks remember of it), `NoHole`
  (the packs being built continue those on the log device), `WrittenPermanent`, and
  `OldestBehind` (the argument of set_oldest_lsid, between its test and its store).
* `WalbRecovery`, `CleanInv(end)`: the invariant names the lsid where the log ends. From
  written_lsid in the super block to `end` there is one complete pack behind the other
  (`ChainTo`): a redo finds those, whatever is lost, and from the pack at `end` at most the
  records before its first invalid one (`InTail`). An answered write is in the chain, or the
  data device has it or a later one and nothing in the chain is older (`AckedSafe`); what the
  data device has was answered or will be found again (`DataKnown`); no pack that a redo can
  meet names a dropped write (`DroppedOK`). While the device is up, `end` is where the
  answered packs end, each log IO of a pack is under way or in its place, and data IOs are
  newer than what they overwrite (`UpInv`); that a log IO overwrites nothing of the chain is
  an argument on remainders: two lsids at one place are a ring buffer apart. In redo
  written_lsid goes along the chain, and what is before it is found (`RedoInv`). The end moves
  when a pack is answered, when redo meets packs that are complete and were never
  answered, and, to the middle of a torn pack, when its header is written again. Then the
  super block moves to the end, and a header left there has no valid record (`Dead`): it is
  never redone, which is what `stale` says of headers farther on.
* `WalbControl`: where each ioctl may be (`Steps`), that freeze_lock is held exactly in the
  critical sections and that one thread at most cancels the timer; for the checkpoint task,
  who is stopping it and who will start it again (`OneStops`, `Restartable`); for the super
  block, that the task is quiet while the device is deeply frozen (`StoppedQuiet`) and what
  each copy of the lsids is (`CopiesAgree`).
* `WalbDevices`, `DevInv`: what a device has depends on its stage and on what the stage has
  still to do (`HeldAt`), a listed device runs or its starter has the lock, and an open
  device is in none of the stages before register and after the wait for users.
  `NothingLeaked` speaks of quiet moments; `BookInv` says what is true in between: what a
  device owns is a function of its stage and its list (`Owned`), the objects are what is
  owned, and the claims of a disk and the users of a cache are as many as the devices that
  own them (`ResourcesOK`). `ListExact` needs which entries are reserved and for whom
  (`ReservedOK`), from when to when a device is listed (`EntriesOK`), and that names, keys
  and disks are told apart already among the devices that start (`ApartOK`); that the list
  has each device once and in order is an argument on ranks in a finite set of keys.

Each invariant was checked by TLC on the instance of its run before it was proved.

Model-checked only:

* liveness (`EveryWriteDone`, `QueueDrains`, `FreezeReturns` and the other temporal
  properties under fairness): out of the prover's reach;
* the refinement of `WalbMultimap`, whose list of pairs is a concatenation of as many lists as
  there are keys.

## 5. Findings and known disagreements

One run ends in a violation; its lines and the comment they contradict are in
`PROJECT.json`:

* `pending_read`: a read can return data older than what was answered before it.

The model disagrees with a comment, a document or an assertion of the code in six more
places, which have no run of their own. The definition that fails and the instance on
which TLC shows it:

* A queue stop that never ends. `StopEnds` (`WalbQueue`, as `Queue.cfg` with
  `Lens = {1, 3}`, `DiscardLens = {}`, `NIoBulk = 3`, `MaxWrites = 3`, `MaxFaults = 0`, no
  `Timeouts` and no `Freezes`). The log task sets IOCORE_STATE_IS_QUEUE_STOPPED
  (io.c:2031), the wait task sees the bit, melts a queue that is not frozen yet and clears
  the bit (io.c:2161-2164), and the log task freezes the queue. With the bit clear
  should_start_queue (io.c:2774) answers no, timeout or not, and the writes in the frozen
  queue stay there; kern.h:230 says "queue stopped period must not exceed this value."
  `QueueDrains` excepts just this, a freeze that is late (`FreezeLate`) and never undone
  (`MeltLost`): as `Queue.cfg` with three writes (`NIoBulk = 3`, `MaxWrites = 3`,
  `MaxFaults = 0`, no `Timeouts`, no `Freezes`, CHECK_DEADLOCK FALSE) TLC finds it kept in
  452589 states.
* A delayed write that nobody submits. `DelayedIsFreed` (`WalbOverlap`, as `Overlap.cfg`
  with `MaxPos = 0`, `MaxLen = 1`, `MaxBiow = 2`, `IoBulk = 1`, `MaxNoMem = 1`).
  overlapped_check_and_insert sets BIO_WRAPPER_DELAYED before multimap_add fails; if the
  writes it overlapped are done before the retry (io.c:719), the retry counts 0, leaves the
  flag set, and nobody submits the write. bio_wrapper.h:116 says the flag is set if the
  submission is delayed.
* A REQ_PREFLUSH bio answered before any flush. `FlushDurable` (`WalbLog`, as `LogRing.cfg`
  with `Kinds = {"write", "preflush", "fua"}` and `RingSize = 8`).
  pack_header_should_flush (io.c:459) is false for a pack that contains a REQ_FUA bio.
* Two super block syncs at once. `RingNotOverrun` (`WalbLog`, as `LogRing.cfg` with
  `Kinds = {"discard"}`, `RingSize = 1`, `IoBulk = 1`, `PackBulk = 1`, `MaxOldest = 1`).
  set_oldest_lsid (wdev_ioctl.c:141) syncs beside a checkpoint: written_lsid on disk goes
  back behind log that was overwritten. doc/algorithm.creole:104 starts redo there. By the
  same race prev_written_lsid goes back behind an oldest_lsid that was raised to it, which
  kern.h:99 and lsid_set_is_valid rule out: `OldestRecorded` (as `LogRing.cfg` with
  `Kinds = {"discard"}`, `RingSize = 8`, `IoBulk = 1`, `PackBulk = 1`,
  `FlushIntervalPb = 0`, `MaxBio = 3`, `MaxOldest = 3`).
* An old pack replayed. `Durable` (`WalbRecovery`, as `Recovery.cfg` with `MaxRec = 1`,
  `MaxFail = 0`). Nothing invalidates the log behind its end (redo.c:653), so a pack that
  landed behind a torn one is found by a later redo and replayed over answered writes.
* Redo that never returns. `EveryRedoEnds` (`WalbRecovery`, as `Recovery.cfg` with
  `InFlight = 1`, `MaxWrite = 2`, `MaxCrash = 1`). After a read error in the middle of a
  pack the bio wrappers of the records before are neither submitted nor destroyed
  (redo.c:777), and execute_redo waits for them.

Properties that hold only without certain failures or callers, which the bounds of their
runs exclude or which the property names; the hazards concerned say so in a note:

* a failed flush of the log device is not noticed when a REQ_FUA bio is answered;
* a failed checkpoint in the ring buffer loop leaves a hole in the log;
* written passes a failed data IO and a checkpoint may record it;
* a checkpoint that fails while it is being stopped disturbs a later start: it stores
  CP_STOPPED (checkpoint.c:96), so that task_melt may start the task again before the
  stopper stores CP_STOPPED with the work queued. One thread is enough for that, and the
  task then runs beside clear_log (`SuperBlockAgrees`, as `ControlClear.cfg` with
  `MaxIoctl = 4`, `MaxLsid = 1`, `MaxFail = 2`);
* clear_log beside a freeze that is cancelling its timer, or beside another sync;
* redo takes an unreadable header for the end of the log and ignores failed data IOs
  (`Clean` in `WalbRecovery`);
* in read-only mode failed packs leave written_lsid behind latest_lsid, which
  iocore_freeze asserts to be equal (the exception of `FrozenQuiet`);
* bio_wrapper_init keeps its count when its cache cannot be created; `WalbDevices` lets
  every other step of a start fail.

Further hazards of the code that no property covers; `PROJECT.json` lists the ones that a
property covers, at least in part, or whose property holds only without them:

* set_checkpoint_interval stores the interval before it stops the task, which asserts
  that it is not 0 (checkpoint.c:76, debug builds only; nothing outlives it);
* a bulk of packs larger than the ring buffer never fits (io.c:963): nothing relates
  n_io_bulk and max_logpack_kb to its size; the constants of `WalbLog` keep it larger;
* two set_oldest_lsid ioctls test and store in separate critical sections
  (wdev_ioctl.c:137); `WalbLog` has one management client;
* redo shifts the length of a discard once too often (redo.c:1024): modelled, but what a
  discarded sector holds is undefined, so no property is about it;
* a padding record takes a record and blocks that were counted as free (logpack.c:139);
* ioctl_list_dev and ioctl_num_of_dev read the list without alldevs_lock (control.c:306);
* a stop leaves the list before it releases its disks (control.c:237), so a start beside
  it may claim them; `WalbDevices` has no contents of disks in which that would show;
* destroy_wdev waits for n_users and not for log_n_users (walb.c:1083); `UsersHaveDevice`
  is stated for the walb device only;
* the counts of the shared caches are read and changed in two steps (pack_work.c:147);
  they are atomic in `WalbDevices`;
* kthread_stop before the gc worker has run for the first time (worker.c:129).

## 6. Not modelled

* The padding records of logpacks and redo, for writes that cross the end of the ring
  buffer: a write takes one block in `WalbLog` and `WalbRecovery`.
* The shape of the red-black tree: the kernel's rbtree library keeps it.
* Cloning of bios, checksums, request queue limits, statistics, sysfs, sector IO: they
  change no state that a task decides by.
* Reads of the walblog device: they look at a fixed log device and wait for nothing.
* User space tools and simulators: sequential programs outside the driver.

## 7. Plan

1. The refinement of `WalbMultimap`.
2. Padding in `WalbLog` and `WalbRecovery`, with writes of several blocks.
