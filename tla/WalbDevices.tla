---------------------------- MODULE WalbDevices ----------------------------
(***************************************************************************)
(* The life of walb devices: the module is loaded and unloaded (walb.c),   *)
(* walb devices are started and stopped by ioctls on the control device    *)
(* (control.c), entered in the list of all devices (alldevs.c) and opened  *)
(* and closed by users of their block devices.                             *)
(*                                                                         *)
(* Everything that touches the list runs under alldevs_lock.  ioctl_stop   *)
(* releases the lock before it finalizes and destroys the device, and when *)
(* users remain a work item destroys the device later, so that part        *)
(* overlaps with other ioctls.  The steps of one device run in order,      *)
(* whoever runs them; `stage' is where it is and `todo' what the stage     *)
(* still has to release.                                                   *)
(*                                                                         *)
(* Taking a resource may fail at every step of prepare_wdev and            *)
(* iocore_initialize.                                                      *)
(***************************************************************************)
EXTENDS Naturals, FiniteSets, Sequences, SequencesExt

CONSTANTS Wdevs,       \* addresses of struct walb_dev
          Users,       \* processes that open block devices
          Disks,       \* underlying block devices
          Requests,    \* the parameters start ioctls are called with
          NKeys,       \* ALL_WDEVS_KEY_MAX: minor ids / 2
          NoDev,       \* no entry, nothing opened
          Prealloced,  \* ALL_WDEVS_PREALLOCED
          AnyMinor,    \* WALB_DYNAMIC_MINOR
          NoName       \* an empty name: the name becomes minor / 2

Keys == 0 .. NKeys - 1

ASSUME DevicesAssumption ==
    /\ NKeys \in Nat \ {0}
    /\ NoDev \notin Wdevs /\ Prealloced \notin Wdevs /\ NoDev # Prealloced
    /\ "exit" \notin Wdevs \cup {NoDev} /\ IsFiniteSet(Users) /\ IsFiniteSet(Wdevs)
    /\ \A r \in Requests : /\ r.minor \in Keys \cup {AnyMinor}
                           /\ {r.ldev, r.ddev} \subseteq Disks

VARIABLES module,   \* "out", "init", "in" or "exiting"
          parts,    \* what walb_init has set up
          lock,     \* all_wdevs_lock_: NoDev, "exit" or the device of the ioctl
          idr,      \* all_wdevs_
          nrDevs,   \* nr_devs_
          stage,    \* what is being done with a device
          todo,     \* what the stage has still to take or to release
          req, key, \* parameters and minor id / 2 of a device
          held,     \* the objects of its own a device has
          claims,   \* how often walb_lock_bdev has claimed each disk
          caches,   \* user counts of the caches that all devices share
          dying,    \* WALB_STATE_FINALIZE
          deferred, \* devices whose destroy_task is queued
          opened,   \* what each user has opened
          io        \* how far the IO of each user is in iocore_make_request

mod == <<module, parts>>
dev == <<idr, nrDevs, req, key>>
resources == <<held, claims, caches>>
user == <<opened, io>>
vars == <<module, parts, lock, dev, stage, todo, resources, dying, deferred, user>>

Caches == {"treemap", "pack", "bio_entry", "bio_wrapper", "pack_work"}

(***************************************************************************)
(* What the functions take, in their order; each error path releases what  *)
(* its function has taken, the last first.                                 *)
(***************************************************************************)
\* walb_init, with initialize_workqueues.
InitOrder ==
    <<"major", "bio_set", "wq_normal", "wq_unbound", "wq_misc", "alldevs",
      "control">>

\* walb_prepare_device and walblog_prepare_device.
DeviceOrder == <<"queue", "gd">>
LogDeviceOrder == <<"log_queue", "log_gd">>

\* iocore_initialize: the shared caches, create_iocore_data and the gc worker.
IocoreOrder ==
    <<"treemap", "pack", "bio_entry", "bio_wrapper", "pack_work", "iocored">>

\* prepare_wdev: claims of the disks, walb_ldev_initialize and the others;
\* its last step is the redo.
PrepareOrder ==
    <<"wdev", "ldev", "ddev", "super">> \o DeviceOrder \o LogDeviceOrder
    \o IocoreOrder \o <<"redo">>

\* register_wdev, and its error path when walb_sysfs_init fails.
RegisterOrder == <<"checkpoint", "log_disk", "disk", "sysfs">>
RegisterError == <<"disk", "log_disk", "checkpoint">>

\* Mutated UnregisterOrder: the walb disk stays registered.
UnregisterOrderLog == <<"checkpoint", "sysfs", "log_disk">>

\* unregister_wdev.
UnregisterOrder == <<"checkpoint", "sysfs", "log_disk", "disk">>

\* finalize_wdev, after iocore_flush.
FinalizeOrder == <<"super", "ddev", "ldev">>

\* walblog_finalize_device, walb_finalize_device and iocore_finalize.
LogDeviceFinal == <<"log_gd", "log_queue">>
DeviceFinal == <<"gd", "queue">>
IocoreFinal ==
    <<"iocored", "pack_work", "bio_wrapper", "bio_entry", "pack", "treemap">>

\* destroy_wdev.
DestroyOrder == LogDeviceFinal \o DeviceFinal \o IocoreFinal \o <<"wdev">>

\* walb_exit, after the devices.
ExitOrder ==
    <<"wq_misc", "wq_unbound", "wq_normal", "major", "control", "alldevs",
      "bio_set">>

DiskOf(w, r) == IF r = "ldev" THEN req[w].ldev ELSE req[w].ddev

(***************************************************************************)
(* Taking and releasing a resource: a cache counts its users, all claims   *)
(* of a disk have the same holder and are counted, the rest belongs to the *)
(* device.                                                                 *)
(***************************************************************************)
Take(w, r) ==
    /\ held' = IF r \in Caches \cup {"ldev", "ddev", "redo"} THEN held
               ELSE [held EXCEPT ![w] = @ \cup {r}]
    /\ claims' = IF r \in {"ldev", "ddev"}
                 THEN [claims EXCEPT ![DiskOf(w, r)] = @ + 1] ELSE claims
    /\ caches' = IF r \in Caches
                 THEN [caches EXCEPT ![r] = @ + 1] ELSE caches

Give(w, r) ==
    /\ held' = [held EXCEPT ![w] = @ \ {r}]
    /\ claims' = IF r \in {"ldev", "ddev"}
                 THEN [claims EXCEPT ![DiskOf(w, r)] = @ - 1] ELSE claims
    /\ caches' = IF r \in Caches
                 THEN [caches EXCEPT ![r] = @ - 1] ELSE caches

-----------------------------------------------------------------------------
(***************************************************************************)
(* The list of all devices (alldevs.c).                                    *)
(***************************************************************************)
Listed == {w \in Wdevs : \E k \in Keys : idr[k] = w}

\* get_key_from_wdev and the name walb_set_name gives to a device.
NameOf(w) == IF req[w].name = NoName THEN key[w] ELSE req[w].name

\* The j-th of the keys, in their order.
Nth(keys, j) == CHOOSE k \in keys : Cardinality({i \in keys : i < k}) = j - 1

\* get_wdev_list_range: the first n entries with a key of [k0, k1).
ListRange(n, k0, k1) ==
    LET top == IF k0 = k1 THEN k0 + 1 ELSE k1
        found == {k \in Keys : k0 <= k /\ k < top /\ idr[k] # NoDev}
        size == Cardinality(found)
    IN  [j \in 1 .. (IF n < size THEN n ELSE size) |-> idr[Nth(found, j)]]

\* alldevs_is_already_used
IsAlreadyUsed(d) == \E w \in Listed : d = req[w].ldev \/ d = req[w].ddev

\* alloc_any_minor and alloc_specific_minor: the keys one may get.
AllocMinor(minor) ==
    LET free == {k \in Keys : idr[k] = NoDev}
    IN  IF minor = AnyMinor
        THEN {k \in free : \A j \in free : k <= j} ELSE free \cap {minor}

\* Mutated AlldevsDel: the counter is not decremented.
AlldevsDelCount(w) ==
    /\ idr' = [idr EXCEPT ![key[w]] = NoDev]
    /\ nrDevs' = nrDevs

AlldevsDel(w) ==
    /\ idr' = [idr EXCEPT ![key[w]] = NoDev]
    /\ nrDevs' = nrDevs - 1

-----------------------------------------------------------------------------
(***************************************************************************)
(* Users of the block devices.  A disk can be opened while it is           *)
(* registered; walb_open and walb_release count the users.                 *)
(***************************************************************************)
NUsers(w) == Cardinality({u \in Users : opened[u] = <<"disk", w>>})

Open(u, w, d) ==
    /\ module = "in" /\ opened[u] = NoDev
    /\ d \in {"disk", "log_disk"} /\ d \in held[w]
    /\ opened' = [opened EXCEPT ![u] = <<d, w>>]
    /\ UNCHANGED <<mod, lock, dev, stage, todo, resources, dying, deferred, io>>

Close(u) ==
    /\ opened[u] # NoDev /\ io[u] = "none"
    /\ opened' = [opened EXCEPT ![u] = NoDev]
    /\ UNCHANGED <<mod, lock, dev, stage, todo, resources, dying, deferred, io>>

\* iocore_make_request tests is_wdev_dying ...
MakeRequest(u) ==
    /\ opened[u] # NoDev /\ opened[u][1] = "disk" /\ io[u] = "none"
    /\ opened[u][2] \notin dying
    /\ io' = [io EXCEPT ![u] = "tested"]
    /\ UNCHANGED <<mod, lock, dev, stage, todo, resources, dying, deferred,
                   opened>>

\* ... and later counts the IO in n_pending_bio.
CountBio(u) ==
    /\ io[u] = "tested"
    /\ io' = [io EXCEPT ![u] = "pending"]
    /\ UNCHANGED <<mod, lock, dev, stage, todo, resources, dying, deferred,
                   opened>>

EndBio(u) ==
    /\ io[u] = "pending"
    /\ io' = [io EXCEPT ![u] = "none"]
    /\ UNCHANGED <<mod, lock, dev, stage, todo, resources, dying, deferred,
                   opened>>

NPendingBio(w) ==
    Cardinality({u \in Users : opened[u] = <<"disk", w>> /\ io[u] = "pending"})

-----------------------------------------------------------------------------
(***************************************************************************)
(* ioctl_start_dev.  The ioctl fails without an effect when a disk is used *)
(* or no minor id is free.                                                 *)
(***************************************************************************)
StartDev(w, r) ==
    /\ module = "in" /\ lock = NoDev
    /\ stage[w] = "free" /\ \A u \in Users : opened[u] # NoDev => opened[u][2] # w
    /\ ~IsAlreadyUsed(r.ldev) /\ ~IsAlreadyUsed(r.ddev)
    /\ \E k \in AllocMinor(r.minor) :
           /\ idr' = [idr EXCEPT ![k] = Prealloced]
           /\ key' = [key EXCEPT ![w] = k]
    /\ lock' = w
    /\ req' = [req EXCEPT ![w] = r]
    /\ stage' = [stage EXCEPT ![w] = "prepare"]
    /\ todo' = [todo EXCEPT ![w] = PrepareOrder]
    /\ UNCHANGED <<mod, nrDevs, resources, dying, deferred, user>>

\* One step of prepare_wdev succeeds.
Prepare(w) ==
    /\ stage[w] = "prepare" /\ todo[w] # <<>>
    /\ Take(w, Head(todo[w]))
    /\ todo' = [todo EXCEPT ![w] = Tail(@)]
    /\ UNCHANGED <<mod, lock, dev, stage, dying, deferred, user>>

\* What a goto of prepare_wdev or of iocore_initialize releases.
Taken(w) ==
    Reverse(SubSeq(PrepareOrder, 1, Len(PrepareOrder) - Len(todo[w])))

\* Mutated PrepareFail: the error path of iocore_initialize forgets the last cache.
PrepareFailCache(w) ==
    /\ stage[w] = "prepare" /\ todo[w] # <<>>
    /\ Head(todo[w]) \notin {"bio_entry", "bio_wrapper"}
    /\ stage' = [stage EXCEPT ![w] = "unwind"]
    /\ todo' = [todo EXCEPT ![w] =
                  IF Head(@) = "iocored" THEN Tail(Taken(w)) ELSE Taken(w)]
    /\ UNCHANGED <<mod, lock, dev, resources, dying, deferred, user>>

(***************************************************************************)
(* A step of prepare_wdev fails.  bio_entry_init only counts.  The cache   *)
(* of bio_wrapper_init is assumed to be created: when it is not, the code  *)
(* returns without giving the count back.                                  *)
(***************************************************************************)
PrepareFail(w) ==
    /\ stage[w] = "prepare" /\ todo[w] # <<>>
    /\ Head(todo[w]) \notin {"bio_entry", "bio_wrapper"}
    /\ stage' = [stage EXCEPT ![w] = "unwind"]
    /\ todo' = [todo EXCEPT ![w] = Taken(w)]
    /\ UNCHANGED <<mod, lock, dev, resources, dying, deferred, user>>

\* One release of an error path, of unregister_wdev, finalize_wdev or
\* destroy_wdev.
Release(w) ==
    /\ stage[w] \in {"unwind", "register_error", "unregister", "finalize",
                    "destroy"}
    /\ todo[w] # <<>>
    /\ Give(w, Head(todo[w]))
    /\ todo' = [todo EXCEPT ![w] = Tail(@)]
    /\ UNCHANGED <<mod, lock, dev, stage, dying, deferred, user>>

\* The memory of the device is gone, and its parameters and flags with it.
Free(w) ==
    /\ stage' = [stage EXCEPT ![w] = "free"]
    /\ req' = [req EXCEPT ![w] = NoDev]
    /\ key' = [key EXCEPT ![w] = 0]
    /\ dying' = dying \ {w}

\* prepare_wdev has failed: free_minor, unlock.
StartFailed(w) ==
    /\ stage[w] = "unwind" /\ todo[w] = <<>> /\ idr[key[w]] = Prealloced
    /\ idr' = [idr EXCEPT ![key[w]] = NoDev]
    /\ Free(w)
    /\ lock' = NoDev
    /\ UNCHANGED <<mod, nrDevs, todo, resources, deferred, user>>

\* alldevs_add: the name is new.
AddDev(w) ==
    /\ stage[w] = "prepare" /\ todo[w] = <<>>
    /\ \A v \in Listed : NameOf(v) # NameOf(w)
    /\ idr' = [idr EXCEPT ![key[w]] = w]
    /\ nrDevs' = nrDevs + 1
    /\ stage' = [stage EXCEPT ![w] = "register"]
    /\ todo' = [todo EXCEPT ![w] = RegisterOrder]
    /\ UNCHANGED <<mod, lock, req, key, resources, dying, deferred, user>>

\* alldevs_add fails: free_minor, finalize and destroy under the lock.
AddDevClash(w) ==
    /\ stage[w] = "prepare" /\ todo[w] = <<>>
    /\ \E v \in Listed : NameOf(v) = NameOf(w)
    /\ idr' = [idr EXCEPT ![key[w]] = NoDev]
    /\ stage' = [stage EXCEPT ![w] = "flush"]
    /\ dying' = dying \cup {w}
    /\ UNCHANGED <<mod, lock, nrDevs, req, key, todo, resources, deferred, user>>

\* One step of register_wdev.
Register(w) ==
    /\ stage[w] = "register" /\ todo[w] # <<>>
    /\ Take(w, Head(todo[w]))
    /\ todo' = [todo EXCEPT ![w] = Tail(@)]
    /\ UNCHANGED <<mod, lock, dev, stage, dying, deferred, user>>

\* walb_sysfs_init fails: the error path of register_wdev and alldevs_del.
RegisterFail(w) ==
    /\ stage[w] = "register" /\ todo[w] = <<"sysfs">>
    /\ stage' = [stage EXCEPT ![w] = "register_error"]
    /\ todo' = [todo EXCEPT ![w] = RegisterError]
    /\ UNCHANGED <<mod, lock, dev, resources, dying, deferred, user>>

StartEnd(w) ==
    /\ stage[w] = "register" /\ todo[w] = <<>>
    /\ stage' = [stage EXCEPT ![w] = "running"]
    /\ lock' = NoDev
    /\ UNCHANGED <<mod, dev, todo, resources, dying, deferred, user>>

-----------------------------------------------------------------------------
(***************************************************************************)
(* ioctl_stop_dev, finalize_wdev and destroy_wdev.                         *)
(***************************************************************************)
StopDev(w, force) ==
    /\ module = "in" /\ lock = NoDev
    /\ w \in Listed
    /\ force \/ NUsers(w) = 0
    /\ lock' = w
    /\ stage' = [stage EXCEPT ![w] = "unregister"]
    /\ todo' = [todo EXCEPT ![w] = UnregisterOrder]
    /\ UNCHANGED <<mod, dev, resources, dying, deferred, user>>

\* The device is unregistered: alldevs_del and, in the ioctl, unlock.
\* finalize_wdev sets WALB_STATE_FINALIZE first.
Unregistered(w) ==
    /\ stage[w] = "unregister" /\ todo[w] = <<>>
    /\ IF lock = w THEN AlldevsDel(w) /\ lock' = NoDev
                   ELSE UNCHANGED <<idr, nrDevs, lock>>
    /\ stage' = [stage EXCEPT ![w] = "flush"]
    /\ dying' = dying \cup {w}
    /\ UNCHANGED <<mod, req, key, todo, resources, deferred, user>>

\* The same after register_wdev has failed; the lock is kept.
RegisterFailed(w) ==
    /\ stage[w] = "register_error" /\ todo[w] = <<>>
    /\ AlldevsDel(w)
    /\ stage' = [stage EXCEPT ![w] = "flush"]
    /\ dying' = dying \cup {w}
    /\ UNCHANGED <<mod, lock, req, key, todo, resources, deferred, user>>

\* finalize_wdev: iocore_flush waits for the IOs that are counted.
Flush(w) ==
    /\ stage[w] = "flush" /\ NPendingBio(w) = 0
    /\ stage' = [stage EXCEPT ![w] = "finalize"]
    /\ todo' = [todo EXCEPT ![w] = FinalizeOrder]
    /\ UNCHANGED <<mod, lock, dev, resources, dying, deferred, user>>

(***************************************************************************)
(* The device is finalized.  The stop ioctl leaves destroy_wdev to a work  *)
(* item when the device still has users, the others call it.               *)
(***************************************************************************)
Finalized(w) ==
    /\ stage[w] = "finalize" /\ todo[w] = <<>>
    /\ stage' = [stage EXCEPT ![w] = "wait_users"]
    /\ deferred' = IF lock \notin {w, "exit"} /\ NUsers(w) > 0
                   THEN deferred \cup {w} ELSE deferred
    /\ UNCHANGED <<mod, lock, dev, todo, resources, dying, user>>

\* Mutated WaitUsers: destroy_wdev does not wait.
WaitUsersNot(w) ==
    /\ stage[w] = "wait_users"
    /\ stage' = [stage EXCEPT ![w] = "destroy"]
    /\ todo' = [todo EXCEPT ![w] = DestroyOrder]
    /\ UNCHANGED <<mod, lock, dev, resources, dying, deferred, user>>

\* destroy_wdev waits until there are no users.
WaitUsers(w) ==
    /\ stage[w] = "wait_users" /\ NUsers(w) = 0
    /\ stage' = [stage EXCEPT ![w] = "destroy"]
    /\ todo' = [todo EXCEPT ![w] = DestroyOrder]
    /\ UNCHANGED <<mod, lock, dev, resources, dying, deferred, user>>

\* The end of an ioctl or of the work item; a start that failed unlocks here.
Destroyed(w) ==
    /\ stage[w] = "destroy" /\ todo[w] = <<>>
    /\ Free(w)
    /\ lock' = IF lock = w THEN NoDev ELSE lock
    /\ deferred' = deferred \ {w}
    /\ UNCHANGED <<mod, idr, nrDevs, todo, resources, user>>

-----------------------------------------------------------------------------
(***************************************************************************)
(* walb_init, whose error paths leave nothing behind, and walb_exit.  The  *)
(* kernel unloads the module when nobody has one of its devices open and   *)
(* no ioctl runs.                                                          *)
(***************************************************************************)
moduleUnchanged == <<dev, stage, todo, resources, dying, deferred, user>>

Insmod ==
    /\ module = "out"
    /\ module' = "init"
    /\ UNCHANGED <<parts, lock>> /\ UNCHANGED moduleUnchanged

WalbInit ==
    /\ module = "init"
    /\ \E j \in DOMAIN InitOrder :
           /\ InitOrder[j] \notin parts /\ \A i \in 1 .. j - 1 : InitOrder[i] \in parts
           /\ parts' = parts \cup {InitOrder[j]}
    /\ module' = IF Range(InitOrder) \subseteq parts' THEN "in" ELSE "init"
    /\ UNCHANGED lock /\ UNCHANGED moduleUnchanged

WalbInitFail ==
    /\ module = "init"
    /\ parts' = {}
    /\ module' = "out"
    /\ UNCHANGED lock /\ UNCHANGED moduleUnchanged

Exit ==
    /\ module = "in" /\ lock = NoDev
    /\ \A u \in Users : opened[u] = NoDev
    /\ \A w \in Wdevs : stage[w] \in {"free", "running"} \/ w \in deferred
    /\ module' = "exiting"
    /\ lock' = "exit"
    /\ UNCHANGED parts /\ UNCHANGED moduleUnchanged

\* alldevs_pop takes the device with the lowest key.
AlldevsPop(w) ==
    /\ lock = "exit"
    /\ \A v \in Wdevs : stage[v] \in {"free", "running"} \/ v \in deferred
    /\ w \in Listed /\ \A v \in Listed : key[w] <= key[v]
    /\ AlldevsDel(w)
    /\ stage' = [stage EXCEPT ![w] = "unregister"]
    /\ todo' = [todo EXCEPT ![w] = UnregisterOrder]
    /\ UNCHANGED <<mod, lock, req, key, resources, dying, deferred, user>>

\* The list is empty; destroying the workqueues waits for destroy_task.
ExitEnd ==
    /\ lock = "exit" /\ Listed = {}
    /\ \A w \in Wdevs : stage[w] = "free"
    /\ module' = "out"
    /\ parts' = parts \ Range(ExitOrder)
    /\ lock' = NoDev
    /\ UNCHANGED moduleUnchanged

-----------------------------------------------------------------------------
Init ==
    /\ module = "out" /\ parts = {} /\ lock = NoDev
    /\ idr = [k \in Keys |-> NoDev] /\ nrDevs = 0
    /\ stage = [w \in Wdevs |-> "free"] /\ todo = [w \in Wdevs |-> <<>>]
    /\ req = [w \in Wdevs |-> NoDev] /\ key = [w \in Wdevs |-> 0]
    /\ held = [w \in Wdevs |-> {}]
    /\ claims = [d \in Disks |-> 0] /\ caches = [c \in Caches |-> 0]
    /\ dying = {} /\ deferred = {}
    /\ opened = [u \in Users |-> NoDev] /\ io = [u \in Users |-> "none"]

\* The steps of a device that is being started, stopped or destroyed.
Step(w) ==
    \/ Prepare(w) \/ PrepareFail(w) \/ Release(w) \/ StartFailed(w)
    \/ AddDev(w) \/ AddDevClash(w)
    \/ Register(w) \/ RegisterFail(w) \/ StartEnd(w)
    \/ Unregistered(w) \/ RegisterFailed(w) \/ Flush(w) \/ Finalized(w)
    \/ WaitUsers(w) \/ Destroyed(w)

BioStep(u) == CountBio(u) \/ EndBio(u)

Next ==
    \/ Insmod \/ WalbInit \/ WalbInitFail \/ Exit \/ ExitEnd
    \/ \E w \in Wdevs :
           \/ Step(w) \/ AlldevsPop(w)
           \/ \E r \in Requests : StartDev(w, r)
           \/ \E force \in BOOLEAN : StopDev(w, force)
           \/ \E u \in Users, d \in {"disk", "log_disk"} : Open(u, w, d)
    \/ \E u \in Users : Close(u) \/ MakeRequest(u) \/ BioStep(u)

(***************************************************************************)
(* A thread inside an ioctl or a work item runs on, an IO that was counted *)
(* ends, and users close what they have opened.                            *)
(***************************************************************************)
Fairness ==
    /\ \A w \in Wdevs : WF_vars(Step(w))
    /\ \A u \in Users : WF_vars(BioStep(u)) /\ SF_vars(Close(u))

Spec == Init /\ [][Next]_vars /\ Fairness

-----------------------------------------------------------------------------
(***************************************************************************)
(* Properties.                                                             *)
(***************************************************************************)

\* The list when nobody holds the lock: exactly the running devices in the
\* order of their minor ids, as many as get_n_devices says, and no
\* preallocated entry of an ioctl that failed.
ListShowsRunning ==
    lock = NoDev =>
        LET list == ListRange(NKeys, 0, NKeys)
        IN  /\ Len(list) = nrDevs
            /\ Range(list) = {w \in Wdevs : stage[w] = "running"}
            /\ \A j \in 1 .. Len(list) - 1 : key[list[j]] < key[list[j + 1]]

\* Two disks that are registered at the same time, also while one is being
\* started or stopped, have different minor ids and names, and two listed
\* devices have no underlying disk in common.
DisksDistinct ==
    \A v, w \in Wdevs : v # w =>
        /\ "disk" \in held[v] /\ "disk" \in held[w]
               => key[v] # key[w] /\ NameOf(v) # NameOf(w)
        /\ v \in Listed /\ w \in Listed
               => {req[v].ldev, req[v].ddev} \cap {req[w].ldev, req[w].ddev} = {}

\* Starts, failed starts and stops, overlapping as they may, leave a list
\* that agrees with the devices (what ioctl_num_of_dev and alldevs_exit
\* assert), and keep minor ids, names and underlying disks apart.
ListExact == ListShowsRunning /\ DisksDistinct

\* A user of a walb device, and an IO that has passed the test of
\* iocore_make_request, find the walb_dev, its gendisk and its iocore data:
\* destroy_wdev comes after the last walb_release.
UsersHaveDevice ==
    \A u \in Users : opened[u] # NoDev /\ opened[u][1] = "disk" =>
        {"wdev", "gd", "iocored"} \subseteq held[opened[u][2]]

\* When no ioctl and no work item is under way, whichever of their steps has
\* failed before, the running devices have all they need and nothing else is
\* held: objects, claims of disks, counts of the shared caches, and after the
\* module is unloaded nothing at all.
NothingLeaked ==
    LET running == {w \in Wdevs : stage[w] = "running"}
        own == {"wdev", "super", "gd", "queue", "log_gd", "log_queue", "iocored",
                "checkpoint", "log_disk", "disk", "sysfs"}
    IN  (\A w \in Wdevs : stage[w] \in {"free", "running"}) =>
            /\ \A w \in Wdevs : held[w] = IF w \in running THEN own ELSE {}
            /\ \A d \in Disks : claims[d] =
                   Cardinality({w \in running : req[w].ldev = d})
                   + Cardinality({w \in running : req[w].ddev = d})
            /\ \A c \in Caches : caches[c] = Cardinality(running)
            /\ module = "out" => parts = {} /\ running = {}

\* Every start, stop and destruction of a device comes to an end, and with
\* it the hold on the lock, provided that users close the device.
LifeEnds ==
    \A w \in Wdevs :
        stage[w] \notin {"free", "running"} ~> stage[w] \in {"free", "running"}
=============================================================================
