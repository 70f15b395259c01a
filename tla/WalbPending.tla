---------------------------- MODULE WalbPending ----------------------------
(***************************************************************************)
(* The pending data of a walb device, and reads: module/pending_io.c,      *)
(* bio_wrapper.c and submit_read_bio_wrapper of io.c.                      *)
(*                                                                         *)
(* A write is answered once it is in the log; until the data device has it *)
(* it stays in pending_data.  A read copies what pending_data holds under  *)
(* pending_data_lock, splitting its bios at the borders, and reads the     *)
(* other bios from the data device.                                        *)
(*                                                                         *)
(* A write is named by its lsid.  The tasks that bring it to pending_data  *)
(* and to the data device, their queues and their failures are the subject *)
(* of WalbQueue; here the log wait task, the data device and the data wait *)
(* task handle one write after the other.  That the data device applies    *)
(* overlapping writes in order is what WalbOverlap proves.                 *)
(***************************************************************************)
EXTENDS Integers, FiniteSetsExt

CONSTANTS
  NSectors,    \* sectors of the device
  WriteIos,    \* the writes users issue: records [pos, len, discard]
  ReadIos,     \* the reads users issue: records [pos, len, discard]
  Chunk,       \* ddev_chunk_sectors, 0 for none
  MaxWrites    \* bound: writes in a behaviour

ASSUME PendingAssumption ==
  /\ {NSectors, MaxWrites} \subseteq Nat \ {0}
  /\ Chunk \in Nat
  /\ WriteIos \cup ReadIos \subseteq
       [pos : 0..NSectors - 1, len : 1..NSectors, discard : BOOLEAN]
  /\ \A io \in WriteIos \cup ReadIos : io.pos + io.len <= NSectors

Lsids == 1..MaxWrites
Sectors == 0..NSectors - 1

VARIABLES
  biow,      \* the bio_wrapper of each write
  map,       \* pending_data
  max,       \* max_sectors_in_pending
  ddev,      \* the lsid of the write each sector of the data device holds
  read,      \* a read in progress
  seen       \* the newest write that a read has returned of each sector

vars == <<biow, map, max, ddev, read, seen>>

NoBiow == [st |-> "none", io |-> [pos |-> 0, len |-> 0, discard |-> FALSE], over |-> FALSE]
NoRead == [on |-> FALSE, bios |-> {}, got |-> <<>>, need |-> <<>>]

Init ==
  /\ biow = [i \in Lsids |-> NoBiow]
  /\ map = {}
  /\ max = 0
  /\ ddev = [s \in Sectors |-> 0]
  /\ read = NoRead
  /\ seen = [s \in Sectors |-> 0]

End(io) == io.pos + io.len
Covers(io) == io.pos .. End(io) - 1
IsOverlap(a, b) == a.pos < End(b) /\ b.pos < End(a)
IsOverwrittenBy(a, b) == b.pos <= a.pos /\ End(a) <= End(b)

(***************************************************************************)
(* Writes                                                                  *)
(***************************************************************************)
\* Mutated Overwritten: overlapped instead of fully overwritten.
OverwrittenOverlapped(io) == {j \in map : IsOverlap(biow[j].io, io)}

\* The writes that pending_delete_fully_overwritten deletes: at the keys from the
\* position of io to its end, those that io covers.
Overwritten(io) ==
  {j \in map : biow[j].io.pos \in Covers(io) /\ IsOverwrittenBy(biow[j].io, io)}

\* The log wait task, under pending_data_lock: a write goes to pending_data
\* (pending_insert_and_delete_fully_overwritten), a discard does not.
Insert(i, io) ==
  /\ biow[i].st = "none"
  /\ \A j \in 1..i - 1 : biow[j].st \notin {"none", "inserted"}
  /\ IF io.discard
     THEN /\ biow' = [biow EXCEPT ![i] = [st |-> "inserted", io |-> io, over |-> FALSE]]
          /\ UNCHANGED <<map, max>>
     ELSE /\ map' = (map \ Overwritten(io)) \cup {i}
          /\ max' = Max({max, io.len})
          /\ biow' = [j \in Lsids |->
                        IF j = i THEN [st |-> "inserted", io |-> io, over |-> FALSE]
                        ELSE IF j \in Overwritten(io) THEN [biow[j] EXCEPT !.over = TRUE]
                        ELSE biow[j]]
  /\ UNCHANGED <<ddev, read, seen>>

\* It answers the user and hands the write to the data tasks.
Answer(i) ==
  /\ biow[i].st = "inserted"
  /\ biow' = [biow EXCEPT ![i].st = "answered"]
  /\ UNCHANGED <<map, max, ddev, read, seen>>

\* The data device applies a write, once those it overlaps left the overlapped data.
DdevWrite(i) ==
  /\ biow[i].st = "answered"
  /\ \A j \in 1..i - 1 : biow[j].st \in {"answered", "written"}
                           => ~IsOverlap(biow[i].io, biow[j].io)
  /\ ddev' = [s \in Sectors |-> IF s \in Covers(biow[i].io) THEN i ELSE ddev[s]]
  /\ biow' = [biow EXCEPT ![i].st = "written"]
  /\ UNCHANGED <<map, max, read, seen>>

\* The data wait task takes the writes in order; it removes a complete one from the
\* overlapped data, which lets those go that waited for it,
Notify(i) ==
  /\ biow[i].st = "written"
  /\ \A j \in 1..i - 1 : biow[j].st = "done"
  /\ biow' = [biow EXCEPT ![i].st = "notified"]
  /\ UNCHANGED <<map, max, ddev, read, seen>>

\* and deletes it from pending_data (delete_bio_wrapper_from_pending_data) unless a later
\* write that covers it already did.
Delete(i) ==
  /\ biow[i].st = "notified"
  /\ biow' = [biow EXCEPT ![i] = [st |-> "done", io |-> @.io, over |-> FALSE]]
  /\ IF biow[i].io.discard \/ biow[i].over
     THEN UNCHANGED <<map, max>>
     ELSE map' = map \ {i} /\ max' = IF map' = {} THEN 0 ELSE max
  /\ UNCHANGED <<ddev, read, seen>>

(***************************************************************************)
(* Reads                                                                   *)
(***************************************************************************)
\* split_bio_for_chunk: the bios of an io, none across a border of a chunk.
SplitForChunk(io) ==
  LET borders == {b \in io.pos + 1 .. End(io) - 1 : Chunk # 0 /\ b % Chunk = 0}
  IN {[pos |-> b, end |-> Min({c \in borders \cup {End(io)} : c > b}), copied |-> FALSE] :
        b \in borders \cup {io.pos}}

\* bio_wrapper_copy_overlapped on one bio of the list: what the write covers is copied,
\* and the bio is split before and behind it.  split0 is a new bio: whatever the bio it
\* came from was, it does not carry the bit of a copied one.
SplitCopied(bio, io) ==
  LET lo == Max({bio.pos, io.pos})
      hi == Min({bio.end, End(io)})
      split0 == [pos |-> bio.pos, end |-> lo, copied |-> FALSE]
      rest == [bio EXCEPT !.pos = hi]
  IN IF lo >= hi THEN {bio}
     ELSE {b \in {split0, [pos |-> lo, end |-> hi, copied |-> TRUE], rest} : b.pos < b.end}

CopyOverlapped(bios, io) == UNION {SplitCopied(b, io) : b \in bios}

\* Mutated Found: the search starts at the position of the read.
FoundAtPos(io) ==
  {i \in map : biow[i].io.pos >= io.pos /\ IsOverlap(biow[i].io, io)}

\* The pending writes that pending_check_and_copy finds: from as far before the read as
\* the largest pending write is long.
Found(io) ==
  LET start == IF io.pos > max THEN io.pos - max ELSE 0
  IN {i \in map : biow[i].io.pos >= start /\ IsOverlap(biow[i].io, io)}

Newest(ids, s) == Max({0} \cup {i \in ids : s \in Covers(biow[i].io)})

\* The writes that are not discards (what a read returns of a discarded sector is left
\* open), and those of them whose users have their answer.
Data == {i \in Lsids : biow[i].st # "none" /\ ~biow[i].io.discard}
Answered == {i \in Data : biow[i].st # "inserted"}

\* pending_check_and_copy: the copies from the pending writes found, in the order of their
\* lsids.  copies[n] are the bios after those up to lsid n.
CopyFound(io) ==
  LET copies[n \in 0..MaxWrites] ==
        IF n = 0 THEN SplitForChunk(io)
        ELSE IF n \in Found(io) THEN CopyOverlapped(copies[n - 1], biow[n].io)
        ELSE copies[n - 1]
  IN copies[MaxWrites]

\* submit_read_bio_wrapper: clone, split, and under the lock copy from the pending writes;
\* bio_wrapper_endio_copied ends the copied bios, and the others go to the data device.
\* need is what a user may expect by now.  A read that finds no memory for a clone or a
\* split is answered with an error and leaves nothing.
ReadStart(io) ==
  /\ ~read.on
  /\ read' = [on |-> TRUE,
              bios |-> {b \in CopyFound(io) : ~b.copied},
              got |-> [s \in Covers(io) |-> Newest(Found(io), s)],
              need |-> [s \in Covers(io) |-> Max({seen[s], Newest(Answered, s)})]]
  /\ UNCHANGED <<biow, map, max, ddev, seen>>

\* The data device reads a bio.
ReadDdev(bio) ==
  /\ bio \in read.bios
  /\ read' = [read EXCEPT
                !.got = [s \in DOMAIN @ |->
                           IF s \in bio.pos .. bio.end - 1 THEN ddev[s] ELSE @[s]],
                !.bios = @ \ {bio}]
  /\ UNCHANGED <<biow, map, max, ddev, seen>>

\* task_wait_and_gc_read_bio_wrapper
ReadEnd ==
  /\ read.on
  /\ read.bios = {}
  /\ read' = NoRead
  /\ seen' = [s \in Sectors |-> IF s \in DOMAIN read.got /\ read.got[s] \in Data
                                 THEN read.got[s] ELSE seen[s]]
  /\ UNCHANGED <<biow, map, max, ddev>>

-----------------------------------------------------------------------------
Next ==
  \/ \E i \in Lsids, io \in WriteIos : Insert(i, io)
  \/ \E i \in Lsids : Answer(i) \/ DdevWrite(i) \/ Notify(i) \/ Delete(i)
  \/ \E io \in ReadIos : ReadStart(io)
  \/ \E bio \in read.bios : ReadDdev(bio)
  \/ ReadEnd

Spec == Init /\ [][Next]_vars

(***************************************************************************)
(* Properties                                                              *)
(***************************************************************************)
\* A read returns for each sector a write at least as new as the newest one that was
\* answered, or that an earlier read returned, when the read looked at pending_data
\* (submit_read_bio_wrapper): from there if the data device does not have it, from the
\* data device otherwise, whatever completes, is overwritten or leaves pending_data
\* between the look and the read of the device.
ReadFresh ==
  read.on /\ read.bios = {} =>
    \A s \in DOMAIN read.got : read.got[s] >= read.need[s]

\* pending_data holds exactly the writes that were inserted and not deleted, but for
\* those that a newer one there covers, and no one of them is longer than
\* max_sectors_in_pending.  pending_delete asserts of each write it deletes that it was
\* there, and the search of a read relies on the maximum.
PendingExact ==
  LET data == {i \in Data : biow[i].st # "done"}
  IN /\ map = {i \in data : ~biow[i].over}
     /\ \A i \in map : biow[i].io.len <= max
     /\ \A i \in data \ map : \E j \in map : j > i /\ IsOverwrittenBy(biow[i].io, biow[j].io)
=============================================================================
