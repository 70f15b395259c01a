---------------------------- MODULE WalbRecovery ----------------------------
(***************************************************************************)
(* Crash, restart and redo: execute_redo of redo.c on the log that the     *)
(* write path of io.c leaves behind, over several lives of the device.     *)
(*                                                                         *)
(* The log device is a ring of blocks, each a logpack header or the data   *)
(* of one write.  Its IOs land in any order and a crash loses the ones     *)
(* that have not landed.  The write path is reduced to that: WalbLog says  *)
(* when a pack is answered and WalbOverlap in which order data is written. *)
(* Writes take one block, so packs have no padding record; the data        *)
(* device takes discards.                                                  *)
(***************************************************************************)
EXTENDS Integers, Sequences, FiniteSets, SequencesExt

CONSTANTS
  Pos,        \* positions on the data device
  RingSize,   \* ring_buffer_size
  MaxRec,     \* bound: records of a pack
  InFlight,   \* bound: packs that are not yet answered
  MaxWrite,   \* bound: writes and discards
  MaxCrash,   \* bound: crashes
  MaxFail     \* bound: failed IOs of redo

ASSUME RecoveryAssumption ==
  /\ RingSize \in Nat \ {0} /\ MaxRec \in Nat \ {0} /\ InFlight \in Nat
  /\ MaxWrite \in Nat /\ MaxCrash \in Nat /\ MaxFail \in Nat

VARIABLES
  phase,      \* "down", "redo", "rewrite", "sync", "fail" or "up"
  log,        \* the ring buffer on the log device
  super,      \* written_lsid in the super block
  data,       \* data[p]: the last write to p that landed on the data device
  latest,     \* lsids.latest
  written,    \* lsids.written, or written_lsid of execute_redo
  packs,      \* packs that gc has not collected
  logIos,     \* log IOs under way
  ios,        \* data IOs under way, in lsid order
  leaked,     \* bio wrappers that redo neither submitted nor destroyed
  (* history *)
  last,       \* the number of writes so far
  top,        \* the largest latest so far
  acked,      \* records answered, or visible after a redo
  redone,     \* records that this redo has found
  dropped,    \* writes that some redo did not find
  stale,      \* some redo has left a later header in the ring buffer
  crashes, fails,
  ignored     \* errors that redo does not notice

devVars  == <<log, super, data>>
lsidVars == <<latest, written>>
ioVars   == <<packs, logIos, ios>>
histVars == <<last, top, acked, redone, dropped, stale, crashes>>
failVars == <<fails, ignored>>
vars == <<phase, devVars, lsidVars, ioVars, leaked, histVars, failVars>>

-----------------------------------------------------------------------------
(* The format of the log *)

\* get_offset_of_lsid
Off(lsid) == lsid % RingSize

Header(lsid, recs) == [lsid |-> lsid, recs |-> recs, id |-> 0]
Block(id) == [lsid |-> 0, recs |-> <<>>, id |-> id]

IsHeader(b) == b.recs # <<>>

IsWrite(r) == r.kind = "write"

\* lsid_local of record k: discards take no block.
LsidLocal(recs, k) == Cardinality({j \in 1..k : IsWrite(recs[j])})

\* total_io_size of a pack with these records
TotalIoSize(recs) == LsidLocal(recs, Len(recs))

NextLsid(h) == h.lsid + 1 + TotalIoSize(h.recs)

\* The block of record k of header h
BlockOf(h, k) == log[Off(h.lsid + LsidLocal(h.recs, k))]

\* The log IOs of a pack: its header and the data of its writes.
LogIosOf(lsid, recs) ==
  {[off |-> Off(lsid), block |-> Header(lsid, recs)]}
    \cup {[off |-> Off(lsid + LsidLocal(recs, k)), block |-> Block(recs[k].id)] :
            k \in {j \in 1..Len(recs) : IsWrite(recs[j])}}

\* The records of the next n requests.
NewRecs(n) ==
  {[k \in 1..n |-> [kind |-> kinds[k], pos |-> ps[k], id |-> last + k]] :
     kinds \in [1..n -> {"write", "discard"}], ps \in [1..n -> Pos]}

\* A formatted device that nobody has started.
Init ==
  /\ phase = "down"
  /\ log = [o \in 0..(RingSize - 1) |-> Block(0)]
  /\ super = 0 /\ data = [p \in Pos |-> 0]
  /\ latest = 0 /\ written = 0
  /\ packs = <<>> /\ logIos = {} /\ ios = <<>>
  /\ leaked = FALSE
  /\ last = 0 /\ top = 0 /\ acked = {} /\ redone = {} /\ dropped = {} /\ stale = FALSE
  /\ crashes = 0 /\ fails = 0 /\ ignored = 0

Failure == fails < MaxFail /\ fails' = fails + 1 /\ UNCHANGED ignored

\* One that redo does not notice.
IgnoredFailure == fails < MaxFail /\ fails' = fails + 1 /\ ignored' = ignored + 1

-----------------------------------------------------------------------------
(* The write path *)

\* The submit task gives a pack its lsid and submits it, if the ring buffer has room.
SubmitPack(recs) ==
  /\ phase = "up"
  /\ last + Len(recs) <= MaxWrite
  /\ Cardinality({k \in 1..Len(packs) : ~packs[k].acked}) < InFlight
  /\ NextLsid(Header(latest, recs)) - super <= RingSize
  /\ packs' = Append(packs, [lsid |-> latest, recs |-> recs, acked |-> FALSE])
  /\ logIos' = logIos \cup LogIosOf(latest, recs)
  /\ latest' = NextLsid(Header(latest, recs))
  /\ last' = last + Len(recs)
  /\ top' = IF latest' > top THEN latest' ELSE top
  /\ UNCHANGED <<phase, devVars, written, ios, leaked, acked, redone, dropped, stale,
                 crashes, failVars>>

\* A log IO lands.
LandLog(io) ==
  /\ io \in logIos
  /\ log' = [log EXCEPT ![io.off] = io.block]
  /\ logIos' = logIos \ {io}
  /\ UNCHANGED <<phase, super, data, lsidVars, packs, ios, leaked, histVars, failVars>>

\* Mutated Answerable: a pack does not wait for the ones before it.
AnswerableAlone(k) == LogIosOf(packs[k].lsid, packs[k].recs) \cap logIos = {}

\* The packs before pack k are answered and its log is on the log device.
Answerable(k) ==
  /\ \A j \in 1..(k - 1) : packs[j].acked
  /\ LogIosOf(packs[k].lsid, packs[k].recs) \cap logIos = {}

\* The log wait task answers a pack and passes its data on.
AckPack(k) ==
  /\ phase = "up" /\ k \in 1..Len(packs)
  /\ ~packs[k].acked /\ Answerable(k)
  /\ packs' = [packs EXCEPT ![k].acked = TRUE]
  /\ acked' = acked \cup Range(packs[k].recs)
  /\ ios' = ios \o packs[k].recs
  /\ UNCHANGED <<phase, devVars, lsidVars, logIos, leaked, last, top, redone, dropped, stale,
                 crashes, failVars>>

\* An IO that has no length
IsEmpty(io) == io.kind = "empty"

\* overlaps nothing.
Overlap(a, b) == a.pos = b.pos /\ ~IsEmpty(a) /\ ~IsEmpty(b)

\* Data IOs land in any order unless they overlap.
CanLand(k) == k \in 1..Len(ios) /\ \A j \in 1..(k - 1) : ~Overlap(ios[j], ios[k])

LandData(k) ==
  /\ CanLand(k)
  /\ data' = IF IsEmpty(ios[k]) THEN data ELSE [data EXCEPT ![ios[k].pos] = ios[k].id]
  /\ ios' = RemoveAt(ios, k)
  /\ UNCHANGED <<phase, log, super, lsidVars, packs, logIos, leaked, histVars, failVars>>

\* The gc worker: the data of the first pack is written.
Collect ==
  /\ phase = "up" /\ packs # <<>> /\ Head(packs).acked
  /\ Range(Head(packs).recs) \cap Range(ios) = {}
  /\ written' = NextLsid(Head(packs))
  /\ packs' = Tail(packs)
  /\ UNCHANGED <<phase, devVars, latest, logIos, ios, leaked, histVars, failVars>>

\* walb_sync_super_block by a checkpoint.
Checkpoint ==
  /\ phase = "up"
  /\ super # written /\ super' = written
  /\ UNCHANGED <<phase, log, data, lsidVars, ioVars, leaked, histVars, failVars>>

\* finalize_wdev; the super block is written unless sync_superblock_ is off.
Shutdown(sync) ==
  /\ phase = "up" /\ packs = <<>>
  /\ super' = IF sync THEN latest ELSE super
  /\ phase' = "down"
  /\ UNCHANGED <<log, data, lsidVars, ioVars, leaked, histVars, failVars>>

\* Power failure, at any time.
Crash ==
  /\ phase # "down" /\ crashes < MaxCrash
  /\ crashes' = crashes + 1
  /\ phase' = "down"
  /\ packs' = <<>> /\ logIos' = {} /\ ios' = <<>> /\ leaked' = FALSE
  /\ UNCHANGED <<devVars, lsidVars, last, top, acked, redone, dropped, stale, failVars>>

-----------------------------------------------------------------------------
(* redo.c *)

\* prepare_wdev: the lsids of the super block, then execute_redo.
Start ==
  /\ phase = "down"
  /\ latest' = super /\ written' = super
  /\ redone' = {}
  /\ phase' = "redo"
  /\ UNCHANGED <<devVars, ioVars, leaked, last, top, acked, dropped, stale, crashes, failVars>>

\* The block at written_lsid.
HeaderBlock == log[Off(written)]

\* get_logpack_header_for_redo
HeaderFound == IsHeader(HeaderBlock) /\ HeaderBlock.lsid = written

\* Mutated ValidRec: the checksum is not compared.
ValidRecUnchecked(h, k) == TRUE

\* Record k is a discard, or its block has the checksum that the record says.
ValidRec(h, k) == IsWrite(h.recs[k]) => BlockOf(h, k).id = h.recs[k].id

\* invalid_idx: the number of records before the first that is invalid.
InvalidIdx(h) ==
  CHOOSE n \in 0..Len(h.recs) :
    /\ \A k \in 1..n : ValidRec(h, k)
    /\ n < Len(h.recs) => ~ValidRec(h, n + 1)

\* The data IOs of the first n records, with what is in the log.  The length of a
\* discard is shifted by 9 once too often, which leaves nothing of a short one.
RedoIos(h, n) ==
  [k \in 1..n |-> IF IsWrite(h.recs[k]) THEN [h.recs[k] EXCEPT !.id = BlockOf(h, k).id]
                                        ELSE [h.recs[k] EXCEPT !.kind = "empty"]]

\* The header does not follow: this is the end of the log.
RedoEndOfLog ==
  /\ phase = "redo" /\ ~HeaderFound
  /\ phase' = "sync"
  /\ UNCHANGED <<devVars, lsidVars, ioVars, leaked, histVars, failVars>>

\* Mutated RedoneTo: written_lsid_p is not set.
RedoneToSame(h) == h.lsid

RedoneTo(h) == NextLsid(h)

\* redo_logpack submits the data of the valid records; all of them, ...
RedoValid(h) ==
  /\ InvalidIdx(h) = Len(h.recs)
  /\ written' = RedoneTo(h)
  /\ UNCHANGED phase

\* ... or none, and redo ends, ...
RedoInvalid(h) ==
  /\ InvalidIdx(h) = 0
  /\ phase' = "sync"
  /\ UNCHANGED written

\* ... or some, and the header will be written again.
RedoPartly(h) ==
  /\ InvalidIdx(h) \in 1..(Len(h.recs) - 1)
  /\ phase' = "rewrite"
  /\ UNCHANGED written

RedoLogpack ==
  /\ phase = "redo" /\ HeaderFound
  /\ LET h == HeaderBlock
     IN  /\ RedoValid(h) \/ RedoInvalid(h) \/ RedoPartly(h)
         /\ ios' = ios \o RedoIos(h, InvalidIdx(h))
         /\ redone' = redone \cup Range(SubSeq(h.recs, 1, InvalidIdx(h)))
  /\ UNCHANGED <<devVars, latest, packs, logIos, leaked, last, top, acked, dropped, stale,
                 crashes, failVars>>

\* Mutated Truncated: the records stay.
TruncatedNot(h) == h

\* The header without the records from the first invalid one on.
Truncated(h) == Header(h.lsid, SubSeq(h.recs, 1, InvalidIdx(h)))

RedoRewrite ==
  /\ phase = "rewrite"
  /\ log' = [log EXCEPT ![Off(written)] = Truncated(HeaderBlock)]
  /\ written' = written + 1 + LsidLocal(HeaderBlock.recs, InvalidIdx(HeaderBlock))
  /\ phase' = "sync"
  /\ UNCHANGED <<super, data, latest, ioVars, leaked, histVars, failVars>>

\* All IOs are done: the lsids are set and the super block is written.
RedoEnd ==
  /\ phase = "sync" /\ ios = <<>>
  /\ latest' = written
  /\ super' = written
  /\ phase' = "up"
  /\ acked' = acked \cup {r \in redone : data[r.pos] = r.id}
  /\ dropped' = dropped \cup ((1..last) \ {r.id : r \in acked \cup redone})
  /\ stale' = (stale \/ \E o \in DOMAIN log : IsHeader(log[o]) /\ log[o].lsid > written)
  /\ UNCHANGED <<log, data, written, ioVars, leaked, last, top, redone, crashes, failVars>>

\* Reading a header failed.  Its status is tested only if the memory it was to be read
\* into looks like the header; otherwise this is the end of the log.
RedoHeaderFail(looks) ==
  /\ phase = "redo"
  /\ IF looks THEN Failure ELSE IgnoredFailure
  /\ phase' = IF looks THEN "fail" ELSE "sync"
  /\ UNCHANGED <<devVars, lsidVars, ioVars, leaked, histVars>>

\* Record k cannot be read: those before it are ready and are forgotten.
Leaks(k) == k > 1

\* Reading the block of record k failed.
RedoBlockFail(k) ==
  /\ phase = "redo" /\ HeaderFound
  /\ k \in 1..Len(HeaderBlock.recs) /\ IsWrite(HeaderBlock.recs[k])
  /\ k <= InvalidIdx(HeaderBlock) + 1
  /\ Failure
  /\ leaked' = Leaks(k)
  /\ phase' = "fail"
  /\ UNCHANGED <<devVars, lsidVars, ioVars, histVars>>

\* Writing the header or the super block failed.
RedoWriteFail ==
  /\ phase = "rewrite" \/ (phase = "sync" /\ ios = <<>>)
  /\ Failure
  /\ phase' = "fail"
  /\ UNCHANGED <<devVars, lsidVars, ioVars, leaked, histVars>>

\* A data IO of redo failed: the gc worker keeps its status, which nobody reads.
RedoDataFail(k) ==
  /\ phase \in {"redo", "rewrite", "sync", "fail"} /\ CanLand(k)
  /\ IgnoredFailure
  /\ ios' = RemoveAt(ios, k)
  /\ UNCHANGED <<phase, devVars, lsidVars, packs, logIos, leaked, histVars>>

\* execute_redo has waited for every bio wrapper and returns false.
RedoFailed ==
  /\ phase = "fail" /\ ios = <<>> /\ ~leaked
  /\ phase' = "down"
  /\ UNCHANGED <<devVars, lsidVars, ioVars, leaked, histVars, failVars>>

-----------------------------------------------------------------------------
WritePath ==
  \/ \E n \in 1..MaxRec : \E recs \in NewRecs(n) : SubmitPack(recs)
  \/ \E io \in logIos : LandLog(io)
  \/ \E k \in 1..Len(packs) : AckPack(k)
  \/ Collect \/ Checkpoint
  \/ \E sync \in BOOLEAN : Shutdown(sync)

Land == \E k \in 1..Len(ios) : LandData(k)

Redo == RedoEndOfLog \/ RedoLogpack \/ RedoRewrite \/ RedoEnd \/ RedoFailed

RedoFail ==
  \/ \E looks \in BOOLEAN : RedoHeaderFail(looks)
  \/ \E k \in 1..MaxRec : RedoBlockFail(k)
  \/ RedoWriteFail
  \/ \E k \in 1..Len(ios) : RedoDataFail(k)

Next == WritePath \/ Land \/ Crash \/ Start \/ Redo \/ RedoFail

Spec == Init /\ [][Next]_vars

\* Redo goes on and the data device answers.
FairSpec == Spec /\ WF_vars(Redo) /\ WF_vars(Land)

-----------------------------------------------------------------------------
Recs == [kind : {"write", "discard"}, pos : Pos, id : 0..MaxWrite]

Blocks == [lsid : Nat, recs : Seq(Recs), id : 0..MaxWrite]

Packs == [lsid : Nat, recs : Seq(Recs), acked : BOOLEAN]

Ios == [kind : {"write", "discard", "empty"}, pos : Pos, id : 0..MaxWrite]

TypeOK ==
  /\ phase \in {"down", "redo", "rewrite", "sync", "fail", "up"}
  /\ log \in [0..(RingSize - 1) -> Blocks]
  /\ super \in Nat /\ latest \in Nat /\ written \in Nat
  /\ data \in [Pos -> 0..MaxWrite]
  /\ packs \in Seq(Packs)
  /\ logIos \subseteq [off : 0..(RingSize - 1), block : Blocks]
  /\ ios \in Seq(Ios)
  /\ leaked \in BOOLEAN /\ stale \in BOOLEAN
  /\ last \in 0..MaxWrite /\ top \in Nat
  /\ acked \subseteq Recs /\ redone \subseteq Recs
  /\ dropped \subseteq 1..MaxWrite
  /\ crashes \in 0..MaxCrash /\ fails \in 0..MaxFail /\ ignored \in 0..fails

\* What a read of p returns while the device is up: pending data, or the data device.
Visible(p) ==
  LET pending == {k \in 1..Len(ios) : ios[k].pos = p}
  IN  IF pending = {} THEN data[p] ELSE ios[Max(pending)].id

\* No answered write is lost: after any crashes and redos a read returns it or a later one.
Durable ==
  phase = "up" => \A r \in acked : IsWrite(r) => Visible(r.pos) >= r.id

\* Redo has noticed every error, and has never left a later pack behind a torn one.
Clean == ignored = 0 /\ ~stale

\* An answered write is not lost, wherever the crashes are, in redo or after it.
NothingLost == Clean => Durable

\* A write that a redo did not find does not come back: reads have been answered without it.
NoResurrection == (Clean /\ phase = "up") => \A p \in Pos : Visible(p) \notin dropped

\* The packs before written_lsid can be extracted: their headers end where the next pack
\* begins and their records match their blocks, unless the ring buffer has been written
\* past them.
LogIntact ==
  (Clean /\ phase = "up") =>
    \A o \in DOMAIN log :
      LET h == log[o]
      IN  (IsHeader(h) /\ h.lsid < written /\ h.lsid + RingSize >= top) =>
             /\ NextLsid(h) <= written
             /\ \A k \in 1..Len(h.recs) : ValidRec(h, k)

\* Redo ends, in success or not, whatever fails.
EveryRedoEnds == (phase = "redo") ~> (phase \in {"up", "down"})

\* Redo ends unless it has forgotten bio wrappers that it waits for.
RedoEnds == (phase = "redo") ~> (phase \in {"up", "down"} \/ leaked)
=============================================================================
