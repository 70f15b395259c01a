------------------------- MODULE WalbRecoveryProofs -------------------------
(***************************************************************************)
(* Proofs about crash, restart and redo: that nothing answered is lost,    *)
(* that what a redo did not find stays away, and that the log can be       *)
(* extracted, for every size of the ring buffer, of the packs and of the   *)
(* data device, and any number of writes, crashes and failed IOs.          *)
(*                                                                         *)
(* None of the three is inductive.  The invariant (CleanInv) knows where   *)
(* the log ends: from written_lsid in the super block to an lsid "end"     *)
(* there is one complete pack behind the other (ChainTo), which is what a  *)
(* redo will find, and what it can find after that is at end.  An answered *)
(* write is in that chain, or the data device has it or a later one and    *)
(* nothing in the chain is older (AckedSafe).  When the device is up, end  *)
(* is where the answered packs end (UpInv); in redo, written_lsid goes     *)
(* along the chain and what is before it is found (RedoInv).  The end      *)
(* moves on when a pack is answered and when redo meets complete packs     *)
(* that were never answered, and moves to the middle of a torn pack when   *)
(* redo writes its header again.                                           *)
(***************************************************************************)
EXTENDS WalbRecovery, FiniteSetTheorems, WellFoundedInduction, TLAPS

-----------------------------------------------------------------------------
(* The log *)

Headers == {b \in {log[o] : o \in 0..(RingSize - 1)} : IsHeader(b)}

Ascending(s) == \A j, k \in 1..Len(s) : j < k => s[j].id < s[k].id
Before(s, t) == \A a \in Range(s), b \in Range(t) : a.id < b.id

\* The records of a pack: ids that were given out, in their order.
RecsOK(s) == s # <<>> /\ Ascending(s) /\ \A r \in Range(s) : r.id \in 1..last

\* All data of a pack is in the log.
Complete(h) == \A k \in 1..Len(h.recs) : ValidRec(h, k)

\* A pack without the data of its first record, where a redo ended: it never gets it.
Dead(h) == h.lsid = super /\ ~ValidRec(h, 1)

\* A header is at its place, and the ring buffer has room for what follows it.
HeadersOK ==
  /\ \A o \in 0..(RingSize - 1) : IsHeader(log[o]) => Off(log[o].lsid) = o
  /\ \A h \in Headers :
       /\ h.id = 0
       /\ RecsOK(h.recs)
       /\ NextLsid(h) <= top
       /\ h.lsid >= super => NextLsid(h) <= super + RingSize

\* Packs that a redo may meet follow one another, and so do their writes.
HeadersInOrder ==
  \A b, c \in Headers : super <= b.lsid /\ b.lsid < c.lsid /\ ~Dead(b) =>
    NextLsid(b) <= c.lsid /\ Before(b.recs, c.recs)

Border(lsid, end) == lsid = end \/ \E h \in Headers : h.lsid = lsid

\* From the super block to end there is one complete pack behind the other.
ChainTo(end) ==
  /\ super <= end /\ end <= super + RingSize /\ end <= top
  /\ Border(super, end)
  /\ \A h \in Headers : super <= h.lsid /\ h.lsid < end =>
       Complete(h) /\ NextLsid(h) <= end /\ Border(NextLsid(h), end)

\* Packs before the super block are complete until the ring buffer is written past them.
OldIntact ==
  \A h \in Headers : h.lsid < super /\ h.lsid + RingSize >= top =>
    Complete(h) /\ NextLsid(h) <= super

NotDropped(s) == \A r \in Range(s) : r.id \notin dropped

DroppedOK ==
  /\ dropped \subseteq 1..last
  /\ \A r \in acked : r.id \in 1..last /\ r.id \notin dropped
  /\ \A h \in Headers : h.lsid >= super /\ ~Dead(h) => NotDropped(h.recs)

-----------------------------------------------------------------------------
(* The log and the data device *)

\* A record that a redo will find: in the complete packs, or before the first invalid
\* record of the one behind them.
InChain(r, end) ==
  \E h \in Headers : super <= h.lsid /\ h.lsid < end /\ r \in Range(h.recs)
InTail(r, end) ==
  \E h \in Headers : h.lsid = end /\ \E k \in 1..Len(h.recs) :
    r = h.recs[k] /\ \A j \in 1..k : ValidRec(h, j)

\* The data device has a write or a later one, and will.
Settled(r) ==
  /\ r.id <= data[r.pos]
  /\ \A h \in Headers : h.lsid >= super /\ ~Dead(h) =>
       \A s \in Range(h.recs) : r.id < s.id
  /\ \A io \in Range(ios) : io.pos = r.pos /\ ~IsEmpty(io) => r.id <= io.id

AckedSafe(end) == \A r \in acked : IsWrite(r) => InChain(r, end) \/ Settled(r)

\* What the data device has is answered or will be found again.
Known(r, end) == r \in acked \/ (phase # "up" /\ (InChain(r, end) \/ InTail(r, end)))

DataKnown(end) ==
  /\ \A p \in Pos : data[p] = 0 \/ \E r \in Recs : Known(r, end) /\ r.pos = p /\ r.id = data[p]
  /\ \A io \in Range(ios) : IsEmpty(io) \/ Known(io, end)

DiskInv(end) ==
  /\ HeadersOK /\ HeadersInOrder /\ ChainTo(end) /\ OldIntact /\ DroppedOK
  /\ AckedSafe(end) /\ DataKnown(end) /\ Ascending(ios)

-----------------------------------------------------------------------------
(* The device is up *)

\* Nothing before written and everything before end is answered.
LsidsOK(end) ==
  /\ super <= written /\ written <= end /\ end <= latest
  /\ latest <= super + RingSize /\ latest <= top
  /\ packs = <<>> => latest = written

\* The packs that gc has not collected follow one another from written to latest.
PackOK(k, end) ==
  /\ RecsOK(packs[k].recs) /\ NotDropped(packs[k].recs)
  /\ k = 1 => packs[k].lsid = written
  /\ written <= packs[k].lsid
  /\ NextLsid(packs[k]) = IF k = Len(packs) THEN latest ELSE packs[k + 1].lsid
  /\ NextLsid(packs[k]) <= latest
  /\ packs[k].acked <=> packs[k].lsid < end
  /\ packs[k].acked => NextLsid(packs[k]) <= end /\ Range(packs[k].recs) \subseteq acked
  /\ ~packs[k].acked => \A r \in acked, s \in Range(packs[k].recs) : r.id < s.id

PacksInOrder ==
  \A j, k \in 1..Len(packs) : j < k =>
    NextLsid(packs[j]) <= packs[k].lsid /\ Before(packs[j].recs, packs[k].recs)

PacksOK(end) ==
  LsidsOK(end) /\ (\A k \in 1..Len(packs) : PackOK(k, end)) /\ PacksInOrder

IosOf(k) == LogIosOf(packs[k].lsid, packs[k].recs)

\* A log IO of a pack is under way or has landed, and has landed when it is answered.
LogIosOK ==
  /\ \A k \in 1..Len(packs) : \A io \in IosOf(k) :
       IF io \in logIos THEN ~packs[k].acked ELSE log[io.off] = io.block
  /\ \A io \in logIos : \E k \in 1..Len(packs) : ~packs[k].acked /\ io \in IosOf(k)

\* A header behind the super block is that of a collected pack, of one of packs, or was left
\* there by the redo.
Collected(h) ==
  /\ h.lsid < written /\ NextLsid(h) <= written
  /\ Range(h.recs) \subseteq acked
  /\ \A k \in 1..Len(packs) : Before(h.recs, packs[k].recs)
Ours(h) == \E k \in 1..Len(packs) : h = Header(packs[k].lsid, packs[k].recs)
Left(h, end) == Dead(h) /\ end = super /\ \A k \in 1..Len(packs) : Before(h.recs, packs[k].recs)

HeadersUp(end) == \A h \in Headers : h.lsid >= super => Collected(h) \/ Ours(h) \/ Left(h, end)

\* Data IOs are newer than what they overwrite; an answered write is on its way to the data
\* device or there.
DataUp ==
  /\ \A io \in Range(ios) :
       /\ io \in acked /\ ~IsEmpty(io) /\ data[io.pos] < io.id
       /\ \E j \in 1..Len(packs) : packs[j].acked /\ io \in Range(packs[j].recs)
  /\ \A r \in acked : IsWrite(r) => r \in Range(ios) \/ r.id <= data[r.pos]

UpInv(end) == PacksOK(end) /\ LogIosOK /\ HeadersUp(end) /\ DataUp

-----------------------------------------------------------------------------
(* Redo *)

\* Redo has found what is in the packs before written.
RedoneIs(end) ==
  /\ \A h \in Headers : super <= h.lsid /\ h.lsid < written =>
       Range(h.recs) \subseteq redone
  /\ \A r \in redone : InChain(r, written) \/ (phase = "rewrite" /\ InTail(r, end))

\* A write that it has found is on its way to the data device or there.
DataRedo ==
  /\ \A io \in Range(ios) :
       /\ IsEmpty(io) \/ (IsWrite(io) /\ io \in redone)
       /\ \E r \in redone : r.id = io.id
  /\ \A r \in redone : IsWrite(r) =>
       \/ r \in Range(ios)
       \/ /\ r.id <= data[r.pos]
          /\ \A io \in Range(ios) : io.pos = r.pos /\ ~IsEmpty(io) => r.id < io.id

\* The header at end, of which redo has found the first records.
Torn(end) ==
  \E h \in Headers : h.lsid = end /\ \E n \in 1..(Len(h.recs) - 1) :
    /\ \A k \in 1..n : ValidRec(h, k) /\ h.recs[k] \in redone
    /\ ~ValidRec(h, n + 1)

RedoInv(end) ==
  /\ super <= written /\ written <= end /\ Border(written, end)
  /\ phase \in {"rewrite", "sync"} => written = end
  /\ phase = "rewrite" => Torn(end)
  /\ phase = "sync" => \A h \in Headers : h.lsid = end => ~ValidRec(h, 1)
  /\ RedoneIs(end) /\ DataRedo

PhaseInv(end) ==
  /\ phase = "up" => UpInv(end)
  /\ phase # "up" => packs = <<>> /\ logIos = {}
  /\ phase = "down" => ios = <<>>
  /\ phase \in {"redo", "rewrite", "sync"} => RedoInv(end)

CleanInv(end) == DiskInv(end) /\ PhaseInv(end)

IInv == TypeOK /\ (Clean => \E end \in super..(super + RingSize) : CleanInv(end))

-----------------------------------------------------------------------------
(* Places in the ring buffer, and the lengths of packs *)

\* A set of naturals that is not empty has a least element.
LEMMA LeastOf ==
  ASSUME NEW S \in SUBSET Nat, S # {}
  PROVE  \E x \in S : \A y \in S : x <= y
<1> DEFINE R == OpToRel(<, Nat)
<1>1. IsWellFoundedOn(R, Nat)
  BY NatLessThanWellFounded
<1>2. \A x, y \in Nat : y < x => <<y, x>> \in R
  BY DEF OpToRel
<1> HIDE DEF R
<1>3. PICK x \in S : \A y \in S : ~(<<y, x>> \in R)
  BY <1>1, WFMin
<1>4. ASSUME NEW y \in S PROVE x <= y
  <2>1. x \in Nat /\ y \in Nat
    OBVIOUS
  <2>2. ~(y < x)
    BY <1>2, <1>3, <2>1, Zenon
  <2> QED
    BY <2>1, <2>2
<1> QED
  BY <1>4

\* An lsid is a number of times around the ring buffer, and a place in it.
LEMMA OffIs ==
  ASSUME NEW a \in Nat
  PROVE  /\ Off(a) \in 0..(RingSize - 1)
         /\ \E q \in Nat : a = (RingSize * q) + Off(a)
<1>1. RingSize \in Nat \ {0}
  BY RecoveryAssumption
<1>2. (a % RingSize) \in 0..(RingSize - 1)
  BY <1>1
<1>3. a = (RingSize * (a \div RingSize)) + (a % RingSize)
  BY <1>1
<1>4. (a \div RingSize) \in Nat
  BY <1>1
<1> QED
  BY <1>2, <1>3, <1>4 DEF Off

\* Two lsids at one place are a ring buffer apart.
LEMMA OffApart ==
  ASSUME NEW a \in Nat, NEW b \in Nat, a < b, Off(a) = Off(b)
  PROVE  a + RingSize <= b
<1>1. RingSize \in Nat \ {0}
  BY RecoveryAssumption
<1>2. PICK p \in Nat, q \in Nat, r \in 0..(RingSize - 1) :
        a = (RingSize * p) + r /\ b = (RingSize * q) + r
  BY OffIs
<1>3. \A x, y \in Nat : x < y => (RingSize * x) + RingSize <= RingSize * y
  BY <1>1
<1>4. p < q
  <2>1. q <= p => RingSize * q <= RingSize * p
    BY <1>1, <1>3
  <2> QED
    BY <1>1, <1>2, <2>1
<1>5. (RingSize * p) + RingSize <= RingSize * q
  BY <1>3, <1>4
<1>6. RingSize * p \in Nat /\ RingSize * q \in Nat
  BY <1>1
<1> QED
  BY <1>1, <1>2, <1>5, <1>6

\* lsid_local, record by record.
LEMMA LocalStep ==
  ASSUME NEW s, NEW k \in Nat
  PROVE  /\ LsidLocal(s, k) \in Nat
         /\ LsidLocal(s, k + 1) = LsidLocal(s, k) + (IF IsWrite(s[k + 1]) THEN 1 ELSE 0)
<1> DEFINE W(n) == {j \in 1..n : IsWrite(s[j])}
<1>1. \A n \in Nat : IsFiniteSet(W(n))
  <2> SUFFICES ASSUME NEW n \in Nat PROVE IsFiniteSet(W(n))
    OBVIOUS
  <2>1. IsFiniteSet(1..n)
    BY FS_Interval
  <2>2. W(n) \in SUBSET (1..n)
    OBVIOUS
  <2> QED
    BY <2>1, <2>2, FS_Subset
<1>2. W(k + 1) = IF IsWrite(s[k + 1]) THEN W(k) \cup {k + 1} ELSE W(k)
  <2>1. \A j : j \in 1..(k + 1) <=> j \in 1..k \/ j = k + 1
    OBVIOUS
  <2> QED
    BY <2>1
<1>3. k + 1 \notin W(k)
  OBVIOUS
<1>4. \A n : LsidLocal(s, n) = Cardinality(W(n))
  BY DEF LsidLocal
<1> HIDE DEF W
<1>5. Cardinality(W(k)) \in Nat
  BY <1>1, FS_CardinalityType
<1>6. Cardinality(W(k) \cup {k + 1}) = Cardinality(W(k)) + 1
  BY <1>1, <1>3, FS_AddElement
<1> QED
  BY <1>2, <1>4, <1>5, <1>6

\* No record, no block.
LEMMA LocalZero == ASSUME NEW s PROVE LsidLocal(s, 0) = 0
<1>1. {j \in 1..0 : IsWrite(s[j])} = {}
  OBVIOUS
<1> QED
  BY <1>1, FS_EmptySet DEF LsidLocal

\* The first record has no block or the first.
LEMMA LocalFirst ==
  ASSUME NEW s
  PROVE  LsidLocal(s, 1) = IF IsWrite(s[1]) THEN 1 ELSE 0
<1>1. 0 \in Nat /\ 0 + 1 = 1
  OBVIOUS
<1>2. LsidLocal(s, 0 + 1) = LsidLocal(s, 0) + (IF IsWrite(s[0 + 1]) THEN 1 ELSE 0)
  BY <1>1, LocalStep
<1> QED
  BY <1>1, <1>2, LocalZero

\* Later records have later blocks.
LEMMA LocalOrder ==
  ASSUME NEW s, NEW j \in Nat, NEW k \in Nat, j <= k
  PROVE  /\ LsidLocal(s, j) <= LsidLocal(s, k)
         /\ j < k /\ IsWrite(s[k]) => LsidLocal(s, j) < LsidLocal(s, k)
<1>1. ASSUME NEW a \in Nat, NEW b \in Nat, a <= b PROVE LsidLocal(s, a) <= LsidLocal(s, b)
  <2> DEFINE A == {i \in 1..a : IsWrite(s[i])}
             B == {i \in 1..b : IsWrite(s[i])}
  <2>1. IsFiniteSet(B)
    <3>1. IsFiniteSet(1..b)
      BY FS_Interval
    <3> QED
      BY <3>1, FS_Subset
  <2>2. A \in SUBSET B
    BY <1>1
  <2> HIDE DEF A, B
  <2>3. Cardinality(A) <= Cardinality(B)
    BY <2>1, <2>2, FS_Subset
  <2> QED
    BY <2>3 DEF LsidLocal, A, B
<1>2. ASSUME j < k, IsWrite(s[k]) PROVE LsidLocal(s, j) < LsidLocal(s, k)
  <2>1. k - 1 \in Nat /\ (k - 1) + 1 = k /\ j <= k - 1
    BY <1>2
  <2>2. LsidLocal(s, j) <= LsidLocal(s, k - 1)
    BY <1>1, <2>1
  <2>3. LsidLocal(s, (k - 1) + 1) = LsidLocal(s, k - 1) + (IF IsWrite(s[(k - 1) + 1]) THEN 1 ELSE 0)
    BY <2>1, LocalStep
  <2>4. LsidLocal(s, j) \in Nat /\ LsidLocal(s, k - 1) \in Nat
    BY <2>1, LocalStep
  <2> QED
    BY <1>2, <2>1, <2>2, <2>3, <2>4
<1> QED
  BY <1>1, <1>2

\* The first records of a pack have the blocks that they have in the pack.
LEMMA LocalSub ==
  ASSUME NEW S, NEW s \in Seq(S), NEW n \in 1..Len(s), NEW k \in 0..n
  PROVE  LsidLocal(SubSeq(s, 1, n), k) = LsidLocal(s, k)
<1>1. \A j \in 1..n : SubSeq(s, 1, n)[j] = s[j]
  OBVIOUS
<1>2. \A j \in 1..k : SubSeq(s, 1, n)[j] = s[j]
  BY <1>1
<1>3. {j \in 1..k : IsWrite(SubSeq(s, 1, n)[j])} = {j \in 1..k : IsWrite(s[j])}
  BY <1>2, Zenon
<1> QED
  BY <1>3, Zenon DEF LsidLocal

\* A header and what follows it.
LEMMA NextIs ==
  ASSUME NEW h, h.lsid \in Nat, Len(h.recs) \in Nat
  PROVE  /\ NextLsid(h) \in Nat /\ h.lsid < NextLsid(h)
         /\ \A k \in 1..Len(h.recs) :
              /\ h.lsid + LsidLocal(h.recs, k) \in Nat
              /\ h.lsid <= h.lsid + LsidLocal(h.recs, k)
              /\ h.lsid + LsidLocal(h.recs, k) < NextLsid(h)
              /\ IsWrite(h.recs[k]) => h.lsid < h.lsid + LsidLocal(h.recs, k)
<1>1. LsidLocal(h.recs, Len(h.recs)) \in Nat
  BY LocalStep
<1>2. ASSUME NEW k \in 1..Len(h.recs)
      PROVE  /\ LsidLocal(h.recs, k) \in Nat
             /\ LsidLocal(h.recs, k) <= LsidLocal(h.recs, Len(h.recs))
             /\ IsWrite(h.recs[k]) => 0 < LsidLocal(h.recs, k)
  <2>1. k \in Nat /\ k <= Len(h.recs) /\ 0 < k /\ 0 \in Nat
    OBVIOUS
  <2>2. LsidLocal(h.recs, k) \in Nat
    BY <2>1, LocalStep
  <2>3. LsidLocal(h.recs, k) <= LsidLocal(h.recs, Len(h.recs))
    BY <2>1, LocalOrder
  <2>4. IsWrite(h.recs[k]) => LsidLocal(h.recs, 0) < LsidLocal(h.recs, k)
    BY <2>1, LocalOrder
  <2> QED
    BY <2>2, <2>3, <2>4, LocalZero
<1> QED
  BY <1>1, <1>2 DEF NextLsid, TotalIoSize

\* The records before the first invalid one.
LEMMA InvalidIs ==
  ASSUME NEW h, Len(h.recs) \in Nat
  PROVE  /\ InvalidIdx(h) \in 0..Len(h.recs)
         /\ \A k \in 1..InvalidIdx(h) : ValidRec(h, k)
         /\ InvalidIdx(h) < Len(h.recs) => ~ValidRec(h, InvalidIdx(h) + 1)
<1> DEFINE Ok(n) == /\ \A k \in 1..n : ValidRec(h, k)
                    /\ n < Len(h.recs) => ~ValidRec(h, n + 1)
           Bad == {k \in 1..Len(h.recs) : ~ValidRec(h, k)}
<1>1. \E n \in 0..Len(h.recs) : Ok(n)
  <2>1. CASE Bad = {}
    <3>1. Ok(Len(h.recs))
      BY <2>1
    <3> QED
      BY <3>1
  <2>2. CASE Bad # {}
    <3>1. Bad \in SUBSET Nat
      OBVIOUS
    <3>2. PICK x \in Bad : \A y \in Bad : x <= y
      <4> HIDE DEF Bad
      <4> QED
        BY <2>2, <3>1, LeastOf
    <3>3. x - 1 \in 0..Len(h.recs) /\ x - 1 + 1 = x /\ ~ValidRec(h, x)
      BY <3>2
    <3>4. \A k \in 1..(x - 1) : ValidRec(h, k)
      BY <3>2
    <3> QED
      BY <3>3, <3>4
  <2> QED
    BY <2>1, <2>2
<1>2. InvalidIdx(h) = CHOOSE n \in 0..Len(h.recs) : Ok(n)
  BY DEF InvalidIdx
<1> HIDE DEF Ok
<1>3. InvalidIdx(h) \in 0..Len(h.recs) /\ Ok(InvalidIdx(h))
  BY <1>1, <1>2
<1> QED
  BY <1>3 DEF Ok

\* There is one such number.
LEMMA InvalidOne ==
  ASSUME NEW h, Len(h.recs) \in Nat, NEW n \in 0..Len(h.recs),
         \A k \in 1..n : ValidRec(h, k), n < Len(h.recs) => ~ValidRec(h, n + 1)
  PROVE  InvalidIdx(h) = n
<1>1. PICK m : m = InvalidIdx(h)
  OBVIOUS
<1>2. /\ m \in 0..Len(h.recs)
      /\ \A k \in 1..m : ValidRec(h, k)
      /\ m < Len(h.recs) => ~ValidRec(h, m + 1)
  BY <1>1, InvalidIs
<1>3. ~(m < n)
  <2>1. m < n => m + 1 \in 1..n /\ m < Len(h.recs)
    BY <1>2
  <2> QED
    BY <1>2, <2>1
<1>4. ~(n < m)
  <2>1. n < m => n + 1 \in 1..m /\ n < Len(h.recs)
    BY <1>2
  <2> QED
    BY <1>2, <2>1
<1> QED
  BY <1>1, <1>2, <1>3, <1>4

\* RemoveAt drops one element and keeps the order of the others.
LEMMA RemoveAtIs ==
  ASSUME NEW S, NEW s \in Seq(S), NEW k \in 1..Len(s)
  PROVE  /\ RemoveAt(s, k) \in Seq(S) /\ Len(RemoveAt(s, k)) = Len(s) - 1
         /\ \A i \in 1..(Len(s) - 1) : RemoveAt(s, k)[i] = IF i < k THEN s[i] ELSE s[i + 1]
<1> DEFINE a == SubSeq(s, 1, k - 1)
           b == SubSeq(s, k + 1, Len(s))
<1>1. Len(s) \in Nat /\ k \in Nat
  OBVIOUS
<1>2. a \in Seq(S) /\ Len(a) = k - 1 /\ \A i \in 1..(k - 1) : a[i] = s[i]
  OBVIOUS
<1>3. b \in Seq(S) /\ Len(b) = Len(s) - k
  OBVIOUS
<1>4. \A i \in 1..(Len(s) - k) : b[i] = s[k + i]
  <2> SUFFICES ASSUME NEW i \in 1..(Len(s) - k) PROVE b[i] = s[k + i]
    OBVIOUS
  <2>1. b[i] = s[(k + 1) + i - 1] 
    OBVIOUS
  <2> QED
    BY <2>1, <1>1
<1>5. RemoveAt(s, k) = a \o b
  BY DEF RemoveAt
<1> HIDE DEF a, b
<1>6. a \o b \in Seq(S) /\ Len(a \o b) = Len(s) - 1
  BY <1>1, <1>2, <1>3
<1>7. ASSUME NEW i \in 1..(Len(s) - 1)
      PROVE  (a \o b)[i] = IF i < k THEN s[i] ELSE s[i + 1]
  <2>1. CASE i < k
    <3>1. i \in 1..Len(a)
      BY <1>1, <1>2, <2>1
    <3>2. (a \o b)[i] = a[i]
      BY <1>2, <1>3, <3>1
    <3> QED
      BY <1>2, <2>1, <3>1, <3>2
  <2>2. CASE ~(i < k)
    <3>1. i \in (Len(a) + 1)..(Len(a) + Len(b)) /\ i - Len(a) = i - k + 1 /\ i - k + 1 \in 1..(Len(s) - k)
      BY <1>1, <1>2, <1>3, <2>2
    <3>2. (a \o b)[i] = b[i - Len(a)]
      BY <1>2, <1>3, <3>1
    <3>3. b[i - k + 1] = s[k + (i - k + 1)] /\ k + (i - k + 1) = i + 1
      BY <1>1, <1>4, <3>1
    <3> QED
      BY <2>2, <3>1, <3>2, <3>3
  <2> QED
    BY <2>1, <2>2
<1> QED
  BY <1>5, <1>6, <1>7

-----------------------------------------------------------------------------
(* Types *)

\* The records of new requests have new ids.
LEMMA NewRecsAre ==
  ASSUME last \in Nat, NEW n \in Nat, NEW recs \in NewRecs(n)
  PROVE  /\ Len(recs) = n /\ DOMAIN recs = 1..n
         /\ \A k \in 1..n : /\ recs[k].id = last + k
                            /\ recs[k].kind \in {"write", "discard"} /\ recs[k].pos \in Pos
         /\ last + n <= MaxWrite => recs \in Seq(Recs)
<1>1. PICK kinds \in [1..n -> {"write", "discard"}], ps \in [1..n -> Pos] :
        recs = [k \in 1..n |-> [kind |-> kinds[k], pos |-> ps[k], id |-> last + k]]
  <2>1. recs \in NewRecs(n)
    OBVIOUS
  <2> QED
    BY <2>1, SMTT(60) DEF NewRecs
<1>2. DOMAIN recs = 1..n /\ \A k \in 1..n : recs[k] = [kind |-> kinds[k], pos |-> ps[k], id |-> last + k]
  BY <1>1
<1>3. recs \in Seq([kind : {"write", "discard"}, pos : Pos, id : Nat]) /\ Len(recs) = n
  <2> DEFINE T == [kind : {"write", "discard"}, pos : Pos, id : Nat]
  <2>1. recs \in [1..n -> T]
    BY <1>1
  <2> HIDE DEF T
  <2>2. recs \in Seq(T) /\ Len(recs) = n
    BY <2>1
  <2> QED
    BY <2>2 DEF T
<1>4. last + n <= MaxWrite => recs \in Seq(Recs)
  <2> SUFFICES ASSUME last + n <= MaxWrite PROVE recs \in Seq(Recs)
    OBVIOUS
  <2>1. MaxWrite \in Nat
    BY RecoveryAssumption
  <2>2. \A k \in 1..n : last + k \in 0..MaxWrite
    BY <2>1
  <2>3. \A k \in 1..n : recs[k] \in Recs
    BY <1>2, <2>2 DEF Recs
  <2>4. recs \in [1..n -> Recs]
    BY <1>1, <1>2, <2>3
  <2> QED
    BY <2>4
<1> QED
  BY <1>2, <1>3, <1>4

\* The log IOs of a pack go to the places of its lsids.
LEMMA LogIosAre ==
  ASSUME NEW lsid \in Nat, NEW recs \in Seq(Recs), NEW io \in LogIosOf(lsid, recs)
  PROVE  /\ io = [off |-> io.off, block |-> io.block]
         /\ io.off \in 0..(RingSize - 1) /\ io.block \in Blocks
         /\ \E l \in Nat :
              /\ lsid <= l /\ l < NextLsid(Header(lsid, recs)) /\ io.off = Off(l)
              /\ \/ l = lsid /\ io.block = Header(lsid, recs)
                 \/ \E k \in 1..Len(recs) :
                      /\ IsWrite(recs[k]) /\ lsid < l /\ l = lsid + LsidLocal(recs, k)
                      /\ io.block = Block(recs[k].id)
<1> DEFINE h == Header(lsid, recs)
<1>1. h.lsid = lsid /\ h.recs = recs /\ h.id = 0 /\ Len(h.recs) \in Nat /\ h \in Blocks
  <2>1. 0 \in 0..MaxWrite
    BY RecoveryAssumption
  <2> QED
    BY <2>1 DEF Header, Blocks
<1>2. /\ NextLsid(h) \in Nat /\ lsid < NextLsid(h)
      /\ \A k \in 1..Len(recs) :
           /\ lsid + LsidLocal(recs, k) \in Nat
           /\ lsid + LsidLocal(recs, k) < NextLsid(h)
           /\ IsWrite(recs[k]) => lsid < lsid + LsidLocal(recs, k)
  <2> HIDE DEF h
  <2> QED
    BY <1>1, NextIs
<1>3. CASE io = [off |-> Off(lsid), block |-> h]
  <2>1. Off(lsid) \in 0..(RingSize - 1) /\ lsid <= lsid
    BY OffIs
  <2>2. io.off = Off(lsid) /\ io.block = h
    BY <1>3
  <2> HIDE DEF h
  <2>3. io = [off |-> io.off, block |-> io.block]
    BY <1>3
  <2> QED
    BY <1>1, <1>2, <2>1, <2>2, <2>3 DEF h
<1>4. ASSUME NEW k \in 1..Len(recs), IsWrite(recs[k]),
             io = [off |-> Off(lsid + LsidLocal(recs, k)), block |-> Block(recs[k].id)]
      PROVE  /\ io = [off |-> io.off, block |-> io.block]
             /\ io.off \in 0..(RingSize - 1) /\ io.block \in Blocks
             /\ \E l \in Nat :
                  /\ lsid < l /\ l < NextLsid(h) /\ io.off = Off(l)
                  /\ l = lsid + LsidLocal(recs, k)
                  /\ io.block = Block(recs[k].id)
  <2>1. PICK l \in Nat : l = lsid + LsidLocal(recs, k) /\ lsid < l /\ l < NextLsid(h)
    BY <1>2, <1>4
  <2>2. Off(l) \in 0..(RingSize - 1)
    BY OffIs
  <2>3. Block(recs[k].id) \in Blocks
    <3>1. recs[k] \in Recs
      OBVIOUS
    <3> QED
      BY <3>1 DEF Block, Blocks, Recs
  <2> HIDE DEF h
  <2> QED
    BY <1>4, <2>1, <2>2, <2>3
<1>5. \/ io = [off |-> Off(lsid), block |-> h]
      \/ \E k \in {j \in 1..Len(recs) : IsWrite(recs[j])} :
            io = [off |-> Off(lsid + LsidLocal(recs, k)), block |-> Block(recs[k].id)]
  BY DEF LogIosOf
<1> HIDE DEF h
<1>6. CASE \E k \in {j \in 1..Len(recs) : IsWrite(recs[j])} :
            io = [off |-> Off(lsid + LsidLocal(recs, k)), block |-> Block(recs[k].id)]
  <2>1. PICK k \in 1..Len(recs) : IsWrite(recs[k]) /\
            io = [off |-> Off(lsid + LsidLocal(recs, k)), block |-> Block(recs[k].id)]
    BY <1>6
  <2>2. /\ io = [off |-> io.off, block |-> io.block]
        /\ io.off \in 0..(RingSize - 1) /\ io.block \in Blocks
        /\ \E l \in Nat :
              /\ lsid < l /\ l < NextLsid(h) /\ io.off = Off(l)
              /\ l = lsid + LsidLocal(recs, k)
              /\ io.block = Block(recs[k].id)
    BY <1>4, <2>1
  <2>3. PICK l \in Nat : /\ lsid < l /\ l < NextLsid(h) /\ io.off = Off(l)
              /\ l = lsid + LsidLocal(recs, k)
              /\ io.block = Block(recs[k].id)
    BY <2>2
  <2> QED
    BY <2>1, <2>2, <2>3 DEF h
<1> QED
  BY <1>3, <1>5, <1>6 DEF h

\* What the record of a header says of its block.
LEMMA BlocksAre ==
  ASSUME TypeOK, NEW l \in Nat
  PROVE  /\ log[Off(l)] \in Blocks /\ log[Off(l)].lsid \in Nat /\ log[Off(l)].recs \in Seq(Recs)
         /\ log[Off(l)].id \in 0..MaxWrite /\ Len(log[Off(l)].recs) \in Nat
<1>1. Off(l) \in 0..(RingSize - 1)
  BY OffIs
<1> QED
  BY <1>1 DEF TypeOK, Blocks

\* Redo submits an IO for each record.
LEMMA RedoIosAre ==
  ASSUME TypeOK, NEW h \in Blocks, NEW n \in 0..Len(h.recs)
  PROVE  /\ RedoIos(h, n) \in Seq(Ios) /\ Len(RedoIos(h, n)) = n
         /\ \A k \in 1..n :
              RedoIos(h, n)[k] = IF IsWrite(h.recs[k])
                                 THEN [h.recs[k] EXCEPT !.id = BlockOf(h, k).id]
                                 ELSE [h.recs[k] EXCEPT !.kind = "empty"]
<1>1. h.lsid \in Nat /\ h.recs \in Seq(Recs) /\ Len(h.recs) \in Nat /\ n \in Nat
  BY DEF Blocks
<1>2. ASSUME NEW k \in 1..n
      PROVE  h.recs[k] \in Recs /\ BlockOf(h, k).id \in 0..MaxWrite
  <2>1. h.lsid + LsidLocal(h.recs, k) \in Nat
    BY <1>1, NextIs
  <2>2. log[Off(h.lsid + LsidLocal(h.recs, k))].id \in 0..MaxWrite
    BY <2>1, BlocksAre
  <2> QED
    BY <1>1, <2>2 DEF BlockOf
<1> DEFINE e(k) == IF IsWrite(h.recs[k]) THEN [h.recs[k] EXCEPT !.id = BlockOf(h, k).id]
                                         ELSE [h.recs[k] EXCEPT !.kind = "empty"]
<1>3. ASSUME NEW k \in 1..n PROVE e(k) \in Ios
  BY <1>2 DEF Ios, Recs
<1>4. RedoIos(h, n) = [k \in 1..n |-> e(k)]
  BY DEF RedoIos
<1> HIDE DEF e
<1>5. RedoIos(h, n) \in [1..n -> Ios]
  BY <1>3, <1>4
<1>6. RedoIos(h, n) \in Seq(Ios) /\ Len(RedoIos(h, n)) = n
  BY <1>1, <1>5
<1>7. \A k \in 1..n : RedoIos(h, n)[k] = e(k)
  BY <1>4
<1> QED
  BY <1>6, <1>7 DEF e

\* A pack is submitted.
LEMMA TypeSubmit ==
  ASSUME TypeOK, NEW n \in 1..MaxRec, NEW recs \in NewRecs(n), SubmitPack(recs)
  PROVE  TypeOK'
<1>1. MaxRec \in Nat /\ MaxWrite \in Nat /\ last \in Nat /\ n \in Nat /\ latest \in Nat
  BY RecoveryAssumption DEF TypeOK
<1>2. Len(recs) = n
  BY <1>1, NewRecsAre
<1>3. recs \in Seq(Recs)
  BY <1>1, <1>2, NewRecsAre DEF SubmitPack
<1>4. NextLsid(Header(latest, recs)) \in Nat
  <2>1. PICK h : h = Header(latest, recs)
    OBVIOUS
  <2>2. h.lsid \in Nat /\ Len(h.recs) \in Nat
    BY <1>1, <1>3, <2>1 DEF Header
  <2> QED
    BY <2>1, <2>2, NextIs
<1>5. LogIosOf(latest, recs) \subseteq [off : 0..(RingSize - 1), block : Blocks]
  <2> SUFFICES ASSUME NEW io \in LogIosOf(latest, recs)
               PROVE  io \in [off : 0..(RingSize - 1), block : Blocks]
    OBVIOUS
  <2> QED
    BY <1>1, <1>3, LogIosAre
<1>6. packs' \in Seq(Packs)
  <2>1. [lsid |-> latest, recs |-> recs, acked |-> FALSE] \in Packs
    BY <1>1, <1>3 DEF Packs
  <2> QED
    BY <2>1 DEF SubmitPack, TypeOK
<1>7. logIos' \subseteq [off : 0..(RingSize - 1), block : Blocks]
  BY <1>5 DEF SubmitPack, TypeOK
<1>8. last' \in 0..MaxWrite /\ latest' \in Nat /\ top' \in Nat
  BY <1>1, <1>2, <1>4 DEF SubmitPack, TypeOK
<1> QED
  BY <1>6, <1>7, <1>8 DEF SubmitPack, TypeOK, devVars, failVars

\* The other steps of the write path, and a crash.
LEMMA TypeWrite ==
  ASSUME TypeOK, (\E io \in logIos : LandLog(io)) \/ (\E k \in 1..Len(packs) : AckPack(k))
                 \/ Collect \/ Checkpoint \/ (\E sync \in BOOLEAN : Shutdown(sync)) \/ Crash
                 \/ Start
  PROVE  TypeOK'
<1>1. ASSUME NEW io \in logIos, LandLog(io) PROVE TypeOK'
  <2>1. io.off \in 0..(RingSize - 1) /\ io.block \in Blocks
    BY DEF TypeOK
  <2>2. log' \in [0..(RingSize - 1) -> Blocks]
    BY <1>1, <2>1 DEF LandLog, TypeOK
  <2> QED
    BY <1>1, <2>2 DEF LandLog, TypeOK, lsidVars, histVars, failVars
<1>2. ASSUME NEW k \in 1..Len(packs), AckPack(k) PROVE TypeOK'
  <2>1. packs[k].recs \in Seq(Recs) /\ Recs \subseteq Ios /\ packs \in Seq(Packs)
    <3>1. packs \in Seq(Packs)
      BY DEF TypeOK
    <3>2. packs[k] \in Packs
      BY <3>1
    <3>3. Recs \subseteq Ios
      BY DEF Recs, Ios
    <3> QED
      BY <3>1, <3>2, <3>3 DEF Packs
  <2>2. packs' \in Seq(Packs)
    <3>1. [packs[k] EXCEPT !.acked = TRUE] \in Packs
      <4>1. packs[k] \in Packs
        BY <2>1
      <4> QED
        BY <4>1 DEF Packs
    <3> QED
      BY <1>2, <2>1, <3>1 DEF AckPack
  <2>3. acked' \subseteq Recs
    <3>1. Range(packs[k].recs) \subseteq Recs
      BY <2>1 DEF Range
    <3>2. acked \subseteq Recs
      BY DEF TypeOK
    <3> QED
      BY <1>2, <3>1, <3>2 DEF AckPack
  <2>4. ios' \in Seq(Ios)
    <3>1. packs[k].recs \in Seq(Ios)
      BY <2>1
    <3> QED
      BY <1>2, <3>1 DEF AckPack, TypeOK
  <2> QED
    BY <1>2, <2>2, <2>3, <2>4 DEF AckPack, TypeOK, devVars, lsidVars, failVars
<1>3. CASE Collect
  <2>1. packs \in Seq(Packs) /\ packs # <<>>
    BY <1>3 DEF TypeOK, Collect
  <2>2. Head(packs) \in Packs /\ Tail(packs) \in Seq(Packs)
    BY <2>1
  <2>3. NextLsid(Head(packs)) \in Nat
    <3>1. PICK h \in Packs : h = Head(packs)
      BY <2>2
    <3>2. h.lsid \in Nat /\ Len(h.recs) \in Nat
      BY DEF Packs
    <3> QED
      BY <3>1, <3>2, NextIs
  <2> QED
    BY <1>3, <2>2, <2>3 DEF Collect, TypeOK, devVars, histVars, failVars
<1>4. CASE Checkpoint
  BY <1>4 DEF Checkpoint, TypeOK, lsidVars, ioVars, histVars, failVars
<1>5. ASSUME NEW sync \in BOOLEAN, Shutdown(sync) PROVE TypeOK'
  BY <1>5 DEF Shutdown, TypeOK, lsidVars, ioVars, histVars, failVars
<1>6. CASE Crash
  <2>1. crashes' \in 0..MaxCrash
    BY <1>6, RecoveryAssumption DEF Crash, TypeOK
  <2> QED
    <3>1. <<>> \in Seq(Packs) /\ <<>> \in Seq(Ios)
      OBVIOUS
    <3> QED
      BY <1>6, <2>1, <3>1 DEF Crash, TypeOK, devVars, lsidVars, failVars
<1>7. CASE Start
  BY <1>7 DEF Start, TypeOK, devVars, ioVars, failVars
<1> QED
  BY <1>1, <1>2, <1>3, <1>4, <1>5, <1>6, <1>7

\* A data IO lands or fails.
LEMMA TypeLand ==
  ASSUME TypeOK, NEW k \in 1..Len(ios), LandData(k) \/ RedoDataFail(k)
  PROVE  TypeOK'
<1>1. ios[k] \in Ios /\ RemoveAt(ios, k) \in Seq(Ios)
  <2>1. ios \in Seq(Ios)
    BY DEF TypeOK
  <2> QED
    BY <2>1, RemoveAtIs
<1>2. CASE LandData(k)
  <2>1. data' \in [Pos -> 0..MaxWrite]
    BY <1>1, <1>2 DEF LandData, TypeOK, Ios
  <2> QED
    BY <1>1, <1>2, <2>1 DEF LandData, TypeOK, lsidVars, histVars, failVars
<1>3. CASE RedoDataFail(k)
  <2>1. fails' \in 0..MaxFail /\ ignored' \in 0..fails'
    <3>1. MaxFail \in Nat /\ fails \in 0..MaxFail /\ ignored \in 0..fails
      BY RecoveryAssumption DEF TypeOK
    <3>2. fails < MaxFail /\ fails' = fails + 1 /\ ignored' = ignored + 1
      BY <1>3 DEF RedoDataFail, IgnoredFailure
    <3> QED
      BY <3>1, <3>2
  <2> QED
    BY <1>1, <1>3, <2>1 DEF RedoDataFail, TypeOK, devVars, lsidVars, histVars
<1> QED
  BY <1>2, <1>3

\* Start and redo.
LEMMA TypeRedo ==
  ASSUME TypeOK, Redo \/ RedoWriteFail \/ (\E looks \in BOOLEAN : RedoHeaderFail(looks))
                 \/ (\E k \in 1..MaxRec : RedoBlockFail(k))
  PROVE  TypeOK'
<1>0. MaxFail \in Nat /\ MaxWrite \in Nat /\ fails \in 0..MaxFail /\ ignored \in 0..fails
  BY RecoveryAssumption DEF TypeOK
<1>1. CASE RedoEndOfLog \/ RedoFailed
  BY <1>1 DEF RedoEndOfLog, RedoFailed, TypeOK, devVars, lsidVars, ioVars, histVars, failVars
<1>2. CASE RedoLogpack
  <2>1. PICK h : h = HeaderBlock
    OBVIOUS
  <2>2. h \in Blocks /\ h.recs \in Seq(Recs) /\ Len(h.recs) \in Nat /\ h.lsid \in Nat
    <3>1. written \in Nat
      BY DEF TypeOK
    <3> QED
      BY <2>1, <3>1, BlocksAre DEF HeaderBlock
  <2>3. PICK n \in 0..Len(h.recs) : n = InvalidIdx(h)
    BY <2>2, InvalidIs
  <2>4. ios' \in Seq(Ios)
    <3>1. RedoIos(h, n) \in Seq(Ios)
      BY <2>2, RedoIosAre
    <3>2. ios \in Seq(Ios) /\ ios' = ios \o RedoIos(h, n)
      BY <1>2, <2>1, <2>3 DEF RedoLogpack, TypeOK
    <3> QED
      BY <3>1, <3>2
  <2>5. redone' \subseteq Recs
    <3>1. \A k \in 1..n : SubSeq(h.recs, 1, n)[k] = h.recs[k] /\ h.recs[k] \in Recs
      BY <2>2
    <3>2. Len(SubSeq(h.recs, 1, n)) = n /\ DOMAIN SubSeq(h.recs, 1, n) = 1..n
      BY <2>2
    <3>3. Range(SubSeq(h.recs, 1, n)) \subseteq Recs
      BY <3>1, <3>2 DEF Range
    <3>4. redone' = redone \cup Range(SubSeq(h.recs, 1, n)) /\ redone \subseteq Recs
      BY <1>2, <2>1, <2>3 DEF RedoLogpack, TypeOK
    <3> QED
      BY <3>3, <3>4
  <2>6. written' \in Nat /\ phase' \in {"redo", "rewrite", "sync"}
    <3>1. NextLsid(h) \in Nat
      BY <2>2, NextIs
    <3> QED
      BY <1>2, <2>1, <3>1 DEF RedoLogpack, RedoValid, RedoInvalid, RedoPartly, RedoneTo, TypeOK
  <2> QED
    BY <1>2, <2>4, <2>5, <2>6 DEF RedoLogpack, TypeOK, devVars, failVars
<1>3. CASE RedoRewrite
  <2>1. PICK h : h = HeaderBlock
    OBVIOUS
  <2>2. written \in Nat /\ Off(written) \in 0..(RingSize - 1)
    BY OffIs DEF TypeOK
  <2>3. h \in Blocks /\ h.recs \in Seq(Recs) /\ Len(h.recs) \in Nat /\ h.lsid \in Nat
    BY <2>1, <2>2, BlocksAre DEF HeaderBlock
  <2>4. PICK n \in 0..Len(h.recs) : n = InvalidIdx(h)
    BY <2>3, InvalidIs
  <2>5. Truncated(h) \in Blocks
    <3>1. SubSeq(h.recs, 1, n) \in Seq(Recs)
      BY <2>3
    <3> QED
      BY <1>0, <2>3, <2>4, <3>1 DEF Truncated, Header, Blocks
  <2>6. LsidLocal(h.recs, n) \in Nat
    BY LocalStep
  <2>7. log' \in [0..(RingSize - 1) -> Blocks]
    BY <1>3, <2>1, <2>2, <2>5 DEF RedoRewrite, TypeOK
  <2>8. written' \in Nat
    BY <1>3, <2>1, <2>2, <2>4, <2>6 DEF RedoRewrite
  <2> QED
    BY <1>3, <2>7, <2>8 DEF RedoRewrite, TypeOK, ioVars, histVars, failVars
<1>4. CASE RedoEnd
  <2>1. dropped' \subseteq 1..MaxWrite
    <3>1. last \in 0..MaxWrite /\ dropped \subseteq 1..MaxWrite
      BY DEF TypeOK
    <3>2. \A i \in 1..last : i \in 1..MaxWrite
      BY <1>0, <3>1
    <3> QED
      BY <1>4, <3>1, <3>2 DEF RedoEnd
  <2>2. acked' \subseteq Recs
    BY <1>4 DEF RedoEnd, TypeOK
  <2>3. stale' \in BOOLEAN
    BY <1>4 DEF RedoEnd, TypeOK
  <2> QED
    BY <1>4, <2>1, <2>2, <2>3 DEF RedoEnd, TypeOK, ioVars, failVars
<1>5. CASE RedoWriteFail
  <2>1. fails' \in 0..MaxFail /\ ignored' \in 0..fails'
    BY <1>0, <1>5 DEF RedoWriteFail, Failure
  <2> QED
    BY <1>5, <2>1 DEF RedoWriteFail, TypeOK, devVars, lsidVars, ioVars, histVars
<1>6. ASSUME NEW looks \in BOOLEAN, RedoHeaderFail(looks) PROVE TypeOK'
  <2>1. fails' \in 0..MaxFail /\ ignored' \in 0..fails'
    BY <1>0, <1>6 DEF RedoHeaderFail, Failure, IgnoredFailure
  <2>2. phase' \in {"fail", "sync"}
    BY <1>6 DEF RedoHeaderFail
  <2> QED
    BY <1>6, <2>1, <2>2 DEF RedoHeaderFail, TypeOK, devVars, lsidVars, ioVars, histVars
<1>7. ASSUME NEW k \in 1..MaxRec, RedoBlockFail(k) PROVE TypeOK'
  <2>1. fails' \in 0..MaxFail /\ ignored' \in 0..fails'
    BY <1>0, <1>7 DEF RedoBlockFail, Failure
  <2>2. leaked' \in BOOLEAN
    BY <1>7 DEF RedoBlockFail, Leaks
  <2> QED
    BY <1>7, <2>1, <2>2 DEF RedoBlockFail, TypeOK, devVars, lsidVars, ioVars, histVars
<1> QED
  BY <1>1, <1>2, <1>3, <1>4, <1>5, <1>6, <1>7 DEF Redo

\* A formatted device
LEMMA TypeInit == Init => TypeOK
<1> SUFFICES ASSUME Init PROVE TypeOK
  OBVIOUS
<1>1. MaxFail \in Nat /\ MaxWrite \in Nat /\ MaxCrash \in Nat
  BY RecoveryAssumption
<1>2. Block(0) \in Blocks
  <2>1. <<>> \in Seq(Recs)
    OBVIOUS
  <2> QED
    BY <1>1, <2>1 DEF Block, Blocks
<1>3. log \in [0..(RingSize - 1) -> Blocks]
  BY <1>2 DEF Init
<1>4. <<>> \in Seq(Packs) /\ <<>> \in Seq(Ios)
  OBVIOUS
<1> QED
  <2>1. last = 0 /\ crashes = 0 /\ fails = 0 /\ ignored = 0 /\ dropped = {}
    BY DEF Init
  <2>2. last \in 0..MaxWrite /\ crashes \in 0..MaxCrash /\ fails \in 0..MaxFail /\ ignored \in 0..fails
    BY <1>1, <2>1
  <2>3. data \in [Pos -> 0..MaxWrite]
    BY <1>1 DEF Init
  <2> QED
    BY <1>3, <1>4, <2>2, <2>3 DEF Init, TypeOK

\* All steps
LEMMA TypeNext == TypeOK /\ [Next]_vars => TypeOK'
<1> SUFFICES ASSUME TypeOK, [Next]_vars PROVE TypeOK'
  OBVIOUS
<1>1. CASE UNCHANGED vars
  BY <1>1 DEF vars, devVars, lsidVars, ioVars, histVars, failVars, TypeOK
<1>2. ASSUME NEW n \in 1..MaxRec, NEW recs \in NewRecs(n), SubmitPack(recs) PROVE TypeOK'
  BY <1>2, TypeSubmit
<1>3. ASSUME NEW k \in 1..Len(ios), LandData(k) \/ RedoDataFail(k) PROVE TypeOK'
  BY <1>3, TypeLand
<1> QED
  BY <1>1, <1>2, <1>3, TypeWrite, TypeRedo, Zenon DEF Next, WritePath, Land, RedoFail

\* Whatever crashes and fails, log, data device, lsids and histories keep their types.
THEOREM RecoveryTypeOK == Spec => []TypeOK
  BY TypeInit, TypeNext, PTL DEF Spec

-----------------------------------------------------------------------------
(* Headers *)

\* What a sequence holds.
LEMMA RangeIs ==
  ASSUME NEW S, NEW s \in Seq(S)
  PROVE  /\ Range(s) \subseteq S
         /\ \A k \in 1..Len(s) : s[k] \in Range(s)
         /\ \A x \in Range(s) : \E k \in 1..Len(s) : x = s[k]
<1>1. DOMAIN s = 1..Len(s) /\ \A k \in 1..Len(s) : s[k] \in S
  OBVIOUS
<1> QED
  BY <1>1 DEF Range

\* Records.
LEMMA RecIs ==
  ASSUME NEW r \in Recs
  PROVE  r.id \in Nat /\ r.pos \in Pos /\ r.kind \in {"write", "discard"} /\ ~IsEmpty(r)
  BY RecoveryAssumption DEF Recs, IsEmpty

\* A header of the log.
LEMMA HeaderIs ==
  ASSUME TypeOK, NEW h \in Headers
  PROVE  /\ h \in Blocks /\ IsHeader(h) /\ h.lsid \in Nat /\ h.recs \in Seq(Recs)
         /\ Len(h.recs) \in Nat /\ 1 <= Len(h.recs)
         /\ NextLsid(h) \in Nat /\ h.lsid < NextLsid(h)
         /\ Range(h.recs) \subseteq Recs
         /\ \A k \in 1..Len(h.recs) :
              /\ h.recs[k] \in Range(h.recs) /\ h.recs[k] \in Recs
              /\ h.lsid + LsidLocal(h.recs, k) \in Nat
              /\ h.lsid <= h.lsid + LsidLocal(h.recs, k)
              /\ h.lsid + LsidLocal(h.recs, k) < NextLsid(h)
              /\ IsWrite(h.recs[k]) => h.lsid < h.lsid + LsidLocal(h.recs, k)
<1>1. h \in Blocks /\ IsHeader(h)
  BY DEF Headers, TypeOK
<1>2. h.lsid \in Nat /\ h.recs \in Seq(Recs) /\ h.recs # <<>>
  BY <1>1 DEF Blocks, IsHeader
<1>3. Len(h.recs) \in Nat /\ 1 <= Len(h.recs)
  BY <1>2
<1>4. /\ Range(h.recs) \subseteq Recs
      /\ \A k \in 1..Len(h.recs) : h.recs[k] \in Range(h.recs) /\ h.recs[k] \in Recs
  BY <1>2, RangeIs
<1>5. /\ NextLsid(h) \in Nat /\ h.lsid < NextLsid(h)
      /\ \A k \in 1..Len(h.recs) :
           /\ h.lsid + LsidLocal(h.recs, k) \in Nat
           /\ h.lsid <= h.lsid + LsidLocal(h.recs, k)
           /\ h.lsid + LsidLocal(h.recs, k) < NextLsid(h)
           /\ IsWrite(h.recs[k]) => h.lsid < h.lsid + LsidLocal(h.recs, k)
  BY <1>2, <1>3, NextIs
<1> QED
  BY <1>1, <1>2, <1>3, <1>4, <1>5

\* What is at the place of an lsid, and its header if it is one.
LEMMA HeaderAt ==
  ASSUME TypeOK, NEW l \in Nat, IsHeader(log[Off(l)])
  PROVE  log[Off(l)] \in Headers
<1>1. Off(l) \in 0..(RingSize - 1)
  BY OffIs
<1> QED
  BY <1>1 DEF Headers

\* A header is at its place.
LEMMA HeaderPlace ==
  ASSUME HeadersOK, NEW h \in Headers
  PROVE  log[Off(h.lsid)] = h
  BY DEF HeadersOK, Headers

\* An lsid has one header.
LEMMA OneHeader ==
  ASSUME HeadersOK, NEW b \in Headers, NEW c \in Headers, b.lsid = c.lsid
  PROVE  b = c
  BY HeaderPlace

\* Nothing in the log changes.
LEMMA SameLog ==
  ASSUME UNCHANGED <<log, super>>
  PROVE  /\ Headers' = Headers
         /\ \A h, k : ValidRec(h, k)' <=> ValidRec(h, k)
         /\ \A h : Complete(h)' <=> Complete(h)
         /\ \A h : Dead(h)' <=> Dead(h)
         /\ \A l, e : Border(l, e)' <=> Border(l, e)
         /\ \A r, e : InChain(r, e)' <=> InChain(r, e)
         /\ \A r, e : InTail(r, e)' <=> InTail(r, e)
<1>1. Headers' = Headers
  BY DEF Headers
<1>2. \A h, k : ValidRec(h, k)' <=> ValidRec(h, k)
  BY DEF ValidRec, BlockOf
<1>3. \A h : Complete(h)' <=> Complete(h)
  BY <1>2 DEF Complete
<1>4. \A h : Dead(h)' <=> Dead(h)
  BY <1>2 DEF Dead
<1>5. \A l, e : Border(l, e)' <=> Border(l, e)
  BY <1>1 DEF Border
<1>6. \A r, e : InChain(r, e)' <=> InChain(r, e)
  BY <1>1 DEF InChain
<1>7. \A r, e : InTail(r, e)' <=> InTail(r, e)
  BY <1>1, <1>2 DEF InTail
<1> QED
  BY <1>1, <1>2, <1>3, <1>4, <1>5, <1>6, <1>7

\* The part of DiskInv that is about the log alone.
LEMMA LogKept ==
  ASSUME TypeOK, TypeOK', UNCHANGED <<log, super>>, last <= last', top <= top', NEW end \in Nat,
         HeadersOK, HeadersInOrder, ChainTo(end), OldIntact
  PROVE  HeadersOK' /\ HeadersInOrder' /\ ChainTo(end)' /\ OldIntact'
<1>1. /\ Headers' = Headers /\ super' = super /\ log' = log
      /\ \A h : Complete(h)' <=> Complete(h)
      /\ \A h : Dead(h)' <=> Dead(h)
      /\ \A l, e : Border(l, e)' <=> Border(l, e)
  BY SameLog
<1>2. last \in Nat /\ last' \in Nat /\ top \in Nat /\ top' \in Nat /\ super \in Nat
      /\ RingSize \in Nat
  BY RecoveryAssumption DEF TypeOK
<1>3. \A s : RecsOK(s) => RecsOK(s)'
  <2>1. \A i : i \in 1..last => i \in 1..last'
    BY <1>2
  <2> QED
    BY <2>1 DEF RecsOK
<1>4. HeadersOK'
  <2> SUFFICES ASSUME NEW h \in Headers
               PROVE  /\ h.id = 0
                      /\ RecsOK(h.recs)'
                      /\ NextLsid(h) <= top'
                      /\ h.lsid >= super => NextLsid(h) <= super + RingSize
    BY <1>1 DEF HeadersOK
  <2>1. NextLsid(h) \in Nat
    BY HeaderIs
  <2> QED
    BY <1>1, <1>2, <1>3, <2>1 DEF HeadersOK
<1>5. HeadersInOrder'
  BY <1>1 DEF HeadersInOrder
<1>6. ChainTo(end)'
  <2>1. end <= top'
    BY <1>2 DEF ChainTo
  <2> QED
    BY <1>1, <2>1 DEF ChainTo
<1>7. OldIntact'
  <2> SUFFICES ASSUME NEW h \in Headers, h.lsid < super, h.lsid + RingSize >= top'
               PROVE  Complete(h) /\ NextLsid(h) <= super
    BY <1>1 DEF OldIntact
  <2>1. h.lsid \in Nat
    BY HeaderIs
  <2>2. h.lsid + RingSize >= top
    BY <1>2, <2>1
  <2> QED
    BY <2>2 DEF OldIntact
<1> QED
  BY <1>4, <1>5, <1>6, <1>7

\* Steps that leave the disks alone, or lose what is under way.
LEMMA DiskKept ==
  ASSUME TypeOK, TypeOK', UNCHANGED <<log, super, data, acked, dropped>>,
         last <= last', top <= top', phase' = "up" => phase = "up",
         ios' = ios \/ ios' = <<>>, NEW end \in Nat, DiskInv(end)
  PROVE  DiskInv(end)'
<1>1. /\ Headers' = Headers /\ super' = super /\ acked' = acked /\ dropped' = dropped
      /\ data' = data
      /\ \A h : Dead(h)' <=> Dead(h)
      /\ \A r, e : InChain(r, e)' <=> InChain(r, e)
      /\ \A r, e : InTail(r, e)' <=> InTail(r, e)
  BY SameLog
<1>2. HeadersOK' /\ HeadersInOrder' /\ ChainTo(end)' /\ OldIntact'
  BY LogKept DEF DiskInv
<1>3. DroppedOK'
  <2>1. \A i : i \in 1..last => i \in 1..last'
    BY DEF TypeOK
  <2> QED
    BY <1>1, <2>1 DEF DiskInv, DroppedOK, NotDropped
<1>4. Range(ios') \subseteq Range(ios) /\ Ascending(ios)'
  <2>1. CASE ios' = ios
    BY <2>1 DEF DiskInv, Ascending
  <2>2. CASE ios' = <<>>
    BY <2>2 DEF Ascending, Range
  <2> QED
    BY <2>1, <2>2
<1>5. AckedSafe(end)'
  <2> SUFFICES ASSUME NEW r \in acked, IsWrite(r), ~InChain(r, end) PROVE Settled(r)'
    BY <1>1 DEF AckedSafe
  <2>1. Settled(r)
    BY DEF DiskInv, AckedSafe
  <2> QED
    BY <1>1, <1>4, <2>1 DEF Settled
<1>6. DataKnown(end)'
  <2>1. \A r : Known(r, end) => Known(r, end)'
    BY <1>1 DEF Known
  <2>2. \A p \in Pos : data[p] = 0 \/ \E r \in Recs : Known(r, end)' /\ r.pos = p /\ r.id = data[p]
    BY <2>1 DEF DiskInv, DataKnown
  <2>3. \A io \in Range(ios) : IsEmpty(io) \/ Known(io, end)'
    BY <2>1 DEF DiskInv, DataKnown
  <2> QED
    BY <1>1, <1>4, <2>2, <2>3 DEF DataKnown
<1> QED
  BY <1>2, <1>3, <1>4, <1>5, <1>6 DEF DiskInv

-----------------------------------------------------------------------------
(* Steps that leave the disks alone *)

\* The same, for steps that take nothing new.
LEMMA DiskSame ==
  ASSUME TypeOK, TypeOK', NEW end \in Nat, DiskInv(end),
         log' = log, super' = super, data' = data, acked' = acked, dropped' = dropped,
         last' = last, top' = top, phase' = "up" => phase = "up", ios' = ios \/ ios' = <<>>
  PROVE  DiskInv(end)'
<1>1. last <= last' /\ top <= top'
  BY DEF TypeOK
<1> QED
  BY <1>1, DiskKept

\* A crash, and the ends of a redo that fails.
LEMMA IdleDown ==
  ASSUME TypeOK, TypeOK', NEW end \in Nat, CleanInv(end),
         \/ Crash \/ RedoFailed \/ RedoWriteFail
         \/ RedoHeaderFail(TRUE) \/ \E k \in 1..MaxRec : RedoBlockFail(k)
  PROVE  CleanInv(end)'
<1>1. DiskInv(end) /\ PhaseInv(end)
  BY DEF CleanInv
<1>2. CASE Crash
  <2>1. /\ UNCHANGED <<log, super, data, acked, dropped, last, top>>
        /\ phase' = "down" /\ packs' = <<>> /\ logIos' = {} /\ ios' = <<>>
    BY <1>2 DEF Crash, devVars
  <2>2. DiskInv(end)'
    BY <1>1, <2>1, DiskSame
  <2> QED
    BY <2>1, <2>2 DEF CleanInv, PhaseInv
<1>3. ASSUME UNCHANGED <<log, super, data, acked, dropped, last, top, packs, logIos, ios>>,
             phase # "up", phase' = "fail" \/ (phase' = "down" /\ ios = <<>>)
      PROVE  CleanInv(end)'
  <2>1. DiskInv(end)'
    BY <1>1, <1>3, DiskSame
  <2> QED
    BY <1>1, <1>3, <2>1 DEF CleanInv, PhaseInv
<1>4. CASE RedoFailed
  BY <1>3, <1>4 DEF RedoFailed, devVars, lsidVars, ioVars, histVars
<1>5. CASE RedoWriteFail
  BY <1>3, <1>5 DEF RedoWriteFail, devVars, lsidVars, ioVars, histVars
<1>6. CASE RedoHeaderFail(TRUE)
  BY <1>3, <1>6 DEF RedoHeaderFail, devVars, lsidVars, ioVars, histVars
<1>7. ASSUME NEW k \in 1..MaxRec, RedoBlockFail(k) PROVE CleanInv(end)'
  BY <1>3, <1>7 DEF RedoBlockFail, devVars, lsidVars, ioVars, histVars
<1> QED
  BY <1>2, <1>4, <1>5, <1>6, <1>7

\* Redo begins at the super block.
LEMMA IdleStart ==
  ASSUME TypeOK, TypeOK', NEW end \in Nat, CleanInv(end), Start
  PROVE  CleanInv(end)'
<1>1. DiskInv(end) /\ ios = <<>> /\ packs = <<>> /\ logIos = {}
  BY DEF CleanInv, PhaseInv, Start
<1>2. /\ UNCHANGED <<log, super, data, acked, dropped, last, top, packs, logIos, ios>>
      /\ phase' = "redo" /\ written' = super /\ redone' = {}
  BY DEF Start, devVars, ioVars
<1>3. DiskInv(end)'
  BY <1>1, <1>2, DiskSame
<1>4. RedoInv(end)'
  <2>1. super <= end /\ Border(super, end) /\ super \in Nat
    BY <1>1 DEF DiskInv, ChainTo, TypeOK
  <2>2. Headers' = Headers /\ Border(super, end)'
    BY <1>2, <2>1, SameLog
  <2>3. RedoneIs(end)'
    <3>1. \A h \in Headers : h.lsid \in Nat
      BY HeaderIs
    <3> QED
      BY <1>2, <2>1, <2>2, <3>1 DEF RedoneIs
  <2>4. DataRedo'
    <3>1. Range(ios') = {}
      BY <1>1, <1>2 DEF Range
    <3> QED
      BY <1>2, <3>1 DEF DataRedo
  <2>5. Border(written, end)'
    BY <1>2, <2>2 DEF Border
  <2> QED
    BY <1>2, <2>1, <2>3, <2>4, <2>5 DEF RedoInv
<1> QED
  BY <1>1, <1>2, <1>3, <1>4 DEF CleanInv, PhaseInv

\* What redo has found stays where it is.
LEMMA RedoneKept ==
  ASSUME TypeOK, UNCHANGED <<log, super, redone, written>>, NEW end \in Nat, RedoneIs(end),
         phase = "rewrite" => phase' = "rewrite"
  PROVE  RedoneIs(end)'
<1>1. /\ Headers' = Headers /\ super' = super /\ redone' = redone /\ written' = written
      /\ \A r, e : InChain(r, e)' <=> InChain(r, e)
      /\ \A r, e : InTail(r, e)' <=> InTail(r, e)
  BY SameLog
<1>2. \A r : InChain(r, written)' <=> InChain(r, written)
  BY <1>1 DEF InChain
<1> QED
  BY <1>1, <1>2 DEF RedoneIs

\* Redo has come to the end of the log.
LEMMA IdleEnd ==
  ASSUME TypeOK, TypeOK', NEW end \in Nat, CleanInv(end), RedoEndOfLog
  PROVE  CleanInv(end)'
<1>1. DiskInv(end) /\ RedoInv(end) /\ packs = <<>> /\ logIos = {} /\ phase = "redo"
  BY DEF CleanInv, PhaseInv, RedoEndOfLog
<1>2. /\ UNCHANGED <<log, super, data, acked, dropped, last, top, packs, logIos, ios, redone, written>>
      /\ phase' = "sync" /\ ~HeaderFound
  BY DEF RedoEndOfLog, devVars, lsidVars, ioVars, histVars
<1>3. DiskInv(end)'
  BY <1>1, <1>2, DiskSame
<1>4. \A h \in Headers : h.lsid # written
  <2> SUFFICES ASSUME NEW h \in Headers, h.lsid = written PROVE FALSE
    OBVIOUS
  <2>1. log[Off(written)] = h /\ IsHeader(h)
    BY <1>1, HeaderPlace, HeaderIs DEF DiskInv
  <2> QED
    BY <1>2, <2>1 DEF HeaderFound, HeaderBlock
<1>5. written = end
  BY <1>1, <1>4 DEF RedoInv, Border
<1>6. RedoInv(end)'
  <2>1. RedoneIs(end)'
    BY <1>1, <1>2, RedoneKept DEF RedoInv
  <2>2. DataRedo'
    BY <1>1, <1>2 DEF RedoInv, DataRedo
  <2>3. Headers' = Headers /\ Border(written, end)'
    BY <1>1, <1>2, SameLog DEF RedoInv, Border
  <2> QED
    BY <1>1, <1>2, <1>4, <1>5, <2>1, <2>2, <2>3 DEF RedoInv
<1> QED
  BY <1>1, <1>2, <1>3, <1>6 DEF CleanInv, PhaseInv

-----------------------------------------------------------------------------
(* Data lands *)

\* The IOs that are left, and those of them that overlap the one that has landed.
LEMMA LeftIos ==
  ASSUME TypeOK, Ascending(ios), NEW k \in 1..Len(ios), LandData(k)
  PROVE  /\ ios[k] \in Range(ios) /\ ios[k] \in Ios
         /\ Ascending(ios)' /\ Range(ios') \subseteq Range(ios)
         /\ \A io \in Range(ios) : io = ios[k] \/ io \in Range(ios')
         /\ \A io \in Range(ios') : Overlap(io, ios[k]) => ios[k].id < io.id
<1>1. ios \in Seq(Ios) /\ Len(ios) \in Nat
  BY DEF TypeOK
<1>2. /\ ios' \in Seq(Ios) /\ Len(ios') = Len(ios) - 1
      /\ \A i \in 1..(Len(ios) - 1) : ios'[i] = IF i < k THEN ios[i] ELSE ios[i + 1]
  BY <1>1, RemoveAtIs DEF LandData
<1>3. \A i \in 1..Len(ios) : ios[i] \in Ios /\ ios[i].id \in Nat
  <2>1. \A io \in Ios : io.id \in Nat
    BY RecoveryAssumption DEF Ios
  <2> HIDE DEF Ios
  <2>2. \A i \in 1..Len(ios) : ios[i] \in Ios
    BY <1>1
  <2> QED
    BY <2>1, <2>2
<1>4. Ascending(ios)'
  <2> SUFFICES ASSUME NEW i \in 1..Len(ios'), NEW j \in 1..Len(ios'), i < j
               PROVE  ios'[i].id < ios'[j].id
    BY DEF Ascending
  <2>1. PICK a \in 1..Len(ios) : ios'[i] = ios[a] /\ a = IF i < k THEN i ELSE i + 1
    BY <1>1, <1>2
  <2>2. PICK b \in 1..Len(ios) : ios'[j] = ios[b] /\ b = IF j < k THEN j ELSE j + 1
    BY <1>1, <1>2
  <2>3. a < b
    BY <1>1, <1>2, <2>1, <2>2
  <2> QED
    BY <2>1, <2>2, <2>3 DEF Ascending
<1>5. /\ \A i \in 1..Len(ios) : ios[i] \in Range(ios)
      /\ \A io \in Range(ios) : \E i \in 1..Len(ios) : io = ios[i]
  BY <1>1, RangeIs
<1>6. /\ \A i \in 1..Len(ios') : ios'[i] \in Range(ios')
      /\ \A io \in Range(ios') : \E i \in 1..Len(ios') : io = ios'[i]
  BY <1>2, RangeIs
<1>7. ASSUME NEW io \in Range(ios')
      PROVE  io \in Range(ios) /\ (Overlap(io, ios[k]) => ios[k].id < io.id)
  <2>1. PICK i \in 1..Len(ios') : io = ios'[i]
    BY <1>6
  <2>2. PICK a \in 1..Len(ios) : io = ios[a] /\ (a < k \/ k < a)
    BY <1>1, <1>2, <2>1
  <2>3. CASE a < k
    <3>1. a \in 1..(k - 1)
      BY <1>1, <2>3
    <3>2. ~Overlap(ios[a], ios[k])
      BY <3>1 DEF LandData, CanLand
    <3> QED
      BY <1>5, <2>2, <3>2
  <2>4. CASE k < a
    BY <1>5, <2>2, <2>4 DEF Ascending
  <2> QED
    BY <2>2, <2>3, <2>4
<1>8. ASSUME NEW io \in Range(ios), io # ios[k] PROVE io \in Range(ios')
  <2>1. PICK i \in 1..Len(ios) : io = ios[i] /\ i # k
    BY <1>5, <1>8
  <2>2. CASE i < k
    <3>1. i \in 1..Len(ios') /\ ios'[i] = io
      BY <1>1, <1>2, <2>1, <2>2
    <3> QED
      BY <1>6, <3>1
  <2>3. CASE k < i
    <3>1. i - 1 \in 1..Len(ios') /\ ~(i - 1 < k) /\ (i - 1) + 1 = i
      BY <1>1, <1>2, <2>3
    <3>2. ios'[i - 1] = io
      BY <1>1, <1>2, <2>1, <3>1
    <3> QED
      BY <1>6, <3>1, <3>2
  <2> QED
    BY <2>1, <2>2, <2>3
<1> QED
  BY <1>3, <1>4, <1>5, <1>7, <1>8

\* What a write that lands leaves on the data device.
LEMMA LandedData ==
  ASSUME TypeOK, NEW k \in 1..Len(ios), LandData(k), ios[k] \in Ios
  PROVE  /\ ios[k].id \in Nat /\ ios[k].pos \in Pos
         /\ \A p \in Pos : data[p] \in Nat /\
              data'[p] = IF p = ios[k].pos /\ ~IsEmpty(ios[k]) THEN ios[k].id ELSE data[p]
         /\ ~IsEmpty(ios[k]) => ios[k] \in Recs
  BY RecoveryAssumption DEF LandData, Ios, Recs, IsEmpty, TypeOK

\* A data IO lands: what it overwrites is older.
LEMMA LandDisk ==
  ASSUME TypeOK, TypeOK', NEW end \in Nat, DiskInv(end), NEW k \in 1..Len(ios), LandData(k)
  PROVE  DiskInv(end)'
<1>1. UNCHANGED <<phase, log, super, acked, dropped, last, top>>
  BY DEF LandData, histVars
<1>2. /\ ios[k] \in Range(ios) /\ ios[k] \in Ios
      /\ Ascending(ios)' /\ Range(ios') \subseteq Range(ios)
      /\ \A io \in Range(ios') : Overlap(io, ios[k]) => ios[k].id < io.id
  BY LeftIos DEF DiskInv
<1>3. /\ ios[k].id \in Nat /\ ios[k].pos \in Pos
      /\ \A p \in Pos : data[p] \in Nat /\
           data'[p] = IF p = ios[k].pos /\ ~IsEmpty(ios[k]) THEN ios[k].id ELSE data[p]
      /\ ~IsEmpty(ios[k]) => ios[k] \in Recs
  BY <1>2, LandedData
<1>4. /\ Headers' = Headers
      /\ \A h : Dead(h)' <=> Dead(h)
      /\ \A r, e : InChain(r, e)' <=> InChain(r, e)
      /\ \A r, e : InTail(r, e)' <=> InTail(r, e)
  BY <1>1, SameLog
<1>5. HeadersOK' /\ HeadersInOrder' /\ ChainTo(end)' /\ OldIntact'
  <2>1. last <= last' /\ top <= top'
    BY <1>1 DEF TypeOK
  <2> QED
    BY <1>1, <2>1, LogKept DEF DiskInv
<1>6. DroppedOK'
  BY <1>1, <1>4 DEF DiskInv, DroppedOK, NotDropped
<1>7. AckedSafe(end)'
  <2> SUFFICES ASSUME NEW r \in acked, IsWrite(r), ~InChain(r, end) PROVE Settled(r)'
    BY <1>1, <1>4 DEF AckedSafe
  <2>1. Settled(r)
    BY DEF DiskInv, AckedSafe
  <2>2. r.id \in Nat /\ r.pos \in Pos
    BY RecIs DEF TypeOK
  <2>3. r.id <= data'[r.pos]
    BY <1>2, <1>3, <2>1, <2>2 DEF Settled
  <2> QED
    BY <1>1, <1>2, <1>4, <2>1, <2>3 DEF Settled
<1>8. DataKnown(end)'
  <2>1. \A r : Known(r, end) => Known(r, end)'
    BY <1>1, <1>4 DEF Known
  <2>2. \A io \in Range(ios') : IsEmpty(io) \/ Known(io, end)'
    BY <1>2, <2>1 DEF DiskInv, DataKnown
  <2>3. ASSUME NEW p \in Pos
        PROVE  data'[p] = 0 \/ \E r \in Recs : Known(r, end)' /\ r.pos = p /\ r.id = data'[p]
    <3>1. CASE p = ios[k].pos /\ ~IsEmpty(ios[k])
      <4>1. ios[k] \in Recs /\ Known(ios[k], end)
        BY <1>2, <1>3, <3>1 DEF DiskInv, DataKnown
      <4>2. PICK r \in Recs : r = ios[k]
        BY <4>1
      <4> QED
        BY <1>3, <2>1, <3>1, <4>1, <4>2
    <3>2. CASE ~(p = ios[k].pos /\ ~IsEmpty(ios[k]))
      <4>1. data'[p] = data[p]
        BY <1>3, <3>2
      <4> QED
        BY <2>1, <4>1 DEF DiskInv, DataKnown
    <3> QED
      BY <3>1, <3>2
  <2> QED
    BY <2>2, <2>3 DEF DataKnown
<1> QED
  BY <1>2, <1>5, <1>6, <1>7, <1>8 DEF DiskInv

\* ... while the device is up,
LEMMA LandUp ==
  ASSUME TypeOK, NEW k \in 1..Len(ios), LandData(k), Ascending(ios), DataUp
  PROVE  DataUp'
<1>1. UNCHANGED <<acked, packs>>
  BY DEF LandData, histVars
<1>2. /\ ios[k] \in Range(ios) /\ ios[k] \in Ios
      /\ Range(ios') \subseteq Range(ios)
      /\ \A io \in Range(ios) : io = ios[k] \/ io \in Range(ios')
      /\ \A io \in Range(ios') : Overlap(io, ios[k]) => ios[k].id < io.id
  BY LeftIos
<1>3. /\ ios[k].id \in Nat /\ ios[k].pos \in Pos
      /\ \A p \in Pos : data[p] \in Nat /\
           data'[p] = IF p = ios[k].pos /\ ~IsEmpty(ios[k]) THEN ios[k].id ELSE data[p]
  BY <1>2, LandedData
<1>4. ios[k] \in acked /\ ~IsEmpty(ios[k]) /\ data[ios[k].pos] < ios[k].id
  BY <1>2 DEF DataUp
<1>5. ASSUME NEW io \in Range(ios')
      PROVE  /\ io \in acked' /\ ~IsEmpty(io) /\ data'[io.pos] < io.id
             /\ \E j \in 1..Len(packs') : packs'[j].acked /\ io \in Range(packs'[j].recs)
  <2>1. /\ io \in acked /\ ~IsEmpty(io) /\ data[io.pos] < io.id
        /\ \E j \in 1..Len(packs) : packs[j].acked /\ io \in Range(packs[j].recs)
    BY <1>2 DEF DataUp
  <2>2. io.pos \in Pos
    BY <2>1, RecIs DEF TypeOK
  <2>3. io.pos = ios[k].pos => ios[k].id < io.id
    BY <1>2, <1>4, <2>1 DEF Overlap
  <2> QED
    BY <1>1, <1>3, <2>1, <2>2, <2>3
<1>6. ASSUME NEW r \in acked, IsWrite(r), r \notin Range(ios')
      PROVE  r.id <= data'[r.pos]
  <2>1. r.id \in Nat /\ r.pos \in Pos
    BY RecIs DEF TypeOK
  <2>2. CASE r = ios[k]
    BY <1>3, <1>4, <2>1, <2>2
  <2>3. CASE r # ios[k]
    <3>1. r.id <= data[r.pos]
      BY <1>2, <1>6, <2>3 DEF DataUp
    <3> QED
      BY <1>3, <1>4, <2>1, <3>1
  <2> QED
    BY <2>2, <2>3
<1> QED
  BY <1>1, <1>5, <1>6 DEF DataUp

\* ... and in redo.
LEMMA LandRedo ==
  ASSUME TypeOK, NEW k \in 1..Len(ios), LandData(k), Ascending(ios), DataRedo
  PROVE  DataRedo'
<1>1. redone' = redone
  BY DEF LandData, histVars
<1>2. /\ ios[k] \in Range(ios) /\ ios[k] \in Ios
      /\ Range(ios') \subseteq Range(ios)
      /\ \A io \in Range(ios) : io = ios[k] \/ io \in Range(ios')
      /\ \A io \in Range(ios') : Overlap(io, ios[k]) => ios[k].id < io.id
  BY LeftIos
<1>3. /\ ios[k].id \in Nat /\ ios[k].pos \in Pos
      /\ \A p \in Pos : data[p] \in Nat /\
           data'[p] = IF p = ios[k].pos /\ ~IsEmpty(ios[k]) THEN ios[k].id ELSE data[p]
  BY <1>2, LandedData
<1>4. ASSUME NEW r \in redone, IsWrite(r), r \notin Range(ios')
      PROVE  /\ r.id <= data'[r.pos]
             /\ \A io \in Range(ios') : io.pos = r.pos /\ ~IsEmpty(io) => r.id < io.id
  <2>1. r.id \in Nat /\ r.pos \in Pos /\ ~IsEmpty(r)
    BY RecIs DEF TypeOK
  <2>2. CASE r = ios[k]
    <3>1. r.id <= data'[r.pos]
      BY <1>3, <2>1, <2>2
    <3> QED
      BY <1>2, <2>1, <2>2, <3>1 DEF Overlap
  <2>3. CASE r # ios[k]
    <3>1. /\ r.id <= data[r.pos]
          /\ \A io \in Range(ios) : io.pos = r.pos /\ ~IsEmpty(io) => r.id < io.id
      BY <1>2, <1>4, <2>3 DEF DataRedo
    <3>2. r.id <= data'[r.pos]
      BY <1>2, <1>3, <2>1, <3>1
    <3> QED
      BY <1>2, <3>1, <3>2
  <2> QED
    BY <2>2, <2>3
<1> QED
  BY <1>1, <1>2, <1>4 DEF DataRedo

\* A data IO lands.
LEMMA LandClean ==
  ASSUME TypeOK, TypeOK', NEW end \in Nat, CleanInv(end), NEW k \in 1..Len(ios), LandData(k)
  PROVE  CleanInv(end)'
<1>1. /\ UNCHANGED <<phase, log, super, written, latest, acked, dropped, last, top, packs, logIos,
                     redone>>
  BY DEF LandData, lsidVars, histVars
<1>2. DiskInv(end) /\ Ascending(ios)
  BY DEF CleanInv, DiskInv
<1>3. DiskInv(end)'
  BY <1>2, LandDisk
<1>4. /\ Headers' = Headers
      /\ \A h, i : ValidRec(h, i)' <=> ValidRec(h, i)
      /\ \A h : Dead(h)' <=> Dead(h)
  BY <1>1, SameLog
<1>5. ASSUME UpInv(end) PROVE UpInv(end)'
  <2>1. PacksOK(end)'
    BY <1>1, <1>5 DEF UpInv, PacksOK, LsidsOK, PackOK, PacksInOrder, NotDropped, RecsOK
  <2>2. LogIosOK'
    BY <1>1, <1>5 DEF UpInv, LogIosOK, IosOf
  <2>3. HeadersUp(end)'
    BY <1>1, <1>4, <1>5 DEF UpInv, HeadersUp, Collected, Ours, Left
  <2> QED
    BY <1>2, <1>5, <2>1, <2>2, <2>3, LandUp DEF UpInv
<1>6. ASSUME RedoInv(end) PROVE RedoInv(end)'
  <2>1. RedoneIs(end)'
    BY <1>1, <1>6, RedoneKept DEF RedoInv
  <2>2. DataRedo'
    BY <1>2, <1>6, LandRedo DEF RedoInv
  <2>3. Border(written, end)'
    BY <1>1, <1>4, <1>6 DEF RedoInv, Border
  <2>4. phase = "rewrite" => Torn(end)'
    BY <1>1, <1>4, <1>6 DEF RedoInv, Torn
  <2> QED
    BY <1>1, <1>4, <1>6, <2>1, <2>2, <2>3, <2>4 DEF RedoInv
<1>7. ios # <<>>
  BY <1>1 DEF TypeOK
<1> QED
  BY <1>1, <1>3, <1>5, <1>6, <1>7 DEF CleanInv, PhaseInv

-----------------------------------------------------------------------------
(* The device is up: its packs and its headers *)

\* The lsids of a device that is up
LEMMA LsidsAre ==
  ASSUME TypeOK, NEW end \in Nat, UpInv(end)
  PROVE  /\ super \in Nat /\ written \in Nat /\ latest \in Nat /\ top \in Nat /\ RingSize \in Nat
         /\ super <= written /\ written <= end /\ end <= latest
         /\ latest <= super + RingSize /\ latest <= top
  BY RecoveryAssumption DEF TypeOK, UpInv, PacksOK, LsidsOK

\* A pack
LEMMA PackIs ==
  ASSUME TypeOK, NEW k \in 1..Len(packs)
  PROVE  /\ packs[k] \in Packs /\ packs[k].lsid \in Nat /\ packs[k].recs \in Seq(Recs)
         /\ packs[k].acked \in BOOLEAN
         /\ Len(packs[k].recs) \in Nat /\ Range(packs[k].recs) \subseteq Recs
         /\ NextLsid(packs[k]) \in Nat /\ packs[k].lsid < NextLsid(packs[k])
<1>1. packs[k] \in Packs
  BY DEF TypeOK
<1>2. packs[k].lsid \in Nat /\ packs[k].recs \in Seq(Recs) /\ packs[k].acked \in BOOLEAN
  BY <1>1 DEF Packs
<1>3. Len(packs[k].recs) \in Nat /\ Range(packs[k].recs) \subseteq Recs
  BY <1>2, RangeIs
<1> QED
  BY <1>1, <1>2, <1>3, NextIs

\* The header of a pack ends where the pack does.
LEMMA PackNext ==
  ASSUME NEW p
  PROVE  /\ Header(p.lsid, p.recs).lsid = p.lsid /\ Header(p.lsid, p.recs).recs = p.recs
         /\ Header(p.lsid, p.recs).id = 0
         /\ NextLsid(Header(p.lsid, p.recs)) = NextLsid(p)
<1>1. /\ Header(p.lsid, p.recs).lsid = p.lsid /\ Header(p.lsid, p.recs).recs = p.recs
      /\ Header(p.lsid, p.recs).id = 0
  BY DEF Header
<1> QED
  BY <1>1 DEF NextLsid

\* A complete pack is not dead.
LEMMA CompleteAlive ==
  ASSUME TypeOK, NEW h \in Headers, Complete(h)
  PROVE  ~Dead(h) /\ ValidRec(h, 1)
<1>1. 1 \in 1..Len(h.recs)
  BY HeaderIs
<1> QED
  BY <1>1 DEF Complete, Dead

\* Behind the super block: up to written there are collected packs, up to end complete ones.
LEMMA UpHeaders ==
  ASSUME TypeOK, NEW end \in Nat, DiskInv(end), UpInv(end), NEW h \in Headers, h.lsid >= super
  PROVE  /\ h.lsid < written => Collected(h)
         /\ h.lsid < end => Complete(h) /\ ~Dead(h)
<1>1. h.lsid \in Nat /\ written \in Nat /\ super \in Nat
  BY HeaderIs DEF TypeOK
<1>2. super <= written /\ written <= end
  BY DEF UpInv, PacksOK, LsidsOK, PackOK
<1>3. CASE Collected(h)
  BY <1>1, <1>2, <1>3, CompleteAlive DEF DiskInv, ChainTo
<1>4. CASE Ours(h)
  <2>1. PICK k \in 1..Len(packs) : h = Header(packs[k].lsid, packs[k].recs)
    BY <1>4 DEF Ours
  <2>2. h.lsid = packs[k].lsid
    BY <2>1, PackNext
  <2>3. ~(h.lsid < written)
    BY <1>1, <2>2, PackIs DEF UpInv, PacksOK, LsidsOK, PackOK
  <2> QED
    BY <1>1, <1>2, <2>3, CompleteAlive DEF DiskInv, ChainTo
<1>5. CASE Left(h, end)
  <2>1. h.lsid = super /\ end = super
    BY <1>5 DEF Left, Dead
  <2> QED
    BY <1>1, <1>2, <2>1
<1> QED
  BY <1>3, <1>4, <1>5 DEF UpInv, HeadersUp

\* The header of a pack that is answered is in the log.
LEMMA AckedHeader ==
  ASSUME TypeOK, LogIosOK, NEW k \in 1..Len(packs), packs[k].recs # <<>>,
         packs[k].acked \/ IosOf(k) \cap logIos = {}
  PROVE  /\ Header(packs[k].lsid, packs[k].recs) \in Headers
         /\ Complete(Header(packs[k].lsid, packs[k].recs))
<1> DEFINE h == Header(packs[k].lsid, packs[k].recs)
<1>1. h.lsid = packs[k].lsid /\ h.recs = packs[k].recs
  BY PackNext
<1>2. packs[k].lsid \in Nat /\ packs[k].recs \in Seq(Recs)
  BY PackIs
<1>3. \A io \in IosOf(k) : log[io.off] = io.block
  BY DEF LogIosOK
<1>4. log[Off(packs[k].lsid)] = h
  <2>1. [off |-> Off(packs[k].lsid), block |-> h] \in IosOf(k)
    BY DEF IosOf, LogIosOf
  <2> HIDE DEF h
  <2> QED
    BY <1>3, <2>1
<1>5. ASSUME NEW i \in 1..Len(packs[k].recs), IsWrite(packs[k].recs[i])
      PROVE  BlockOf(h, i).id = packs[k].recs[i].id
  <2>1. [off |-> Off(packs[k].lsid + LsidLocal(packs[k].recs, i)),
         block |-> Block(packs[k].recs[i].id)] \in IosOf(k)
    BY <1>5 DEF IosOf, LogIosOf
  <2>2. log[Off(packs[k].lsid + LsidLocal(packs[k].recs, i))] = Block(packs[k].recs[i].id)
    BY <1>3, <2>1
  <2> HIDE DEF h
  <2> QED
    BY <1>1, <2>2 DEF BlockOf, Block
<1> HIDE DEF h
<1>6. h \in Headers
  BY <1>1, <1>2, <1>4, HeaderAt DEF IsHeader
<1>7. Complete(h)
  BY <1>1, <1>5 DEF Complete, ValidRec
<1> QED
  BY <1>6, <1>7 DEF h

-----------------------------------------------------------------------------
(* The super block is written *)

\* The super block moves on over answered packs.
LEMMA SuperDisk ==
  ASSUME TypeOK, TypeOK', NEW end \in Nat, DiskInv(end), UpInv(end), phase = "up",
         super' = written, super # written,
         UNCHANGED <<log, data, acked, dropped, last, top, ios>>
  PROVE  DiskInv(end)'
<1>1. /\ Headers' = Headers /\ log' = log /\ top' = top /\ acked' = acked /\ dropped' = dropped
      /\ data' = data /\ ios' = ios /\ last' = last
      /\ \A h, k : ValidRec(h, k)' <=> ValidRec(h, k)
  BY DEF Headers, ValidRec, BlockOf
<1>2. /\ \A h : Complete(h)' <=> Complete(h)
      /\ \A l, e : Border(l, e)' <=> Border(l, e)
  BY <1>1 DEF Complete, Border
<1>3. /\ super \in Nat /\ written \in Nat /\ super < written /\ written <= end /\ RingSize \in Nat
      /\ \A h \in Headers : h.lsid \in Nat /\ NextLsid(h) \in Nat
  <2>1. \A h \in Headers : h.lsid \in Nat /\ NextLsid(h) \in Nat
    BY HeaderIs
  <2> QED
    BY <2>1, LsidsAre
<1>4. \A h \in Headers : h.lsid >= written /\ ~Dead(h)' => h.lsid >= super /\ ~Dead(h)
  BY <1>1, <1>3 DEF Dead
<1>5. HeadersOK'
  BY <1>1, <1>3 DEF DiskInv, HeadersOK, RecsOK
<1>6. HeadersInOrder'
  <2> SUFFICES ASSUME NEW b \in Headers, NEW c \in Headers, written <= b.lsid, b.lsid < c.lsid,
                      ~Dead(b)'
               PROVE  NextLsid(b) <= c.lsid /\ Before(b.recs, c.recs)
    BY <1>1 DEF HeadersInOrder
  <2> QED
    BY <1>3, <1>4 DEF DiskInv, HeadersInOrder
<1>7. ChainTo(end)'
  <2>1. Border(written, end)
    <3>1. CASE written = end
      BY <3>1 DEF Border
    <3>2. CASE written < end
      <4>1. packs # <<>>
        BY <1>3, <3>2 DEF UpInv, PacksOK, LsidsOK, PackOK
      <4>2. 1 \in 1..Len(packs)
        BY <4>1 DEF TypeOK
      <4>3. packs[1].lsid = written /\ packs[1].acked /\ packs[1].recs # <<>>
        BY <3>2, <4>2, PackIs DEF UpInv, PacksOK, PackOK, RecsOK
      <4>4. Header(packs[1].lsid, packs[1].recs) \in Headers
        BY <4>2, <4>3, AckedHeader DEF UpInv
      <4> QED
        BY <4>3, <4>4, PackNext DEF Border
    <3> QED
      BY <1>3, <3>1, <3>2
  <2>2. written <= end /\ end <= written + RingSize /\ end <= top
    BY <1>3 DEF DiskInv, ChainTo
  <2>3. \A h \in Headers : written <= h.lsid /\ h.lsid < end =>
          Complete(h) /\ NextLsid(h) <= end /\ Border(NextLsid(h), end)
    BY <1>3 DEF DiskInv, ChainTo
  <2> QED
    BY <1>1, <1>2, <2>1, <2>2, <2>3 DEF ChainTo
<1>8. OldIntact'
  <2> SUFFICES ASSUME NEW h \in Headers, h.lsid < written, h.lsid + RingSize >= top
               PROVE  Complete(h) /\ NextLsid(h) <= written
    BY <1>1, <1>2 DEF OldIntact
  <2>1. CASE h.lsid < super
    BY <1>3, <2>1 DEF DiskInv, OldIntact
  <2>2. CASE super <= h.lsid
    BY <1>3, <2>2, UpHeaders DEF Collected
  <2> QED
    BY <1>3, <2>1, <2>2
<1>9. DroppedOK'
  BY <1>1, <1>4 DEF DiskInv, DroppedOK, NotDropped
<1>10. ASSUME NEW r, Settled(r) PROVE Settled(r)'
  BY <1>1, <1>4, <1>10 DEF Settled
<1>11. AckedSafe(end)'
  <2> SUFFICES ASSUME NEW r \in acked, IsWrite(r), ~InChain(r, end)' PROVE Settled(r)'
    BY <1>1 DEF AckedSafe
  <2>1. CASE Settled(r)
    BY <1>10, <2>1
  <2>2. CASE InChain(r, end)
    <3>1. PICK h \in Headers : super <= h.lsid /\ h.lsid < end /\ r \in Range(h.recs)
      BY <2>2 DEF InChain
    <3>2. h.lsid < written
      BY <1>1, <1>3, <3>1 DEF InChain
    <3>3. Collected(h) /\ ~Dead(h)
      BY <1>3, <3>1, <3>2, UpHeaders
    <3>4. r.id \in Nat
      BY RecIs DEF TypeOK
    <3>5. r \notin Range(ios)
      <4> SUFFICES ASSUME r \in Range(ios) PROVE FALSE
        OBVIOUS
      <4>1. PICK j \in 1..Len(packs) : r \in Range(packs[j].recs)
        BY DEF UpInv, DataUp
      <4>2. r.id < r.id
        BY <3>1, <3>3, <4>1 DEF Collected, Before
      <4> QED
        BY <3>4, <4>2
    <3>6. r.id <= data[r.pos]
      BY <3>5 DEF UpInv, DataUp
    <3>7. \A g \in Headers : g.lsid >= written => \A s \in Range(g.recs) : r.id < s.id
      BY <1>3, <3>1, <3>2, <3>3 DEF DiskInv, HeadersInOrder, Before
    <3>8. \A io \in Range(ios) : io.pos = r.pos => r.id <= io.id
      <4> SUFFICES ASSUME NEW io \in Range(ios), io.pos = r.pos PROVE r.id <= io.id
        OBVIOUS
      <4>1. io \in acked /\ data[io.pos] < io.id
        BY DEF UpInv, DataUp
      <4>2. io.id \in Nat /\ r.pos \in Pos
        BY <4>1, RecIs DEF TypeOK
      <4>3. data[r.pos] \in Nat
        BY <4>2, RecoveryAssumption DEF TypeOK
      <4> QED
        BY <3>4, <3>6, <4>1, <4>2, <4>3
    <3> QED
      BY <1>1, <3>6, <3>7, <3>8 DEF Settled
  <2> QED
    BY <2>1, <2>2 DEF DiskInv, AckedSafe
<1>12. DataKnown(end)'
  <2>1. \A r : Known(r, end) => Known(r, end)'
    BY <1>1 DEF Known
  <2> QED
    BY <1>1, <2>1 DEF DiskInv, DataKnown
<1>13. Ascending(ios)'
  BY <1>1 DEF DiskInv, Ascending
<1> QED
  BY <1>5, <1>6, <1>7, <1>8, <1>9, <1>11, <1>12, <1>13 DEF DiskInv

\* A checkpoint
LEMMA UpCheckpoint ==
  ASSUME TypeOK, TypeOK', NEW end \in Nat, CleanInv(end), Checkpoint
  PROVE  CleanInv(end)'
<1>1. /\ phase = "up" /\ phase' = "up" /\ super' = written /\ super # written
      /\ UNCHANGED <<log, data, acked, dropped, last, top, ios, packs, logIos, latest, written>>
  BY DEF Checkpoint, lsidVars, ioVars, histVars
<1>2. DiskInv(end) /\ UpInv(end)
  BY <1>1 DEF CleanInv, PhaseInv
<1>3. DiskInv(end)'
  BY <1>1, <1>2, SuperDisk
<1>4. super \in Nat /\ written \in Nat /\ latest \in Nat /\ super < written /\ RingSize \in Nat
      /\ written <= end /\ \A h \in Headers : h.lsid \in Nat
  <2>1. \A h \in Headers : h.lsid \in Nat
    BY HeaderIs
  <2> QED
    BY <1>1, <1>2, <2>1, LsidsAre
<1>5. PacksOK(end)'
  <2>1. latest <= written + RingSize
    BY <1>2, <1>4 DEF UpInv, PacksOK, LsidsOK
  <2>2. LsidsOK(end)'
    BY <1>1, <1>2, <1>4, <2>1 DEF UpInv, PacksOK, LsidsOK
  <2>3. \A k \in 1..Len(packs) : PackOK(k, end)'
    BY <1>1, <1>2 DEF UpInv, PacksOK, PackOK, RecsOK, NotDropped
  <2> QED
    BY <1>1, <1>2, <2>2, <2>3 DEF UpInv, PacksOK, PacksInOrder
<1>6. LogIosOK' /\ DataUp'
  BY <1>1, <1>2 DEF UpInv, LogIosOK, IosOf, DataUp
<1>7. HeadersUp(end)'
  <2>1. Headers' = Headers
    BY <1>1 DEF Headers
  <2>2. \A h \in Headers : h.lsid >= written => ~Left(h, end)
    BY <1>4 DEF Left, Dead
  <2>3. \A h \in Headers : h.lsid >= written => Collected(h) \/ Ours(h)
    BY <1>2, <1>4, <2>2 DEF UpInv, HeadersUp
  <2> QED
    BY <1>1, <2>1, <2>3 DEF HeadersUp, Collected, Ours
<1> QED
  BY <1>1, <1>3, <1>5, <1>6, <1>7 DEF CleanInv, PhaseInv, UpInv

\* The device is closed, with or without a super block.
LEMMA UpShutdown ==
  ASSUME TypeOK, TypeOK', NEW end \in Nat, CleanInv(end), NEW sync \in BOOLEAN, Shutdown(sync)
  PROVE  CleanInv(end)'
<1>1. /\ phase = "up" /\ phase' = "down" /\ packs = <<>> /\ super' = IF sync THEN latest ELSE super
      /\ log' = log /\ data' = data /\ acked' = acked /\ dropped' = dropped /\ last' = last
      /\ top' = top /\ ios' = ios /\ packs' = packs /\ logIos' = logIos
  BY DEF Shutdown, ioVars, histVars
<1>2. DiskInv(end) /\ UpInv(end)
  BY <1>1 DEF CleanInv, PhaseInv
<1>3. latest = written /\ logIos = {} /\ Range(ios) = {}
  <2>1. 1..Len(packs) = {}
    BY <1>1
  <2> QED
    BY <1>1, <1>2, <2>1 DEF UpInv, PacksOK, LsidsOK, PackOK, LogIosOK, DataUp
<1>4. ios = <<>>
  <2>1. ios \in Seq(Ios)
    BY DEF TypeOK
  <2>2. \A k \in 1..Len(ios) : ios[k] \in Range(ios)
    BY <2>1, RangeIs
  <2> QED
    BY <1>3, <2>1, <2>2
<1>5. DiskInv(end)'
  <2>1. CASE super' = super
    BY <1>1, <1>2, <2>1, DiskSame
  <2>2. CASE super' = written /\ super # written
    BY <1>1, <1>2, <2>2, SuperDisk
  <2> QED
    BY <1>1, <1>3, <2>1, <2>2
<1> QED
  BY <1>1, <1>3, <1>4, <1>5 DEF CleanInv, PhaseInv

-----------------------------------------------------------------------------
(* The gc worker *)

\* The packs that stay.
LEMMA TailIs ==
  ASSUME TypeOK, packs # <<>>
  PROVE  /\ Len(Tail(packs)) \in Nat /\ Len(packs) = Len(Tail(packs)) + 1
         /\ 1 \in 1..Len(packs) /\ Head(packs) = packs[1]
         /\ \A k \in 1..Len(Tail(packs)) : k + 1 \in 1..Len(packs) /\ Tail(packs)[k] = packs[k + 1]
<1>1. packs \in Seq(Packs)
  BY DEF TypeOK
<1> QED
  BY <1>1

\* The packs without the first
LEMMA CollectPacks ==
  ASSUME TypeOK, TypeOK', NEW end \in Nat, UpInv(end), Collect
  PROVE  PacksOK(end)'
<1>1. /\ packs # <<>> /\ packs' = Tail(packs) /\ written' = NextLsid(packs[1])
      /\ packs[1].acked
      /\ UNCHANGED <<super, latest, top, last, acked, dropped>>
  BY TailIs DEF Collect, devVars, histVars
<1>2. /\ Len(packs') \in Nat /\ Len(packs) = Len(packs') + 1 /\ 1 \in 1..Len(packs)
      /\ \A k \in 1..Len(packs') : k + 1 \in 1..Len(packs) /\ packs'[k] = packs[k + 1]
  BY <1>1, TailIs
<1>3. \A k \in 1..Len(packs) : PackOK(k, end)
  BY DEF UpInv, PacksOK
<1>4. /\ super \in Nat /\ written \in Nat /\ latest \in Nat /\ super <= written
      /\ written <= packs[1].lsid /\ packs[1].lsid \in Nat /\ packs[1].lsid < NextLsid(packs[1])
      /\ NextLsid(packs[1]) <= end /\ NextLsid(packs[1]) \in Nat
  BY <1>1, <1>2, <1>3, LsidsAre, PackIs DEF PackOK
<1>5. LsidsOK(end)'
  <2>1. super' <= written' /\ written' <= end
    BY <1>1, <1>4
  <2>2. packs' = <<>> => latest = written'
    <3> SUFFICES ASSUME packs' = <<>> PROVE latest = written'
      OBVIOUS
    <3>1. Len(packs) = 1
      BY <1>2
    <3> QED
      BY <1>1, <1>2, <1>3, <3>1 DEF PackOK
  <2> QED
    BY <1>1, <2>1, <2>2 DEF UpInv, PacksOK, LsidsOK
<1>6. ASSUME NEW k \in 1..Len(packs') PROVE PackOK(k, end)'
  <2>1. k + 1 \in 1..Len(packs) /\ packs'[k] = packs[k + 1] /\ PackOK(k + 1, end)
    BY <1>2, <1>3
  <2>2. written' <= packs[k + 1].lsid
    BY <1>1, <1>2, <2>1 DEF UpInv, PacksOK, PacksInOrder
  <2>3. k = 1 => packs[k + 1].lsid = written'
    <3> SUFFICES ASSUME k = 1 PROVE packs[k + 1].lsid = NextLsid(packs[1])
      BY <1>1
    <3>1. 1 # Len(packs) /\ k + 1 = 1 + 1
      BY <1>2
    <3>2. PackOK(1, end)
      BY <1>2, <1>3
    <3> QED
      BY <3>1, <3>2 DEF PackOK
  <2>4. (k + 1 = Len(packs) <=> k = Len(packs'))
        /\ (k # Len(packs') => packs'[k + 1] = packs[(k + 1) + 1])
    BY <1>2
  <2> QED
    BY <1>1, <2>1, <2>2, <2>3, <2>4 DEF PackOK, RecsOK, NotDropped
<1>7. PacksInOrder'
  <2> SUFFICES ASSUME NEW j \in 1..Len(packs'), NEW k \in 1..Len(packs'), j < k
               PROVE  NextLsid(packs[j + 1]) <= packs[k + 1].lsid
                      /\ Before(packs[j + 1].recs, packs[k + 1].recs)
    BY <1>2 DEF PacksInOrder
  <2>1. j + 1 \in 1..Len(packs) /\ k + 1 \in 1..Len(packs) /\ j + 1 < k + 1
    BY <1>2
  <2> QED
    BY <2>1 DEF UpInv, PacksOK, PacksInOrder
<1> QED
  BY <1>5, <1>6, <1>7 DEF PacksOK

\* The gc worker takes the first pack.
LEMMA UpCollect ==
  ASSUME TypeOK, TypeOK', NEW end \in Nat, CleanInv(end), Collect
  PROVE  CleanInv(end)'
<1>1. /\ packs # <<>> /\ packs' = Tail(packs) /\ written' = NextLsid(packs[1])
      /\ packs[1].acked /\ Range(packs[1].recs) \cap Range(ios) = {}
      /\ phase = "up" /\ phase' = "up"
      /\ log' = log /\ super' = super /\ data' = data /\ latest' = latest
      /\ top' = top /\ last' = last /\ acked' = acked /\ dropped' = dropped
      /\ logIos' = logIos /\ ios' = ios
  BY TailIs DEF Collect, devVars, histVars
<1>2. /\ Len(packs') \in Nat /\ Len(packs) = Len(packs') + 1 /\ 1 \in 1..Len(packs)
      /\ \A k \in 1..Len(packs') : k + 1 \in 1..Len(packs) /\ packs'[k] = packs[k + 1]
  BY <1>1, TailIs
<1>3. DiskInv(end) /\ UpInv(end)
  BY <1>1 DEF CleanInv, PhaseInv
<1>4. DiskInv(end)'
  BY <1>1, <1>3, DiskSame
<1>5. PacksOK(end)'
  BY <1>3, CollectPacks
<1>6. \A j \in 1..Len(packs) : j # 1 => \E k \in 1..Len(packs') : packs'[k] = packs[j]
  <2> SUFFICES ASSUME NEW j \in 1..Len(packs), j # 1
               PROVE  \E k \in 1..Len(packs') : packs'[k] = packs[j]
    OBVIOUS
  <2>1. j - 1 \in 1..Len(packs') /\ (j - 1) + 1 = j
    BY <1>2
  <2> QED
    BY <1>2, <2>1
<1>7. LogIosOK'
  <2>1. \A k \in 1..Len(packs') : \A io \in LogIosOf(packs'[k].lsid, packs'[k].recs) :
          IF io \in logIos THEN ~packs'[k].acked ELSE log[io.off] = io.block
    BY <1>2, <1>3 DEF UpInv, LogIosOK, IosOf
  <2>2. \A io \in logIos : \E k \in 1..Len(packs') :
          ~packs'[k].acked /\ io \in LogIosOf(packs'[k].lsid, packs'[k].recs)
    <3> SUFFICES ASSUME NEW io \in logIos
                 PROVE  \E k \in 1..Len(packs') :
                          ~packs'[k].acked /\ io \in LogIosOf(packs'[k].lsid, packs'[k].recs)
      OBVIOUS
    <3>1. PICK j \in 1..Len(packs) : ~packs[j].acked /\ io \in LogIosOf(packs[j].lsid, packs[j].recs)
      BY <1>3 DEF UpInv, LogIosOK, IosOf
    <3>2. PICK k \in 1..Len(packs') : packs'[k] = packs[j]
      BY <1>1, <1>6, <3>1
    <3> QED
      BY <3>1, <3>2
  <2> QED
    BY <1>1, <2>1, <2>2 DEF LogIosOK, IosOf
<1>8. HeadersUp(end)'
  <2>1. Headers' = Headers /\ \A h : Dead(h)' <=> Dead(h)
    BY <1>1, SameLog
  <2>2. written \in Nat /\ written' \in Nat /\ written < written' /\ NextLsid(packs[1]) = written'
    <3>1. written \in Nat
      BY DEF TypeOK
    <3>2. NextLsid(packs[1]) \in Nat /\ packs[1].lsid < NextLsid(packs[1])
      BY <1>2, PackIs
    <3>3. packs[1].lsid = written
      BY <1>2, <1>3 DEF UpInv, PacksOK, PackOK
    <3> QED
      BY <1>1, <3>1, <3>2, <3>3
  <2> SUFFICES ASSUME NEW h \in Headers, h.lsid >= super
               PROVE  Collected(h)' \/ Ours(h)' \/ Left(h, end)'
    BY <1>1, <2>1 DEF HeadersUp
  <2>3. h.lsid \in Nat /\ NextLsid(h) \in Nat
    BY HeaderIs
  <2>4. CASE Collected(h)
    <3>1. h.lsid < written' /\ NextLsid(h) <= written' /\ Range(h.recs) \subseteq acked
      BY <2>2, <2>3, <2>4 DEF Collected
    <3>2. \A k \in 1..Len(packs') : Before(h.recs, packs'[k].recs)
      BY <1>2, <2>4 DEF Collected
    <3> QED
      BY <1>1, <3>1, <3>2 DEF Collected
  <2>5. ASSUME NEW k \in 1..Len(packs), h = Header(packs[k].lsid, packs[k].recs)
        PROVE  Collected(h)' \/ Ours(h)'
    <3>1. CASE k = 1
      <4>1. h.lsid = packs[1].lsid /\ h.recs = packs[1].recs /\ NextLsid(h) = written'
        BY <2>2, <2>5, <3>1, PackNext
      <4>2. h.lsid < written' /\ Range(h.recs) \subseteq acked
        <5>1. h.lsid < written'
          BY <1>2, <2>2, <4>1, PackIs
        <5>2. 1 \in 1..Len(packs) /\ packs[1].acked
          BY <1>1, <1>2
        <5>3. Range(packs[1].recs) \subseteq acked
          BY <1>3, <5>2 DEF UpInv, PacksOK, PackOK
        <5> QED
          BY <4>1, <5>1, <5>3
      <4>3. \A j \in 1..Len(packs') : Before(h.recs, packs'[j].recs)
        BY <1>2, <1>3, <4>1 DEF UpInv, PacksOK, PacksInOrder
      <4>4. NextLsid(h) <= written'
        BY <2>2, <4>1
      <4> QED
        BY <1>1, <4>2, <4>3, <4>4 DEF Collected
    <3>2. CASE k # 1
      BY <1>6, <2>5, <3>2 DEF Ours
    <3> QED
      BY <3>1, <3>2
  <2>6. CASE Left(h, end)
    BY <1>1, <1>2, <2>1, <2>6 DEF Left
  <2> QED
    BY <1>3, <2>4, <2>5, <2>6 DEF UpInv, HeadersUp, Ours
<1>9. DataUp'
  <2>1. \A io \in Range(ios) : \E k \in 1..Len(packs') : packs'[k].acked /\ io \in Range(packs'[k].recs)
    BY <1>1, <1>3, <1>6 DEF UpInv, DataUp
  <2> QED
    BY <1>1, <1>3, <2>1 DEF UpInv, DataUp
<1> QED
  BY <1>1, <1>4, <1>5, <1>7, <1>8, <1>9 DEF CleanInv, PhaseInv, UpInv

-----------------------------------------------------------------------------
(* The submit task *)

\* Within the length of the ring buffer each lsid has a place of its own.
LEMMA PlacesApart ==
  ASSUME NEW w \in Nat, NEW a \in Nat, NEW b \in Nat, a # b,
         w <= a, a < w + RingSize, w <= b, b < w + RingSize
  PROVE  Off(a) # Off(b)
<1>1. RingSize \in Nat
  BY RecoveryAssumption
<1>2. CASE a < b
  BY <1>1, <1>2, OffApart
<1>3. CASE b < a
  BY <1>1, <1>3, OffApart
<1> QED
  BY <1>2, <1>3

\* Where the log IO of a pack goes.
LEMMA IoPlace ==
  ASSUME TypeOK, NEW k \in 1..Len(packs), NEW io \in IosOf(k)
  PROVE  \E l \in Nat :
           /\ packs[k].lsid <= l /\ l < NextLsid(packs[k]) /\ io.off = Off(l)
           /\ \/ l = packs[k].lsid /\ io.block = Header(packs[k].lsid, packs[k].recs)
              \/ \E i \in 1..Len(packs[k].recs) :
                   /\ IsWrite(packs[k].recs[i]) /\ packs[k].lsid < l
                   /\ l = packs[k].lsid + LsidLocal(packs[k].recs, i)
                   /\ io.block = Block(packs[k].recs[i].id)
<1>1. packs[k].lsid \in Nat /\ packs[k].recs \in Seq(Recs)
  BY PackIs
<1>2. io \in LogIosOf(packs[k].lsid, packs[k].recs)
  BY DEF IosOf
<1>3. NextLsid(Header(packs[k].lsid, packs[k].recs)) = NextLsid(packs[k])
  BY PackNext
<1> QED
  BY <1>1, <1>2, <1>3, LogIosAre

\* What a new pack adds.
LEMMA SubmitIs ==
  ASSUME TypeOK, NEW n \in 1..MaxRec, NEW recs \in NewRecs(n), SubmitPack(recs), DroppedOK
  PROVE  /\ recs \in Seq(Recs) /\ recs # <<>> /\ Ascending(recs)
         /\ last \in Nat /\ last' \in Nat /\ last < last'
         /\ \A r \in Range(recs) : r.id \in 1..last' /\ last < r.id /\ r.id \notin dropped
<1>1. n \in Nat /\ 1 <= n /\ last \in Nat /\ MaxRec \in Nat
  BY RecoveryAssumption DEF TypeOK
<1>2. /\ Len(recs) = n
      /\ \A k \in 1..n : recs[k].id = last + k
      /\ last + n <= MaxWrite => recs \in Seq(Recs)
  BY <1>1, NewRecsAre
<1>3. recs \in Seq(Recs) /\ last' = last + n
  BY <1>2 DEF SubmitPack
<1>4. \A r \in Range(recs) : \E k \in 1..n : r.id = last + k
  BY <1>2, <1>3, RangeIs
<1>5. \A r \in Range(recs) : r.id \in 1..last' /\ last < r.id
  BY <1>1, <1>3, <1>4
<1>6. \A r \in Range(recs) : r.id \notin dropped
  BY <1>1, <1>5 DEF DroppedOK
<1>7. Ascending(recs)
  BY <1>1, <1>2 DEF Ascending
<1> QED
  BY <1>1, <1>2, <1>3, <1>5, <1>6, <1>7

\* A pack gets its place behind the others, over blocks that redo no longer needs.
LEMMA UpSubmit ==
  ASSUME TypeOK, TypeOK', NEW end \in Nat, CleanInv(end),
         NEW n \in 1..MaxRec, NEW recs \in NewRecs(n), SubmitPack(recs)
  PROVE  CleanInv(end)'
<1> DEFINE p == [lsid |-> latest, recs |-> recs, acked |-> FALSE]
<1>0. PICK m \in Nat : m = Len(packs) + 1
  <2>1. packs \in Seq(Packs)
    BY DEF TypeOK
  <2>2. Len(packs) + 1 \in Nat
    BY <2>1
  <2> QED
    BY <2>2, Zenon
<1>1. /\ phase = "up" /\ phase' = "up"
      /\ packs' = Append(packs, p)
      /\ logIos' = logIos \cup LogIosOf(latest, recs)
      /\ latest' = NextLsid(Header(latest, recs)) /\ latest' - super <= RingSize
      /\ top' = IF latest' > top THEN latest' ELSE top
      /\ log' = log /\ super' = super /\ data' = data /\ written' = written /\ ios' = ios
      /\ acked' = acked /\ dropped' = dropped
  BY DEF SubmitPack, devVars
<1>2. DiskInv(end) /\ UpInv(end)
  BY <1>1 DEF CleanInv, PhaseInv
<1>3. /\ recs \in Seq(Recs) /\ recs # <<>> /\ Ascending(recs)
      /\ last \in Nat /\ last' \in Nat /\ last < last'
      /\ \A r \in Range(recs) : r.id \in 1..last' /\ last < r.id /\ r.id \notin dropped
  BY <1>2, SubmitIs DEF DiskInv
<1>4. /\ super \in Nat /\ written \in Nat /\ latest \in Nat /\ top \in Nat /\ RingSize \in Nat
      /\ super <= written /\ written <= end /\ end <= latest
      /\ latest <= super + RingSize /\ latest <= top /\ written <= latest
  BY <1>2, LsidsAre
<1>5. p.lsid = latest /\ p.recs = recs /\ p.acked = FALSE
  OBVIOUS
<1>6. /\ NextLsid(p) = latest' /\ latest' \in Nat /\ latest < latest'
      /\ latest' <= super + RingSize /\ latest' <= top' /\ top <= top'
  <2>1. Len(recs) \in Nat
    BY <1>3
  <2> HIDE DEF p
  <2>2. NextLsid(p) \in Nat /\ latest < NextLsid(p)
    BY <1>4, <1>5, <2>1, NextIs
  <2>3. NextLsid(p) = latest'
    BY <1>1, <1>5, PackNext
  <2> QED
    BY <1>1, <1>4, <2>2, <2>3
<1>7. /\ Len(packs) \in Nat /\ m \in Nat /\ Len(packs') = m
      /\ 1..m = 1..Len(packs) \cup {m} /\ \A k \in 1..Len(packs) : k < m
      /\ packs'[m] = p /\ \A k \in 1..Len(packs) : packs'[k] = packs[k]
  <2> HIDE DEF p
  <2>1. packs \in Seq(Packs)
    BY DEF TypeOK
  <2> QED
    BY <1>0, <1>1, <2>1
<1> HIDE DEF p
<1>8. DiskInv(end)'
  <2>1. last <= last'
    BY <1>3
  <2> QED
    BY <1>1, <1>2, <1>6, <2>1, DiskKept
<1>9. \A s : RecsOK(s) => RecsOK(s)' /\ Before(s, recs)
  <2> SUFFICES ASSUME NEW s, RecsOK(s) PROVE RecsOK(s)' /\ Before(s, recs)
    OBVIOUS
  <2>1. \A i : i \in 1..last => i \in 1..last' /\ i \in Nat /\ i <= last
    BY <1>3
  <2>2. \A r \in Range(recs) : r.id \in Nat
    BY <1>3
  <2>3. RecsOK(s)'
    BY <2>1 DEF RecsOK
  <2>4. \A a \in Range(s), b \in Range(recs) : a.id < b.id
    BY <1>3, <2>1, <2>2 DEF RecsOK
  <2> QED
    BY <2>3, <2>4 DEF Before
<1>10. \A k \in 1..Len(packs) : PackOK(k, end)
  BY <1>2 DEF UpInv, PacksOK
<1>11. PacksOK(end)'
  <2>1. LsidsOK(end)'
    <3>1. packs' # <<>>
      BY <1>7
    <3> QED
      BY <1>1, <1>4, <1>6, <3>1 DEF LsidsOK
  <2>2. ASSUME NEW k \in 1..Len(packs) PROVE PackOK(k, end)'
    <3>1. PackOK(k, end) /\ packs'[k] = packs[k]
      BY <1>7, <1>10
    <3>2. NextLsid(packs[k]) = IF k = m THEN latest' ELSE packs'[k + 1].lsid
      <4>1. CASE k = Len(packs)
        <5>1. NextLsid(packs[k]) = latest /\ k # m /\ k + 1 = m
          BY <1>0, <1>7, <3>1, <4>1 DEF PackOK
        <5> QED
          BY <1>5, <1>7, <5>1
      <4>2. CASE k # Len(packs)
        <5>1. NextLsid(packs[k]) = packs[k + 1].lsid /\ k # m /\ k + 1 \in 1..Len(packs)
          BY <1>7, <3>1, <4>2 DEF PackOK
        <5> QED
          BY <1>7, <5>1
      <4> QED
        BY <4>1, <4>2
    <3>3. NextLsid(packs[k]) <= latest'
      BY <1>4, <1>6, <3>1, PackIs DEF PackOK
    <3> QED
      BY <1>1, <1>7, <1>9, <3>1, <3>2, <3>3 DEF PackOK, NotDropped
  <2>3. PackOK(m, end)'
    <3>1. RecsOK(recs)' /\ NotDropped(recs)'
      BY <1>1, <1>3 DEF RecsOK, Ascending, NotDropped
    <3>2. m = 1 => latest = written
      BY <1>0, <1>2, <1>7 DEF UpInv, PacksOK, LsidsOK
    <3>3. ~(latest < end)
      BY <1>4
    <3>4. \A r \in acked, s \in Range(recs) : r.id < s.id
      <4>1. \A r \in acked : r.id \in 1..last
        BY <1>2 DEF DiskInv, DroppedOK
      <4>2. \A r \in acked : r.id \in Nat /\ r.id <= last
        BY <1>3, <4>1
      <4>3. \A s \in Range(recs) : s.id \in Nat /\ last < s.id
        BY <1>3
      <4> QED
        BY <1>3, <4>2, <4>3
    <3>5. NextLsid(p) <= latest'
      BY <1>6
    <3> QED
      BY <1>1, <1>4, <1>5, <1>6, <1>7, <3>1, <3>2, <3>3, <3>4, <3>5 DEF PackOK
  <2>4. PacksInOrder'
    <3> SUFFICES ASSUME NEW j \in 1..m, NEW k \in 1..m, j < k
                 PROVE  NextLsid(packs'[j]) <= packs'[k].lsid /\ Before(packs'[j].recs, packs'[k].recs)
      BY <1>7 DEF PacksInOrder
    <3>1. j \in 1..Len(packs) /\ packs'[j] = packs[j] /\ PackOK(j, end)
      BY <1>7, <1>10
    <3>2. CASE k = m
      <4>1. Before(packs[j].recs, recs)
        BY <1>9, <3>1 DEF PackOK
      <4> QED
        BY <1>5, <1>7, <3>1, <3>2, <4>1 DEF PackOK
    <3>3. CASE k \in 1..Len(packs)
      BY <1>2, <1>7, <3>1, <3>3 DEF UpInv, PacksOK, PacksInOrder
    <3> QED
      BY <1>7, <3>2, <3>3
  <2>5. \A k \in 1..m : PackOK(k, end)'
    BY <1>7, <2>2, <2>3
  <2> QED
    BY <1>7, <2>1, <2>4, <2>5 DEF PacksOK
<1>12. \A k \in 1..Len(packs) : IosOf(k) \cap LogIosOf(latest, recs) = {}
  <2> SUFFICES ASSUME NEW k \in 1..Len(packs), NEW io \in IosOf(k), io \in LogIosOf(latest, recs)
               PROVE  FALSE
    OBVIOUS
  <2>1. PICK a \in Nat : packs[k].lsid <= a /\ a < NextLsid(packs[k]) /\ io.off = Off(a)
    BY IoPlace
  <2>2. PICK b \in Nat : latest <= b /\ b < latest' /\ io.off = Off(b)
    BY <1>1, <1>3, <1>4, LogIosAre
  <2>3. /\ written <= packs[k].lsid /\ NextLsid(packs[k]) <= latest
        /\ packs[k].lsid \in Nat /\ NextLsid(packs[k]) \in Nat
    BY <1>10, PackIs DEF PackOK
  <2>4. /\ a # b /\ super <= a /\ a < super + RingSize
        /\ super <= b /\ b < super + RingSize
    <3>0. \A c, d \in Nat : a < c /\ c <= d /\ d <= b => a < d /\ a # b
      OBVIOUS
    <3>1. a < latest /\ a # b
      BY <1>4, <2>1, <2>2, <2>3, <3>0
    <3>2. super <= a /\ a < super + RingSize
      BY <1>4, <1>6, <2>1, <2>3, <3>1
    <3>3. super <= b /\ b < super + RingSize
      BY <1>4, <1>6, <2>2
    <3> QED
      BY <3>1, <3>2, <3>3
  <2> QED
    BY <1>4, <2>1, <2>2, <2>4, PlacesApart
<1>13. LogIosOK'
  <2>1. \A k \in 1..Len(packs) : \A io \in LogIosOf(packs'[k].lsid, packs'[k].recs) :
          IF io \in logIos' THEN ~packs'[k].acked ELSE log[io.off] = io.block
    BY <1>1, <1>2, <1>7, <1>12 DEF UpInv, LogIosOK, IosOf
  <2>2. \A io \in LogIosOf(packs'[m].lsid, packs'[m].recs) : io \in logIos' /\ ~packs'[m].acked
    BY <1>1, <1>5, <1>7
  <2>3. \A io \in logIos : \E k \in 1..Len(packs) :
          ~packs'[k].acked /\ io \in LogIosOf(packs'[k].lsid, packs'[k].recs)
    BY <1>2, <1>7 DEF UpInv, LogIosOK, IosOf
  <2>4. \A io \in logIos' : \E k \in 1..m :
          ~packs'[k].acked /\ io \in LogIosOf(packs'[k].lsid, packs'[k].recs)
    BY <1>1, <1>5, <1>7, <2>3
  <2> QED
    BY <1>1, <1>7, <2>1, <2>2, <2>4 DEF LogIosOK, IosOf
<1>14. HeadersUp(end)'
  <2>1. Headers' = Headers /\ \A h : Dead(h)' <=> Dead(h)
    BY <1>1, SameLog
  <2> SUFFICES ASSUME NEW h \in Headers, h.lsid >= super
               PROVE  Collected(h)' \/ Ours(h)' \/ Left(h, end)'
    BY <1>1, <2>1 DEF HeadersUp
  <2>2. Before(h.recs, recs)
    BY <1>2, <1>9 DEF DiskInv, HeadersOK
  <2>3. (\A k \in 1..Len(packs) : Before(h.recs, packs[k].recs)) =>
          \A k \in 1..Len(packs') : Before(h.recs, packs'[k].recs)
    BY <1>5, <1>7, <2>2
  <2>4. CASE Collected(h)
    BY <1>1, <2>3, <2>4 DEF Collected
  <2>5. CASE Ours(h)
    BY <1>7, <2>5 DEF Ours
  <2>6. CASE Left(h, end)
    BY <1>1, <2>1, <2>3, <2>6 DEF Left
  <2> QED
    BY <1>2, <2>4, <2>5, <2>6 DEF UpInv, HeadersUp
<1>15. DataUp'
  <2>1. \A io \in Range(ios) : \E k \in 1..Len(packs') : packs'[k].acked /\ io \in Range(packs'[k].recs)
    BY <1>2, <1>7 DEF UpInv, DataUp
  <2> QED
    BY <1>1, <1>2, <2>1 DEF UpInv, DataUp
<1> QED
  BY <1>1, <1>8, <1>11, <1>13, <1>14, <1>15 DEF CleanInv, PhaseInv, UpInv

-----------------------------------------------------------------------------
(* The log wait task *)

\* One sequence behind another.
LEMMA ConcatIs ==
  ASSUME NEW S, NEW s \in Seq(S), NEW t \in Seq(S)
  PROVE  /\ s \o t \in Seq(S) /\ Range(s \o t) = Range(s) \cup Range(t)
         /\ Ascending(s) /\ Ascending(t) /\ Before(s, t) => Ascending(s \o t)
<1>1. /\ s \o t \in Seq(S) /\ Len(s \o t) = Len(s) + Len(t) /\ Len(s) \in Nat /\ Len(t) \in Nat
      /\ \A i \in 1..Len(s) : (s \o t)[i] = s[i]
      /\ \A i \in (Len(s) + 1)..Len(s \o t) : (s \o t)[i] = t[i - Len(s)]
  OBVIOUS
<1>2. /\ \A i \in 1..Len(s) : i \in 1..Len(s \o t)
      /\ \A i \in 1..Len(t) : /\ i + Len(s) \in 1..Len(s \o t)
                              /\ (s \o t)[i + Len(s)] = t[i]
  <2>1. \A i \in 1..Len(t) : /\ i + Len(s) \in (Len(s) + 1)..Len(s \o t)
                             /\ i + Len(s) \in 1..Len(s \o t) /\ (i + Len(s)) - Len(s) = i
    BY <1>1
  <2> QED
    BY <1>1, <2>1
<1>3. \A i \in 1..Len(s \o t) :
        \/ i \in 1..Len(s) /\ (s \o t)[i] = s[i]
        \/ i > Len(s) /\ i - Len(s) \in 1..Len(t) /\ (s \o t)[i] = t[i - Len(s)]
  BY <1>1
<1>4. Range(s \o t) = Range(s) \cup Range(t)
  <2>1. /\ \A x \in Range(s) : \E i \in 1..Len(s) : x = s[i]
        /\ \A x \in Range(t) : \E i \in 1..Len(t) : x = t[i]
        /\ \A x \in Range(s \o t) : \E i \in 1..Len(s \o t) : x = (s \o t)[i]
        /\ \A i \in 1..Len(s) : s[i] \in Range(s)
        /\ \A i \in 1..Len(t) : t[i] \in Range(t)
        /\ \A i \in 1..Len(s \o t) : (s \o t)[i] \in Range(s \o t)
    BY <1>1, RangeIs
  <2>2. \A x \in Range(s \o t) : x \in Range(s) \cup Range(t)
    BY <1>3, <2>1
  <2>3. \A x \in Range(s) : x \in Range(s \o t)
    BY <1>1, <1>2, <2>1
  <2>4. ASSUME NEW x \in Range(t) PROVE x \in Range(s \o t)
    <3>1. PICK i \in 1..Len(t) : x = t[i]
      BY <2>1
    <3>2. i + Len(s) \in 1..Len(s \o t) /\ (s \o t)[i + Len(s)] = x
      BY <1>2, <3>1
    <3>3. \A j \in 1..Len(s \o t) : (s \o t)[j] \in Range(s \o t)
      BY <2>1
    <3> QED
      BY <3>2, <3>3, Zenon
  <2> QED
    BY <2>2, <2>3, <2>4
<1>5. ASSUME Ascending(s), Ascending(t), Before(s, t) PROVE Ascending(s \o t)
  <2> SUFFICES ASSUME NEW i \in 1..Len(s \o t), NEW j \in 1..Len(s \o t), i < j
               PROVE  (s \o t)[i].id < (s \o t)[j].id
    BY DEF Ascending
  <2>1. CASE j \in 1..Len(s)
    <3>1. i \in 1..Len(s)
      BY <1>1, <2>1
    <3> QED
      BY <1>1, <1>5, <2>1, <3>1 DEF Ascending
  <2>2. CASE i \in 1..Len(s) /\ j > Len(s)
    <3>1. j - Len(s) \in 1..Len(t) /\ (s \o t)[j] = t[j - Len(s)] /\ (s \o t)[i] = s[i]
      BY <1>1, <1>3, <2>2
    <3>2. s[i] \in Range(s) /\ t[j - Len(s)] \in Range(t)
      BY <2>2, <3>1, RangeIs
    <3> QED
      BY <1>5, <3>1, <3>2 DEF Before
  <2>3. CASE i > Len(s)
    <3>1. /\ i - Len(s) \in 1..Len(t) /\ (s \o t)[i] = t[i - Len(s)]
          /\ j - Len(s) \in 1..Len(t) /\ (s \o t)[j] = t[j - Len(s)]
          /\ i - Len(s) < j - Len(s)
      BY <1>1, <1>3, <2>3
    <3> QED
      BY <1>5, <3>1 DEF Ascending
  <2> QED
    BY <1>1, <1>3, <2>1, <2>2, <2>3
<1> QED
  BY <1>1, <1>4, <1>5

\* The pack that is answered is the one at end, and its log has landed.
LEMMA AckAt ==
  ASSUME TypeOK, NEW end \in Nat, UpInv(end), NEW k \in 1..Len(packs), ~packs[k].acked, Answerable(k)
  PROVE  /\ packs[k].lsid = end
         /\ \A j \in 1..Len(packs) : packs[j].acked <=> j < k
         /\ \A j \in 1..Len(packs) : j > k => NextLsid(packs[k]) <= packs[j].lsid
<1>1. \A j \in 1..Len(packs) : PackOK(j, end)
  BY DEF UpInv, PacksOK
<1>2. \A j \in 1..Len(packs) : packs[j].lsid \in Nat /\ packs[j].lsid < NextLsid(packs[j])
                               /\ NextLsid(packs[j]) \in Nat
  BY PackIs
<1>3. Len(packs) \in Nat /\ written \in Nat /\ written <= end
  BY LsidsAre DEF TypeOK
<1>4. \A j \in 1..Len(packs) : j < k => packs[j].acked
  <2>1. \A j \in 1..Len(packs) : j < k => j \in 1..(k - 1)
    BY <1>3
  <2> QED
    BY <2>1 DEF Answerable
<1>5. end <= packs[k].lsid
  BY <1>1, <1>2 DEF PackOK
<1>6. packs[k].lsid <= end
  <2>1. CASE k = 1
    BY <1>1, <1>3, <2>1 DEF PackOK
  <2>2. CASE k # 1
    <3>1. PICK j \in 1..Len(packs) : j < k /\ j + 1 = k /\ j # Len(packs)
      <4>1. k - 1 \in 1..Len(packs) /\ k - 1 < k /\ (k - 1) + 1 = k /\ k - 1 # Len(packs)
        BY <1>3, <2>2
      <4> QED
        BY <4>1
    <3>2. packs[j].acked
      BY <1>4, <3>1
    <3>3. NextLsid(packs[j]) <= end /\ NextLsid(packs[j]) = packs[j + 1].lsid
      BY <1>1, <3>1, <3>2 DEF PackOK
    <3> QED
      BY <3>1, <3>3
  <2> QED
    BY <2>1, <2>2
<1>7. \A j \in 1..Len(packs) : j > k => NextLsid(packs[k]) <= packs[j].lsid
  BY DEF UpInv, PacksOK, PacksInOrder
<1>8. \A j \in 1..Len(packs) : j > k => ~packs[j].acked
  <2> SUFFICES ASSUME NEW j \in 1..Len(packs), j > k PROVE ~packs[j].acked
    OBVIOUS
  <2>1. end < packs[j].lsid
    BY <1>2, <1>5, <1>7
  <2>2. packs[j].lsid \in Nat /\ ~(packs[j].lsid < end)
    BY <1>2, <2>1
  <2> QED
    BY <1>1, <2>2 DEF PackOK
<1> QED
  BY <1>2, <1>4, <1>5, <1>6, <1>7, <1>8

\* The log behind which a complete pack follows.
LEMMA ChainGrows ==
  ASSUME TypeOK, NEW end \in Nat, HeadersOK, ChainTo(end), NEW h \in Headers, h.lsid = end,
         Complete(h), NextLsid(h) <= super + RingSize, NextLsid(h) <= top,
         \A g \in Headers : ~(end < g.lsid /\ g.lsid < NextLsid(h))
  PROVE  ChainTo(NextLsid(h))
<1>1. NextLsid(h) \in Nat /\ end < NextLsid(h) /\ super \in Nat /\ super <= end
  BY HeaderIs DEF TypeOK, ChainTo
<1>2. Border(super, NextLsid(h))
  BY DEF ChainTo, Border
<1>3. ASSUME NEW g \in Headers, super <= g.lsid, g.lsid < NextLsid(h)
      PROVE  Complete(g) /\ NextLsid(g) <= NextLsid(h) /\ Border(NextLsid(g), NextLsid(h))
  <2>1. g.lsid \in Nat /\ NextLsid(g) \in Nat
    BY HeaderIs
  <2>2. CASE g.lsid < end
    <3>1. Complete(g) /\ NextLsid(g) <= end /\ Border(NextLsid(g), end)
      BY <1>3, <2>2 DEF ChainTo
    <3>2. NextLsid(g) <= NextLsid(h)
      BY <1>1, <2>1, <3>1
    <3> QED
      BY <3>1, <3>2 DEF Border
  <2>3. CASE g.lsid = end
    <3>1. g = h
      BY <2>3, OneHeader
    <3> QED
      BY <1>1, <3>1 DEF Border
  <2> QED
    BY <1>3, <2>1, <2>2, <2>3
<1> QED
  BY <1>1, <1>2, <1>3 DEF ChainTo

\* The chain reaches to the end of the pack that is answered.
LEMMA AckDisk ==
  ASSUME TypeOK, TypeOK', NEW end \in Nat, DiskInv(end), UpInv(end),
         NEW k \in 1..Len(packs), AckPack(k), NEW next \in Nat, next = NextLsid(packs[k])
  PROVE  DiskInv(next)'
<1> DEFINE h == Header(packs[k].lsid, packs[k].recs)
<1>1. /\ phase = "up" /\ phase' = "up" /\ ~packs[k].acked /\ Answerable(k)
      /\ acked' = acked \cup Range(packs[k].recs)
      /\ ios' = ios \o packs[k].recs
      /\ log' = log /\ super' = super /\ data' = data /\ dropped' = dropped /\ last' = last
      /\ top' = top
  BY DEF AckPack, devVars
<1>2. /\ packs[k].lsid = end
      /\ \A j \in 1..Len(packs) : packs[j].acked <=> j < k
      /\ \A j \in 1..Len(packs) : j > k => NextLsid(packs[k]) <= packs[j].lsid
  BY <1>1, AckAt
<1>3. /\ PackOK(k, end) /\ packs[k].recs # <<>> /\ RecsOK(packs[k].recs)
      /\ \A r \in acked, s \in Range(packs[k].recs) : r.id < s.id
  BY <1>1 DEF UpInv, PacksOK, PackOK, RecsOK
<1>4. /\ h.lsid = end /\ h.recs = packs[k].recs /\ NextLsid(h) = next
      /\ h \in Headers /\ Complete(h) /\ end < next
  <2>1. h \in Headers /\ Complete(h)
    BY <1>1, <1>3, AckedHeader DEF UpInv, Answerable, IosOf
  <2> HIDE DEF h
  <2> QED
    BY <1>2, <2>1, PackNext, HeaderIs DEF h
<1> HIDE DEF h
<1>5. /\ super \in Nat /\ written \in Nat /\ RingSize \in Nat /\ super <= written
      /\ written <= end /\ next <= super + RingSize /\ next <= top
  <2>1. /\ super \in Nat /\ written \in Nat /\ latest \in Nat /\ top \in Nat /\ RingSize \in Nat
        /\ super <= written /\ written <= end /\ latest <= super + RingSize /\ latest <= top
    BY LsidsAre
  <2>2. next <= latest
    BY <1>3 DEF PackOK
  <2> QED
    BY <2>1, <2>2
<1>6. \A g \in Headers : ~(end < g.lsid /\ g.lsid < next)
  <2> SUFFICES ASSUME NEW g \in Headers, end < g.lsid, g.lsid < next PROVE FALSE
    OBVIOUS
  <2>1. g.lsid \in Nat
    BY HeaderIs
  <2>2. CASE Collected(g)
    BY <1>5, <2>1, <2>2 DEF Collected
  <2>3. CASE Ours(g)
    <3>1. PICK j \in 1..Len(packs) : g.lsid = packs[j].lsid
      BY <2>3, PackNext DEF Ours
    <3>2. CASE j < k
      BY <1>2, <2>1, <3>1, <3>2 DEF UpInv, PacksOK, PackOK
    <3>3. CASE j = k
      BY <1>2, <2>1, <3>1, <3>3
    <3>4. CASE j > k
      BY <1>2, <2>1, <3>1, <3>4
    <3> QED
      BY <3>2, <3>3, <3>4
  <2>4. CASE Left(g, end)
    BY <2>1, <2>4 DEF Left, Dead
  <2>5. g.lsid >= super
    BY <1>5, <2>1
  <2> QED
    BY <2>2, <2>3, <2>4, <2>5 DEF UpInv, HeadersUp
<1>7. ChainTo(next)
  BY <1>4, <1>5, <1>6, ChainGrows DEF DiskInv
<1>8. HeadersOK' /\ HeadersInOrder' /\ ChainTo(next)' /\ OldIntact'
  <2>1. last <= last' /\ top <= top'
    BY <1>1 DEF TypeOK
  <2> QED
    BY <1>1, <1>7, <2>1, LogKept DEF DiskInv
<1>9. /\ Headers' = Headers
      /\ \A g : Dead(g)' <=> Dead(g)
      /\ \A r, e : InChain(r, e)' <=> InChain(r, e)
  BY <1>1, SameLog
<1>10. DroppedOK'
  <2>1. \A r \in Range(packs[k].recs) : r.id \in 1..last /\ r.id \notin dropped
    BY <1>3 DEF PackOK, RecsOK, NotDropped
  <2> QED
    BY <1>1, <1>9, <2>1 DEF DiskInv, DroppedOK, NotDropped
<1>11. ios \in Seq(Ios) /\ packs[k].recs \in Seq(Recs) /\ Recs \subseteq Ios
  BY PackIs DEF TypeOK, Recs, Ios
<1>12. Range(ios') = Range(ios) \cup Range(packs[k].recs) /\ Ascending(ios)'
  <2>1. Before(ios, packs[k].recs)
    BY <1>3 DEF UpInv, DataUp, Before
  <2>2. ios \in Seq(Ios) /\ packs[k].recs \in Seq(Ios)
    BY <1>11
  <2>3. Ascending(ios \o packs[k].recs)
    BY <1>3, <2>1, <2>2, ConcatIs DEF DiskInv, RecsOK
  <2>4. Range(ios \o packs[k].recs) = Range(ios) \cup Range(packs[k].recs)
    BY <2>2, ConcatIs
  <2>5. Ascending(ios)'
    BY <1>1, <2>3 DEF Ascending
  <2> QED
    BY <1>1, <2>4, <2>5
<1>13. \A r \in Range(packs[k].recs) : InChain(r, next)
  BY <1>4, <1>5 DEF InChain
<1>14. \A r : InChain(r, end) => InChain(r, next)
  <2>1. \A g \in Headers : g.lsid < end => g.lsid < next
    BY <1>4, HeaderIs
  <2> QED
    BY <2>1 DEF InChain
<1>15. AckedSafe(next)'
  <2> SUFFICES ASSUME NEW r \in acked, IsWrite(r), ~InChain(r, next) PROVE Settled(r)'
    BY <1>1, <1>9, <1>13 DEF AckedSafe
  <2>1. Settled(r)
    BY <1>14 DEF DiskInv, AckedSafe
  <2>2. \A io \in Range(packs[k].recs) : r.id <= io.id
    <3>1. r.id \in Nat /\ \A io \in Range(packs[k].recs) : io.id \in Nat
      BY PackIs, RecIs DEF TypeOK
    <3> QED
      BY <1>3, <3>1
  <2> QED
    BY <1>1, <1>9, <1>12, <2>1, <2>2 DEF Settled
<1>16. DataKnown(next)'
  <2>1. \A r : Known(r, end) => Known(r, next)'
    BY <1>1 DEF Known
  <2>2. \A r \in Range(packs[k].recs) : Known(r, next)'
    BY <1>1 DEF Known
  <2> QED
    BY <1>1, <1>12, <2>1, <2>2 DEF DiskInv, DataKnown
<1> QED
  BY <1>8, <1>10, <1>12, <1>15, <1>16 DEF DiskInv

\* A pack is answered.
LEMMA UpAck ==
  ASSUME TypeOK, TypeOK', NEW end \in Nat, CleanInv(end), NEW k \in 1..Len(packs), AckPack(k)
  PROVE  \E next \in Nat : CleanInv(next)'
<1>0. PICK next \in Nat : next = NextLsid(packs[k])
  BY PackIs
<1>1. /\ phase = "up" /\ phase' = "up" /\ ~packs[k].acked /\ Answerable(k)
      /\ packs' = [packs EXCEPT ![k].acked = TRUE]
      /\ acked' = acked \cup Range(packs[k].recs)
      /\ ios' = ios \o packs[k].recs
      /\ log' = log /\ super' = super /\ data' = data /\ dropped' = dropped /\ last' = last
      /\ top' = top /\ latest' = latest /\ written' = written /\ logIos' = logIos
  BY DEF AckPack, devVars, lsidVars
<1>2. DiskInv(end) /\ UpInv(end)
  BY <1>1 DEF CleanInv, PhaseInv
<1>3. DiskInv(next)'
  BY <1>0, <1>2, AckDisk
<1>4. /\ packs[k].lsid = end /\ end < next
      /\ \A j \in 1..Len(packs) : packs[j].acked <=> j < k
      /\ \A j \in 1..Len(packs) : j > k => next <= packs[j].lsid
  BY <1>0, <1>1, <1>2, AckAt, PackIs
<1>5. \A j \in 1..Len(packs) : PackOK(j, end)
  BY <1>2 DEF UpInv, PacksOK
<1>6. /\ Len(packs') = Len(packs)
      /\ \A j \in 1..Len(packs) :
           /\ packs'[j].lsid = packs[j].lsid /\ packs'[j].recs = packs[j].recs
           /\ packs'[j].acked = (IF j = k THEN TRUE ELSE packs[j].acked)
           /\ NextLsid(packs'[j]) = NextLsid(packs[j])
  <2>1. packs \in Seq(Packs)
    BY DEF TypeOK
  <2>2. /\ Len(packs') = Len(packs)
        /\ \A j \in 1..Len(packs) :
             packs'[j] = IF j = k THEN [packs[k] EXCEPT !.acked = TRUE] ELSE packs[j]
    BY <1>1, <2>1
  <2>3. \A j \in 1..Len(packs) :
           /\ packs'[j].lsid = packs[j].lsid /\ packs'[j].recs = packs[j].recs
           /\ packs'[j].acked = (IF j = k THEN TRUE ELSE packs[j].acked)
    <3>1. packs[k] \in Packs
      BY PackIs
    <3>2. [packs[k] EXCEPT !.acked = TRUE].lsid = packs[k].lsid
          /\ [packs[k] EXCEPT !.acked = TRUE].recs = packs[k].recs
          /\ [packs[k] EXCEPT !.acked = TRUE].acked = TRUE
      BY <3>1 DEF Packs
    <3> QED
      BY <2>2, <3>2
  <2> QED
    BY <2>2, <2>3 DEF NextLsid
<1>7. /\ super \in Nat /\ written \in Nat /\ latest \in Nat /\ super <= written
      /\ written <= end /\ next <= latest /\ \A j \in 1..Len(packs) : packs[j].lsid \in Nat
  BY <1>0, <1>2, <1>5, LsidsAre, PackIs DEF PackOK
<1>8. PacksOK(next)'
  <2>1. LsidsOK(next)'
    <3>1. packs' # <<>>
      BY <1>6
    <3> QED
      BY <1>1, <1>2, <1>4, <1>7, <3>1 DEF UpInv, PacksOK, LsidsOK
  <2>2. ASSUME NEW j \in 1..Len(packs) PROVE PackOK(j, next)'
    <3>1. /\ PackOK(j, end) /\ packs'[j].lsid = packs[j].lsid /\ packs'[j].recs = packs[j].recs
          /\ NextLsid(packs'[j]) = NextLsid(packs[j]) /\ Len(packs') = Len(packs)
          /\ packs[j].lsid \in Nat
      BY <1>5, <1>6, <1>7
    <3>2. RecsOK(packs[j].recs)' /\ NotDropped(packs[j].recs)'
      BY <1>1, <3>1 DEF PackOK, RecsOK, NotDropped
    <3>3. NextLsid(packs[j]) = IF j = Len(packs) THEN latest ELSE packs'[j + 1].lsid
      <4>1. CASE j = Len(packs)
        BY <3>1, <4>1 DEF PackOK
      <4>2. CASE j # Len(packs)
        <5>1. j + 1 \in 1..Len(packs)
          <6>1. Len(packs) \in Nat
            BY DEF TypeOK
          <6> QED
            BY <4>2, <6>1
        <5> QED
          BY <1>6, <3>1, <4>2, <5>1 DEF PackOK
      <4> QED
        BY <4>1, <4>2
    <3>4. packs'[j].acked <=> j <= k
      <4>1. packs'[j].acked <=> (j = k \/ j < k)
        BY <1>4, <1>6, Zenon
      <4>2. j \in Nat /\ k \in Nat
        OBVIOUS
      <4> QED
        BY <4>1, <4>2
    <3>5. packs'[j].acked <=> packs[j].lsid < next
      <4>1. CASE j < k
        BY <1>4, <3>1, <3>4, <4>1 DEF PackOK
      <4>2. CASE j = k
        BY <1>4, <3>4, <4>2
      <4>3. CASE j > k
        BY <1>4, <3>1, <3>4, <4>3
      <4> QED
        BY <4>1, <4>2, <4>3
    <3>6. packs'[j].acked => NextLsid(packs[j]) <= next /\ Range(packs[j].recs) \subseteq acked'
      <4>1. CASE j < k
        <5>1. NextLsid(packs[j]) <= end /\ Range(packs[j].recs) \subseteq acked
          BY <1>4, <3>1, <4>1 DEF PackOK
        <5> QED
          BY <1>1, <1>4, <5>1, PackIs
      <4>2. CASE j = k
        BY <1>0, <1>1, <4>2
      <4> QED
        BY <3>4, <4>1, <4>2
    <3>7. ~packs'[j].acked => \A r \in acked', s \in Range(packs[j].recs) : r.id < s.id
      <4> SUFFICES ASSUME j > k PROVE \A r \in acked', s \in Range(packs[j].recs) : r.id < s.id
        BY <3>4
      <4>1. ~packs[j].acked /\ Before(packs[k].recs, packs[j].recs)
        BY <1>2, <1>4 DEF UpInv, PacksOK, PacksInOrder
      <4> QED
        BY <1>1, <3>1, <4>1 DEF PackOK, Before
    <3> QED
      BY <1>1, <3>1, <3>2, <3>3, <3>5, <3>6, <3>7 DEF PackOK
  <2>3. \A j \in 1..Len(packs) : PackOK(j, next)'
    BY <2>2
  <2>4. PacksInOrder'
    BY <1>2, <1>6 DEF UpInv, PacksOK, PacksInOrder
  <2> QED
    BY <1>6, <2>1, <2>3, <2>4 DEF PacksOK
<1>9. LogIosOK'
  <2>1. \A j \in 1..Len(packs) : \A io \in LogIosOf(packs[j].lsid, packs[j].recs) :
          IF io \in logIos THEN ~packs'[j].acked ELSE log[io.off] = io.block
    BY <1>1, <1>2, <1>6 DEF UpInv, LogIosOK, IosOf, Answerable
  <2>2. \A io \in logIos : \E j \in 1..Len(packs) :
          ~packs'[j].acked /\ io \in LogIosOf(packs[j].lsid, packs[j].recs)
    BY <1>1, <1>2, <1>6 DEF UpInv, LogIosOK, IosOf, Answerable
  <2> QED
    BY <1>1, <1>6, <2>1, <2>2 DEF LogIosOK, IosOf
<1>10. HeadersUp(next)'
  <2>1. Headers' = Headers
    BY <1>1, SameLog
  <2> SUFFICES ASSUME NEW h \in Headers, h.lsid >= super
               PROVE  Collected(h)' \/ Ours(h)'
    BY <1>1, <2>1 DEF HeadersUp
  <2>2. CASE Collected(h)
    BY <1>1, <1>6, <2>2 DEF Collected
  <2>3. CASE Ours(h)
    BY <1>6, <2>3 DEF Ours
  <2>4. CASE Left(h, end)
    <3>1. h.lsid = end
      BY <2>4 DEF Left, Dead
    <3>2. Header(packs[k].lsid, packs[k].recs) \in Headers
      BY <1>1, <1>2, <1>5, AckedHeader DEF UpInv, Answerable, IosOf, PackOK, RecsOK
    <3>3. h = Header(packs[k].lsid, packs[k].recs)
      BY <1>2, <1>4, <3>1, <3>2, OneHeader, PackNext DEF DiskInv
    <3> QED
      BY <1>6, <3>3 DEF Ours
  <2> QED
    BY <1>2, <2>2, <2>3, <2>4 DEF UpInv, HeadersUp
<1>11. DataUp'
  <2>1. Range(ios') = Range(ios) \cup Range(packs[k].recs)
    <3>1. ios \in Seq(Ios) /\ packs[k].recs \in Seq(Recs) /\ Recs \subseteq Ios
      BY PackIs DEF TypeOK, Recs, Ios
    <3>2. packs[k].recs \in Seq(Ios)
      BY <3>1
    <3> QED
      BY <1>1, <3>1, <3>2, ConcatIs
  <2>2. ASSUME NEW io \in Range(packs[k].recs)
        PROVE  io \in Recs /\ ~IsEmpty(io) /\ data[io.pos] < io.id
    <3>1. io \in Recs /\ ~IsEmpty(io) /\ io.pos \in Pos
      BY PackIs, RecIs
    <3>2. data[io.pos] = 0 \/ \E r \in acked : r.id = data[io.pos]
      BY <1>1, <1>2, <3>1 DEF DiskInv, DataKnown, Known
    <3>3. io.id \in 1..last
      BY <1>5 DEF PackOK, RecsOK
    <3>4. \A r \in acked : r.id < io.id
      BY <1>1, <1>5 DEF PackOK
    <3>5. 0 < io.id
      <4>1. last \in Nat
        BY DEF TypeOK
      <4> QED
        BY <3>3, <4>1
    <3> QED
      BY <3>1, <3>2, <3>4, <3>5
  <2>3. ASSUME NEW io \in Range(ios')
        PROVE  /\ io \in acked' /\ ~IsEmpty(io) /\ data[io.pos] < io.id
               /\ \E j \in 1..Len(packs') : packs'[j].acked /\ io \in Range(packs'[j].recs)
    <3>1. CASE io \in Range(ios)
      BY <1>1, <1>2, <1>6, <3>1 DEF UpInv, DataUp
    <3>2. CASE io \in Range(packs[k].recs)
      BY <1>1, <1>6, <2>2, <3>2
    <3> QED
      BY <2>1, <3>1, <3>2
  <2> QED
    BY <1>1, <1>2, <2>1, <2>3 DEF UpInv, DataUp
<1> QED
  BY <1>1, <1>3, <1>8, <1>9, <1>10, <1>11 DEF CleanInv, PhaseInv, UpInv

-----------------------------------------------------------------------------
(* A log IO lands *)

\* One log IO at each place.
LEMMA IoAlone ==
  ASSUME TypeOK, NEW end \in Nat, UpInv(end), HeadersOK,
         NEW j \in 1..Len(packs), NEW a \in IosOf(j), NEW k \in 1..Len(packs), NEW b \in IosOf(k),
         a.off = b.off
  PROVE  a.block = b.block
<1>1. PICK l \in Nat :
           /\ packs[j].lsid <= l /\ l < NextLsid(packs[j]) /\ a.off = Off(l)
           /\ \/ l = packs[j].lsid /\ a.block = Header(packs[j].lsid, packs[j].recs)
              \/ \E i \in 1..Len(packs[j].recs) :
                   /\ IsWrite(packs[j].recs[i]) /\ packs[j].lsid < l
                   /\ l = packs[j].lsid + LsidLocal(packs[j].recs, i)
                   /\ a.block = Block(packs[j].recs[i].id)
  BY IoPlace
<1>2. PICK m \in Nat :
           /\ packs[k].lsid <= m /\ m < NextLsid(packs[k]) /\ b.off = Off(m)
           /\ \/ m = packs[k].lsid /\ b.block = Header(packs[k].lsid, packs[k].recs)
              \/ \E i \in 1..Len(packs[k].recs) :
                   /\ IsWrite(packs[k].recs[i]) /\ packs[k].lsid < m
                   /\ m = packs[k].lsid + LsidLocal(packs[k].recs, i)
                   /\ b.block = Block(packs[k].recs[i].id)
  BY IoPlace
<1>3. /\ super \in Nat /\ written \in Nat /\ latest \in Nat /\ RingSize \in Nat
      /\ super <= written /\ latest <= super + RingSize
  BY LsidsAre
<1>4. \A i \in 1..Len(packs) :
        /\ written <= packs[i].lsid /\ NextLsid(packs[i]) <= latest
        /\ packs[i].lsid \in Nat /\ NextLsid(packs[i]) \in Nat /\ Len(packs[i].recs) \in Nat
  BY PackIs DEF UpInv, PacksOK, PackOK
<1>5. l = m
  <2>1. super <= l /\ l < super + RingSize /\ super <= m /\ m < super + RingSize
    <3>1. /\ written <= packs[j].lsid /\ NextLsid(packs[j]) <= latest
          /\ packs[j].lsid \in Nat /\ NextLsid(packs[j]) \in Nat
      BY <1>4
    <3>2. /\ written <= packs[k].lsid /\ NextLsid(packs[k]) <= latest
          /\ packs[k].lsid \in Nat /\ NextLsid(packs[k]) \in Nat
      BY <1>4
    <3>3. packs[j].lsid <= l /\ l < NextLsid(packs[j]) /\ packs[k].lsid <= m /\ m < NextLsid(packs[k])
      BY <1>1, <1>2
    <3>4. \A x, c, d \in Nat : written <= c /\ d <= latest /\ c <= x /\ x < d =>
            super <= x /\ x < super + RingSize
      BY <1>3
    <3>5. super <= l /\ l < super + RingSize
      BY <3>1, <3>3, <3>4
    <3>6. super <= m /\ m < super + RingSize
      BY <3>2, <3>3, <3>4
    <3> QED
      BY <3>5, <3>6
  <2> QED
    BY <1>1, <1>2, <1>3, <2>1, PlacesApart
<1>6. j = k
  <2>1. \A x, y \in 1..Len(packs) : x < y => NextLsid(packs[x]) <= packs[y].lsid
    BY DEF UpInv, PacksOK, PacksInOrder
  <2>2. ~(j < k) /\ ~(k < j)
    BY <1>1, <1>2, <1>4, <1>5, <2>1
  <2> QED
    BY <2>2
<1>7. CASE l = packs[k].lsid
  BY <1>1, <1>2, <1>5, <1>6, <1>7
<1>8. CASE l # packs[k].lsid
  <2>1. PICK x \in 1..Len(packs[k].recs) :
                   /\ IsWrite(packs[k].recs[x])
                   /\ l = packs[k].lsid + LsidLocal(packs[k].recs, x)
                   /\ a.block = Block(packs[k].recs[x].id)
    BY <1>1, <1>6, <1>8
  <2>2. PICK y \in 1..Len(packs[k].recs) :
                   /\ IsWrite(packs[k].recs[y])
                   /\ l = packs[k].lsid + LsidLocal(packs[k].recs, y)
                   /\ b.block = Block(packs[k].recs[y].id)
    BY <1>2, <1>5, <1>8
  <2>3. LsidLocal(packs[k].recs, x) \in Nat /\ LsidLocal(packs[k].recs, y) \in Nat
        /\ x \in Nat /\ y \in Nat
    <3>1. x \in Nat /\ y \in Nat
      BY <1>4
    <3> QED
      BY <3>1, LocalStep
  <2>4. LsidLocal(packs[k].recs, x) = LsidLocal(packs[k].recs, y)
    <3>1. packs[k].lsid \in Nat
      BY <1>4
    <3>2. \A c, u, v \in Nat : c + u = c + v => u = v
      OBVIOUS
    <3>3. packs[k].lsid + LsidLocal(packs[k].recs, x) = packs[k].lsid + LsidLocal(packs[k].recs, y)
      BY <2>1, <2>2
    <3> QED
      BY <2>3, <3>1, <3>2, <3>3
  <2>5. ~(x < y) /\ ~(y < x)
    <3>1. x <= y /\ x < y => LsidLocal(packs[k].recs, x) < LsidLocal(packs[k].recs, y)
      BY <2>2, <2>3, LocalOrder
    <3>2. y <= x /\ y < x => LsidLocal(packs[k].recs, y) < LsidLocal(packs[k].recs, x)
      BY <2>1, <2>3, LocalOrder
    <3>3. \A u \in Nat : ~(u < u)
      OBVIOUS
    <3> QED
      BY <2>3, <2>4, <3>1, <3>2, <3>3
  <2>6. x = y
    BY <2>3, <2>5
  <2> QED
    BY <2>1, <2>2, <2>6
<1> QED
  BY <1>7, <1>8

\* What a log IO that lands is, and what it leaves alone.
LEMMA LandedLog ==
  ASSUME TypeOK, NEW end \in Nat, DiskInv(end), UpInv(end), NEW io \in logIos, LandLog(io)
  PROVE  \E k \in 1..Len(packs), l \in Nat :
           /\ ~packs[k].acked /\ io \in IosOf(k)
           /\ io.off = Off(l) /\ packs[k].lsid <= l /\ l < NextLsid(packs[k])
           /\ end <= packs[k].lsid /\ l < latest /\ packs[k].lsid \in Nat
           /\ \/ l = packs[k].lsid /\ io.block = Header(packs[k].lsid, packs[k].recs)
              \/ \E i \in 1..Len(packs[k].recs) : io.block = Block(packs[k].recs[i].id)
           /\ log'[Off(l)] = io.block
           /\ \A m \in Nat : Off(m) # Off(l) => log'[Off(m)] = log[Off(m)]
<1>1. PICK k \in 1..Len(packs) : ~packs[k].acked /\ io \in IosOf(k)
  BY DEF UpInv, LogIosOK
<1>2. PICK l \in Nat :
           /\ packs[k].lsid <= l /\ l < NextLsid(packs[k]) /\ io.off = Off(l)
           /\ \/ l = packs[k].lsid /\ io.block = Header(packs[k].lsid, packs[k].recs)
              \/ \E i \in 1..Len(packs[k].recs) : io.block = Block(packs[k].recs[i].id)
  BY <1>1, IoPlace
<1>3. /\ end <= packs[k].lsid /\ NextLsid(packs[k]) <= latest
      /\ packs[k].lsid \in Nat /\ NextLsid(packs[k]) \in Nat
  BY <1>1, PackIs DEF UpInv, PacksOK, PackOK
<1>4. l < latest
  BY <1>2, <1>3 DEF TypeOK
<1>5. Off(l) \in 0..(RingSize - 1) /\ \A m \in Nat : Off(m) \in 0..(RingSize - 1)
  BY OffIs
<1>6. log' = [log EXCEPT ![Off(l)] = io.block]
  BY <1>2 DEF LandLog
<1>7. log \in [0..(RingSize - 1) -> Blocks]
  BY DEF TypeOK
<1>8. /\ log'[Off(l)] = io.block
      /\ \A m \in Nat : Off(m) # Off(l) => log'[Off(m)] = log[Off(m)]
  BY <1>5, <1>6, <1>7
<1> QED
  BY <1>1, <1>2, <1>3, <1>4, <1>8

\* A log IO lands in a place that redo no longer needs, or in the place of its pack.
LEMMA UpLandLog ==
  ASSUME TypeOK, TypeOK', NEW end \in Nat, CleanInv(end), NEW io \in logIos, LandLog(io)
  PROVE  CleanInv(end)'
<1>1. phase = "up"
  BY DEF CleanInv, PhaseInv
<1>2. DiskInv(end) /\ UpInv(end)
  BY <1>1 DEF CleanInv, PhaseInv
<1>3. /\ phase' = "up" /\ logIos' = logIos \ {io}
      /\ super' = super /\ data' = data /\ latest' = latest /\ written' = written
      /\ packs' = packs /\ ios' = ios /\ last' = last /\ top' = top /\ acked' = acked
      /\ dropped' = dropped
  BY <1>1 DEF LandLog, lsidVars, histVars
<1>4. PICK k \in 1..Len(packs), l \in Nat :
           /\ ~packs[k].acked /\ io \in IosOf(k)
           /\ io.off = Off(l) /\ packs[k].lsid <= l /\ l < NextLsid(packs[k])
           /\ end <= packs[k].lsid /\ l < latest /\ packs[k].lsid \in Nat
           /\ \/ l = packs[k].lsid /\ io.block = Header(packs[k].lsid, packs[k].recs)
              \/ \E i \in 1..Len(packs[k].recs) : io.block = Block(packs[k].recs[i].id)
           /\ log'[Off(l)] = io.block
           /\ \A m \in Nat : Off(m) # Off(l) => log'[Off(m)] = log[Off(m)]
  BY <1>2, LandedLog
<1> DEFINE h1 == Header(packs[k].lsid, packs[k].recs)
<1>5. /\ h1.lsid = packs[k].lsid /\ h1.recs = packs[k].recs /\ h1.id = 0
      /\ NextLsid(h1) = NextLsid(packs[k])
  BY PackNext
<1> HIDE DEF h1
<1>6. /\ super \in Nat /\ written \in Nat /\ latest \in Nat /\ top \in Nat /\ RingSize \in Nat
      /\ super <= written /\ written <= end /\ end <= latest
      /\ latest <= super + RingSize /\ latest <= top
  BY <1>2, LsidsAre
<1>7. PackOK(k, end) /\ \A j \in 1..Len(packs) : PackOK(j, end)
  BY <1>2 DEF UpInv, PacksOK
(* The headers *)
<1>8. \A h \in Headers : h.lsid \in Nat /\ NextLsid(h) \in Nat /\ log[Off(h.lsid)] = h /\ IsHeader(h)
  BY <1>2, HeaderIs, HeaderPlace DEF DiskInv
<1>9. \A o \in 0..(RingSize - 1) :
        \/ o # Off(l) /\ log'[o] = log[o]
        \/ o = Off(l) /\ log'[o] = io.block
  <2>1. io.off = Off(l) /\ Off(l) \in 0..(RingSize - 1)
    BY <1>4, OffIs
  <2> QED
    BY <2>1 DEF LandLog, TypeOK
<1>10. IsHeader(io.block) => io.block = h1 /\ l = packs[k].lsid
  <2>1. \A x : Block(x).recs = <<>>
    BY DEF Block
  <2> QED
    BY <1>4, <2>1 DEF IsHeader, h1
<1>11. \A o \in 0..(RingSize - 1) : IsHeader(log'[o]) => Off(log'[o].lsid) = o
  BY <1>2, <1>5, <1>9, <1>10 DEF DiskInv, HeadersOK
<1>12. \A h \in Headers' : \/ h \in Headers /\ Off(h.lsid) # Off(l)
                           \/ h = h1 /\ l = packs[k].lsid
  <2> SUFFICES ASSUME NEW o \in 0..(RingSize - 1), IsHeader(log'[o]),
                      ~(log'[o] = h1 /\ l = packs[k].lsid)
               PROVE  log'[o] \in Headers /\ Off(log'[o].lsid) # Off(l)
    BY DEF Headers
  <2>1. o # Off(l) /\ log'[o] = log[o]
    BY <1>9, <1>10
  <2> QED
    BY <1>11, <2>1 DEF Headers
<1>13. \A h \in Headers : Off(h.lsid) # Off(l) => h \in Headers'
  <2> SUFFICES ASSUME NEW h \in Headers, Off(h.lsid) # Off(l) PROVE h \in Headers'
    OBVIOUS
  <2>1. Off(h.lsid) \in 0..(RingSize - 1)
    BY <1>8, OffIs
  <2>2. log'[Off(h.lsid)] = h
    BY <1>4, <1>8
  <2> QED
    BY <1>8, <2>1, <2>2 DEF Headers
(* What stays in the log *)
<1>14. \A m \in Nat : super <= m /\ m < end => Off(m) # Off(l)
  <2> SUFFICES ASSUME NEW m \in Nat, super <= m, m < end PROVE Off(m) # Off(l)
    OBVIOUS
  <2>1. m # l /\ m < super + RingSize /\ super <= l /\ l < super + RingSize
    BY <1>4, <1>6
  <2> QED
    BY <1>6, <2>1, PlacesApart
<1>15. \A m \in Nat : m < end /\ m + RingSize >= top => Off(m) # Off(l)
  <2> SUFFICES ASSUME NEW m \in Nat, m < end, m + RingSize >= top, Off(m) = Off(l) PROVE FALSE
    OBVIOUS
  <2>1. m < l
    BY <1>4, <1>6
  <2>2. m + RingSize <= l
    BY <2>1, OffApart
  <2> QED
    BY <1>4, <1>6, <2>2
<1>16. \A h \in Headers : (\A m \in Nat : h.lsid <= m /\ m < NextLsid(h) => Off(m) # Off(l)) =>
         \A i \in 1..Len(h.recs) : ValidRec(h, i)' <=> ValidRec(h, i)
  <2> SUFFICES ASSUME NEW h \in Headers, NEW i \in 1..Len(h.recs),
                      \A m \in Nat : h.lsid <= m /\ m < NextLsid(h) => Off(m) # Off(l)
               PROVE  ValidRec(h, i)' <=> ValidRec(h, i)
    OBVIOUS
  <2>1. PICK m \in Nat : m = h.lsid + LsidLocal(h.recs, i) /\ h.lsid <= m /\ m < NextLsid(h)
    BY HeaderIs
  <2>2. log'[Off(m)] = log[Off(m)]
    BY <1>4, <2>1
  <2>3. BlockOf(h, i)' = BlockOf(h, i)
    BY <2>1, <2>2 DEF BlockOf
  <2> QED
    BY <2>3 DEF ValidRec
<1>17. \A h \in Headers : super <= h.lsid /\ h.lsid < end =>
         Complete(h) /\ Complete(h)' /\ ~Dead(h) /\ NextLsid(h) <= end /\ h \in Headers'
  <2> SUFFICES ASSUME NEW h \in Headers, super <= h.lsid, h.lsid < end
               PROVE  Complete(h) /\ Complete(h)' /\ ~Dead(h) /\ NextLsid(h) <= end /\ h \in Headers'
    OBVIOUS
  <2>1. Complete(h) /\ NextLsid(h) <= end
    BY <1>2 DEF DiskInv, ChainTo
  <2>2. \A m \in Nat : h.lsid <= m /\ m < NextLsid(h) => super <= m /\ m < end
    BY <1>6, <1>8, <2>1
  <2>3. Complete(h)'
    BY <1>14, <1>16, <2>1, <2>2 DEF Complete
  <2>4. h \in Headers'
    BY <1>8, <1>13, <1>14
  <2> QED
    BY <2>1, <2>3, <2>4, CompleteAlive
(* The headers behind the super block *)
<1>18. ASSUME NEW h \in Headers', h.lsid >= super
       PROVE  (Collected(h) /\ h \in Headers) \/ Ours(h) \/ (Left(h, end) /\ Dead(h)')
  <2>1. CASE h = h1
    BY <2>1 DEF Ours, h1
  <2>2. CASE h # h1
    <3>1. h \in Headers /\ Off(h.lsid) # Off(l)
      BY <1>12, <2>2
    <3>2. ASSUME Left(h, end) PROVE Dead(h)'
      <4>1. h.lsid = super /\ IsWrite(h.recs[1]) /\ BlockOf(h, 1).id # h.recs[1].id
        BY <3>2 DEF Left, Dead, ValidRec
      <4>2. PICK m \in Nat : m = h.lsid + LsidLocal(h.recs, 1)
        BY <3>1, HeaderIs
      <4>3. 1 \in 1..Len(h.recs) /\ h.recs[1] \in Range(h.recs)
        BY <3>1, HeaderIs
      <4>4. log'[Off(m)].id # h.recs[1].id
        <5>1. CASE Off(m) # Off(l)
          BY <1>4, <4>1, <4>2, <5>1 DEF BlockOf
        <5>2. CASE Off(m) = Off(l) /\ io.block = h1
          <6>1. h.recs[1].id \in 1..last
            BY <1>2, <3>1, <4>3 DEF DiskInv, HeadersOK, RecsOK
          <6>2. h.recs[1].id # 0
            <7>1. last \in Nat
              BY DEF TypeOK
            <7> QED
              BY <6>1, <7>1
          <6> QED
            BY <1>4, <1>5, <5>2, <6>2
        <5>3. ASSUME Off(m) = Off(l), NEW i \in 1..Len(packs[k].recs),
                     io.block = Block(packs[k].recs[i].id)
              PROVE  log'[Off(m)].id # h.recs[1].id
          <6>1. packs[k].recs[i] \in Range(packs[k].recs)
            BY PackIs, RangeIs
          <6>2. h.recs[1].id < packs[k].recs[i].id
            BY <3>2, <4>3, <6>1 DEF Left, Before
          <6>3. h.recs[1].id \in Nat /\ packs[k].recs[i].id \in Nat
            BY <3>1, <4>3, <6>1, HeaderIs, PackIs, RecIs
          <6>4. log'[Off(m)].id = packs[k].recs[i].id
            BY <1>4, <5>3 DEF Block
          <6> QED
            BY <6>2, <6>3, <6>4
        <5> QED
          BY <1>4, <5>1, <5>2, <5>3 DEF h1
      <4> QED
        BY <1>3, <4>1, <4>2, <4>4 DEF Dead, ValidRec, BlockOf
    <3> QED
      BY <1>2, <1>18, <3>1, <3>2 DEF UpInv, HeadersUp
  <2> QED
    BY <2>1, <2>2
<1>19. \A h \in Headers' : h.lsid >= super /\ ~Dead(h)' => (Collected(h) /\ h \in Headers) \/ Ours(h)
  BY <1>18
<1>20. /\ \A h : Collected(h) => h.lsid < written /\ NextLsid(h) <= written
       /\ \A h : Ours(h) => \E j \in 1..Len(packs) :
            /\ h.lsid = packs[j].lsid /\ h.recs = packs[j].recs /\ h.id = 0
            /\ NextLsid(h) = NextLsid(packs[j]) /\ PackOK(j, end)
  BY <1>7, PackNext DEF Collected, Ours
<1>21. HeadersOK'
  <2> SUFFICES ASSUME NEW h \in Headers'
               PROVE  /\ h.id = 0 /\ RecsOK(h.recs) /\ NextLsid(h) <= top
                      /\ h.lsid >= super => NextLsid(h) <= super + RingSize
    BY <1>3, <1>11 DEF HeadersOK, RecsOK
  <2>1. CASE h \in Headers
    BY <1>2, <2>1 DEF DiskInv, HeadersOK
  <2>2. CASE h = h1
    <3>1. NextLsid(packs[k]) <= latest /\ NextLsid(packs[k]) \in Nat
      BY <1>7, PackIs DEF PackOK
    <3> QED
      BY <1>5, <1>6, <1>7, <2>2, <3>1 DEF PackOK
  <2> QED
    BY <1>12, <2>1, <2>2
<1>22. HeadersInOrder'
  <2> SUFFICES ASSUME NEW b \in Headers', NEW c \in Headers', super <= b.lsid, b.lsid < c.lsid,
                      ~Dead(b)'
               PROVE  NextLsid(b) <= c.lsid /\ Before(b.recs, c.recs)
    BY <1>3 DEF HeadersInOrder
  <2>1. /\ b.lsid \in Nat /\ NextLsid(b) \in Nat /\ c.lsid \in Nat /\ super <= c.lsid
    <3>1. h1.lsid \in Nat /\ NextLsid(h1) \in Nat
      BY <1>4, <1>5, PackIs
    <3>2. \A h \in Headers' : h.lsid \in Nat /\ NextLsid(h) \in Nat
      BY <1>8, <1>12, <3>1
    <3>3. b.lsid \in Nat /\ NextLsid(b) \in Nat /\ c.lsid \in Nat
      BY <3>2
    <3> QED
      BY <1>6, <3>3
  <2>2. (Collected(b) /\ b \in Headers) \/ Ours(b)
    BY <1>19
  <2>3. (Collected(c) /\ c \in Headers) \/ Ours(c) \/ Left(c, end)
    BY <1>18, <2>1
  <2>4. CASE Collected(b) /\ b \in Headers /\ Collected(c) /\ c \in Headers
    <3>1. ~Dead(b)
      BY <1>6, <1>17, <1>20, <2>1, <2>4
    <3> QED
      BY <1>2, <2>4, <3>1 DEF DiskInv, HeadersInOrder
  <2>5. CASE Collected(b) /\ Ours(c)
    <3>1. PICK j \in 1..Len(packs) : c.lsid = packs[j].lsid /\ c.recs = packs[j].recs /\ PackOK(j, end)
      BY <1>20, <2>5
    <3>2. written <= c.lsid
      BY <3>1 DEF PackOK
    <3>3. Before(b.recs, c.recs)
      BY <2>5, <3>1 DEF Collected
    <3> QED
      BY <1>6, <1>20, <2>1, <2>5, <3>2, <3>3
  <2>6. CASE Ours(b) /\ Collected(c)
    <3>1. written <= b.lsid
      BY <1>20, <2>6 DEF PackOK
    <3> QED
      BY <1>6, <1>20, <2>1, <2>6, <3>1
  <2>7. CASE Ours(b) /\ Ours(c)
    <3>1. PICK i \in 1..Len(packs) :
            b.lsid = packs[i].lsid /\ b.recs = packs[i].recs /\ NextLsid(b) = NextLsid(packs[i])
      BY <1>20, <2>7
    <3>2. PICK j \in 1..Len(packs) : c.lsid = packs[j].lsid /\ c.recs = packs[j].recs
      BY <1>20, <2>7
    <3>3. i < j
      <4>1. ~(j < i)
        <5> SUFFICES ASSUME j < i PROVE FALSE
          OBVIOUS
        <5>1. NextLsid(packs[j]) <= packs[i].lsid
          BY <1>2 DEF UpInv, PacksOK, PacksInOrder
        <5> QED
          BY <2>1, <3>1, <3>2, <5>1, PackIs
      <4>2. j # i
        BY <2>1, <3>1, <3>2
      <4> QED
        BY <4>1, <4>2
    <3> QED
      BY <1>2, <3>1, <3>2, <3>3 DEF UpInv, PacksOK, PacksInOrder
  <2>8. CASE Left(c, end)
    BY <1>6, <2>1, <2>8 DEF Left, Dead
  <2> QED
    BY <2>2, <2>3, <2>4, <2>5, <2>6, <2>7, <2>8
<1>23. ChainTo(end)'
  <2>1. \A m : Border(m, end) /\ super <= m /\ m <= end => Border(m, end)'
    BY <1>6, <1>8, <1>17 DEF Border
  <2>2. Border(super, end)'
    <3>1. Border(super, end)
      BY <1>2 DEF DiskInv, ChainTo
    <3> QED
      BY <1>3, <1>6, <2>1, <3>1 DEF Border
  <2>3. ASSUME NEW h \in Headers', super <= h.lsid, h.lsid < end
        PROVE  Complete(h)' /\ NextLsid(h) <= end /\ Border(NextLsid(h), end)'
    <3>1. h \in Headers
      BY <1>4, <1>5, <1>12, <2>3
    <3>2. Complete(h)' /\ NextLsid(h) <= end
      BY <1>17, <2>3, <3>1
    <3>3. Border(NextLsid(h), end) /\ super <= NextLsid(h)
      BY <1>2, <1>6, <2>3, <3>1, HeaderIs DEF DiskInv, ChainTo
    <3> QED
      BY <2>1, <3>2, <3>3
  <2>4. super <= end /\ end <= super + RingSize /\ end <= top
    BY <1>2 DEF DiskInv, ChainTo
  <2>5. \A h \in Headers' : super <= h.lsid /\ h.lsid < end =>
          Complete(h)' /\ NextLsid(h) <= end /\ Border(NextLsid(h), end)'
    BY <2>3
  <2> QED
    BY <1>3, <2>2, <2>4, <2>5 DEF ChainTo
<1>24. OldIntact'
  <2> SUFFICES ASSUME NEW h \in Headers', h.lsid < super, h.lsid + RingSize >= top
               PROVE  Complete(h)' /\ NextLsid(h) <= super
    BY <1>3 DEF OldIntact
  <2>1. h \in Headers
    BY <1>4, <1>5, <1>6, <1>12
  <2>2. Complete(h) /\ NextLsid(h) <= super /\ h.lsid \in Nat /\ NextLsid(h) \in Nat
    BY <1>2, <1>8, <2>1 DEF DiskInv, OldIntact
  <2>3. \A m \in Nat : h.lsid <= m /\ m < NextLsid(h) => Off(m) # Off(l)
    <3>1. \A m \in Nat : h.lsid <= m /\ m < NextLsid(h) => m < end /\ m + RingSize >= top
      BY <1>6, <2>2
    <3> QED
      BY <1>15, <3>1
  <2> QED
    BY <1>16, <2>1, <2>2, <2>3 DEF Complete
<1>25. DroppedOK'
  <2>1. ASSUME NEW h \in Headers', h.lsid >= super, ~Dead(h)' PROVE NotDropped(h.recs)
    <3>1. CASE Collected(h)
      BY <1>2, <3>1 DEF Collected, DiskInv, DroppedOK, NotDropped
    <3>2. CASE Ours(h)
      BY <1>20, <3>2 DEF PackOK
    <3> QED
      BY <1>19, <2>1, <3>1, <3>2
  <2> QED
    BY <1>2, <1>3, <2>1 DEF DiskInv, DroppedOK, NotDropped
<1>26. AckedSafe(end)'
  <2> SUFFICES ASSUME NEW r \in acked, IsWrite(r) PROVE InChain(r, end)' \/ Settled(r)'
    BY <1>3 DEF AckedSafe
  <2>1. CASE InChain(r, end)
    BY <1>3, <1>17, <2>1 DEF InChain
  <2>2. CASE Settled(r)
    <3>1. ASSUME NEW h \in Headers', h.lsid >= super, ~Dead(h)'
          PROVE  \A s \in Range(h.recs) : r.id < s.id
      <4>1. CASE Collected(h) /\ h \in Headers
        <5>1. ~Dead(h)
          BY <1>6, <1>8, <1>17, <1>20, <3>1, <4>1
        <5> QED
          BY <2>2, <3>1, <4>1, <5>1 DEF Settled
      <4>2. CASE Ours(h)
        <5>1. PICK j \in 1..Len(packs) :
                h.lsid = packs[j].lsid /\ h.recs = packs[j].recs /\ PackOK(j, end)
          BY <1>20, <4>2
        <5>2. CASE ~packs[j].acked
          BY <5>1, <5>2 DEF PackOK
        <5>3. CASE packs[j].acked
          <6>1. h.lsid < end
            BY <5>1, <5>3 DEF PackOK
          <6>2. h \in Headers
            BY <1>4, <1>5, <1>12, <6>1
          <6>3. ~Dead(h)
            BY <1>17, <3>1, <6>1, <6>2
          <6> QED
            BY <2>2, <3>1, <6>2, <6>3 DEF Settled
        <5> QED
          BY <5>2, <5>3
      <4> QED
        BY <1>19, <3>1, <4>1, <4>2
    <3> QED
      BY <1>3, <2>2, <3>1 DEF Settled
  <2> QED
    BY <1>2, <2>1, <2>2 DEF DiskInv, AckedSafe
<1>27. DataKnown(end)'
  <2>1. \A r : Known(r, end) => Known(r, end)'
    BY <1>1, <1>3 DEF Known
  <2> QED
    BY <1>2, <1>3, <2>1 DEF DiskInv, DataKnown
<1>28. DiskInv(end)'
  <2>1. Ascending(ios)'
    BY <1>2, <1>3 DEF DiskInv, Ascending
  <2> QED
    BY <1>21, <1>22, <1>23, <1>24, <1>25, <1>26, <1>27, <2>1 DEF DiskInv
(* The packs *)
<1>29. PacksOK(end)'
  BY <1>2, <1>3 DEF UpInv, PacksOK, LsidsOK, PackOK, PacksInOrder, NotDropped, RecsOK
<1>30. LogIosOK'
  <2>1. ASSUME NEW j \in 1..Len(packs), NEW a \in IosOf(j)
        PROVE  IF a \in logIos' THEN ~packs[j].acked ELSE log'[a.off] = a.block
    <3>1. CASE a \in logIos'
      BY <1>2, <1>3, <3>1 DEF UpInv, LogIosOK
    <3>2. CASE a \notin logIos'
      <4>1. PICK m \in Nat : a.off = Off(m)
        BY IoPlace
      <4>2. CASE a.off = Off(l)
        <5>1. a.block = io.block
          BY <1>2, <1>4, <4>2, IoAlone DEF DiskInv
        <5> QED
          BY <1>4, <3>2, <4>2, <5>1
      <4>3. CASE a.off # Off(l)
        <5>1. a \notin logIos
          BY <1>3, <1>4, <3>2, <4>3
        <5>2. log[a.off] = a.block
          BY <1>2, <5>1 DEF UpInv, LogIosOK
        <5> QED
          BY <1>4, <3>2, <4>1, <4>3, <5>2
      <4> QED
        BY <4>2, <4>3
    <3> QED
      BY <3>1, <3>2
  <2>2. \A a \in logIos' : \E j \in 1..Len(packs) : ~packs[j].acked /\ a \in IosOf(j)
    BY <1>2, <1>3 DEF UpInv, LogIosOK
  <2>3. \A j : IosOf(j)' = IosOf(j)
    BY <1>3 DEF IosOf
  <2> QED
    BY <1>3, <2>1, <2>2, <2>3 DEF LogIosOK
<1>31. HeadersUp(end)'
  <2> SUFFICES ASSUME NEW h \in Headers', h.lsid >= super
               PROVE  Collected(h)' \/ Ours(h)' \/ Left(h, end)'
    BY <1>3 DEF HeadersUp
  <2>1. Collected(h) => Collected(h)'
    BY <1>3 DEF Collected
  <2>2. Ours(h) => Ours(h)'
    BY <1>3 DEF Ours
  <2>3. Left(h, end) /\ Dead(h)' => Left(h, end)'
    BY <1>3 DEF Left
  <2> QED
    BY <1>18, <2>1, <2>2, <2>3
<1>32. DataUp'
  BY <1>2, <1>3 DEF UpInv, DataUp
<1> QED
  BY <1>3, <1>28, <1>29, <1>30, <1>31, <1>32 DEF CleanInv, PhaseInv, UpInv

-----------------------------------------------------------------------------
(* Redo reads a pack *)

\* The IOs of the valid records.
LEMMA FoundIos ==
  ASSUME TypeOK, HeadersOK, NEW h \in Headers, NEW n \in 0..Len(h.recs), n = InvalidIdx(h)
  PROVE  /\ \A k \in 1..n : ValidRec(h, k) /\ k \in 1..Len(h.recs)
         /\ n < Len(h.recs) => ~ValidRec(h, n + 1)
         /\ RedoIos(h, n) \in Seq(Ios) /\ Ascending(RedoIos(h, n))
         /\ \A io \in Range(RedoIos(h, n)) : \E k \in 1..n :
              io.id = h.recs[k].id /\ (IsEmpty(io) \/ (IsWrite(io) /\ io = h.recs[k]))
         /\ \A k \in 1..n : IsWrite(h.recs[k]) => h.recs[k] \in Range(RedoIos(h, n))
<1>1. h \in Blocks /\ h.recs \in Seq(Recs) /\ Len(h.recs) \in Nat /\ n \in Nat
  BY HeaderIs
<1>2. /\ \A k \in 1..n : ValidRec(h, k)
      /\ n < Len(h.recs) => ~ValidRec(h, n + 1)
  BY <1>1, InvalidIs
<1>3. \A k \in 1..n : k \in 1..Len(h.recs)
  BY <1>1
<1>4. /\ RedoIos(h, n) \in Seq(Ios) /\ Len(RedoIos(h, n)) = n
      /\ \A k \in 1..n :
           RedoIos(h, n)[k] = IF IsWrite(h.recs[k])
                              THEN [h.recs[k] EXCEPT !.id = BlockOf(h, k).id]
                              ELSE [h.recs[k] EXCEPT !.kind = "empty"]
  BY <1>1, RedoIosAre
<1>5. ASSUME NEW k \in 1..n
      PROVE  /\ RedoIos(h, n)[k].id = h.recs[k].id
             /\ IF IsWrite(h.recs[k]) THEN RedoIos(h, n)[k] = h.recs[k]
                                      ELSE IsEmpty(RedoIos(h, n)[k])
  <2>1. h.recs[k] \in Recs
    BY <1>1, <1>3
  <2>2. CASE IsWrite(h.recs[k])
    <3>1. BlockOf(h, k).id = h.recs[k].id
      BY <1>2, <2>2 DEF ValidRec
    <3>2. [h.recs[k] EXCEPT !.id = h.recs[k].id] = h.recs[k]
      BY <2>1 DEF Recs
    <3> QED
      BY <1>4, <2>2, <3>1, <3>2
  <2>3. CASE ~IsWrite(h.recs[k])
    <3>1. /\ [h.recs[k] EXCEPT !.kind = "empty"].id = h.recs[k].id
          /\ [h.recs[k] EXCEPT !.kind = "empty"].kind = "empty"
      BY <2>1 DEF Recs
    <3> QED
      BY <1>4, <2>3, <3>1 DEF IsEmpty
  <2> QED
    BY <2>2, <2>3
<1>6. Ascending(RedoIos(h, n))
  <2>1. Ascending(h.recs)
    BY DEF HeadersOK, RecsOK
  <2> QED
    BY <1>3, <1>4, <1>5, <2>1 DEF Ascending
<1>7. /\ \A k \in 1..n : RedoIos(h, n)[k] \in Range(RedoIos(h, n))
      /\ \A io \in Range(RedoIos(h, n)) : \E k \in 1..n : io = RedoIos(h, n)[k]
  BY <1>4, RangeIs
<1>8. \A io \in Range(RedoIos(h, n)) : \E k \in 1..n :
         io.id = h.recs[k].id /\ (IsEmpty(io) \/ (IsWrite(io) /\ io = h.recs[k]))
  BY <1>5, <1>7
<1>9. \A k \in 1..n : IsWrite(h.recs[k]) => h.recs[k] \in Range(RedoIos(h, n))
  BY <1>5, <1>7
<1> QED
  BY <1>2, <1>3, <1>4, <1>6, <1>8, <1>9

\* The first records of a pack.
LEMMA FoundRecs ==
  ASSUME NEW s \in Seq(Recs), NEW n \in 0..Len(s)
  PROVE  /\ SubSeq(s, 1, n) \in Seq(Recs) /\ Len(SubSeq(s, 1, n)) = n
         /\ \A k \in 1..n : SubSeq(s, 1, n)[k] = s[k] /\ s[k] \in Range(SubSeq(s, 1, n))
         /\ \A r \in Range(SubSeq(s, 1, n)) : \E k \in 1..n : r = s[k]
         /\ Range(SubSeq(s, 1, n)) \subseteq Range(s)
<1>0. PICK t : t = SubSeq(s, 1, n)
  OBVIOUS
<1>1. /\ t \in Seq(Recs) /\ Len(t) = n /\ Len(s) \in Nat /\ n \in Nat
      /\ \A k \in 1..n : t[k] = s[k] /\ k \in 1..Len(s)
  BY <1>0
<1>2. /\ \A k \in 1..n : t[k] \in Range(t)
      /\ \A r \in Range(t) : \E k \in 1..n : r = t[k]
  BY <1>1, RangeIs
<1>3. \A k \in 1..n : s[k] \in Range(s)
  BY <1>1, RangeIs
<1>4. /\ \A k \in 1..n : t[k] = s[k] /\ s[k] \in Range(t)
      /\ \A r \in Range(t) : \E k \in 1..n : r = s[k]
  BY <1>1, <1>2
<1>5. Range(t) \subseteq Range(s)
  BY <1>3, <1>4
<1> QED
  BY <1>0, <1>1, <1>4, <1>5, Zenon

\* The pack that redo has read, and what it does with it.
LEMMA LogpackIs ==
  ASSUME TypeOK, NEW end \in Nat, DiskInv(end), RedoInv(end), RedoLogpack
  PROVE  \E h \in Headers, n \in Nat :
           /\ n \in 0..Len(h.recs) /\ h.lsid = written /\ n = InvalidIdx(h)
           /\ ios' = ios \o RedoIos(h, n)
           /\ redone' = redone \cup Range(SubSeq(h.recs, 1, n))
           /\ \/ n = Len(h.recs) /\ written' = NextLsid(h) /\ phase' = "redo"
              \/ n = 0 /\ written' = written /\ phase' = "sync" /\ written = end /\ ~ValidRec(h, 1)
              \/ /\ n \in 1..(Len(h.recs) - 1) /\ written' = written /\ phase' = "rewrite"
                 /\ written = end
<1>1. IsHeader(HeaderBlock) /\ HeaderBlock.lsid = written /\ phase = "redo"
  BY DEF RedoLogpack, HeaderFound
<1>2. PICK h \in Headers : h = HeaderBlock
  <2>1. HeaderBlock \in Headers
    BY <1>1, HeaderAt DEF HeaderBlock, TypeOK
  <2> QED
    BY <2>1
<1>3. Len(h.recs) \in Nat /\ 1 <= Len(h.recs)
  BY HeaderIs
<1>4. PICK n \in 0..Len(h.recs) : n = InvalidIdx(h)
  BY <1>3, InvalidIs
<1>5. /\ \A k \in 1..n : ValidRec(h, k)
      /\ n < Len(h.recs) => ~ValidRec(h, n + 1)
  BY <1>3, <1>4, InvalidIs
<1>6. /\ ios' = ios \o RedoIos(h, n)
      /\ redone' = redone \cup Range(SubSeq(h.recs, 1, n))
      /\ RedoValid(h) \/ RedoInvalid(h) \/ RedoPartly(h)
  BY <1>2, <1>4 DEF RedoLogpack
<1>7. written \in Nat /\ super <= written /\ written <= end
  BY DEF RedoInv, TypeOK
<1> DEFINE After ==
           \/ n = Len(h.recs) /\ written' = NextLsid(h) /\ phase' = "redo"
           \/ n = 0 /\ written' = written /\ phase' = "sync" /\ written = end /\ ~ValidRec(h, 1)
           \/ /\ n \in 1..(Len(h.recs) - 1) /\ written' = written /\ phase' = "rewrite"
              /\ written = end
<1>8. n < Len(h.recs) => written = end
  <2> SUFFICES ASSUME n < Len(h.recs), written < end PROVE FALSE
    BY <1>7
  <2>1. Complete(h)
    BY <1>1, <1>2, <1>7 DEF DiskInv, ChainTo
  <2>2. n + 1 \in 1..Len(h.recs)
    BY <1>3
  <2> QED
    BY <1>5, <2>1, <2>2 DEF Complete
<1>9. ASSUME RedoValid(h) PROVE After
  <2> QED
    BY <1>1, <1>4, <1>9 DEF RedoValid, RedoneTo
<1>10. ASSUME RedoInvalid(h) PROVE After
  <2>1. n = 0 /\ n + 1 = 1 /\ n < Len(h.recs)
    BY <1>3, <1>4, <1>10 DEF RedoInvalid
  <2>2. ~ValidRec(h, 1)
    BY <1>5, <2>1
  <2> QED
    BY <1>8, <1>10, <2>1, <2>2 DEF RedoInvalid
<1>11. ASSUME RedoPartly(h) PROVE After
  <2>1. n \in 1..(Len(h.recs) - 1) /\ n < Len(h.recs)
    BY <1>3, <1>4, <1>11 DEF RedoPartly
  <2> QED
    BY <1>8, <1>11, <2>1 DEF RedoPartly
<1>12. n \in Nat /\ h.lsid = written
  BY <1>1, <1>2, <1>3
<1> QED
  BY <1>4, <1>6, <1>9, <1>10, <1>11, <1>12

\* Redo of a logpack whose records are valid, invalid or in part valid
LEMMA LogpackClean ==
  ASSUME TypeOK, TypeOK', NEW end \in Nat, CleanInv(end), RedoLogpack
  PROVE  \E next \in Nat : CleanInv(next)'
<1>1. DiskInv(end) /\ RedoInv(end) /\ packs = <<>> /\ logIos = {} /\ phase = "redo"
  BY DEF CleanInv, PhaseInv, RedoLogpack
<1>2. /\ log' = log /\ super' = super /\ data' = data /\ packs' = packs /\ logIos' = logIos
      /\ last' = last /\ top' = top /\ acked' = acked /\ dropped' = dropped
  BY DEF RedoLogpack, devVars
<1>3. PICK h \in Headers, n \in Nat :
           /\ n \in 0..Len(h.recs) /\ h.lsid = written /\ n = InvalidIdx(h)
           /\ ios' = ios \o RedoIos(h, n)
           /\ redone' = redone \cup Range(SubSeq(h.recs, 1, n))
           /\ \/ n = Len(h.recs) /\ written' = NextLsid(h) /\ phase' = "redo"
              \/ n = 0 /\ written' = written /\ phase' = "sync" /\ written = end /\ ~ValidRec(h, 1)
              \/ /\ n \in 1..(Len(h.recs) - 1) /\ written' = written /\ phase' = "rewrite"
                 /\ written = end
  BY <1>1, LogpackIs
<1>4. /\ h.lsid \in Nat /\ NextLsid(h) \in Nat /\ h.lsid < NextLsid(h) /\ h.recs \in Seq(Recs)
      /\ Len(h.recs) \in Nat /\ 1 <= Len(h.recs) /\ n \in Nat
      /\ \A k \in 1..Len(h.recs) : h.recs[k] \in Range(h.recs) /\ h.recs[k] \in Recs
  BY HeaderIs
<1>5. /\ \A k \in 1..n : ValidRec(h, k) /\ k \in 1..Len(h.recs)
      /\ n < Len(h.recs) => ~ValidRec(h, n + 1)
      /\ RedoIos(h, n) \in Seq(Ios) /\ Ascending(RedoIos(h, n))
      /\ \A io \in Range(RedoIos(h, n)) : \E k \in 1..n :
           io.id = h.recs[k].id /\ (IsEmpty(io) \/ (IsWrite(io) /\ io = h.recs[k]))
      /\ \A k \in 1..n : IsWrite(h.recs[k]) => h.recs[k] \in Range(RedoIos(h, n))
  BY <1>1, <1>3, FoundIos DEF DiskInv
<1>6. /\ written \in Nat /\ super \in Nat /\ RingSize \in Nat /\ super <= written /\ written <= end
      /\ Border(written, end)
  BY <1>1, RecoveryAssumption DEF RedoInv, TypeOK
<1>7. /\ \A k \in 1..n : h.recs[k] \in redone'
      /\ \A r \in redone' : r \in redone \/ \E k \in 1..n : r = h.recs[k]
      /\ redone \subseteq redone'
  BY <1>3, <1>4, FoundRecs
<1>8. n >= 1 => ~Dead(h)
  BY <1>4, <1>5 DEF Dead
(* The end of the complete packs *)
<1>9. PICK next \in Nat :
        /\ ChainTo(next) /\ end <= next /\ written' <= next /\ Border(written', next)
        /\ phase' \in {"rewrite", "sync"} => next = end /\ written' = end
        /\ next = end \/ (next = NextLsid(h) /\ h.lsid = end /\ phase' = "redo")
  <2>1. CASE n = Len(h.recs) /\ written' = NextLsid(h) /\ phase' = "redo" /\ written = end
    <3>1. Complete(h)
      BY <1>5, <2>1 DEF Complete
    <3>2. \A g \in Headers : ~(end < g.lsid /\ g.lsid < NextLsid(h))
      <4> SUFFICES ASSUME NEW g \in Headers, end < g.lsid, g.lsid < NextLsid(h) PROVE FALSE
        OBVIOUS
      <4>1. NextLsid(h) <= g.lsid
        BY <1>1, <1>3, <1>4, <1>6, <1>8, <2>1 DEF DiskInv, HeadersInOrder
      <4> QED
        BY <1>4, <4>1, HeaderIs
    <3>3. NextLsid(h) <= super + RingSize /\ NextLsid(h) <= top
      BY <1>1, <1>3, <1>4, <1>6 DEF DiskInv, HeadersOK
    <3>4. ChainTo(NextLsid(h))
      BY <1>1, <1>3, <2>1, <3>1, <3>2, <3>3, ChainGrows DEF DiskInv
    <3> QED
      BY <1>3, <1>4, <2>1, <3>4 DEF Border
  <2>2. CASE n = Len(h.recs) /\ written' = NextLsid(h) /\ phase' = "redo" /\ written # end
    <3>1. NextLsid(h) <= end /\ Border(NextLsid(h), end)
      BY <1>1, <1>3, <1>6, <2>2 DEF DiskInv, ChainTo
    <3> QED
      BY <1>1, <2>2, <3>1 DEF DiskInv
  <2>3. CASE written' = written /\ written = end /\ phase' \in {"rewrite", "sync"}
    BY <1>1, <2>3 DEF DiskInv, Border
  <2> QED
    BY <1>3, <2>1, <2>2, <2>3
<1>10. /\ Headers' = Headers
       /\ \A g, k : ValidRec(g, k)' <=> ValidRec(g, k)
       /\ \A g : Dead(g)' <=> Dead(g)
       /\ \A m, e : Border(m, e)' <=> Border(m, e)
       /\ \A r, e : InChain(r, e)' <=> InChain(r, e)
       /\ \A r, e : InTail(r, e)' <=> InTail(r, e)
  BY <1>2, SameLog
<1>11. \A g \in Headers : g.lsid \in Nat
  BY HeaderIs
<1>12. \A d, e \in Nat : \A r : InChain(r, d) /\ d <= e => InChain(r, e)
  BY <1>11 DEF InChain
\* Where the records are that redo has found
<1>13. \A k \in 1..n : InChain(h.recs[k], next) \/ (phase' = "rewrite" /\ InTail(h.recs[k], next))
  <2> SUFFICES ASSUME NEW k \in 1..n
               PROVE  InChain(h.recs[k], next) \/ (phase' = "rewrite" /\ InTail(h.recs[k], next))
    OBVIOUS
  <2>1. k \in 1..Len(h.recs) /\ h.recs[k] \in Range(h.recs)
    BY <1>4, <1>5
  <2>2. CASE h.lsid < next
    BY <1>3, <1>6, <2>1, <2>2 DEF InChain
  <2>3. CASE ~(h.lsid < next)
    <3>1. h.lsid = next /\ phase' = "rewrite"
      BY <1>3, <1>4, <1>6, <1>9, <2>3
    <3>2. \A j \in 1..k : j \in 1..n
      BY <1>4
    <3>3. \A j \in 1..k : ValidRec(h, j)
      BY <1>5, <3>2
    <3> QED
      BY <2>1, <3>1, <3>3 DEF InTail
  <2> QED
    BY <2>2, <2>3
\* Records of earlier packs have smaller ids
<1>14. \A r \in redone : \A k \in 1..n : r.id < h.recs[k].id
  <2> SUFFICES ASSUME NEW r \in redone, NEW k \in 1..n PROVE r.id < h.recs[k].id
    OBVIOUS
  <2>1. PICK b \in Headers : super <= b.lsid /\ b.lsid < written /\ r \in Range(b.recs)
    BY <1>1 DEF RedoInv, RedoneIs, InChain
  <2>2. ~Dead(b)
    BY <1>1, <1>6, <1>11, <2>1, CompleteAlive DEF DiskInv, ChainTo
  <2>3. Before(b.recs, h.recs)
    BY <1>1, <1>3, <2>1, <2>2 DEF DiskInv, HeadersInOrder
  <2> QED
    BY <1>4, <1>5, <2>1, <2>3 DEF Before
<1>15. /\ Range(ios') = Range(ios) \cup Range(RedoIos(h, n)) /\ Ascending(ios)'
  <2>1. ios \in Seq(Ios)
    BY DEF TypeOK
  <2>2. Before(ios, RedoIos(h, n))
    <3> SUFFICES ASSUME NEW a \in Range(ios), NEW b \in Range(RedoIos(h, n)) PROVE a.id < b.id
      BY DEF Before
    <3>1. PICK r \in redone : r.id = a.id
      BY <1>1 DEF RedoInv, DataRedo
    <3>2. PICK k \in 1..n : b.id = h.recs[k].id
      BY <1>5
    <3> QED
      BY <1>14, <3>1, <3>2
  <2>3. Ascending(ios \o RedoIos(h, n))
    BY <1>1, <1>5, <2>1, <2>2, ConcatIs DEF DiskInv
  <2> QED
    <3>1. Range(ios \o RedoIos(h, n)) = Range(ios) \cup Range(RedoIos(h, n))
      BY <1>5, <2>1, ConcatIs
    <3> QED
      BY <1>3, <2>3, <3>1 DEF Ascending
(* The disks *)
<1>16. DiskInv(next)'
  <2>1. HeadersOK' /\ HeadersInOrder' /\ ChainTo(next)' /\ OldIntact'
    <3>1. last <= last' /\ top <= top'
      BY <1>2 DEF TypeOK
    <3> QED
      BY <1>1, <1>2, <1>9, <3>1, LogKept DEF DiskInv
  <2>2. DroppedOK'
    BY <1>1, <1>2, <1>10 DEF DiskInv, DroppedOK, NotDropped
  <2>3. AckedSafe(next)'
    <3> SUFFICES ASSUME NEW r \in acked, IsWrite(r), ~InChain(r, next) PROVE Settled(r)'
      BY <1>2, <1>10 DEF AckedSafe
    <3>1. Settled(r)
      BY <1>1, <1>9, <1>12 DEF DiskInv, AckedSafe
    <3>2. \A io \in Range(RedoIos(h, n)) : r.id <= io.id
      <4> SUFFICES ASSUME NEW io \in Range(RedoIos(h, n)) PROVE r.id <= io.id
        OBVIOUS
      <4>1. PICK k \in 1..n : io.id = h.recs[k].id
        BY <1>5
      <4>2. h.recs[k] \in Range(h.recs) /\ h.recs[k] \in Recs /\ ~Dead(h)
        BY <1>4, <1>5, <1>8
      <4>3. r.id < h.recs[k].id
        BY <1>3, <1>6, <3>1, <4>2 DEF Settled
      <4>4. r.id \in Nat /\ h.recs[k].id \in Nat
        BY <4>2, RecIs DEF TypeOK
      <4> QED
        BY <4>1, <4>3, <4>4
    <3> QED
      BY <1>2, <1>10, <1>15, <3>1, <3>2 DEF Settled
  <2>4. DataKnown(next)'
    <3>1. phase' # "up"
      BY <1>3
    <3>2. \A r : InTail(r, end) => InChain(r, next) \/ InTail(r, next)
      <4> SUFFICES ASSUME NEW r, InTail(r, end), next # end PROVE InChain(r, next)
        OBVIOUS
      <4>1. PICK g \in Headers : g.lsid = end /\ \E k \in 1..Len(g.recs) : r = g.recs[k]
        BY DEF InTail
      <4>2. r \in Range(g.recs)
        BY <4>1, HeaderIs
      <4>3. super <= g.lsid /\ g.lsid < next
        BY <1>4, <1>6, <1>9, <4>1
      <4> QED
        BY <4>2, <4>3 DEF InChain
    <3>3. \A r : Known(r, end) => Known(r, next)'
      BY <1>2, <1>9, <1>10, <1>12, <3>1, <3>2 DEF Known
    <3>4. \A k \in 1..n : Known(h.recs[k], next)'
      BY <1>10, <1>13, <3>1 DEF Known
    <3>5. \A io \in Range(ios') : IsEmpty(io) \/ Known(io, next)'
      <4>1. \A io \in Range(ios) : IsEmpty(io) \/ Known(io, next)'
        BY <1>1, <3>3 DEF DiskInv, DataKnown
      <4>2. \A io \in Range(RedoIos(h, n)) : IsEmpty(io) \/ Known(io, next)'
        BY <1>5, <3>4
      <4> QED
        BY <1>15, <4>1, <4>2
    <3> QED
      BY <1>1, <1>2, <3>3, <3>5 DEF DiskInv, DataKnown
  <2> QED
    BY <1>15, <2>1, <2>2, <2>3, <2>4 DEF DiskInv
(* Redo *)
<1>17. RedoneIs(next)'
  <2>1. ASSUME NEW g \in Headers, super <= g.lsid, g.lsid < written'
        PROVE  Range(g.recs) \subseteq redone'
    <3>1. CASE g.lsid < written
      BY <1>1, <1>7, <2>1, <3>1 DEF RedoInv, RedoneIs
    <3>2. CASE ~(g.lsid < written)
      <4>1. n = Len(h.recs) /\ written' = NextLsid(h)
        BY <1>3, <1>6, <1>11, <2>1, <3>2
      <4>2. g.lsid = h.lsid
        <5> SUFFICES ASSUME h.lsid < g.lsid PROVE FALSE
          BY <1>3, <1>4, <1>11, <3>2
        <5>1. NextLsid(h) <= g.lsid
          BY <1>1, <1>3, <1>4, <1>6, <1>8, <4>1 DEF DiskInv, HeadersInOrder
        <5> QED
          BY <1>4, <1>11, <2>1, <4>1, <5>1
      <4>3. g = h
        BY <1>1, <4>2, OneHeader DEF DiskInv
      <4>4. \A r \in Range(h.recs) : \E k \in 1..Len(h.recs) : r = h.recs[k]
        BY <1>4, RangeIs
      <4> QED
        BY <1>7, <4>1, <4>3, <4>4
    <3> QED
      BY <3>1, <3>2
  <2>2. \A r : InChain(r, written)' <=> InChain(r, written')
    BY <1>2, <1>10 DEF InChain
  <2>3. ASSUME NEW r \in redone'
        PROVE  InChain(r, written') \/ (phase' = "rewrite" /\ InTail(r, next))
    <3>1. written' \in Nat /\ written <= written'
      BY <1>3, <1>4, <1>6
    <3>2. CASE r \in redone
      BY <1>1, <1>6, <1>12, <3>1, <3>2 DEF RedoInv, RedoneIs
    <3>3. ASSUME NEW k \in 1..n, r = h.recs[k]
          PROVE  InChain(r, written') \/ (phase' = "rewrite" /\ InTail(r, next))
      <4>1. CASE n = Len(h.recs) /\ written' = NextLsid(h)
        BY <1>3, <1>4, <1>5, <1>6, <3>3, <4>1 DEF InChain
      <4>2. CASE phase' = "rewrite" /\ written' = written /\ written = end
        <5>1. next = end /\ ~(h.lsid < next)
          BY <1>3, <1>4, <1>9, <4>2
        <5>2. next = written'
          BY <4>2, <5>1
        <5> QED
          BY <1>13, <3>3, <4>2, <5>2
      <4>3. CASE n = 0
        BY <4>3
      <4> QED
        BY <1>3, <4>1, <4>2, <4>3
    <3> QED
      BY <1>7, <3>2, <3>3
  <2> QED
    BY <1>2, <1>10, <2>1, <2>2, <2>3 DEF RedoneIs
<1>18. DataRedo'
  <2>1. ASSUME NEW io \in Range(ios')
        PROVE  /\ IsEmpty(io) \/ (IsWrite(io) /\ io \in redone')
               /\ \E r \in redone' : r.id = io.id
    <3>1. CASE io \in Range(ios)
      BY <1>1, <1>7, <3>1 DEF RedoInv, DataRedo
    <3>2. CASE io \in Range(RedoIos(h, n))
      BY <1>5, <1>7, <3>2
    <3> QED
      BY <1>15, <3>1, <3>2
  <2>2. ASSUME NEW r \in redone', IsWrite(r)
        PROVE  \/ r \in Range(ios')
               \/ /\ r.id <= data[r.pos]
                  /\ \A io \in Range(ios') : io.pos = r.pos /\ ~IsEmpty(io) => r.id < io.id
    <3>1. CASE r \in redone
      <4>1. \A io \in Range(RedoIos(h, n)) : r.id < io.id
        BY <1>5, <1>14, <3>1
      <4> QED
        BY <1>1, <1>15, <2>2, <3>1, <4>1 DEF RedoInv, DataRedo
    <3>2. ASSUME NEW k \in 1..n, r = h.recs[k] PROVE r \in Range(ios')
      BY <1>5, <1>15, <2>2, <3>2
    <3> QED
      BY <1>7, <3>1, <3>2
  <2> QED
    BY <1>2, <2>1, <2>2 DEF DataRedo
<1>19. RedoInv(next)'
  <2>1. super <= written' /\ written' <= next /\ Border(written, next)'
    <3>1. Border(written', next)
      BY <1>9
    <3> QED
      BY <1>3, <1>4, <1>6, <1>9, <1>10, <3>1 DEF Border
  <2>2. phase' \in {"rewrite", "sync"} => written' = next
    BY <1>9
  <2>3. phase' = "rewrite" => Torn(next)'
    <3> SUFFICES ASSUME phase' = "rewrite" PROVE Torn(next)'
      OBVIOUS
    <3>1. /\ h.lsid = next /\ n \in 1..(Len(h.recs) - 1)
          /\ \A k \in 1..n : ValidRec(h, k) /\ h.recs[k] \in redone'
          /\ ~ValidRec(h, n + 1)
      BY <1>3, <1>4, <1>5, <1>7, <1>9
    <3> QED
      BY <1>10, <3>1 DEF Torn
  <2>4. phase' = "sync" => \A g \in Headers : g.lsid = next => ~ValidRec(g, 1)
    <3> SUFFICES ASSUME phase' = "sync", NEW g \in Headers, g.lsid = next PROVE ~ValidRec(g, 1)
      OBVIOUS
    <3>1. h.lsid = next /\ ~ValidRec(h, 1)
      BY <1>3, <1>9
    <3> QED
      BY <1>1, <3>1, OneHeader DEF DiskInv
  <2> QED
    BY <1>2, <1>10, <1>17, <1>18, <2>1, <2>2, <2>3, <2>4 DEF RedoInv
<1>20. phase' \in {"redo", "rewrite", "sync"}
  BY <1>3
<1> QED
  BY <1>1, <1>2, <1>16, <1>19, <1>20 DEF CleanInv, PhaseInv

-----------------------------------------------------------------------------
(* Redo writes the header of a torn pack again *)

\* The header without the invalid records.
LEMMA TruncatedIs ==
  ASSUME TypeOK, HeadersOK, NEW h \in Headers, NEW n \in 1..(Len(h.recs) - 1),
         \A k \in 1..n : ValidRec(h, k), ~ValidRec(h, n + 1)
  PROVE  LET t == Truncated(h)
         IN  /\ InvalidIdx(h) = n
             /\ t.lsid = h.lsid /\ t.id = 0 /\ t.recs = SubSeq(h.recs, 1, n) /\ t.recs \in Seq(Recs)
             /\ Len(t.recs) = n /\ n \in Nat /\ 1 <= n /\ IsHeader(t) /\ RecsOK(t.recs)
             /\ \A k \in 1..n : t.recs[k] = h.recs[k] /\ h.recs[k] \in Range(t.recs)
                                /\ LsidLocal(t.recs, k) = LsidLocal(h.recs, k)
             /\ \A r \in Range(t.recs) : \E k \in 1..n : r = h.recs[k]
             /\ Range(t.recs) \subseteq Range(h.recs)
             /\ NextLsid(t) = h.lsid + 1 + LsidLocal(h.recs, n)
             /\ NextLsid(t) \in Nat /\ h.lsid < NextLsid(t) /\ NextLsid(t) < NextLsid(h)
<1>1. h.recs \in Seq(Recs) /\ Len(h.recs) \in Nat /\ h.lsid \in Nat
      /\ \A k \in 1..Len(h.recs) : h.recs[k] \in Range(h.recs)
  BY HeaderIs
<1>2. n \in Nat /\ 1 <= n /\ n < Len(h.recs) /\ n \in 1..Len(h.recs) /\ n \in 0..Len(h.recs)
      /\ n + 1 \in 1..Len(h.recs)
  BY <1>1
<1>3. InvalidIdx(h) = n
  BY <1>1, <1>2, InvalidOne
<1>4. PICK t : t = Truncated(h)
  OBVIOUS
<1>5. t.lsid = h.lsid /\ t.id = 0 /\ t.recs = SubSeq(h.recs, 1, n)
  BY <1>3, <1>4 DEF Truncated, Header
<1>6. /\ t.recs \in Seq(Recs) /\ Len(t.recs) = n
      /\ \A k \in 1..n : t.recs[k] = h.recs[k] /\ h.recs[k] \in Range(t.recs)
      /\ \A r \in Range(t.recs) : \E k \in 1..n : r = h.recs[k]
      /\ Range(t.recs) \subseteq Range(h.recs)
  <2>1. PICK s : s = h.recs
    OBVIOUS
  <2>2. s \in Seq(Recs) /\ n \in 0..Len(s)
    BY <1>1, <1>2, <2>1
  <2>3. /\ SubSeq(s, 1, n) \in Seq(Recs) /\ Len(SubSeq(s, 1, n)) = n
        /\ \A k \in 1..n : SubSeq(s, 1, n)[k] = s[k] /\ s[k] \in Range(SubSeq(s, 1, n))
        /\ \A r \in Range(SubSeq(s, 1, n)) : \E k \in 1..n : r = s[k]
        /\ Range(SubSeq(s, 1, n)) \subseteq Range(s)
    BY <2>2, FoundRecs, Zenon
  <2>4. t.recs = SubSeq(s, 1, n)
    BY <1>5, <2>1
  <2> QED
    BY <2>1, <2>3, <2>4, Zenon
<1>7. IsHeader(t)
  BY <1>2, <1>6 DEF IsHeader
<1>8. RecsOK(t.recs)
  <2>1. RecsOK(h.recs)
    BY DEF HeadersOK
  <2>2. \A j \in 1..n : j \in 1..Len(h.recs) /\ t.recs[j] = h.recs[j]
    BY <1>1, <1>2, <1>6
  <2>3. Len(t.recs) = n
    BY <1>6
  <2>4. ASSUME NEW j \in 1..n, NEW k \in 1..n, j < k PROVE t.recs[j].id < t.recs[k].id
    BY <2>1, <2>2, <2>4 DEF RecsOK, Ascending
  <2>5. Ascending(t.recs)
    BY <2>3, <2>4 DEF Ascending
  <2> QED
    BY <1>6, <1>7, <2>1, <2>5 DEF RecsOK, IsHeader
<1>9. \A k \in 0..n : LsidLocal(t.recs, k) = LsidLocal(h.recs, k)
  BY <1>1, <1>2, <1>5, LocalSub
<1>10. NextLsid(t) = h.lsid + 1 + LsidLocal(h.recs, n) /\ LsidLocal(h.recs, n) \in Nat
  BY <1>2, <1>5, <1>6, <1>9, LocalStep DEF NextLsid, TotalIoSize
<1>11. NextLsid(t) < NextLsid(h)
  <2>1. IsWrite(h.recs[n + 1])
    BY DEF ValidRec
  <2>2. LsidLocal(h.recs, n + 1) = LsidLocal(h.recs, n) + 1
    BY <1>2, <2>1, LocalStep
  <2>3. h.lsid + LsidLocal(h.recs, n + 1) < NextLsid(h) /\ NextLsid(h) \in Nat
    BY <1>2, HeaderIs
  <2> QED
    BY <1>1, <1>10, <2>2, <2>3
<1>12. NextLsid(t) \in Nat /\ h.lsid < NextLsid(t)
  BY <1>1, <1>10
<1>13. \A k \in 1..n : LsidLocal(t.recs, k) = LsidLocal(h.recs, k)
  BY <1>2, <1>9
<1> QED
  BY <1>2, <1>3, <1>4, <1>5, <1>6, <1>7, <1>8, <1>10, <1>11, <1>12, <1>13

\* The chain now ends behind the pack that redo has cut.
LEMMA RewriteClean ==
  ASSUME TypeOK, TypeOK', NEW end \in Nat, CleanInv(end), RedoRewrite
  PROVE  \E next \in Nat : CleanInv(next)'
<1>1. DiskInv(end) /\ RedoInv(end) /\ packs = <<>> /\ logIos = {} /\ phase = "rewrite"
  BY DEF CleanInv, PhaseInv, RedoRewrite
<1>2. /\ log' = [log EXCEPT ![Off(written)] = Truncated(HeaderBlock)]
      /\ written' = written + 1 + LsidLocal(HeaderBlock.recs, InvalidIdx(HeaderBlock))
      /\ phase' = "sync"
      /\ super' = super /\ data' = data /\ packs' = packs /\ logIos' = logIos /\ ios' = ios
      /\ last' = last /\ top' = top /\ acked' = acked /\ dropped' = dropped /\ redone' = redone
  BY DEF RedoRewrite, ioVars, histVars
<1>3. /\ written = end /\ super \in Nat /\ super <= end /\ RingSize \in Nat
      /\ end <= super + RingSize
  BY <1>1, RecoveryAssumption DEF RedoInv, TypeOK, DiskInv, ChainTo
<1>4. PICK h \in Headers : h.lsid = end /\ \E n \in 1..(Len(h.recs) - 1) :
        /\ \A k \in 1..n : ValidRec(h, k) /\ h.recs[k] \in redone
        /\ ~ValidRec(h, n + 1)
  BY <1>1 DEF RedoInv, Torn
<1>5. PICK n \in 1..(Len(h.recs) - 1) :
        /\ \A k \in 1..n : ValidRec(h, k) /\ h.recs[k] \in redone
        /\ ~ValidRec(h, n + 1)
  BY <1>4
<1>6. HeaderBlock = h
  BY <1>1, <1>3, <1>4, HeaderPlace DEF HeaderBlock, DiskInv
<1>7. PICK t : t = Truncated(h)
  OBVIOUS
<1>8. /\ InvalidIdx(h) = n
      /\ t.lsid = end /\ t.id = 0 /\ Len(t.recs) = n /\ n \in Nat /\ 1 <= n /\ IsHeader(t)
      /\ RecsOK(t.recs)
      /\ \A k \in 1..n : t.recs[k] = h.recs[k] /\ h.recs[k] \in Range(t.recs)
                         /\ LsidLocal(t.recs, k) = LsidLocal(h.recs, k)
      /\ \A r \in Range(t.recs) : \E k \in 1..n : r = h.recs[k]
      /\ Range(t.recs) \subseteq Range(h.recs)
      /\ NextLsid(t) = end + 1 + LsidLocal(h.recs, n)
      /\ NextLsid(t) \in Nat /\ end < NextLsid(t) /\ NextLsid(t) < NextLsid(h)
  BY <1>1, <1>4, <1>5, <1>7, TruncatedIs DEF DiskInv
<1>9. PICK next \in Nat : next = NextLsid(t) /\ written' = next
  BY <1>2, <1>3, <1>6, <1>8
<1>9a. t.lsid = end /\ end < next /\ NextLsid(t) = next /\ next < NextLsid(h)
  BY <1>8, <1>9
<1>9b. \A r \in Range(t.recs) : \E k \in 1..n : r = h.recs[k]
  BY <1>8
<1>9c. Range(t.recs) \subseteq Range(h.recs)
  BY <1>8
<1>10. /\ ~Dead(h) /\ NextLsid(h) \in Nat /\ h.id = 0
       /\ NextLsid(h) <= top /\ NextLsid(h) <= super + RingSize /\ top \in Nat
  <2>1. 1 \in 1..n
    BY <1>8
  <2>2. ~Dead(h)
    BY <1>5, <2>1 DEF Dead
  <2> QED
    BY <1>1, <1>3, <1>4, <2>2, HeaderIs DEF DiskInv, HeadersOK, TypeOK
(* The log *)
<1>11. Off(end) \in 0..(RingSize - 1) /\ log[Off(end)] = h
  BY <1>1, <1>4, OffIs, HeaderPlace DEF DiskInv
<1>12. \A o \in 0..(RingSize - 1) : log'[o] = IF o = Off(end) THEN t ELSE log[o]
  BY <1>2, <1>3, <1>6, <1>7 DEF TypeOK
<1>13. \A o \in 0..(RingSize - 1) : log'[o].id = log[o].id
  BY <1>8, <1>10, <1>11, <1>12
<1>14. \A g \in Headers : g.lsid \in Nat /\ NextLsid(g) \in Nat /\ (g.lsid = end <=> g = h)
  BY <1>1, <1>4, HeaderIs, OneHeader DEF DiskInv
<1>15. Headers' = (Headers \ {h}) \cup {t}
  <2>1. ASSUME NEW g \in Headers' PROVE g \in (Headers \ {h}) \cup {t}
    <3>1. PICK o \in 0..(RingSize - 1) : g = log'[o] /\ IsHeader(g)
      BY DEF Headers
    <3>2. CASE o # Off(end)
      <4>1. g = log[o] /\ Off(g.lsid) = o
        BY <1>1, <1>12, <3>1, <3>2 DEF DiskInv, HeadersOK
      <4>2. g \in Headers
        BY <3>1, <4>1 DEF Headers
      <4> QED
        BY <1>4, <3>2, <4>1, <4>2
    <3> QED
      BY <1>12, <3>1, <3>2
  <2>2. t \in Headers'
    BY <1>8, <1>11, <1>12 DEF Headers
  <2>3. ASSUME NEW g \in Headers, g # h PROVE g \in Headers'
    <3>1. log[Off(g.lsid)] = g /\ Off(g.lsid) \in 0..(RingSize - 1) /\ IsHeader(g)
      BY <1>1, HeaderIs, HeaderPlace, OffIs DEF DiskInv
    <3>2. Off(g.lsid) # Off(end)
      BY <1>11, <2>3, <3>1
    <3> QED
      BY <1>12, <3>1, <3>2 DEF Headers
  <2> QED
    BY <2>1, <2>2, <2>3
<1>15a. /\ t \in Headers'
        /\ \A g \in Headers' : g = t \/ (g \in Headers /\ g # h)
        /\ \A g \in Headers : g # h => g \in Headers'
  BY <1>15
<1>16. \A g \in Headers : \A k \in 1..Len(g.recs) : ValidRec(g, k)' <=> ValidRec(g, k)
  <2> SUFFICES ASSUME NEW g \in Headers, NEW k \in 1..Len(g.recs)
               PROVE  ValidRec(g, k)' <=> ValidRec(g, k)
    OBVIOUS
  <2>1. PICK m \in Nat : m = g.lsid + LsidLocal(g.recs, k)
    BY HeaderIs
  <2>2. Off(m) \in 0..(RingSize - 1)
    BY OffIs
  <2>3. BlockOf(g, k)'.id = BlockOf(g, k).id
    BY <1>13, <2>1, <2>2 DEF BlockOf
  <2> QED
    BY <2>3 DEF ValidRec
<1>17. Complete(t)'
  <2> SUFFICES ASSUME NEW k \in 1..n PROVE ValidRec(t, k)'
    BY <1>8 DEF Complete
  <2>1. ValidRec(h, k)'
    BY <1>5, <1>16, <1>4
  <2> QED
    BY <1>4, <1>8, <2>1 DEF ValidRec, BlockOf
<1>18. \A g \in Headers : Complete(g)' <=> Complete(g)
  BY <1>16 DEF Complete
<1>19. \A g \in Headers : Dead(g)' <=> Dead(g)
  <2>1. \A g \in Headers : 1 \in 1..Len(g.recs)
    BY HeaderIs
  <2> QED
    BY <1>2, <1>16, <2>1 DEF Dead
\* No header between the torn pack and what followed it
<1>20. \A g \in Headers : end < g.lsid => NextLsid(h) <= g.lsid /\ Before(h.recs, g.recs)
  BY <1>1, <1>3, <1>4, <1>10 DEF DiskInv, HeadersInOrder
<1>20a. ASSUME NEW g \in Headers, g # h, g.lsid < next PROVE g.lsid < end
  <2>1. g.lsid \in Nat /\ g.lsid # end
    BY <1>14, <1>20a
  <2>2. end < g.lsid => NextLsid(h) <= g.lsid
    BY <1>20
  <2>3. NextLsid(h) \in Nat /\ next < NextLsid(h)
    BY <1>9a, <1>10
  <2> QED
    BY <1>3, <1>20a, <2>1, <2>2, <2>3
<1>21. HeadersOK'
  <2>1. \A o \in 0..(RingSize - 1) : IsHeader(log'[o]) => Off(log'[o].lsid) = o
    BY <1>1, <1>8, <1>12 DEF DiskInv, HeadersOK
  <2>2. NextLsid(t) <= top /\ NextLsid(t) <= super + RingSize
    BY <1>3, <1>8, <1>10
  <2>3. \A g \in Headers' :
          /\ g.id = 0 /\ RecsOK(g.recs) /\ NextLsid(g) <= top
          /\ g.lsid >= super => NextLsid(g) <= super + RingSize
    BY <1>1, <1>8, <1>15, <2>2 DEF DiskInv, HeadersOK
  <2>4. \A s : RecsOK(s)' <=> RecsOK(s)
    BY <1>2 DEF RecsOK
  <2> QED
    BY <1>2, <2>1, <2>3, <2>4 DEF HeadersOK
<1>22. HeadersInOrder'
  <2> SUFFICES ASSUME NEW b \in Headers', NEW c \in Headers', super <= b.lsid, b.lsid < c.lsid,
                      ~Dead(b)'
               PROVE  NextLsid(b) <= c.lsid /\ Before(b.recs, c.recs)
    BY <1>2 DEF HeadersInOrder
  <2>1. CASE b = t
    <3>1. c \in Headers /\ end < c.lsid /\ c.lsid \in Nat
      BY <1>9a, <1>14, <1>15a, <2>1
    <3>2. NextLsid(h) <= c.lsid /\ Before(h.recs, c.recs)
      BY <1>20, <3>1
    <3>3. NextLsid(b) <= c.lsid
      BY <1>9a, <1>10, <2>1, <3>1, <3>2
    <3>4. Before(b.recs, c.recs)
      BY <1>9c, <2>1, <3>2 DEF Before
    <3> QED
      BY <3>3, <3>4
  <2>2. CASE b \in Headers /\ c = t
    <3>1. ~Dead(b) /\ b.lsid < h.lsid
      BY <1>4, <1>9a, <1>19, <2>2
    <3>2. NextLsid(b) <= h.lsid /\ Before(b.recs, h.recs)
      BY <1>1, <2>2, <3>1 DEF DiskInv, HeadersInOrder
    <3>3. NextLsid(b) <= c.lsid
      BY <1>4, <1>9a, <2>2, <3>2
    <3>4. Before(b.recs, c.recs)
      BY <1>9c, <2>2, <3>2 DEF Before
    <3> QED
      BY <3>3, <3>4
  <2>3. CASE b \in Headers /\ c \in Headers
    BY <1>1, <1>19, <2>3 DEF DiskInv, HeadersInOrder
  <2> QED
    BY <1>15, <2>1, <2>2, <2>3
<1>23. \A m \in Nat : m < end /\ Border(m, end) => Border(m, next)'
  <2> SUFFICES ASSUME NEW m \in Nat, m < end, Border(m, end) PROVE Border(m, next)'
    OBVIOUS
  <2>1. PICK g \in Headers : g.lsid = m
    BY DEF Border
  <2>2. g \in Headers'
    BY <1>14, <1>15a, <2>1
  <2> QED
    BY <2>1, <2>2 DEF Border
<1>24. Border(end, next)'
  BY <1>9a, <1>15a DEF Border
<1>25. ChainTo(next)'
  <2>1. super <= next /\ next <= super + RingSize /\ next <= top
    BY <1>3, <1>9a, <1>10
  <2>2. Border(super, next)'
    <3>1. Border(super, end)
      BY <1>1 DEF DiskInv, ChainTo
    <3>2. CASE super < end
      <4>1. \A m \in Nat : m = super => Border(m, next)'
        BY <1>23, <3>1, <3>2
      <4> QED
        BY <1>2, <1>3, <4>1 DEF Border
    <3>3. CASE super = end
      BY <1>2, <1>24, <3>3 DEF Border
    <3> QED
      BY <1>3, <3>2, <3>3
  <2>3. ASSUME NEW g \in Headers', super <= g.lsid, g.lsid < next
        PROVE  Complete(g)' /\ NextLsid(g) <= next /\ Border(NextLsid(g), next)'
    <3>1. CASE g = t
      BY <1>9a, <1>17, <3>1 DEF Border
    <3>2. CASE g \in Headers /\ g # h
      <4>1. g.lsid < end
        BY <1>20a, <2>3, <3>2
      <4>2. Complete(g) /\ NextLsid(g) <= end /\ Border(NextLsid(g), end)
        BY <1>1, <2>3, <3>2, <4>1 DEF DiskInv, ChainTo
      <4>3. Complete(g)' /\ NextLsid(g) <= next
        BY <1>9a, <1>14, <1>18, <3>2, <4>2
      <4>4. CASE NextLsid(g) = end
        BY <1>24, <4>3, <4>4
      <4>5. CASE NextLsid(g) < end
        BY <1>14, <1>23, <3>2, <4>2, <4>3, <4>5
      <4> QED
        BY <1>14, <3>2, <4>2, <4>4, <4>5
    <3> QED
      BY <1>15, <3>1, <3>2
  <2>4. \A g \in Headers' : super <= g.lsid /\ g.lsid < next =>
          Complete(g)' /\ NextLsid(g) <= next /\ Border(NextLsid(g), next)'
    BY <2>3
  <2> QED
    BY <1>2, <2>1, <2>2, <2>4 DEF ChainTo
<1>26. OldIntact'
  <2> SUFFICES ASSUME NEW g \in Headers', g.lsid < super, g.lsid + RingSize >= top
               PROVE  Complete(g)' /\ NextLsid(g) <= super
    BY <1>2 DEF OldIntact
  <2>1. g \in Headers
    BY <1>3, <1>9a, <1>15a
  <2> QED
    BY <1>1, <1>18, <2>1 DEF DiskInv, OldIntact
<1>27. \A g \in Headers' : g.lsid >= super /\ ~Dead(g)' =>
         \E f \in Headers : f.lsid >= super /\ ~Dead(f) /\ Range(g.recs) \subseteq Range(f.recs)
  <2> SUFFICES ASSUME NEW g \in Headers', g.lsid >= super, ~Dead(g)'
               PROVE  \E f \in Headers : f.lsid >= super /\ ~Dead(f) /\ Range(g.recs) \subseteq Range(f.recs)
    OBVIOUS
  <2>1. CASE g = t
    BY <1>3, <1>4, <1>9c, <1>10, <2>1
  <2>2. CASE g \in Headers
    BY <1>19, <2>2
  <2> QED
    BY <1>15, <2>1, <2>2
<1>28. DroppedOK'
  <2>1. \A g \in Headers' : g.lsid >= super /\ ~Dead(g)' => NotDropped(g.recs)
    BY <1>1, <1>27 DEF DiskInv, DroppedOK, NotDropped
  <2> QED
    BY <1>1, <1>2, <2>1 DEF DiskInv, DroppedOK, NotDropped
<1>29. \A r : InChain(r, end) => InChain(r, next)'
  <2> SUFFICES ASSUME NEW r, InChain(r, end) PROVE InChain(r, next)'
    OBVIOUS
  <2>1. PICK g \in Headers : super <= g.lsid /\ g.lsid < end /\ r \in Range(g.recs)
    BY DEF InChain
  <2>2. g \in Headers' /\ g.lsid < next
    <3>1. g.lsid \in Nat /\ g # h
      BY <1>14, <2>1
    <3> QED
      BY <1>9a, <1>15a, <2>1, <3>1
  <2> QED
    BY <1>2, <2>1, <2>2 DEF InChain
<1>30. \A r : InTail(r, end) => InChain(r, next)'
  <2> SUFFICES ASSUME NEW r, InTail(r, end) PROVE InChain(r, next)'
    OBVIOUS
  <2>1. PICK k \in 1..Len(h.recs) : r = h.recs[k] /\ \A j \in 1..k : ValidRec(h, j)
    BY <1>14 DEF InTail
  <2>2. k \in 1..n
    <3>1. ~(n + 1 \in 1..k)
      BY <1>5, <2>1
    <3>2. Len(h.recs) \in Nat
      BY HeaderIs
    <3> QED
      BY <1>8, <3>1, <3>2
  <2>3. r \in Range(t.recs) /\ t \in Headers'
    BY <1>8, <1>15a, <2>1, <2>2
  <2>4. super <= t.lsid /\ t.lsid < next
    BY <1>3, <1>9a
  <2> QED
    BY <1>2, <2>3, <2>4 DEF InChain
<1>31. AckedSafe(next)'
  <2>1. \A r : Settled(r) => Settled(r)'
    BY <1>2, <1>27 DEF Settled
  <2> QED
    BY <1>1, <1>2, <1>29, <2>1 DEF DiskInv, AckedSafe
<1>32. DataKnown(next)'
  <2>1. \A r : Known(r, end) => Known(r, next)'
    BY <1>2, <1>29, <1>30 DEF Known
  <2> QED
    BY <1>1, <1>2, <2>1 DEF DiskInv, DataKnown
<1>33. DiskInv(next)'
  <2>1. Ascending(ios)'
    BY <1>1, <1>2 DEF DiskInv, Ascending
  <2> QED
    BY <1>21, <1>22, <1>25, <1>26, <1>28, <1>31, <1>32, <2>1 DEF DiskInv
(* Redo *)
<1>34. RedoInv(next)'
  <2>1. \A g \in Headers' : super <= g.lsid /\ g.lsid < next => Range(g.recs) \subseteq redone
    <3> SUFFICES ASSUME NEW g \in Headers', super <= g.lsid, g.lsid < next
                 PROVE  Range(g.recs) \subseteq redone
      OBVIOUS
    <3>1. CASE g = t
      BY <1>5, <1>9b, <3>1
    <3>2. CASE g \in Headers /\ g # h
      <4>1. g.lsid < end
        BY <1>20a, <3>2
      <4> QED
        BY <1>1, <1>3, <3>2, <4>1 DEF RedoInv, RedoneIs
    <3> QED
      BY <1>15, <3>1, <3>2
  <2>2. \A r \in redone : InChain(r, next)'
    BY <1>1, <1>3, <1>29, <1>30 DEF RedoInv, RedoneIs
  <2>3. \A r : InChain(r, written)' <=> InChain(r, next)'
    BY <1>9 DEF InChain
  <2>4. RedoneIs(next)'
    BY <1>2, <1>9, <2>1, <2>2, <2>3 DEF RedoneIs
  <2>5. DataRedo'
    BY <1>1, <1>2 DEF RedoInv, DataRedo
  <2>6. \A g \in Headers' : g.lsid # next
    <3> SUFFICES ASSUME NEW g \in Headers', g.lsid = next PROVE FALSE
      OBVIOUS
    <3>1. g # t /\ g \in Headers /\ g.lsid \in Nat
      BY <1>9a, <1>14, <1>15a
    <3>2. NextLsid(h) <= g.lsid
      BY <1>9a, <1>20, <3>1
    <3> QED
      BY <1>9a, <1>10, <3>1, <3>2
  <2>7. Border(written, next)'
    BY <1>9 DEF Border
  <2>8. super <= next
    BY <1>3, <1>9a
  <2> QED
    BY <1>2, <1>9, <2>4, <2>5, <2>6, <2>7, <2>8 DEF RedoInv
<1> QED
  BY <1>1, <1>2, <1>33, <1>34 DEF CleanInv, PhaseInv

-----------------------------------------------------------------------------
(* The end of redo: the super block moves to the end of the log *)

\* What redo has found is answered, and the rest of the log is gone for good.
LEMMA EndClean ==
  ASSUME TypeOK, TypeOK', NEW end \in Nat, CleanInv(end), RedoEnd, ~stale'
  PROVE  CleanInv(end)'
<1>1. /\ DiskInv(end) /\ RedoInv(end) /\ packs = <<>> /\ logIos = {} /\ phase = "sync"
      /\ ios = <<>>
  BY DEF CleanInv, PhaseInv, RedoEnd
<1>2. /\ latest' = written /\ super' = written /\ written' = written /\ phase' = "up"
      /\ log' = log /\ data' = data /\ packs' = packs /\ logIos' = logIos /\ ios' = ios
      /\ last' = last /\ top' = top /\ redone' = redone
      /\ acked' = acked \cup {r \in redone : data[r.pos] = r.id}
      /\ dropped' = dropped \cup ((1..last) \ {r.id : r \in acked \cup redone})
  BY DEF RedoEnd, ioVars
<1>3. /\ written = end /\ super \in Nat /\ super <= end /\ RingSize \in Nat
      /\ end <= super + RingSize /\ end <= top /\ top \in Nat
  BY <1>1, RecoveryAssumption DEF RedoInv, TypeOK, DiskInv, ChainTo
<1>4. super' = end /\ latest' = end /\ written' = end
  BY <1>2, <1>3
(* The log *)
<1>5. Headers' = Headers
  BY <1>2 DEF Headers
<1>6. \A h, k : ValidRec(h, k)' <=> ValidRec(h, k)
  BY <1>2 DEF ValidRec, BlockOf
<1>7. \A h : Complete(h)' <=> Complete(h)
  BY <1>6 DEF Complete
<1>8. \A h \in Headers : h.lsid \in Nat /\ NextLsid(h) \in Nat /\ ~(h.lsid > end)
  <2> SUFFICES ASSUME NEW h \in Headers, h.lsid > end PROVE FALSE
    BY HeaderIs
  <2>1. PICK o \in 0..(RingSize - 1) : h = log[o] /\ IsHeader(h)
    BY DEF Headers
  <2>2. DOMAIN log = 0..(RingSize - 1)
    BY DEF TypeOK
  <2> QED
    BY <1>3, <2>1, <2>2 DEF RedoEnd
<1>9. \A h \in Headers : h.lsid >= end => h.lsid = end /\ Dead(h)'
  <2>1. \A h \in Headers : h.lsid = end => Dead(h)'
    BY <1>1, <1>4, <1>6 DEF RedoInv, Dead
  <2> QED
    BY <1>8, <2>1
<1>10. \A h \in Headers : h.lsid >= super' => h.lsid = end /\ Dead(h)'
  BY <1>4, <1>9
<1>11. HeadersOK'
  <2>1. \A o \in 0..(RingSize - 1) : IsHeader(log'[o]) => Off(log'[o].lsid) = o
    BY <1>1, <1>2 DEF DiskInv, HeadersOK
  <2>2. \A h \in Headers : h.id = 0 /\ RecsOK(h.recs)' /\ NextLsid(h) <= top
    BY <1>1, <1>2 DEF DiskInv, HeadersOK, RecsOK
  <2>3. ASSUME NEW h \in Headers, h.lsid >= end PROVE NextLsid(h) <= end + RingSize
    <3>1. h.lsid >= super
      BY <1>3, <1>8, <2>3
    <3>2. NextLsid(h) <= super + RingSize
      BY <1>1, <3>1 DEF DiskInv, HeadersOK
    <3> QED
      BY <1>3, <1>8, <3>2
  <2> QED
    BY <1>2, <1>4, <1>5, <2>1, <2>2, <2>3 DEF HeadersOK
<1>12. HeadersInOrder'
  <2> SUFFICES ASSUME NEW b \in Headers', NEW c \in Headers', super' <= b.lsid, b.lsid < c.lsid
               PROVE  FALSE
    BY DEF HeadersInOrder
  <2>1. b \in Headers /\ c \in Headers /\ end <= b.lsid
    BY <1>4, <1>5
  <2> QED
    BY <1>3, <1>8, <2>1
<1>13. ChainTo(end)'
  <2>1. Border(super, end)'
    BY <1>4 DEF Border
  <2>2. \A h \in Headers : ~(super' <= h.lsid /\ h.lsid < end)
    BY <1>3, <1>4, <1>8
  <2>3. end <= end + RingSize
    BY <1>3
  <2> QED
    BY <1>2, <1>3, <1>4, <1>5, <2>1, <2>2, <2>3 DEF ChainTo
<1>14. OldIntact'
  <2> SUFFICES ASSUME NEW h \in Headers, h.lsid < end, h.lsid + RingSize >= top
               PROVE  Complete(h) /\ NextLsid(h) <= end
    BY <1>2, <1>4, <1>5, <1>7 DEF OldIntact
  <2>1. CASE h.lsid < super
    <3>1. Complete(h) /\ NextLsid(h) <= super
      BY <1>1, <2>1 DEF DiskInv, OldIntact
    <3> QED
      BY <1>3, <1>8, <3>1
  <2>2. CASE super <= h.lsid
    BY <1>1, <2>2 DEF DiskInv, ChainTo
  <2> QED
    BY <1>3, <1>8, <2>1, <2>2
(* The histories *)
<1>15. \A h \in Headers : super <= h.lsid /\ h.lsid < end => Range(h.recs) \subseteq redone
  BY <1>1, <1>3 DEF RedoInv, RedoneIs
<1>16. ASSUME NEW r \in redone PROVE r.id \in 1..last /\ r.id \notin dropped
  <2>1. InChain(r, end)
    BY <1>1, <1>3 DEF RedoInv, RedoneIs
  <2>2. PICK h \in Headers : super <= h.lsid /\ h.lsid < end /\ r \in Range(h.recs)
    BY <2>1 DEF InChain
  <2>3. ~Dead(h)
    BY <1>1, <2>2, CompleteAlive DEF DiskInv, ChainTo
  <2>4. NotDropped(h.recs) /\ RecsOK(h.recs)
    BY <1>1, <1>3, <1>8, <2>2, <2>3 DEF DiskInv, DroppedOK, HeadersOK
  <2> QED
    BY <2>2, <2>4 DEF NotDropped, RecsOK
<1>17. \A r \in redone : IsWrite(r) => r.id <= data[r.pos]
  <2>1. Range(ios) = {}
    BY <1>1 DEF Range
  <2> QED
    BY <1>1, <2>1 DEF RedoInv, DataRedo
<1>18. \A r \in acked' : r \in acked \/ (r \in redone /\ data[r.pos] = r.id)
  BY <1>2
<1>19. DroppedOK'
  <2>1. dropped' \subseteq 1..last
    BY <1>1, <1>2 DEF DiskInv, DroppedOK
  <2>2. ASSUME NEW r \in acked' PROVE r.id \in 1..last /\ r.id \notin dropped'
    <3>1. r.id \in 1..last /\ r.id \notin dropped
      BY <1>1, <1>16, <1>18 DEF DiskInv, DroppedOK
    <3>2. r.id \in {s.id : s \in acked \cup redone}
      BY <1>18
    <3> QED
      BY <1>2, <3>1, <3>2
  <2> QED
    BY <1>2, <1>5, <1>10, <2>1, <2>2 DEF DroppedOK
<1>20. \A r \in acked' : IsWrite(r) => r.id <= data[r.pos]
  <2> SUFFICES ASSUME NEW r \in acked', IsWrite(r) PROVE r.id <= data[r.pos]
    OBVIOUS
  <2>1. CASE r \in acked
    <3>1. CASE InChain(r, end)
      BY <1>15, <1>17, <3>1 DEF InChain
    <3>2. CASE Settled(r)
      BY <3>2 DEF Settled
    <3> QED
      BY <1>1, <2>1, <3>1, <3>2 DEF DiskInv, AckedSafe
  <2>2. CASE r \in redone
    BY <1>17, <2>2
  <2> QED
    BY <1>18, <2>1, <2>2
<1>21. Range(ios') = {}
  BY <1>1, <1>2 DEF Range
<1>22. AckedSafe(end)'
  <2> SUFFICES ASSUME NEW r \in acked', IsWrite(r) PROVE Settled(r)'
    BY DEF AckedSafe
  <2>1. r.id <= data'[r.pos]
    BY <1>2, <1>20
  <2> QED
    BY <1>5, <1>10, <1>21, <2>1 DEF Settled
<1>23. DataKnown(end)'
  <2>1. \A h \in Headers : 1 \in 1..Len(h.recs)
    BY HeaderIs
  <2>2. ASSUME NEW r, InTail(r, end) PROVE FALSE
    <3>1. PICK h \in Headers : h.lsid = end /\ \E k \in 1..Len(h.recs) : \A j \in 1..k : ValidRec(h, j)
      BY <2>2 DEF InTail
    <3>2. ValidRec(h, 1)
      BY <3>1
    <3> QED
      BY <1>1, <3>1, <3>2 DEF RedoInv
  <2>3. ASSUME NEW r, Known(r, end), data[r.pos] = r.id PROVE r \in acked'
    <3>1. r \in acked \/ InChain(r, end)
      BY <2>2, <2>3 DEF Known
    <3>2. InChain(r, end) => r \in redone
      BY <1>15 DEF InChain
    <3> QED
      BY <1>2, <2>3, <3>1, <3>2
  <2>4. \A p \in Pos : data[p] = 0 \/ \E r \in Recs : r \in acked' /\ r.pos = p /\ r.id = data[p]
    <3> SUFFICES ASSUME NEW p \in Pos, data[p] # 0
                 PROVE  \E r \in Recs : r \in acked' /\ r.pos = p /\ r.id = data[p]
      OBVIOUS
    <3>1. PICK r \in Recs : Known(r, end) /\ r.pos = p /\ r.id = data[p]
      BY <1>1 DEF DiskInv, DataKnown
    <3> QED
      BY <2>3, <3>1
  <2> QED
    BY <1>2, <1>21, <2>4 DEF DataKnown, Known
<1>24. DiskInv(end)'
  <2>1. Ascending(ios)'
    BY <1>1, <1>2 DEF Ascending
  <2> QED
    BY <1>11, <1>12, <1>13, <1>14, <1>19, <1>22, <1>23, <2>1 DEF DiskInv
(* The device is up. *)
<1>25. packs' = <<>> /\ logIos' = {} /\ 1..Len(packs') = {}
  BY <1>1, <1>2
<1>26. UpInv(end)'
  <2>1. LsidsOK(end)'
    BY <1>2, <1>3, <1>4 DEF LsidsOK
  <2>2. PacksOK(end)'
    BY <1>25, <2>1 DEF PacksOK, PacksInOrder
  <2>3. LogIosOK'
    BY <1>25 DEF LogIosOK
  <2>4. HeadersUp(end)'
    BY <1>4, <1>5, <1>10, <1>25 DEF HeadersUp, Left
  <2>5. DataUp'
    BY <1>2, <1>20, <1>21 DEF DataUp
  <2> QED
    BY <2>2, <2>3, <2>4, <2>5 DEF UpInv
<1> QED
  BY <1>2, <1>24, <1>26 DEF CleanInv, PhaseInv

-----------------------------------------------------------------------------
(* The inductive invariant *)

\* A device that nobody has started has no log.
LEMMA InitClean == Init => CleanInv(0)
<1> SUFFICES ASSUME Init PROVE CleanInv(0)
  OBVIOUS
<1>1. /\ phase = "down" /\ super = 0 /\ packs = <<>> /\ logIos = {} /\ ios = <<>>
      /\ last = 0 /\ top = 0 /\ acked = {} /\ dropped = {} /\ \A p \in Pos : data[p] = 0
  BY DEF Init
<1>2. \A o \in 0..(RingSize - 1) : ~IsHeader(log[o])
  BY DEF Init, IsHeader, Block
<1>3. Headers = {}
  BY <1>2 DEF Headers
<1>4. HeadersOK /\ HeadersInOrder /\ OldIntact
  BY <1>2, <1>3 DEF HeadersOK, HeadersInOrder, OldIntact
<1>5. ChainTo(0)
  BY <1>1, <1>3, RecoveryAssumption DEF ChainTo, Border
<1>6. DroppedOK /\ AckedSafe(0)
  BY <1>1, <1>3 DEF DroppedOK, AckedSafe
<1>7. DataKnown(0) /\ Ascending(ios)
  <2>1. Range(ios) = {}
    BY <1>1 DEF Range
  <2> QED
    BY <1>1, <2>1 DEF DataKnown, Ascending
<1> QED
  BY <1>1, <1>4, <1>5, <1>6, <1>7 DEF CleanInv, DiskInv, PhaseInv

\* Nothing changes.
LEMMA StutterClean ==
  ASSUME TypeOK, TypeOK', NEW end \in Nat, CleanInv(end), UNCHANGED vars
  PROVE  CleanInv(end)'
<1>1. /\ log' = log /\ super' = super /\ data' = data /\ packs' = packs /\ logIos' = logIos
      /\ ios' = ios /\ last' = last /\ top' = top /\ redone' = redone /\ acked' = acked
      /\ dropped' = dropped /\ latest' = latest /\ written' = written /\ phase' = phase
  BY DEF vars, devVars, lsidVars, ioVars, histVars
<1>2. DiskInv(end)'
  BY <1>1, DiskSame DEF CleanInv
<1>3. /\ Headers' = Headers
      /\ \A h, k : ValidRec(h, k)' <=> ValidRec(h, k)
      /\ \A h : Dead(h)' <=> Dead(h)
      /\ \A l, e : Border(l, e)' <=> Border(l, e)
      /\ \A r, e : InChain(r, e)' <=> InChain(r, e)
      /\ \A r, e : InTail(r, e)' <=> InTail(r, e)
  BY <1>1, SameLog
<1>4. UpInv(end) => UpInv(end)'
  <2> SUFFICES ASSUME UpInv(end) PROVE UpInv(end)'
    OBVIOUS
  <2>1. PacksOK(end)'
    BY <1>1 DEF UpInv, PacksOK, LsidsOK, PackOK, PacksInOrder, RecsOK, NotDropped
  <2>2. LogIosOK'
    BY <1>1 DEF UpInv, LogIosOK, IosOf
  <2>3. HeadersUp(end)'
    BY <1>1, <1>3 DEF UpInv, HeadersUp, Collected, Ours, Left
  <2>4. DataUp'
    BY <1>1 DEF UpInv, DataUp
  <2> QED
    BY <2>1, <2>2, <2>3, <2>4 DEF UpInv
<1>5. RedoInv(end) => RedoInv(end)'
  <2> SUFFICES ASSUME RedoInv(end) PROVE RedoInv(end)'
    OBVIOUS
  <2>1. RedoneIs(end)'
    BY <1>1, RedoneKept DEF RedoInv
  <2>2. DataRedo'
    BY <1>1 DEF RedoInv, DataRedo
  <2>3. Torn(end) => Torn(end)'
    BY <1>1, <1>3 DEF Torn
  <2>4. Border(written, end)'
    BY <1>1, <1>3 DEF RedoInv, Border
  <2> QED
    BY <1>1, <1>3, <2>1, <2>2, <2>3, <2>4 DEF RedoInv
<1> QED
  BY <1>1, <1>2, <1>4, <1>5 DEF CleanInv, PhaseInv

\* An error that redo has not noticed, and a later header left behind, are never forgotten.
LEMMA CleanBefore ==
  ASSUME TypeOK, Next, Clean'
  PROVE  /\ Clean
         /\ \A k : ~RedoDataFail(k)
         /\ ~RedoHeaderFail(FALSE)
<1>1. ignored \in Nat
  BY DEF TypeOK
<1>2. ~IgnoredFailure
  BY <1>1 DEF IgnoredFailure, Clean
<1>3. \A k : ~RedoDataFail(k)
  BY <1>2 DEF RedoDataFail
<1>4. ~RedoHeaderFail(FALSE)
  BY <1>2 DEF RedoHeaderFail
<1>5. \A k : (SubmitPack(k) \/ LandLog(k) \/ AckPack(k) \/ Shutdown(k) \/ LandData(k)) =>
        UNCHANGED <<stale, ignored>>
  BY DEF SubmitPack, LandLog, AckPack, Shutdown, LandData, histVars, failVars
<1>6. (Collect \/ Checkpoint \/ Crash \/ Start \/ RedoEndOfLog \/ RedoLogpack \/ RedoRewrite
         \/ RedoFailed) => UNCHANGED <<stale, ignored>>
  BY DEF Collect, Checkpoint, Crash, Start, RedoEndOfLog, RedoLogpack, RedoRewrite, RedoFailed,
         histVars, failVars
<1>7. RedoEnd => (stale => stale') /\ ignored' = ignored
  BY DEF RedoEnd, failVars
<1>8. RedoWriteFail => UNCHANGED <<stale, ignored>>
  BY DEF RedoWriteFail, Failure, histVars
<1>9. \A k : RedoBlockFail(k) => UNCHANGED <<stale, ignored>>
  BY DEF RedoBlockFail, Failure, histVars
<1>10. RedoHeaderFail(TRUE) => UNCHANGED <<stale, ignored>>
  BY DEF RedoHeaderFail, Failure, histVars
<1> DEFINE Kept == (stale => stale') /\ ignored' = ignored
<1>11. UNCHANGED <<stale, ignored>> => Kept
  OBVIOUS
<1>12. RedoEnd => Kept
  BY <1>7
<1> HIDE DEF Kept
<1>13. WritePath => Kept
  BY <1>5, <1>6, <1>11, Zenon DEF WritePath
<1>14. Land => Kept
  BY <1>5, <1>11, Zenon DEF Land
<1>15. Redo => Kept
  BY <1>6, <1>11, <1>12, Zenon DEF Redo
<1>16. RedoFail => Kept
  <2> SUFFICES ASSUME RedoFail PROVE Kept
    OBVIOUS
  <2>1. ASSUME NEW looks \in BOOLEAN, RedoHeaderFail(looks) PROVE Kept
    <3>1. looks = TRUE \/ looks = FALSE
      OBVIOUS
    <3> QED
      BY <1>4, <1>10, <1>11, <2>1, <3>1
  <2> QED
    BY <1>3, <1>8, <1>9, <1>11, <2>1, Zenon DEF RedoFail
<1>17. Kept
  BY <1>6, <1>11, <1>13, <1>14, <1>15, <1>16, Zenon DEF Next
<1> QED
  BY <1>3, <1>4, <1>17 DEF Clean, Kept

\* A step keeps the invariant, perhaps with a later end of the chain.
LEMMA CleanStep ==
  ASSUME TypeOK, TypeOK', NEW end \in Nat, CleanInv(end), Next, Clean'
  PROVE  \E next \in Nat : CleanInv(next)'
<1>1. ~stale' /\ (\A k : ~RedoDataFail(k)) /\ ~RedoHeaderFail(FALSE)
  BY CleanBefore DEF Clean
<1>2. CASE CleanInv(end)'
  BY <1>2
<1>3. ASSUME NEW n \in 1..MaxRec, NEW recs \in NewRecs(n), SubmitPack(recs) PROVE CleanInv(end)'
  BY <1>3, UpSubmit
<1>4. ASSUME NEW io \in logIos, LandLog(io) PROVE CleanInv(end)'
  BY <1>4, UpLandLog
<1>5. ASSUME NEW k \in 1..Len(packs), AckPack(k) PROVE \E next \in Nat : CleanInv(next)'
  BY <1>5, UpAck
<1>6. Collect \/ Checkpoint \/ Start \/ RedoEndOfLog \/ RedoEnd => CleanInv(end)'
  BY <1>1, UpCollect, UpCheckpoint, IdleStart, IdleEnd, EndClean
<1>7. ASSUME NEW sync \in BOOLEAN, Shutdown(sync) PROVE CleanInv(end)'
  BY <1>7, UpShutdown
<1>8. ASSUME NEW k \in 1..Len(ios), LandData(k) PROVE CleanInv(end)'
  BY <1>8, LandClean
<1>9. Crash \/ RedoFailed \/ RedoWriteFail \/ RedoHeaderFail(TRUE)
        \/ (\E k \in 1..MaxRec : RedoBlockFail(k)) => CleanInv(end)'
  BY IdleDown
<1>10. RedoLogpack \/ RedoRewrite => \E next \in Nat : CleanInv(next)'
  BY LogpackClean, RewriteClean
<1>11. WritePath => \E next \in Nat : CleanInv(next)'
  BY <1>2, <1>3, <1>4, <1>5, <1>6, <1>7, Zenon DEF WritePath
<1>12. Redo => \E next \in Nat : CleanInv(next)'
  BY <1>2, <1>6, <1>9, <1>10, Zenon DEF Redo
<1>13. RedoFail => \E next \in Nat : CleanInv(next)'
  BY <1>1, <1>2, <1>9, Zenon DEF RedoFail
<1>14. Land => \E next \in Nat : CleanInv(next)'
  BY <1>2, <1>8, Zenon DEF Land
<1> QED
  BY <1>2, <1>6, <1>9, <1>11, <1>12, <1>13, <1>14, Zenon DEF Next

\* The chain ends within the ring buffer.
LEMMA EndIs ==
  ASSUME TypeOK, NEW end \in Nat, CleanInv(end)
  PROVE  end \in super..(super + RingSize)
<1>1. super \in Nat /\ RingSize \in Nat
  BY RecoveryAssumption DEF TypeOK
<1>2. super <= end /\ end <= super + RingSize
  BY DEF CleanInv, DiskInv, ChainTo
<1> QED
  BY <1>1, <1>2

\* It holds at first
LEMMA InvInit == Init => IInv
<1> SUFFICES ASSUME Init PROVE IInv
  OBVIOUS
<1>1. TypeOK /\ CleanInv(0)
  BY TypeInit, InitClean
<1>2. 0 \in super..(super + RingSize)
  BY <1>1, EndIs
<1> QED
  BY <1>1, <1>2 DEF IInv

\* and every step keeps it.
LEMMA InvNext == IInv /\ [Next]_vars => IInv'
<1> SUFFICES ASSUME IInv, [Next]_vars PROVE IInv'
  OBVIOUS
<1>1. TypeOK /\ TypeOK' /\ super \in Nat
  BY TypeNext DEF IInv, TypeOK
<1>2. SUFFICES ASSUME Clean' PROVE \E end \in super'..(super' + RingSize) : CleanInv(end)'
  BY <1>1 DEF IInv
<1>3. Clean
  <2>1. UNCHANGED vars => Clean
    BY <1>2 DEF vars, histVars, failVars, Clean
  <2> QED
    BY <1>1, <1>2, <2>1, CleanBefore
<1>4. PICK end \in super..(super + RingSize) : CleanInv(end)
  BY <1>3 DEF IInv
<1>5. end \in Nat
  BY <1>1
<1>6. PICK next \in Nat : CleanInv(next)'
  <2>1. CASE UNCHANGED vars
    BY <1>1, <1>4, <1>5, <2>1, StutterClean
  <2>2. CASE Next
    BY <1>1, <1>2, <1>4, <1>5, <2>2, CleanStep
  <2> QED
    BY <2>1, <2>2
<1>7. super' \in Nat /\ RingSize \in Nat
  BY <1>1, RecoveryAssumption DEF TypeOK
<1>8. super' <= next /\ next <= super' + RingSize
  BY <1>6 DEF CleanInv, DiskInv, ChainTo
<1>9. next \in super'..(super' + RingSize)
  <2>1. \A a, b, c \in Nat : a <= b /\ b <= a + c => b \in a..(a + c)
    OBVIOUS
  <2> QED
    BY <1>7, <1>8, <2>1
<1> QED
  BY <1>6, <1>9

\* So it always holds.
LEMMA InvAlways == Spec => []IInv
  BY InvInit, InvNext, PTL DEF Spec

-----------------------------------------------------------------------------
(* What it is for *)

\* A bounded set of naturals that is not empty has a greatest element, which Max chooses.
LEMMA MaxIs ==
  ASSUME NEW n \in Nat, NEW S \in SUBSET (0..n), S # {}
  PROVE  Max(S) \in S /\ \A y \in S : y <= Max(S)
<1> DEFINE T == {n - y : y \in S}
<1>1. T \in SUBSET Nat /\ T # {}
  <2>1. \A y \in S : n - y \in Nat /\ n - y \in T
    OBVIOUS
  <2> QED
    BY <2>1
<1>2. PICK t \in T : \A u \in T : t <= u
  <2> HIDE DEF T
  <2> QED
    BY <1>1, LeastOf
<1>3. PICK x \in S : t = n - x
  BY <1>2
<1>4. ASSUME NEW y \in S PROVE x \in Int /\ y \in Int /\ x >= y
  <2>1. n - y \in T /\ x \in Int /\ y \in Int
    OBVIOUS
  <2> HIDE DEF T
  <2>2. n - x <= n - y
    BY <1>2, <1>3, <2>1
  <2> QED
    BY <2>1, <2>2
<1> QED
  BY <1>4 DEF Max

\* What a read finds: the last data IO of its place, or the data device.
LEMMA VisibleIs ==
  ASSUME TypeOK, NEW p \in Pos
  PROVE  \/ /\ Visible(p) = data[p]
            /\ \A j \in 1..Len(ios) : ios[j].pos # p
         \/ \E m \in 1..Len(ios) :
              /\ ios[m].pos = p /\ Visible(p) = ios[m].id
              /\ \A j \in 1..Len(ios) : ios[j].pos = p => j <= m
<1> DEFINE P == {k \in 1..Len(ios) : ios[k].pos = p}
<1>1. Len(ios) \in Nat
  BY DEF TypeOK
<1>2. Visible(p) = IF P = {} THEN data[p] ELSE ios[Max(P)].id
  BY DEF Visible
<1>3. CASE P = {}
  BY <1>2, <1>3
<1>4. CASE P # {}
  <2>1. P \in SUBSET (0..Len(ios))
    OBVIOUS
  <2>2. PICK m : m = Max(P)
    OBVIOUS
  <2>3. m \in P /\ \A y \in P : y <= m
    <3> HIDE DEF P
    <3> QED
      BY <1>1, <1>4, <2>1, <2>2, MaxIs
  <2> QED
    BY <1>2, <1>4, <2>2, <2>3
<1> QED
  BY <1>3, <1>4

\* What it says of a device that is up
LEMMA UpClean ==
  ASSUME IInv, Clean, phase = "up"
  PROVE  TypeOK /\ \E end \in Nat : DiskInv(end) /\ UpInv(end)
<1>1. TypeOK /\ super \in Nat
  BY DEF IInv, TypeOK
<1>2. PICK end \in super..(super + RingSize) : CleanInv(end)
  BY DEF IInv
<1>3. end \in Nat
  BY <1>1
<1> QED
  BY <1>1, <1>2, <1>3 DEF CleanInv, PhaseInv

\* No answered write is lost: after any crashes and redos a read returns it or a later one.
THEOREM NothingLostThm == Spec => []NothingLost
<1>1. IInv => NothingLost
  <2> SUFFICES ASSUME IInv, Clean, phase = "up", NEW r \in acked, IsWrite(r)
               PROVE  Visible(r.pos) >= r.id
    BY DEF NothingLost, Durable
  <2>1. TypeOK /\ \E end \in Nat : DiskInv(end) /\ UpInv(end)
    BY UpClean
  <2>2. PICK end \in Nat : DiskInv(end) /\ UpInv(end)
    BY <2>1
  <2>3. r \in Range(ios) \/ r.id <= data[r.pos]
    BY <2>2 DEF UpInv, DataUp
  <2>4. r \in Recs /\ r.id \in Nat /\ r.pos \in Pos /\ ~IsEmpty(r)
    BY <2>1, RecIs DEF TypeOK
  <2>5. ios \in Seq(Ios) /\ data[r.pos] \in Nat /\ \A j \in 1..Len(ios) : ios[j].id \in Nat
    <3>1. MaxWrite \in Nat
      BY RecoveryAssumption
    <3>2. ios \in Seq(Ios) /\ data \in [Pos -> 0..MaxWrite]
      BY <2>1 DEF TypeOK
    <3>3. data[r.pos] \in 0..MaxWrite
      BY <2>4, <3>2
    <3>4. \A io \in Ios : io.id \in Nat
      BY <3>1 DEF Ios
    <3> QED
      BY <3>1, <3>2, <3>3, <3>4
  <2>6. CASE Visible(r.pos) = data[r.pos] /\ \A j \in 1..Len(ios) : ios[j].pos # r.pos
    <3>1. r \notin Range(ios)
      BY <2>5, <2>6, RangeIs
    <3> QED
      BY <2>3, <2>4, <2>5, <2>6, <3>1
  <2>7. ASSUME NEW m \in 1..Len(ios), ios[m].pos = r.pos, Visible(r.pos) = ios[m].id,
               \A j \in 1..Len(ios) : ios[j].pos = r.pos => j <= m
        PROVE  Visible(r.pos) >= r.id
    <3>1. CASE r \in Range(ios)
      <4>1. PICK j \in 1..Len(ios) : r = ios[j]
        BY <2>5, <3>1, RangeIs
      <4>2. j = m \/ j < m
        BY <2>7, <4>1
      <4>3. j < m => r.id < ios[m].id
        BY <2>2, <4>1 DEF DiskInv, Ascending
      <4> QED
        BY <2>4, <2>5, <2>7, <4>1, <4>2, <4>3
    <3>2. CASE r.id <= data[r.pos]
      <4>1. ios[m] \in Range(ios)
        BY <2>5, RangeIs
      <4>2. data[ios[m].pos] < ios[m].id
        BY <2>2, <4>1 DEF UpInv, DataUp
      <4> QED
        BY <2>4, <2>5, <2>7, <3>2, <4>2
    <3> QED
      BY <2>3, <3>1, <3>2
  <2> QED
    BY <2>1, <2>4, <2>6, <2>7, VisibleIs
<1> QED
  BY <1>1, InvAlways, PTL

\* A write that a redo did not find does not come back: reads have been answered without it.
THEOREM NoResurrectionThm == Spec => []NoResurrection
<1>1. IInv => NoResurrection
  <2> SUFFICES ASSUME IInv, Clean, phase = "up", NEW p \in Pos PROVE Visible(p) \notin dropped
    BY DEF NoResurrection
  <2>1. TypeOK /\ \E end \in Nat : DiskInv(end) /\ UpInv(end)
    BY UpClean
  <2>2. PICK end \in Nat : DiskInv(end) /\ UpInv(end)
    BY <2>1
  <2>3. ios \in Seq(Ios) /\ last \in Nat
    BY <2>1 DEF TypeOK
  <2>4. data[p] \notin dropped
    <3>1. CASE data[p] = 0
      <4>1. dropped \subseteq 1..last
        BY <2>2 DEF DiskInv, DroppedOK
      <4> QED
        BY <2>3, <3>1, <4>1
    <3>2. CASE \E r \in acked : r.id = data[p]
      BY <2>2, <3>2 DEF DiskInv, DroppedOK
    <3> QED
      BY <2>2, <3>1, <3>2 DEF DiskInv, DataKnown, Known
  <2>5. \A m \in 1..Len(ios) : ios[m].id \notin dropped
    <3>1. \A m \in 1..Len(ios) : ios[m] \in Range(ios)
      BY <2>3, RangeIs
    <3> QED
      BY <2>2, <3>1 DEF DiskInv, DroppedOK, UpInv, DataUp
  <2> QED
    BY <2>1, <2>4, <2>5, VisibleIs
<1> QED
  BY <1>1, InvAlways, PTL

\* The packs before written_lsid can be extracted: their headers end where the next pack
\* begins and their records match their blocks, unless the ring buffer has been written
\* past them.
THEOREM LogIntactThm == Spec => []LogIntact
<1>1. IInv => LogIntact
  <2> SUFFICES ASSUME IInv, Clean, phase = "up", NEW o \in DOMAIN log, IsHeader(log[o]),
                      log[o].lsid < written, log[o].lsid + RingSize >= top
               PROVE  NextLsid(log[o]) <= written /\ Complete(log[o])
    BY DEF LogIntact, Complete
  <2>1. TypeOK /\ \E end \in Nat : DiskInv(end) /\ UpInv(end)
    BY UpClean
  <2>2. PICK end \in Nat : DiskInv(end) /\ UpInv(end)
    BY <2>1
  <2>3. PICK h \in Headers : h = log[o]
    BY <2>1 DEF Headers, TypeOK
  <2>4. h.lsid \in Nat /\ NextLsid(h) \in Nat
    BY <2>1, HeaderIs
  <2>5. super \in Nat /\ written \in Nat /\ super <= written /\ written <= end
    BY <2>1, <2>2, LsidsAre
  <2>6. CASE h.lsid < super
    <3>1. Complete(h) /\ NextLsid(h) <= super
      BY <2>2, <2>3, <2>6 DEF DiskInv, OldIntact
    <3> QED
      BY <2>3, <2>4, <2>5, <3>1
  <2>7. CASE h.lsid >= super
    <3>1. Collected(h)
      BY <2>1, <2>2, <2>3, <2>7, UpHeaders
    <3>2. h.lsid < end
      BY <2>3, <2>4, <2>5
    <3>3. Complete(h)
      BY <2>1, <2>2, <2>7, <3>2, UpHeaders
    <3> QED
      BY <2>3, <3>1, <3>3 DEF Collected
  <2> QED
    BY <2>4, <2>5, <2>6, <2>7
<1> QED
  BY <1>1, InvAlways, PTL
=============================================================================
