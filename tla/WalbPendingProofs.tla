------------------------- MODULE WalbPendingProofs -------------------------
(***************************************************************************)
(* Proofs that pending_data is exact and that reads are fresh, for every   *)
(* size of the device, every set of writes and reads and any number of     *)
(* them.                                                                   *)
(*                                                                         *)
(* PendingExact is not inductive: that a write which another one covers is *)
(* gone before the other leaves pending_data depends on the order in which *)
(* the data wait task takes the writes (PendingInv).                       *)
(*                                                                         *)
(* ReadFresh is about the moment between the look at pending_data and the  *)
(* read of the device: a sector that no pending write covered then has, on *)
(* the data device, all that users know of it, and keeps it (FreshInv).    *)
(* That the bios left to read are in such sectors only is a loop invariant *)
(* of pending_check_and_copy (CopiedUpTo).  It fails if a write begins     *)
(* inside an older one, as split0 then loses the mark of a copied bio.     *)
(***************************************************************************)
EXTENDS WalbPending, WellFoundedInduction, TLAPS

Statuses == {"none", "inserted", "answered", "written", "notified", "done"}

\* A write that the log wait task has taken and the data wait task has not finished.
Live(i) == biow[i].st \notin {"none", "done"} /\ ~biow[i].io.discard

WritesOK ==
  /\ biow \in [Lsids -> [st : Statuses, io : [pos : Nat, len : Nat, discard : BOOLEAN],
                         over : BOOLEAN]]
  /\ map \subseteq Lsids
  /\ max \in Nat

\* The two tasks take the writes in the order of their lsids.
InOrder ==
  \A i, j \in Lsids : j < i =>
    /\ biow[i].st # "none" => biow[j].st # "none"
    /\ biow[i].st \in {"notified", "done"} => biow[j].st = "done"

MapExact == map = {i \in Lsids : Live(i) /\ ~biow[i].over}

MaxBounds == \A i \in map : biow[i].io.len <= max

Covered ==
  \A i \in Lsids : Live(i) /\ biow[i].over =>
    \E j \in map : j > i /\ IsOverwrittenBy(biow[i].io, biow[j].io)

OverLive == \A i \in Lsids : biow[i].over => Live(i)

PendingInv == WritesOK /\ InOrder /\ MapExact /\ MaxBounds /\ Covered /\ OverLive

-----------------------------------------------------------------------------
\* Max of two numbers, as max_sectors_in_pending is computed.
LEMMA MaxOfTwo ==
  ASSUME NEW a \in Nat, NEW b \in Nat
  PROVE  /\ Max({a, b}) \in Nat
         /\ a <= Max({a, b})
         /\ b <= Max({a, b})
<1>1. \E x \in {a, b} : \A y \in {a, b} : x >= y
  OBVIOUS
<1> QED
  BY <1>1 DEF Max

\* PendingInv holds at the start.
LEMMA InitPending == Init => PendingInv
BY PendingAssumption DEF Init, PendingInv, WritesOK, InOrder, MapExact, MaxBounds, Covered,
   OverLive, Live, Lsids, NoBiow, Statuses

\* The log wait task takes the next write.
LEMMA InsertKeepsPending ==
  ASSUME PendingInv, NEW i \in Lsids, NEW io \in WriteIos, Insert(i, io)
  PROVE  PendingInv'
<1> USE DEF Lsids, Statuses
<1>0. /\ MaxWrites \in Nat /\ NSectors \in Nat
      /\ io \in [pos : Nat, len : Nat, discard : BOOLEAN]
  BY PendingAssumption
<1>1. CASE io.discard
  <2>1. /\ biow' = [biow EXCEPT ![i] = [st |-> "inserted", io |-> io, over |-> FALSE]]
        /\ map' = map /\ max' = max
    BY <1>1 DEF Insert
  <2>2. WritesOK'
    BY <1>0, <2>1 DEF PendingInv, WritesOK
  <2>3. InOrder'
    BY <1>0, <2>1 DEF PendingInv, WritesOK, InOrder, Insert
  <2>4. \A j \in Lsids : j # i => biow'[j] = biow[j]
    BY <2>1 DEF PendingInv, WritesOK
  <2>5. biow'[i].io.discard /\ ~biow'[i].over /\ ~Live(i)
    BY <1>1, <2>1 DEF PendingInv, WritesOK, Insert, Live
  <2>6. MapExact' /\ i \notin map
    BY <2>1, <2>4, <2>5 DEF PendingInv, MapExact, Live
  <2>7. MaxBounds' /\ OverLive'
    BY <2>1, <2>4, <2>5, <2>6 DEF PendingInv, MaxBounds, OverLive, WritesOK, Live
  <2>8. Covered'
    BY <2>1, <2>4, <2>5, <2>6 DEF PendingInv, WritesOK, Covered, Live
  <2> QED
    BY <2>2, <2>3, <2>6, <2>7, <2>8 DEF PendingInv
<1>2. CASE ~io.discard
  <2> DEFINE gone == Overwritten(io)
  <2>1. /\ map' = (map \ gone) \cup {i}
        /\ max' = Max({max, io.len})
        /\ biow' = [j \in Lsids |->
                        IF j = i THEN [st |-> "inserted", io |-> io, over |-> FALSE]
                        ELSE IF j \in gone THEN [biow[j] EXCEPT !.over = TRUE]
                        ELSE biow[j]]
    BY <1>2 DEF Insert
  <2>2. i \notin map /\ gone \subseteq map /\ ~Live(i)
    BY DEF PendingInv, MapExact, Live, Insert, Overwritten
  <2>3. /\ biow'[i] = [st |-> "inserted", io |-> io, over |-> FALSE]
        /\ \A j \in gone : biow'[j] = [biow[j] EXCEPT !.over = TRUE]
        /\ \A j \in Lsids : j # i /\ j \notin gone => biow'[j] = biow[j]
    BY <2>1, <2>2 DEF PendingInv, WritesOK
  <2>4. \A j \in Lsids \ {i} : biow'[j].st = biow[j].st /\ biow'[j].io = biow[j].io
    BY <2>3 DEF PendingInv, WritesOK
  <2> HIDE DEF gone
  <2>5. max' \in Nat /\ max <= max' /\ io.len <= max'
    BY <1>0, <2>1, MaxOfTwo DEF PendingInv, WritesOK
  <2>6. WritesOK'
    BY <1>0, <2>1, <2>2, <2>5, SMTT(40), ZenonT(40) DEF PendingInv, WritesOK
  <2>7. InOrder'
    <3>1. biow[i].st = "none" /\ \A j \in 1..i - 1 : biow[j].st \notin {"none", "inserted"}
      BY DEF Insert
    <3>2. biow'[i].st = "inserted"
      BY <2>3
    <3> QED
      BY <1>0, <2>4, <3>1, <3>2 DEF PendingInv, InOrder
  <2>8. \A j \in Lsids \ {i} : Live(j)' <=> Live(j)
    BY <2>4 DEF Live
  <2>9. Live(i)' /\ ~biow'[i].over /\ biow'[i].io = io
    BY <1>2, <2>3 DEF Live
  <2>10. \A j \in Lsids \ {i} : biow'[j].over <=> (biow[j].over \/ j \in gone)
    <3>1. ASSUME NEW j \in gone PROVE biow'[j].over = TRUE
      <4>1. biow[j] \in [st : Statuses, io : [pos : Nat, len : Nat, discard : BOOLEAN],
                         over : BOOLEAN]
        BY <2>2 DEF PendingInv, WritesOK
      <4>2. biow'[j] = [biow[j] EXCEPT !.over = TRUE]
        BY <2>3
      <4> QED
        BY <4>1, <4>2
    <3> QED
      BY <2>2, <2>3, <3>1
  <2>11. MapExact'
    BY <2>1, <2>2, <2>8, <2>9, <2>10 DEF PendingInv, MapExact
  <2>12. MaxBounds'
    BY <1>0, <2>1, <2>4, <2>5, <2>9 DEF PendingInv, WritesOK, MaxBounds
  <2>13. OverLive'
    BY <2>2, <2>8, <2>9, <2>10 DEF PendingInv, MapExact, OverLive
  <2>14. Covered'
    <3> SUFFICES ASSUME NEW k \in Lsids, Live(k)', biow'[k].over
                 PROVE  \E j \in map' : j > k /\ IsOverwrittenBy(biow[k].io, biow[j].io)'
      BY DEF Covered
    <3>1. k # i /\ Live(k)
      BY <2>8, <2>9
    <3>2. k < i
      BY <1>0, <3>1 DEF PendingInv, InOrder, Live, Insert
    <3>3. CASE k \in gone
      <4>1. IsOverwrittenBy(biow[k].io, io)
        BY <3>3 DEF Overwritten, gone
      <4> QED
        BY <4>1, <3>1, <3>2, <2>1, <2>4, <2>9 DEF IsOverwrittenBy, End
    <3>4. CASE k \notin gone
      <4>1. PICK j \in map : j > k /\ IsOverwrittenBy(biow[k].io, biow[j].io)
        BY <3>4, <3>1, <2>10 DEF PendingInv, Covered
      <4>2. j # i /\ j \in Lsids
        BY <2>2 DEF PendingInv, WritesOK
      <4>3. CASE j \notin gone
        BY <4>1, <4>2, <4>3, <3>1, <2>1, <2>4 DEF IsOverwrittenBy, End
      <4>4. CASE j \in gone
        <5>1. IsOverwrittenBy(biow[j].io, io)
          BY <4>4 DEF Overwritten, gone
        <5>2. IsOverwrittenBy(biow[k].io, io)
          BY <4>1, <4>2, <5>1, <1>0, SMTT(40) DEF IsOverwrittenBy, End, PendingInv, WritesOK
        <5> QED
          BY <5>2, <3>1, <3>2, <2>1, <2>4, <2>9 DEF IsOverwrittenBy, End
      <4> QED
        BY <4>3, <4>4
    <3> QED
      BY <3>3, <3>4
  <2> QED
    BY <2>6, <2>7, <2>11, <2>12, <2>13, <2>14 DEF PendingInv
<1> QED
  BY <1>1, <1>2

\* The steps that only move a write on.
LEMMA MoveKeepsPending ==
  ASSUME PendingInv, NEW i \in Lsids, Answer(i) \/ DdevWrite(i) \/ Notify(i)
  PROVE  PendingInv'
<1> USE DEF Lsids, Statuses
<1>0. PICK st \in {"answered", "written", "notified"} :
        /\ biow' = [biow EXCEPT ![i].st = st]
        /\ map' = map /\ max' = max
        /\ biow[i].st \notin {"none", "done"}
        /\ st = "notified" => \A j \in 1..i - 1 : biow[j].st = "done"
        /\ biow[i].st # "notified"
  BY DEF Answer, DdevWrite, Notify
<1>1. WritesOK'
  BY <1>0 DEF PendingInv, WritesOK
<1>2. \A j \in Lsids : /\ biow'[j].io = biow[j].io
                       /\ biow'[j].over = biow[j].over
                       /\ biow'[j].st = IF j = i THEN st ELSE biow[j].st
  BY <1>0 DEF PendingInv, WritesOK
<1>3. \A j \in Lsids : Live(j)' <=> Live(j)
  BY <1>0, <1>2 DEF Live
<1>4. InOrder'
  BY <1>0, <1>2, PendingAssumption DEF PendingInv, InOrder
<1>5. MapExact' /\ MaxBounds' /\ OverLive'
  BY <1>0, <1>2, <1>3 DEF PendingInv, WritesOK, MapExact, MaxBounds, OverLive
<1>6. Covered'
  BY <1>0, <1>2, <1>3 DEF PendingInv, WritesOK, Covered, IsOverwrittenBy, End
<1> QED
  BY <1>1, <1>4, <1>5, <1>6 DEF PendingInv

\* The data wait task deletes a write: those it covers are older, and done.
LEMMA DeleteKeepsPending ==
  ASSUME PendingInv, NEW i \in Lsids, Delete(i)
  PROVE  PendingInv'
<1> USE DEF Lsids, Statuses
<1>0. /\ biow[i].st = "notified"
      /\ map' = map \ {i}
      /\ max' = max \/ (max' = 0 /\ map' = {})
  BY DEF Delete, PendingInv, MapExact, Live
<1>a. biow' = [biow EXCEPT ![i] = [st |-> "done", io |-> biow[i].io, over |-> FALSE]]
  BY DEF Delete, PendingInv, WritesOK
<1>1. WritesOK'
  BY <1>0, <1>a DEF PendingInv, WritesOK
<1>2. /\ biow'[i].st = "done" /\ ~biow'[i].over /\ ~Live(i)'
      /\ \A j \in Lsids \ {i} : biow'[j] = biow[j] /\ (Live(j)' <=> Live(j))
  BY <1>a DEF PendingInv, WritesOK, Live
<1>3. InOrder'
  BY <1>0, <1>2, PendingAssumption DEF PendingInv, InOrder
<1>4. MapExact' /\ MaxBounds' /\ OverLive'
  BY <1>0, <1>2 DEF PendingInv, WritesOK, MapExact, MaxBounds, OverLive
<1>5. Covered'
  <2> SUFFICES ASSUME NEW k \in Lsids, Live(k)', biow'[k].over
               PROVE  \E j \in map' : j > k /\ IsOverwrittenBy(biow[k].io, biow[j].io)'
    BY DEF Covered
  <2>1. k # i /\ Live(k) /\ biow[k].over
    BY <1>2
  <2>2. PICK j \in map : j > k /\ IsOverwrittenBy(biow[k].io, biow[j].io)
    BY <2>1 DEF PendingInv, Covered
  <2>3. j # i
    BY <1>0, <2>1, <2>2 DEF PendingInv, InOrder, Live
  <2> QED
    BY <1>0, <1>2, <2>1, <2>2, <2>3 DEF PendingInv, WritesOK, IsOverwrittenBy, End
<1> QED
  BY <1>1, <1>3, <1>4, <1>5 DEF PendingInv

\* PendingInv is kept by every step.
LEMMA NextKeepsPending == PendingInv /\ [Next]_vars => PendingInv'
<1> SUFFICES ASSUME PendingInv, [Next]_vars PROVE PendingInv'
  OBVIOUS
<1>1. CASE UNCHANGED <<biow, map, max>>
  BY <1>1 DEF PendingInv, WritesOK, InOrder, MapExact, MaxBounds, Covered, OverLive, Live
<1>2. ASSUME NEW i \in Lsids, NEW io \in WriteIos, Insert(i, io) PROVE PendingInv'
  BY <1>2, InsertKeepsPending
<1>3. ASSUME NEW i \in Lsids, Answer(i) \/ DdevWrite(i) \/ Notify(i) PROVE PendingInv'
  BY <1>3, MoveKeepsPending
<1>4. ASSUME NEW i \in Lsids, Delete(i) PROVE PendingInv'
  BY <1>4, DeleteKeepsPending
<1>5. ASSUME NEW io \in ReadIos, ReadStart(io) PROVE UNCHANGED <<biow, map, max>>
  BY <1>5 DEF ReadStart
<1>6. ASSUME NEW bio \in read.bios, ReadDdev(bio) PROVE UNCHANGED <<biow, map, max>>
  BY <1>6 DEF ReadDdev
<1>7. ReadEnd \/ UNCHANGED vars => UNCHANGED <<biow, map, max>>
  BY DEF ReadEnd, vars
<1> QED
  BY <1>1, <1>2, <1>3, <1>4, <1>5, <1>6, <1>7 DEF Next

\* For every device and all writes and reads, pending_data holds exactly the writes that
\* were inserted and not deleted, but for those that a newer one there covers, and none
\* longer than max_sectors_in_pending: what pending_delete asserts, and what the search of
\* pending_check_and_copy relies on.
THEOREM PendingExactThm == Spec => []PendingExact
<1>1. PendingInv => PendingExact
  BY DEF PendingInv, WritesOK, MapExact, MaxBounds, Covered, PendingExact, Data, Live
<1> QED
  BY <1>1, InitPending, NextKeepsPending, PTL DEF Spec

-----------------------------------------------------------------------------
(* Least and greatest elements, and the loop of copies *)

\* A set of naturals that is not empty has a least element, which Min chooses.
LEMMA MinIs ==
  ASSUME NEW S \in SUBSET Nat, S # {}
  PROVE  Min(S) \in S /\ \A y \in S : Min(S) <= y
<1> DEFINE R == OpToRel(<, Nat)
<1>1. IsWellFoundedOn(R, Nat)
  BY NatLessThanWellFounded
<1>2. \A x, y \in Nat : y < x => <<y, x>> \in R
  BY DEF OpToRel
<1> HIDE DEF R
<1>3. PICK x \in S : \A y \in S : ~(<<y, x>> \in R)
  BY <1>1, WFMin
<1>4. ASSUME NEW y \in S PROVE x <= y
  <2>1. x \in Nat /\ y \in Nat
    OBVIOUS
  <2>2. ~(y < x)
    BY <1>2, <1>3, <2>1, Zenon
  <2> QED
    BY <2>1, <2>2
<1> QED
  BY <1>4 DEF Min

\* A bounded one has a greatest element, which Max chooses.
LEMMA MaxIs ==
  ASSUME NEW n \in Nat, NEW S \in SUBSET (0..n), S # {}
  PROVE  Max(S) \in S /\ \A y \in S : y <= Max(S)
<1> DEFINE T == {n - y : y \in S}
<1>1. T \in SUBSET Nat /\ T # {}
  <2>1. \A y \in S : n - y \in Nat /\ n - y \in T
    OBVIOUS
  <2> QED
    BY <2>1
<1>2. Min(T) \in T /\ \A t \in T : Min(T) <= t
  <2> HIDE DEF T
  <2> QED
    BY <1>1, MinIs
<1>3. PICK x \in S : Min(T) = n - x
  BY <1>2
<1>4. ASSUME NEW y \in S PROVE y <= x
  <2>1. n - y \in T /\ x \in Int /\ y \in Int
    OBVIOUS
  <2> HIDE DEF T
  <2>2. n - x <= n - y
    BY <1>2, <1>3, <2>1
  <2> QED
    BY <2>1, <2>2
<1>5. \A y \in S : x \in Int /\ y \in Int /\ x >= y
  BY <1>4
<1> QED
  BY <1>5 DEF Max

Copies(io, f) ==
  f = [n \in 0..MaxWrites |->
        IF n = 0 THEN SplitForChunk(io)
        ELSE IF n \in Found(io) THEN CopyOverlapped(f[n - 1], biow[n].io)
        ELSE f[n - 1]]

\* The loop has a result.
LEMMA CopiesExist ==
  ASSUME NEW io
  PROVE  \E f : Copies(io, f) /\ CopyFound(io) = f[MaxWrites]
<1> DEFINE Step(f, n) == IF n = 0 THEN SplitForChunk(io)
                         ELSE IF n \in Found(io) THEN CopyOverlapped(f[n - 1], biow[n].io)
                         ELSE f[n - 1]
           Upto(m, f) == f = [n \in 0..m |-> Step(f, n)]
           Bad == {m \in Nat : ~ \E f : Upto(m, f)}
<1>1. CopyFound(io) = (CHOOSE f : f = [n \in 0..MaxWrites |-> Step(f, n)])[MaxWrites]
  BY DEF CopyFound
<1>2. Bad = {}
  <2> SUFFICES ASSUME Bad # {} PROVE FALSE
    OBVIOUS
  <2>1. PICK m : m = Min(Bad)
    OBVIOUS
  <2>2. m \in Bad /\ \A k \in Bad : m <= k
    BY <2>1, MinIs
  <2>3. CASE m = 0
    <3>1. PICK f : f = [n \in 0..0 |-> SplitForChunk(io)]
      OBVIOUS
    <3>2. Upto(0, f)
      BY <3>1
    <3> QED
      BY <2>2, <2>3, <3>2
  <2>4. CASE m # 0
    <3>1. m - 1 \in Nat /\ m \in Nat /\ ~(m <= m - 1)
      BY <2>2, <2>4
    <3>2. PICK f : Upto(m - 1, f)
      BY <2>2, <3>1
    <3>3. PICK g : g = [n \in 0..m |-> IF n = m THEN Step(f, m) ELSE f[n]]
      OBVIOUS
    <3>4. ASSUME NEW n \in 0..m PROVE g[n] = Step(g, n)
      <4>1. /\ n \in Nat
            /\ n # 0 => n - 1 \in 0..m /\ n - 1 # m /\ n - 1 \in 0..(m - 1)
            /\ n # m => n \in 0..(m - 1)
        BY <3>1
      <4>2. n # 0 => g[n - 1] = f[n - 1]
        BY <3>3, <4>1
      <4>3. n # m => g[n] = f[n] /\ f[n] = Step(f, n)
        BY <3>2, <3>3, <4>1
      <4>4. n = m => g[n] = Step(f, n)
        BY <3>3
      <4> QED
        BY <4>2, <4>3, <4>4
    <3>5. g = [n \in 0..m |-> Step(g, n)]
      BY <3>3, <3>4
    <3> QED
      BY <2>2, <3>5
  <2> QED
    BY <2>3, <2>4
<1>3. \E f : Upto(MaxWrites, f)
  BY <1>2, PendingAssumption
<1> QED
  BY <1>1, <1>3 DEF Copies

\* No write begins inside another one; discards are left aside.
NoneBeginsInside ==
  \A a, b \in WriteIos : ~a.discard /\ ~b.discard => ~(a.pos < b.pos /\ b.pos < End(a))

Bios == [pos : Nat, end : Nat, copied : BOOLEAN]

In(s, bio) == bio.pos <= s /\ s < bio.end

\* What the bios of a read are after the copies from the writes up to lsid n that it found.
CopiedUpTo(io, bios, n) ==
  /\ bios \subseteq Bios
  /\ \A b \in bios : b.pos < b.end
  /\ \A s \in Covers(io) : \E b \in bios : In(s, b)
  /\ \A b \in bios : b.copied =>
       \E i \in Found(io) : i <= n /\ biow[i].io.pos <= b.pos /\ b.end <= End(biow[i].io)
  /\ \A b \in bios : ~b.copied =>
       \A i \in Found(io) : i <= n => b.end <= biow[i].io.pos \/ End(biow[i].io) <= b.pos

\* The writes that can be found.
FoundOK(io) ==
  /\ Found(io) \subseteq Lsids
  /\ \A i \in Found(io) : biow[i].io \in WriteIos /\ ~biow[i].io.discard

\* Max and Min of two numbers.
LEMMA TwoMax ==
  ASSUME NEW a \in Nat, NEW b \in Nat
  PROVE  Max({a, b}) = IF a <= b THEN b ELSE a
<1>1. Max({a, b}) \in {a, b} /\ a <= Max({a, b}) /\ b <= Max({a, b})
  <2>1. \E x \in {a, b} : \A y \in {a, b} : x >= y
    OBVIOUS
  <2> QED
    BY <2>1 DEF Max
<1> QED
  BY <1>1

\* The smaller of two numbers, as the end of an overlap is computed.
LEMMA TwoMin ==
  ASSUME NEW a \in Nat, NEW b \in Nat
  PROVE  Min({a, b}) = IF a <= b THEN a ELSE b
<1>1. Min({a, b}) \in {a, b} /\ Min({a, b}) <= a /\ Min({a, b}) <= b
  <2>1. {a, b} \in SUBSET Nat /\ {a, b} # {}
    OBVIOUS
  <2> QED
    BY <2>1, MinIs
<1> QED
  BY <1>1

\* What is split off a bio.
LEMMA SplitIs ==
  ASSUME NEW b \in Bios, b.pos < b.end, NEW w, w.pos \in Nat, End(w) \in Nat
  PROVE  \/ /\ (b.end <= w.pos \/ End(w) <= b.pos \/ End(w) <= w.pos)
            /\ SplitCopied(b, w) = {b}
         \/ \E lo \in Nat, hi \in Nat :
              /\ lo < hi /\ b.pos <= lo /\ w.pos <= lo /\ hi <= b.end /\ hi <= End(w)
              /\ b.pos < lo => lo = w.pos
              /\ hi < b.end => hi = End(w)
              /\ SplitCopied(b, w) = {c \in {[pos |-> b.pos, end |-> lo, copied |-> FALSE],
                                             [pos |-> lo, end |-> hi, copied |-> TRUE],
                                             [pos |-> hi, end |-> b.end, copied |-> b.copied]} :
                                        c.pos < c.end}
<1>0. b.pos \in Nat /\ b.end \in Nat /\ b = [pos |-> b.pos, end |-> b.end, copied |-> b.copied]
  BY DEF Bios
<1>1. PICK lo \in Nat : lo = Max({b.pos, w.pos}) /\ lo = IF b.pos <= w.pos THEN w.pos ELSE b.pos
  BY <1>0, TwoMax
<1>2. PICK hi \in Nat : hi = Min({b.end, End(w)}) /\ hi = IF b.end <= End(w) THEN b.end ELSE End(w)
  BY <1>0, TwoMin
<1>3. [b EXCEPT !.pos = hi] = [pos |-> hi, end |-> b.end, copied |-> b.copied]
  BY <1>0
<1>4. CASE lo >= hi
  <2>1. SplitCopied(b, w) = {b}
    BY <1>1, <1>2, <1>4 DEF SplitCopied
  <2>2. b.end <= w.pos \/ End(w) <= b.pos \/ End(w) <= w.pos
    BY <1>0, <1>1, <1>2, <1>4
  <2> QED
    BY <2>1, <2>2
<1>5. CASE ~(lo >= hi)
  <2>1. SplitCopied(b, w) = {c \in {[pos |-> b.pos, end |-> lo, copied |-> FALSE],
                                             [pos |-> lo, end |-> hi, copied |-> TRUE],
                                             [pos |-> hi, end |-> b.end, copied |-> b.copied]} :
                                        c.pos < c.end}
    BY <1>1, <1>2, <1>3, <1>5 DEF SplitCopied
  <2>2. lo < hi /\ b.pos <= lo /\ w.pos <= lo /\ hi <= b.end /\ hi <= End(w)
    BY <1>0, <1>1, <1>2, <1>5
  <2>3. (b.pos < lo => lo = w.pos) /\ (hi < b.end => hi = End(w))
    BY <1>0, <1>1, <1>2
  <2> QED
    BY <2>1, <2>2, <2>3
<1> QED
  BY <1>4, <1>5

\* The first bios: none is copied.
LEMMA SplitForChunkIs ==
  ASSUME NEW io \in ReadIos, FoundOK(io)
  PROVE  CopiedUpTo(io, SplitForChunk(io), 0)
<1> DEFINE borders == {b \in io.pos + 1 .. End(io) - 1 : Chunk # 0 /\ b % Chunk = 0}
           ends(b) == {c \in borders \cup {End(io)} : c > b}
           first == borders \cup {io.pos}
<1>1. SplitForChunk(io) = {[pos |-> b, end |-> Min(ends(b)), copied |-> FALSE] : b \in first}
  BY DEF SplitForChunk
<1>2. io.pos \in Nat /\ End(io) \in Nat /\ io.pos < End(io) /\ io.len \in Nat
  BY PendingAssumption DEF End
<1>3. first \in SUBSET (io.pos .. End(io) - 1) /\ io.pos \in first
  BY <1>2
<1>4. ASSUME NEW b \in first
      PROVE  ends(b) \in SUBSET Nat /\ End(io) \in ends(b) /\ b \in Nat
  BY <1>2, <1>3
<1>5. \A b \in first : \A c \in first : c > b => c \in ends(b)
  BY <1>2
<1>6. \A b \in first : \A c \in ends(b) : c > b /\ (c \in first \/ c = End(io))
  OBVIOUS
<1> HIDE DEF first, ends, borders
<1>7. ASSUME NEW b \in first
      PROVE  /\ Min(ends(b)) \in ends(b) /\ \A c \in ends(b) : Min(ends(b)) <= c
             /\ Min(ends(b)) \in Nat /\ Min(ends(b)) > b
  <2>1. Min(ends(b)) \in ends(b) /\ \A c \in ends(b) : Min(ends(b)) <= c
    BY <1>4, MinIs
  <2> QED
    BY <1>4, <1>6, <2>1
<1>8. /\ SplitForChunk(io) \subseteq Bios
      /\ \A b \in SplitForChunk(io) : b.pos < b.end /\ b.copied = FALSE
  <2> SUFFICES ASSUME NEW b \in first
               PROVE  LET x == [pos |-> b, end |-> Min(ends(b)), copied |-> FALSE]
                      IN  x \in Bios /\ x.pos < x.end /\ x.copied = FALSE
    BY <1>1
  <2> QED
    BY <1>4, <1>7 DEF Bios
<1>9. ASSUME NEW s \in Covers(io) PROVE \E b \in SplitForChunk(io) : In(s, b)
  <2>1. s \in Nat /\ io.pos <= s /\ s < End(io)
    BY <1>2 DEF Covers
  <2>2. PICK T : T = {b \in first : b <= s}
    OBVIOUS
  <2>3. T \in SUBSET (0..s) /\ T # {}
    <3>1. \A c \in first : c \in Nat
      BY <1>4
    <3>2. \A c \in T : c \in 0..s
      BY <2>1, <2>2, <3>1
    <3> QED
      BY <1>3, <2>1, <2>2, <3>2
  <2>4. PICK b \in first : b <= s /\ \A c \in T : c <= b
    BY <2>1, <2>2, <2>3, MaxIs
  <2>5. PICK e \in Nat : e = Min(ends(b)) /\ e \in ends(b)
    BY <1>7
  <2>6. s < e
    <3>1. e > b /\ (e \in first \/ e = End(io))
      BY <1>6, <2>5
    <3>2. e = End(io) => s < e
      BY <2>1
    <3>3. e \in first => s < e
      <4>1. b \in Nat
        BY <1>4
      <4>2. e \in first /\ e <= s => e \in T
        BY <2>2
      <4> QED
        BY <2>1, <2>4, <3>1, <4>1, <4>2
    <3> QED
      BY <3>1, <3>2, <3>3
  <2>7. [pos |-> b, end |-> e, copied |-> FALSE] \in SplitForChunk(io)
    BY <1>1, <2>5
  <2>8. PICK x \in SplitForChunk(io) : x.pos = b /\ x.end = e
    BY <2>7
  <2> QED
    BY <2>4, <2>6, <2>8 DEF In
<1>10. \A i \in Found(io) : ~(i <= 0)
  BY DEF FoundOK, Lsids
<1>11. \A b \in SplitForChunk(io) : b.pos < b.end /\ ~b.copied
  BY <1>8
<1> QED
  BY <1>8, <1>9, <1>10, <1>11 DEF CopiedUpTo

\* One round of the loop.  The front of a bio that has been copied would lose its mark, but
\* a write that begins inside an older one does not come.
LEMMA CopyOverlappedKeeps ==
  ASSUME NEW io \in ReadIos, FoundOK(io), NoneBeginsInside, NEW bios, NEW n \in Nat \ {0},
         n \in Found(io), CopiedUpTo(io, bios, n - 1)
  PROVE  CopiedUpTo(io, CopyOverlapped(bios, biow[n].io), n)
<1>1. PICK w : w = biow[n].io
  OBVIOUS
<1>2. PICK e \in Nat : e = End(w) /\ w.pos \in Nat /\ w.pos < e
  BY <1>1, PendingAssumption DEF FoundOK, End
<1>3. \A i \in Found(io) : /\ biow[i].io.pos \in Nat /\ End(biow[i].io) \in Nat
                           /\ ~(biow[i].io.pos < w.pos /\ w.pos < End(biow[i].io))
                           /\ i \in Nat
  BY <1>1, PendingAssumption DEF FoundOK, End, NoneBeginsInside, Lsids
<1>4. /\ bios \subseteq Bios
      /\ \A b \in bios : b.pos < b.end
      /\ \A s \in Covers(io) : \E b \in bios : In(s, b)
  BY DEF CopiedUpTo
<1>5. ASSUME NEW b \in bios, b.copied
      PROVE  \E i \in Found(io) : i <= n /\ biow[i].io.pos <= b.pos /\ b.end <= End(biow[i].io)
  <2>1. PICK i \in Found(io) : i <= n - 1 /\ biow[i].io.pos <= b.pos /\ b.end <= End(biow[i].io)
    BY <1>5 DEF CopiedUpTo
  <2> QED
    BY <1>3, <2>1
<1>6. ASSUME NEW b \in bios, ~b.copied, NEW i \in Found(io), i <= n, i # n
      PROVE  b.end <= biow[i].io.pos \/ End(biow[i].io) <= b.pos
  <2>1. i <= n - 1
    BY <1>3, <1>6
  <2> QED
    BY <1>6, <2>1 DEF CopiedUpTo
\* What a bio becomes.
<1> DEFINE Kept(c) == /\ c \in Bios /\ c.pos < c.end
                      /\ c.copied => \E i \in Found(io) : i <= n /\ biow[i].io.pos <= c.pos
                                                          /\ c.end <= End(biow[i].io)
                      /\ ~c.copied => \A i \in Found(io) : i <= n =>
                           c.end <= biow[i].io.pos \/ End(biow[i].io) <= c.pos
<1>7. ASSUME NEW b \in bios
      PROVE  /\ \A c \in SplitCopied(b, w) : Kept(c)
             /\ \A s \in Covers(io) : In(s, b) => \E c \in SplitCopied(b, w) : In(s, c)
  <2>1. b.pos \in Nat /\ b.end \in Nat /\ b.pos < b.end /\ b.copied \in BOOLEAN /\ b \in Bios
    BY <1>4 DEF Bios
  <2>2. CASE (b.end <= w.pos \/ e <= b.pos) /\ SplitCopied(b, w) = {b}
    <3>1. ~b.copied => \A i \in Found(io) : i <= n =>
                           b.end <= biow[i].io.pos \/ End(biow[i].io) <= b.pos
      BY <1>1, <1>2, <1>6, <2>2
    <3>2. Kept(b)
      BY <1>5, <2>1, <3>1
    <3> QED
      BY <2>2, <3>2
  <2>3. ASSUME NEW lo \in Nat, NEW hi \in Nat,
               lo < hi /\ b.pos <= lo /\ w.pos <= lo /\ hi <= b.end /\ hi <= e,
               b.pos < lo => lo = w.pos,
               hi < b.end => hi = e,
               SplitCopied(b, w) = {c \in {[pos |-> b.pos, end |-> lo, copied |-> FALSE],
                                           [pos |-> lo, end |-> hi, copied |-> TRUE],
                                           [pos |-> hi, end |-> b.end, copied |-> b.copied]} :
                                      c.pos < c.end}
        PROVE  /\ \A c \in SplitCopied(b, w) : Kept(c)
               /\ \A s \in Covers(io) : In(s, b) => \E c \in SplitCopied(b, w) : In(s, c)
    <3>1. PICK x : x = [pos |-> b.pos, end |-> lo, copied |-> FALSE]
      OBVIOUS
    <3>2. PICK y : y = [pos |-> lo, end |-> hi, copied |-> TRUE]
      OBVIOUS
    <3>3. PICK z : z = [pos |-> hi, end |-> b.end, copied |-> b.copied]
      OBVIOUS
    <3>4. x \in Bios /\ x.pos = b.pos /\ x.end = lo /\ x.copied = FALSE
      BY <2>1, <3>1 DEF Bios
    <3>5. y \in Bios /\ y.pos = lo /\ y.end = hi /\ y.copied = TRUE
      BY <3>2 DEF Bios
    <3>6. z \in Bios /\ z.pos = hi /\ z.end = b.end /\ z.copied = b.copied
      BY <2>1, <3>3 DEF Bios
    <3>7. SplitCopied(b, w) = {c \in {x, y, z} : c.pos < c.end}
      BY <2>3, <3>1, <3>2, <3>3
    <3>8. x.pos < x.end => Kept(x)
      <4> SUFFICES ASSUME b.pos < lo PROVE Kept(x)
        BY <3>4
      <4>1. lo = w.pos /\ b.pos < w.pos /\ w.pos < b.end
        BY <2>1, <2>3, <1>2
      <4>2. ~b.copied
        <5> SUFFICES ASSUME b.copied PROVE FALSE
          OBVIOUS
        <5>1. PICK i \in Found(io) : biow[i].io.pos <= b.pos /\ b.end <= End(biow[i].io)
          BY <1>5
        <5> QED
          BY <1>2, <1>3, <2>1, <4>1, <5>1
      <4>3. ASSUME NEW i \in Found(io), i <= n
            PROVE  x.end <= biow[i].io.pos \/ End(biow[i].io) <= x.pos
        <5>1. CASE i = n
          BY <1>1, <3>4, <4>1, <5>1, <1>2
        <5>2. CASE i # n
          <6>1. b.end <= biow[i].io.pos \/ End(biow[i].io) <= b.pos
            BY <1>6, <4>2, <4>3, <5>2
          <6> QED
            BY <1>3, <2>1, <2>3, <3>4, <6>1
        <5> QED
          BY <5>1, <5>2
      <4> QED
        BY <3>4, <4>3
    <3>9. y.pos < y.end => Kept(y)
      <4>1. n <= n /\ biow[n].io.pos <= y.pos /\ y.end <= End(biow[n].io)
        BY <1>1, <1>2, <2>3, <3>5
      <4> QED
        BY <3>5, <4>1
    <3>10. z.pos < z.end => Kept(z)
      <4> SUFFICES ASSUME hi < b.end PROVE Kept(z)
        BY <3>6
      <4>1. hi = e
        BY <2>3
      <4>2. z.copied => \E i \in Found(io) : i <= n /\ biow[i].io.pos <= z.pos
                                             /\ z.end <= End(biow[i].io)
        <5> SUFFICES ASSUME b.copied
                     PROVE  \E i \in Found(io) : i <= n /\ biow[i].io.pos <= z.pos
                                                 /\ z.end <= End(biow[i].io)
          BY <3>6
        <5>1. PICK i \in Found(io) :
                i <= n /\ biow[i].io.pos <= b.pos /\ b.end <= End(biow[i].io)
          BY <1>5
        <5>2. biow[i].io.pos <= z.pos /\ z.end <= End(biow[i].io)
          BY <1>3, <2>1, <2>3, <3>6, <5>1
        <5> QED
          BY <5>1, <5>2
      <4>3. ~z.copied => \A i \in Found(io) : i <= n =>
              z.end <= biow[i].io.pos \/ End(biow[i].io) <= z.pos
        <5> SUFFICES ASSUME ~b.copied, NEW i \in Found(io), i <= n
                     PROVE  z.end <= biow[i].io.pos \/ End(biow[i].io) <= z.pos
          BY <3>6
        <5>1. CASE i = n
          BY <1>1, <1>2, <3>6, <4>1, <5>1
        <5>2. CASE i # n
          <6>1. b.end <= biow[i].io.pos \/ End(biow[i].io) <= b.pos
            BY <1>6, <5>2
          <6> QED
            BY <1>3, <2>1, <2>3, <3>6, <6>1
        <5> QED
          BY <5>1, <5>2
      <4> QED
        BY <3>6, <4>2, <4>3
    <3>11. ASSUME NEW s \in Covers(io), In(s, b)
           PROVE  \E c \in SplitCopied(b, w) : In(s, c)
      <4>1. s \in Int /\ b.pos <= s /\ s < b.end
        BY <3>11, PendingAssumption DEF Covers, In, End
      <4>2. CASE s < lo
        <5>1. In(s, x) /\ x.pos < x.end
          BY <2>1, <2>3, <3>4, <4>1, <4>2 DEF In
        <5> QED
          BY <3>7, <5>1
      <4>3. CASE lo <= s /\ s < hi
        <5>1. In(s, y) /\ y.pos < y.end
          BY <2>1, <2>3, <3>5, <4>1, <4>3 DEF In
        <5> QED
          BY <3>7, <5>1
      <4>4. CASE hi <= s
        <5>1. In(s, z) /\ z.pos < z.end
          BY <2>1, <2>3, <3>6, <4>1, <4>4 DEF In
        <5> QED
          BY <3>7, <5>1
      <4> QED
        BY <4>1, <4>2, <4>3, <4>4
    <3> HIDE DEF Kept
    <3> QED
      BY <3>7, <3>8, <3>9, <3>10, <3>11
  <2>4. \/ (b.end <= w.pos \/ e <= b.pos \/ e <= w.pos) /\ SplitCopied(b, w) = {b}
        \/ \E lo \in Nat, hi \in Nat :
              /\ lo < hi /\ b.pos <= lo /\ w.pos <= lo /\ hi <= b.end /\ hi <= e
              /\ b.pos < lo => lo = w.pos
              /\ hi < b.end => hi = e
              /\ SplitCopied(b, w) = {c \in {[pos |-> b.pos, end |-> lo, copied |-> FALSE],
                                             [pos |-> lo, end |-> hi, copied |-> TRUE],
                                             [pos |-> hi, end |-> b.end, copied |-> b.copied]} :
                                        c.pos < c.end}
    BY <1>2, <2>1, SplitIs
  <2> HIDE DEF Kept
  <2>5. ~(e <= w.pos)
    BY <1>2
  <2> QED
    BY <2>2, <2>3, <2>4, <2>5
<1>8. CopyOverlapped(bios, w) = UNION {SplitCopied(b, w) : b \in bios}
  BY DEF CopyOverlapped
<1>9. \A c \in CopyOverlapped(bios, w) : Kept(c)
  <2> HIDE DEF Kept
  <2> QED
    BY <1>7, <1>8
<1>10. \A s \in Covers(io) : \E c \in CopyOverlapped(bios, w) : In(s, c)
  BY <1>4, <1>7, <1>8
<1> QED
  BY <1>1, <1>9, <1>10 DEF CopiedUpTo

\* After the loop the bios cover the read; those that are copied lie in a write that was
\* found, and those that are not overlap none.
LEMMA CopyFoundIs ==
  ASSUME NEW io \in ReadIos, FoundOK(io), NoneBeginsInside
  PROVE  CopiedUpTo(io, CopyFound(io), MaxWrites)
<1>1. PICK f : Copies(io, f) /\ CopyFound(io) = f[MaxWrites]
  BY CopiesExist
<1>2. \A n \in 0..MaxWrites : f[n] = IF n = 0 THEN SplitForChunk(io)
        ELSE IF n \in Found(io) THEN CopyOverlapped(f[n - 1], biow[n].io)
        ELSE f[n - 1]
  BY <1>1 DEF Copies
<1> DEFINE Bad == {n \in 0..MaxWrites : ~CopiedUpTo(io, f[n], n)}
<1>3. MaxWrites \in Nat
  BY PendingAssumption
<1>4. Bad = {}
  <2> SUFFICES ASSUME Bad # {} PROVE FALSE
    OBVIOUS
  <2>1. Bad \in SUBSET Nat
    BY <1>3
  <2>2. PICK n \in 0..MaxWrites : ~CopiedUpTo(io, f[n], n) /\ \A k \in Bad : n <= k
    <3>1. Min(Bad) \in Bad /\ \A k \in Bad : Min(Bad) <= k
      <4> HIDE DEF Bad
      <4> QED
        BY <2>1, MinIs
    <3> QED
      BY <3>1
  <2>3. n # 0
    BY <1>2, <1>3, <2>2, SplitForChunkIs
  <2>4. n \in Nat \ {0} /\ n - 1 \in 0..MaxWrites /\ ~(n <= n - 1)
    BY <1>3, <2>2, <2>3
  <2>5. CopiedUpTo(io, f[n - 1], n - 1)
    BY <2>2, <2>4
  <2>6. CASE n \in Found(io)
    BY <1>2, <2>2, <2>3, <2>4, <2>5, <2>6, CopyOverlappedKeeps
  <2>7. CASE n \notin Found(io)
    <3>1. f[n] = f[n - 1]
      BY <1>2, <2>3, <2>7
    <3>2. \A i \in Found(io) : i <= n <=> i <= n - 1
      <4>1. \A i \in Found(io) : i \in Nat /\ i # n
        BY <2>7 DEF FoundOK, Lsids
      <4> QED
        BY <2>4, <4>1
    <3>3. CopiedUpTo(io, f[n - 1], n)
      BY <2>5, <3>2, Zenon DEF CopiedUpTo
    <3> QED
      BY <2>2, <3>1, <3>3
  <2> QED
    BY <2>6, <2>7
<1> QED
  BY <1>1, <1>3, <1>4

-----------------------------------------------------------------------------
(* Reads *)

Landed == {"written", "notified", "done"}

\* The writes are those that users issue.
IosOK == \A i \in Lsids : biow[i].st # "none" => biow[i].io \in WriteIos

\* A write is inserted after those before it were answered,
InsertedInOrder ==
  \A i, j \in Lsids : j < i /\ biow[i].st # "none" => biow[j].st \notin {"none", "inserted"}

\* and lands after those before it that it overlaps were removed from the overlapped data.
LandedInOrder ==
  \A i, j \in Lsids : j < i /\ biow[i].st \in Landed /\ IsOverlap(biow[i].io, biow[j].io) =>
    biow[j].st \in {"notified", "done"}

\* The data device has of each sector the newest write that landed.
Holds(i, s) == i \in Lsids /\ s \in Covers(biow[i].io)

DdevOK ==
  /\ ddev \in [Sectors -> {0} \cup Lsids]
  /\ \A s \in Sectors, i \in Lsids : ddev[s] = i => Holds(i, s) /\ biow[i].st \in Landed
  /\ \A s \in Sectors, i \in Lsids : Holds(i, s) /\ biow[i].st \in Landed => i <= ddev[s]

\* A read has returned what users had written.
Written(i, s) == Holds(i, s) /\ biow[i].st # "none"

SeenOK ==
  /\ seen \in [Sectors -> {0} \cup Lsids]
  /\ \A s \in Sectors, i \in Lsids : seen[s] = i => Written(i, s) /\ ~biow[i].io.discard

\* What a read has from pending_data is new enough, and so is the data device where it has
\* yet to be read.
Awaited(s) == \E b \in read.bios : In(s, b)

ReadOK ==
  /\ read = [on |-> read.on, bios |-> read.bios, got |-> read.got, need |-> read.need]
  /\ DOMAIN read.got \subseteq Sectors /\ read.bios \subseteq Bios
  /\ \A s \in DOMAIN read.got :
       /\ read.got[s] \in {0} \cup Lsids /\ read.need[s] \in Nat
       /\ \A i \in Lsids : read.got[s] = i => Written(i, s)
       /\ IF Awaited(s) THEN ddev[s] >= read.need[s] ELSE read.got[s] >= read.need[s]

FreshInv == PendingInv /\ IosOK /\ InsertedInOrder /\ LandedInOrder /\ DdevOK /\ SeenOK /\ ReadOK

\* The types that the steps need.
LEMMA Ranges ==
  ASSUME PendingInv, IosOK
  PROVE  /\ NSectors \in Nat /\ MaxWrites \in Nat
         /\ \A i \in Lsids : i \in Nat /\ i > 0
         /\ \A io \in WriteIos \cup ReadIos :
              /\ io.pos \in Nat /\ io.len \in Nat \ {0} /\ io.pos + io.len <= NSectors
              /\ Covers(io) \subseteq Sectors
         /\ \A i \in Lsids : biow[i].st \in Statuses
         /\ \A i \in Lsids : biow[i].io.pos \in Nat /\ biow[i].io.len \in Nat
<1>1. NSectors \in Nat /\ MaxWrites \in Nat
  BY PendingAssumption
<1>2. \A i \in Lsids : i \in Nat /\ i > 0
  BY <1>1 DEF Lsids
<1>3. ASSUME NEW io \in WriteIos \cup ReadIos
      PROVE  /\ io.pos \in Nat /\ io.len \in Nat \ {0} /\ io.pos + io.len <= NSectors
             /\ Covers(io) \subseteq Sectors
  <2>1. io.pos \in Nat /\ io.len \in Nat \ {0} /\ io.pos + io.len <= NSectors
    BY PendingAssumption
  <2> QED
    BY <1>1, <2>1 DEF Covers, Sectors, End
<1>4. \A i \in Lsids : biow[i].st \in Statuses /\ biow[i].io.pos \in Nat /\ biow[i].io.len \in Nat
  BY DEF PendingInv, WritesOK
<1> QED
  BY <1>1, <1>2, <1>3, <1>4

\* Two writes that have a sector in common overlap.
LEMMA CommonSector ==
  ASSUME PendingInv, IosOK, NEW s \in Sectors, NEW i, NEW j, Holds(i, s), Holds(j, s)
  PROVE  IsOverlap(biow[i].io, biow[j].io)
BY Ranges DEF Holds, Covers, IsOverlap, End, Sectors

\* A read stays what it is while the writes it saw stay and the data device goes on.
LEMMA ReadKeeps ==
  ASSUME ReadOK, UNCHANGED read, ddev \in [Sectors -> Nat], ddev' \in [Sectors -> Nat],
         \A s \in Sectors : ddev[s] <= ddev'[s],
         \A s \in Sectors, i \in Lsids : Written(i, s) => Written(i, s)'
  PROVE  ReadOK'
<1>1. /\ read' = [on |-> read'.on, bios |-> read'.bios, got |-> read'.got, need |-> read'.need]
      /\ DOMAIN read'.got \subseteq Sectors /\ read'.bios \subseteq Bios
  BY DEF ReadOK
<1>2. ASSUME NEW s \in DOMAIN read'.got
      PROVE  /\ read'.got[s] \in {0} \cup Lsids /\ read'.need[s] \in Nat
             /\ \A i \in Lsids : read'.got[s] = i => Written(i, s)'
             /\ IF Awaited(s)' THEN ddev'[s] >= read'.need[s] ELSE read'.got[s] >= read'.need[s]
  <2>1. s \in DOMAIN read.got /\ s \in Sectors /\ read' = read
    BY <1>1, <1>2
  <2>2. /\ read.got[s] \in {0} \cup Lsids /\ read.need[s] \in Nat
        /\ \A i \in Lsids : read.got[s] = i => Written(i, s)
    BY <2>1 DEF ReadOK
  <2>3. IF Awaited(s) THEN ddev[s] >= read.need[s] ELSE read.got[s] >= read.need[s]
    BY <2>1 DEF ReadOK
  <2>4. Awaited(s)' <=> Awaited(s)
    BY DEF Awaited, In
  <2>5. ddev[s] \in Nat /\ ddev'[s] \in Nat /\ ddev[s] <= ddev'[s]
    BY <2>1
  <2>6. \A i \in Lsids : read'.got[s] = i => Written(i, s)'
    BY <2>1, <2>2
  <2>7. IF Awaited(s)' THEN ddev'[s] >= read'.need[s] ELSE read'.got[s] >= read'.need[s]
    BY <2>1, <2>2, <2>3, <2>4, <2>5
  <2> QED
    BY <2>1, <2>2, <2>6, <2>7
<1> QED
  BY <1>1, <1>2 DEF ReadOK

\* Whatever the users write, the log wait task takes the writes in order.
LEMMA InsertFresh ==
  ASSUME FreshInv, NEW i \in Lsids, NEW io \in WriteIos, Insert(i, io), PendingInv'
  PROVE  FreshInv'
<1>0. PendingInv /\ IosOK /\ WritesOK
  BY DEF FreshInv, PendingInv
<1>1. /\ biow[i].st = "none"
      /\ \A j \in 1..i - 1 : biow[j].st \notin {"none", "inserted"}
      /\ UNCHANGED <<ddev, read, seen>>
  BY DEF Insert
<1>2. biow'[i].st = "inserted" /\ biow'[i].io = io
  <2>1. CASE io.discard
    BY <1>0, <2>1 DEF Insert, WritesOK
  <2>2. CASE ~io.discard
    BY <1>0, <2>2 DEF Insert, WritesOK
  <2> QED
    BY <2>1, <2>2
<1>3. \A j \in Lsids \ {i} : biow'[j].st = biow[j].st /\ biow'[j].io = biow[j].io
  <2>1. CASE io.discard
    BY <1>0, <2>1 DEF Insert, WritesOK
  <2>2. CASE ~io.discard
    BY <1>0, <2>2 DEF Insert, WritesOK
  <2> QED
    BY <2>1, <2>2
<1>4. IosOK'
  BY <1>0, <1>2, <1>3 DEF IosOK
<1>5. \A j \in Lsids : j < i => j \in 1..i - 1
  BY <1>0, Ranges DEF Lsids
<1>6. \A j \in Lsids : i < j => biow[j].st = "none"
  BY <1>0, <1>1 DEF PendingInv, InOrder
<1>7. InsertedInOrder'
  <2> SUFFICES ASSUME NEW k \in Lsids, NEW j \in Lsids, j < k, biow'[k].st # "none"
               PROVE  biow'[j].st \notin {"none", "inserted"}
    BY DEF InsertedInOrder
  <2>1. CASE k = i
    <3>1. j # i
      BY <1>0, <2>1, Ranges
    <3> QED
      BY <1>1, <1>3, <1>5, <2>1, <3>1
  <2>2. CASE k # i
    <3>1. biow[k].st # "none"
      BY <1>3, <2>2
    <3>2. biow[j].st \notin {"none", "inserted"}
      BY <3>1 DEF FreshInv, InsertedInOrder
    <3> QED
      BY <1>1, <1>3, <3>2
  <2> QED
    BY <2>1, <2>2
<1>8. LandedInOrder'
  <2> SUFFICES ASSUME NEW k \in Lsids, NEW j \in Lsids, j < k, biow'[k].st \in Landed,
                      IsOverlap(biow'[k].io, biow'[j].io)
               PROVE  biow'[j].st \in {"notified", "done"}
    BY DEF LandedInOrder, IsOverlap, End
  <2>1. k # i
    BY <1>2 DEF Landed
  <2>2. biow[k].st \in Landed
    BY <1>3, <2>1
  <2>3. j # i
    BY <1>6, <2>2 DEF Landed
  <2>4. IsOverlap(biow[k].io, biow[j].io)
    BY <1>3, <2>1, <2>3
  <2>5. biow[j].st \in {"notified", "done"}
    BY <2>2, <2>4 DEF FreshInv, LandedInOrder
  <2> QED
    BY <1>3, <2>3, <2>5
<1>9. \A j \in Lsids, s \in Sectors : j # i => (Holds(j, s)' <=> Holds(j, s))
  BY <1>3 DEF Holds, Covers, End
<1>10. DdevOK'
  <2>1. \A s \in Sectors, j \in Lsids : ddev[s] = j => Holds(j, s) /\ biow[j].st \in Landed
    BY DEF FreshInv, DdevOK
  <2>2. ASSUME NEW s \in Sectors, NEW j \in Lsids, ddev'[s] = j
        PROVE  Holds(j, s)' /\ biow'[j].st \in Landed
    <3>1. Holds(j, s) /\ biow[j].st \in Landed
      BY <1>1, <2>1, <2>2
    <3>2. j # i
      BY <1>1, <3>1 DEF Landed
    <3> QED
      BY <1>3, <1>9, <3>1, <3>2
  <2>4. ASSUME NEW s \in Sectors, NEW j \in Lsids, Holds(j, s)', biow'[j].st \in Landed
        PROVE  j <= ddev'[s]
    <3>1. j # i
      BY <1>2, <2>4 DEF Landed
    <3>2. Holds(j, s) /\ biow[j].st \in Landed
      BY <1>3, <1>9, <2>4, <3>1
    <3> QED
      BY <1>1, <3>2 DEF FreshInv, DdevOK
  <2>5. ddev' \in [Sectors -> {0} \cup Lsids]
    BY <1>1 DEF FreshInv, DdevOK
  <2> QED
    BY <2>2, <2>4, <2>5 DEF DdevOK
<1>11. \A s \in Sectors, j \in Lsids : Written(j, s) => j # i /\ Written(j, s)'
  BY <1>1, <1>3, <1>9 DEF Written
<1>12. SeenOK'
  <2>1. \A s \in Sectors, j \in Lsids : seen[s] = j => Written(j, s) /\ ~biow[j].io.discard
    BY DEF FreshInv, SeenOK
  <2>2. seen \in [Sectors -> {0} \cup Lsids] /\ seen' = seen
    BY <1>1 DEF FreshInv, SeenOK
  <2>3. \A s \in Sectors, j \in Lsids : seen'[s] = j => Written(j, s)' /\ ~biow'[j].io.discard
    BY <1>3, <1>11, <2>1, <2>2
  <2> QED
    BY <2>2, <2>3 DEF SeenOK
<1>13. ReadOK'
  <2>1. ddev \in [Sectors -> Nat] /\ ddev' = ddev /\ ReadOK
    BY <1>0, <1>1, Ranges DEF FreshInv, DdevOK
  <2>2. \A s \in Sectors : ddev[s] <= ddev'[s]
    BY <2>1
  <2> QED
    BY <1>1, <1>11, <2>1, <2>2, ReadKeeps
<1> QED
  BY <1>4, <1>7, <1>8, <1>10, <1>12, <1>13 DEF FreshInv

\* A step that moves a write on without touching the data device.
LEMMA MoveFresh ==
  ASSUME FreshInv, NEW i \in Lsids, NEW st, UNCHANGED <<ddev, read, seen>>, PendingInv',
         biow'[i].st = st /\ biow'[i].io = biow[i].io,
         \A j \in Lsids \ {i} : biow'[j].st = biow[j].st /\ biow'[j].io = biow[j].io,
         \/ biow[i].st = "inserted" /\ st = "answered"
         \/ biow[i].st = "written" /\ st = "notified"
         \/ biow[i].st = "notified" /\ st = "done"
  PROVE  FreshInv'
<1>1. \A j \in Lsids : /\ biow'[j].io = biow[j].io
                       /\ biow'[j].st # "none" <=> biow[j].st # "none"
                       /\ biow'[j].st \in Landed <=> biow[j].st \in Landed
                       /\ biow[j].st \notin {"none", "inserted"}
                            => biow'[j].st \notin {"none", "inserted"}
                       /\ biow[j].st \in {"notified", "done"}
                            => biow'[j].st \in {"notified", "done"}
  BY DEF Landed
<1>2. IosOK'
  BY <1>1 DEF FreshInv, IosOK
<1>3. InsertedInOrder'
  BY <1>1 DEF FreshInv, InsertedInOrder
<1>4. LandedInOrder'
  BY <1>1 DEF FreshInv, LandedInOrder, IsOverlap, End
<1>5. \A j \in Lsids, s \in Sectors :
        (Holds(j, s)' <=> Holds(j, s)) /\ (Written(j, s)' <=> Written(j, s))
  BY <1>1 DEF Holds, Covers, End, Written
<1>6. DdevOK'
  <2>1. ddev' = ddev /\ DdevOK
    BY DEF FreshInv
  <2> QED
    BY <1>1, <1>5, <2>1 DEF DdevOK
<1>7. SeenOK'
  <2>1. seen' = seen /\ SeenOK
    BY DEF FreshInv
  <2> QED
    BY <1>1, <1>5, <2>1 DEF SeenOK
<1>8. ReadOK'
  <2>1. ddev \in [Sectors -> Nat] /\ ddev' = ddev /\ ReadOK
    <3>1. PendingInv /\ IosOK
      BY DEF FreshInv
    <3> QED
      BY <3>1, Ranges DEF FreshInv, DdevOK
  <2>2. \A s \in Sectors : ddev[s] <= ddev'[s]
    BY <2>1
  <2> QED
    BY <1>5, <2>1, <2>2, ReadKeeps
<1> QED
  BY <1>2, <1>3, <1>4, <1>6, <1>7, <1>8 DEF FreshInv

\* A write lands behind all those of its sectors that landed before.
LEMMA DdevWriteFresh ==
  ASSUME FreshInv, NEW i \in Lsids, DdevWrite(i), PendingInv'
  PROVE  FreshInv'
<1>0. PendingInv /\ IosOK /\ WritesOK
  BY DEF FreshInv, PendingInv
<1>1. /\ biow[i].st = "answered"
      /\ \A j \in 1..i - 1 : biow[j].st \in {"answered", "written"}
                               => ~IsOverlap(biow[i].io, biow[j].io)
      /\ ddev' = [s \in Sectors |-> IF s \in Covers(biow[i].io) THEN i ELSE ddev[s]]
      /\ biow' = [biow EXCEPT ![i].st = "written"]
      /\ UNCHANGED <<map, max, read, seen>>
  BY DEF DdevWrite
<1>2. \A j \in Lsids : /\ biow'[j].io = biow[j].io
                       /\ biow'[j].st = IF j = i THEN "written" ELSE biow[j].st
  BY <1>0, <1>1 DEF WritesOK
<1>3. \A j \in Lsids : j < i => j \in 1..i - 1
  BY <1>0, Ranges DEF Lsids
<1>4. IosOK'
  BY <1>1, <1>2 DEF FreshInv, IosOK
<1>5. InsertedInOrder'
  BY <1>1, <1>2 DEF FreshInv, InsertedInOrder
\* Those before it that it overlaps have been removed.
<1>6. ASSUME NEW j \in Lsids, j < i, IsOverlap(biow[i].io, biow[j].io)
      PROVE  biow[j].st \in {"notified", "done"}
  <2>1. biow[j].st \notin {"answered", "written"}
    BY <1>1, <1>3, <1>6
  <2>2. biow[j].st \notin {"none", "inserted"}
    BY <1>1, <1>6 DEF FreshInv, InsertedInOrder
  <2>3. biow[j].st \in Statuses
    BY <1>0, Ranges
  <2> QED
    BY <2>1, <2>2, <2>3 DEF Statuses
\* Those behind it that it overlaps have not landed.
<1>7. ASSUME NEW j \in Lsids, i < j, IsOverlap(biow[j].io, biow[i].io)
      PROVE  biow[j].st \notin Landed
  BY <1>1, <1>7 DEF FreshInv, LandedInOrder
<1>8. LandedInOrder'
  <2> SUFFICES ASSUME NEW k \in Lsids, NEW j \in Lsids, j < k, biow'[k].st \in Landed,
                      IsOverlap(biow'[k].io, biow'[j].io)
               PROVE  biow'[j].st \in {"notified", "done"}
    BY DEF LandedInOrder, IsOverlap, End
  <2>1. IsOverlap(biow[k].io, biow[j].io) /\ k \in Nat /\ j \in Nat
    BY <1>0, <1>2, Ranges
  <2>2. CASE k = i
    BY <1>2, <1>6, <2>1, <2>2
  <2>3. CASE k # i
    <3>1. biow[k].st \in Landed
      BY <1>2, <2>3
    <3>2. biow[j].st \in {"notified", "done"}
      BY <2>1, <3>1 DEF FreshInv, LandedInOrder
    <3> QED
      BY <1>1, <1>2, <3>2
  <2> QED
    BY <2>2, <2>3
<1>9. \A j \in Lsids, s \in Sectors : Holds(j, s)' <=> Holds(j, s)
  BY <1>2 DEF Holds, Covers, End
<1>10. /\ ddev \in [Sectors -> {0} \cup Lsids] /\ ddev' \in [Sectors -> {0} \cup Lsids]
       /\ ddev \in [Sectors -> Nat] /\ ddev' \in [Sectors -> Nat]
  <2>1. ddev \in [Sectors -> {0} \cup Lsids] /\ Lsids \subseteq Nat
    BY <1>0, Ranges DEF FreshInv, DdevOK
  <2>2. ddev' \in [Sectors -> {0} \cup Lsids]
    <3>1. \A s \in Sectors : (IF s \in Covers(biow[i].io) THEN i ELSE ddev[s]) \in {0} \cup Lsids
      BY <2>1
    <3>2. ddev' = [s \in Sectors |-> IF s \in Covers(biow[i].io) THEN i ELSE ddev[s]]
      BY <1>1
    <3> QED
      BY <3>1, <3>2, Zenon
  <2>3. {0} \cup Lsids \subseteq Nat
    BY <2>1
  <2> HIDE DEF Lsids
  <2>4. \A s \in Sectors : ddev[s] \in Nat /\ ddev'[s] \in Nat
    BY <2>1, <2>2, <2>3
  <2> QED
    BY <2>1, <2>2, <2>3, <2>4
<1>11. \A s \in Sectors : ddev'[s] = IF Holds(i, s) THEN i ELSE ddev[s]
  BY <1>1 DEF Holds
<1>12. \A s \in Sectors, j \in Lsids : ddev[s] = j => Holds(j, s) /\ biow[j].st \in Landed
  BY DEF FreshInv, DdevOK
<1>13. ASSUME NEW s \in Sectors, NEW j \in Lsids, Holds(i, s), Holds(j, s), biow[j].st \in Landed
       PROVE  j <= i
  <2>1. IsOverlap(biow[j].io, biow[i].io)
    BY <1>0, <1>13, CommonSector
  <2>2. ~(i < j)
    BY <1>7, <1>13, <2>1
  <2> QED
    BY <1>0, <2>2, Ranges
<1>14. \A s \in Sectors : ddev[s] <= ddev'[s]
  <2> SUFFICES ASSUME NEW s \in Sectors PROVE ddev[s] <= ddev'[s]
    OBVIOUS
  <2>1. ddev[s] \in Nat /\ i \in Nat /\ ddev[s] \in {0} \cup Lsids
    BY <1>0, <1>10, Ranges
  <2>2. CASE Holds(i, s) /\ ddev[s] # 0
    <3>1. ddev[s] \in Lsids
      BY <2>1, <2>2
    <3> QED
      BY <1>11, <1>12, <1>13, <2>2, <3>1
  <2>3. CASE ~(Holds(i, s) /\ ddev[s] # 0)
    BY <1>11, <2>1, <2>3
  <2> QED
    BY <2>2, <2>3
<1>15. DdevOK'
  <2>1. ASSUME NEW s \in Sectors, NEW j \in Lsids, ddev'[s] = j
        PROVE  Holds(j, s)' /\ biow'[j].st \in Landed
    <3>1. CASE Holds(i, s)
      <4>1. j = i
        BY <1>11, <2>1, <3>1
      <4> QED
        BY <1>2, <1>9, <3>1, <4>1 DEF Landed
    <3>2. CASE ~Holds(i, s)
      <4>1. ddev[s] = j
        BY <1>11, <2>1, <3>2
      <4>2. Holds(j, s) /\ biow[j].st \in Landed
        BY <1>12, <4>1
      <4>4. biow'[j].st \in Landed
        BY <1>2, <4>2 DEF Landed
      <4> QED
        BY <1>9, <4>2, <4>4
    <3> QED
      BY <3>1, <3>2
  <2>2. ASSUME NEW s \in Sectors, NEW j \in Lsids, Holds(j, s)', biow'[j].st \in Landed
        PROVE  j <= ddev'[s]
    <3>1. Holds(j, s) /\ j \in Nat /\ i \in Nat
      BY <1>0, <1>9, <2>2, Ranges
    <3>2. CASE Holds(i, s)
      <4>1. j = i \/ j <= i
        BY <1>2, <1>13, <2>2, <3>1, <3>2
      <4> QED
        BY <1>11, <3>1, <3>2, <4>1
    <3>3. CASE ~Holds(i, s)
      <4>1. j # i /\ biow[j].st \in Landed
        BY <1>2, <2>2, <3>1, <3>3
      <4>2. j <= ddev[s]
        BY <3>1, <4>1 DEF FreshInv, DdevOK
      <4> QED
        BY <1>11, <3>3, <4>2
    <3> QED
      BY <3>2, <3>3
  <2> QED
    BY <1>10, <2>1, <2>2 DEF DdevOK
<1>16. \A s \in Sectors, j \in Lsids : Written(j, s) => Written(j, s)'
  BY <1>2, <1>9 DEF Written
<1>17. SeenOK'
  <2>1. seen' = seen /\ SeenOK
    BY <1>1 DEF FreshInv
  <2> QED
    BY <1>2, <1>16, <2>1 DEF SeenOK
<1>18. ReadOK'
  <2>1. ReadOK /\ read' = read
    BY <1>1 DEF FreshInv
  <2> QED
    BY <1>10, <1>14, <1>16, <2>1, ReadKeeps
<1> QED
  BY <1>4, <1>5, <1>8, <1>15, <1>17, <1>18 DEF FreshInv

\* The newest of some writes of a sector, and 0 if there is none.
LEMMA NewestIs ==
  ASSUME PendingInv, IosOK, NEW ids \in SUBSET Lsids, NEW s
  PROVE  /\ Newest(ids, s) \in {0} \cup Lsids
         /\ Newest(ids, s) # 0 => Newest(ids, s) \in ids /\ s \in Covers(biow[Newest(ids, s)].io)
         /\ \A i \in ids : s \in Covers(biow[i].io) => i <= Newest(ids, s)
<1> DEFINE S == {0} \cup {i \in ids : s \in Covers(biow[i].io)}
<1>1. MaxWrites \in Nat /\ S \in SUBSET (0..MaxWrites) /\ S # {}
  <2>1. MaxWrites \in Nat
    BY PendingAssumption
  <2>2. \A i \in ids : i \in 0..MaxWrites
    BY <2>1 DEF Lsids
  <2> QED
    BY <2>1, <2>2
<1>2. Newest(ids, s) = Max(S)
  BY DEF Newest
<1>3. \A i \in ids : s \in Covers(biow[i].io) => i \in S
  OBVIOUS
<1>4. \A i \in S : i = 0 \/ (i \in ids /\ s \in Covers(biow[i].io))
  OBVIOUS
<1> HIDE DEF S
<1>5. Max(S) \in S /\ \A y \in S : y <= Max(S)
  BY <1>1, MaxIs
<1> QED
  BY <1>2, <1>3, <1>4, <1>5

\* A read starts.
LEMMA ReadStartFresh ==
  ASSUME FreshInv, NoneBeginsInside, NEW io \in ReadIos, ReadStart(io)
  PROVE  FreshInv'
<1>0. PendingInv /\ IosOK /\ DdevOK /\ SeenOK
  BY DEF FreshInv
<1>1. UNCHANGED <<biow, map, max, ddev, seen>>
  BY DEF ReadStart
<1>2. /\ NSectors \in Nat /\ MaxWrites \in Nat
      /\ Covers(io) \subseteq Sectors /\ \A s \in Sectors : s \in Nat
  BY <1>0, Ranges DEF Sectors
<1>3. /\ Found(io) \subseteq map /\ map \subseteq Lsids
      /\ \A i \in map : Live(i) /\ ~biow[i].io.discard /\ biow[i].io \in WriteIos
  BY <1>0 DEF PendingInv, WritesOK, MapExact, IosOK, Live, Found
<1>4. FoundOK(io)
  BY <1>3 DEF FoundOK
<1>5. CopiedUpTo(io, CopyFound(io), MaxWrites)
  BY <1>4, CopyFoundIs
\* The search finds the pending writes of a sector.
<1>6. ASSUME NEW i \in map, NEW s \in Covers(io), s \in Covers(biow[i].io)
      PROVE  i \in Found(io)
  <2>1. /\ biow[i].io.pos \in Nat /\ biow[i].io.len \in Nat /\ biow[i].io.len <= max /\ max \in Nat
        /\ io.pos \in Nat /\ io.len \in Nat
    BY <1>0, <1>3, Ranges DEF PendingInv, MaxBounds, WritesOK
  <2>2. s \in Nat /\ io.pos <= s /\ s < io.pos + io.len /\ biow[i].io.pos <= s
        /\ s < biow[i].io.pos + biow[i].io.len
    BY <1>2, <1>6, <2>1 DEF Covers, End
  <2>3. IsOverlap(biow[i].io, io)
    BY <2>1, <2>2 DEF IsOverlap, End
  <2>4. biow[i].io.pos >= IF io.pos > max THEN io.pos - max ELSE 0
    BY <2>1, <2>2
  <2> QED
    BY <2>3, <2>4 DEF Found
\* Of a sector, an old write is on the data device, or pending, or a newer one is.
<1>7. ASSUME NEW i \in Lsids, NEW s \in Covers(io), Written(i, s), ~biow[i].io.discard
      PROVE  \/ \E j \in Found(io) : i <= j /\ s \in Covers(biow[j].io)
             \/ biow[i].st = "done"
  <2> SUFFICES ASSUME biow[i].st # "done"
               PROVE  \E j \in Found(io) : i <= j /\ s \in Covers(biow[j].io)
    OBVIOUS
  <2>1. Live(i) /\ s \in Covers(biow[i].io) /\ i \in Nat
    BY <1>0, <1>7, Ranges DEF Live, Written, Holds
  <2>2. CASE i \in map
    BY <1>6, <2>1, <2>2
  <2>3. CASE i \notin map
    <3>1. biow[i].over
      BY <1>0, <2>1, <2>3 DEF PendingInv, MapExact
    <3>2. PICK j \in map : j > i /\ IsOverwrittenBy(biow[i].io, biow[j].io)
      BY <1>0, <2>1, <3>1 DEF PendingInv, Covered
    <3>3. s \in Covers(biow[j].io)
      <4>1. /\ biow[j].io.pos \in Nat /\ biow[j].io.len \in Nat
            /\ biow[i].io.pos \in Nat /\ biow[i].io.len \in Nat /\ s \in Nat
        BY <1>0, <1>2, <1>3, Ranges
      <4> QED
        BY <2>1, <3>2, <4>1 DEF Covers, End, IsOverwrittenBy
    <3>4. j \in Nat
      BY <1>0, <1>3, Ranges
    <3> QED
      BY <1>6, <2>1, <3>2, <3>3, <3>4
  <2> QED
    BY <2>2, <2>3
\* What is done is older than what is pending.
<1>8. \A i \in Lsids, j \in Found(io) : biow[i].st = "done" => i <= j
  <2> SUFFICES ASSUME NEW i \in Lsids, NEW j \in Found(io), biow[i].st = "done", ~(i <= j)
               PROVE  FALSE
    OBVIOUS
  <2>1. j < i /\ j \in Lsids
    BY <1>0, <1>3, Ranges
  <2>2. biow[j].st = "done"
    BY <1>0, <2>1 DEF PendingInv, InOrder
  <2> QED
    BY <1>3, <2>2 DEF Live
<1>9. /\ read' = [on |-> TRUE, bios |-> read'.bios, got |-> read'.got, need |-> read'.need]
      /\ read'.bios = {b \in CopyFound(io) : ~b.copied}
      /\ read'.got = [s \in Covers(io) |-> Newest(Found(io), s)]
      /\ read'.need = [s \in Covers(io) |-> Max({seen[s], Newest(Answered, s)})]
  BY DEF ReadStart
<1>10. ASSUME NEW s \in Covers(io)
       PROVE  /\ read'.got[s] \in {0} \cup Lsids /\ read'.need[s] \in Nat
              /\ \A i \in Lsids : read'.got[s] = i => Written(i, s)'
              /\ IF Awaited(s)' THEN ddev'[s] >= read'.need[s] ELSE read'.got[s] >= read'.need[s]
  <2>1. s \in Sectors /\ s \in Nat
    BY <1>2
  <2>2. Found(io) \in SUBSET Lsids /\ Answered \in SUBSET Lsids
    BY <1>3 DEF Answered, Data
  <2>3. PICK g \in {0} \cup Lsids : g = Newest(Found(io), s)
    BY <1>0, <2>2, NewestIs
  <2>4. /\ g # 0 => g \in Found(io) /\ s \in Covers(biow[g].io)
        /\ \A i \in Found(io) : s \in Covers(biow[i].io) => i <= g
    BY <1>0, <2>2, <2>3, NewestIs
  <2>5. PICK a \in {0} \cup Lsids : a = Newest(Answered, s)
    BY <1>0, <2>2, NewestIs
  <2>6. a # 0 => a \in Answered /\ s \in Covers(biow[a].io)
    BY <1>0, <2>2, <2>5, NewestIs
  <2>7. g \in Nat /\ a \in Nat /\ seen[s] \in Nat /\ ddev[s] \in Nat
        /\ seen[s] \in {0} \cup Lsids /\ \A i \in Lsids : i \in Nat
    BY <1>0, <2>1, Ranges DEF SeenOK, DdevOK
  <2>8. read'.need[s] = (IF seen[s] <= a THEN a ELSE seen[s]) /\ read'.got[s] = g
    BY <1>9, <2>3, <2>5, <2>7, TwoMax
  <2>9. \A i \in Lsids : Written(i, s)' <=> Written(i, s)
    BY <1>1 DEF Written, Holds, Covers, End
  <2>10. \A i \in Lsids : g = i => Written(i, s)
    <3>1. g # 0 => g \in Lsids /\ Written(g, s)
      BY <1>3, <2>4 DEF Written, Holds, Live
    <3>2. 0 \notin Lsids
      BY DEF Lsids
    <3> QED
      BY <3>1, <3>2
\* Each of the two that make up need
  <2>11. ASSUME NEW n \in {a, seen[s]}
         PROVE  n = 0 \/ (n \in Lsids /\ Written(n, s) /\ ~biow[n].io.discard)
    <3>1. CASE n = a
      BY <2>6, <3>1 DEF Written, Holds, Answered, Data
    <3>2. CASE n = seen[s]
      BY <1>0, <2>1, <2>7, <3>2 DEF SeenOK
    <3> QED
      BY <3>1, <3>2
  <2>12. \A n \in {a, seen[s]} : n \in Nat
    BY <2>7
\* is no newer than the data device, where no pending write is found,
  <2>13. ASSUME Awaited(s)', NEW n \in {a, seen[s]} PROVE n <= ddev[s]
    <3>1. PICK b \in CopyFound(io) : ~b.copied /\ In(s, b)
      BY <1>9, <2>13 DEF Awaited, In
    <3>2. /\ b.pos \in Nat /\ b.end \in Nat
          /\ \A i \in Found(io) : i <= MaxWrites =>
               b.end <= biow[i].io.pos \/ End(biow[i].io) <= b.pos
      BY <1>5, <3>1 DEF CopiedUpTo, Bios
    <3>3. \A i \in Found(io) : s \notin Covers(biow[i].io)
      <4> SUFFICES ASSUME NEW i \in Found(io), s \in Covers(biow[i].io) PROVE FALSE
        OBVIOUS
      <4>1. i <= MaxWrites /\ i \in Lsids
        <5>1. i \in Lsids
          BY <1>3
        <5>2. MaxWrites \in Nat
          BY <1>2
        <5> QED
          BY <5>1, <5>2 DEF Lsids
      <4>2. biow[i].io.pos \in Nat /\ biow[i].io.len \in Nat
        BY <1>0, <4>1, Ranges
      <4> QED
        BY <2>1, <3>1, <3>2, <4>1, <4>2 DEF In, Covers, End
    <3>4. CASE n = 0
      BY <2>7, <3>4
    <3>5. CASE n # 0
      <4>1. n \in Lsids /\ Written(n, s) /\ ~biow[n].io.discard
        BY <2>11, <3>5
      <4>2. biow[n].st = "done"
        BY <1>7, <3>3, <4>1
      <4> QED
        BY <1>0, <2>1, <4>1, <4>2 DEF DdevOK, Written, Landed
    <3> QED
      BY <3>4, <3>5
\* and no newer than the newest pending write otherwise.
  <2>14. ASSUME ~Awaited(s)', NEW n \in {a, seen[s]} PROVE n <= g
    <3>1. PICK b \in CopyFound(io) : In(s, b)
      BY <1>5 DEF CopiedUpTo
    <3>2. b.copied
      <4>1. ~b.copied => b \in read'.bios
        BY <1>9
      <4> QED
        BY <2>14, <3>1, <4>1 DEF Awaited, In
    <3>3. PICK i \in Found(io) : biow[i].io.pos <= b.pos /\ b.end <= End(biow[i].io)
      BY <1>5, <3>1, <3>2 DEF CopiedUpTo
    <3>4. s \in Covers(biow[i].io)
      <4>1. b.pos \in Nat /\ b.end \in Nat
        BY <1>5, <3>1 DEF CopiedUpTo, Bios
      <4>2. biow[i].io.pos \in Nat /\ biow[i].io.len \in Nat
        BY <1>0, <1>3, Ranges
      <4> QED
        BY <2>1, <3>1, <3>3, <4>1, <4>2 DEF In, Covers, End
    <3>5. i <= g /\ i \in Nat
      BY <1>3, <2>4, <2>7, <3>4
    <3>6. CASE n = 0
      BY <2>7, <3>6
    <3>7. CASE n # 0
      <4>1. n \in Lsids /\ Written(n, s) /\ ~biow[n].io.discard
        BY <2>11, <3>7
      <4>2. CASE biow[n].st = "done"
        <5>1. n <= i /\ n \in Nat
          BY <1>8, <2>7, <4>1, <4>2
        <5> QED
          BY <2>7, <3>5, <5>1
      <4>3. CASE biow[n].st # "done"
        <5>1. PICK j \in Found(io) : n <= j /\ s \in Covers(biow[j].io)
          BY <1>7, <4>1, <4>3
        <5>2. j <= g /\ j \in Nat /\ n \in Nat
          BY <1>3, <2>4, <2>7, <4>1, <5>1
        <5> QED
          BY <2>7, <5>1, <5>2
      <4> QED
        BY <4>2, <4>3
    <3> QED
      BY <3>6, <3>7
  <2>15. IF Awaited(s)' THEN ddev'[s] >= read'.need[s] ELSE read'.got[s] >= read'.need[s]
    <3>1. ddev'[s] = ddev[s]
      BY <1>1
    <3>2. Awaited(s)' => a <= ddev[s] /\ seen[s] <= ddev[s]
      BY <2>13
    <3>3. ~Awaited(s)' => a <= g /\ seen[s] <= g
      BY <2>14
    <3> QED
      BY <2>7, <2>8, <3>1, <3>2, <3>3
  <2> QED
    BY <2>7, <2>8, <2>9, <2>10, <2>15
<1>11. ReadOK'
  <2>1. DOMAIN read'.got = Covers(io)
    BY <1>9
  <2>2. read' = [on |-> read'.on, bios |-> read'.bios, got |-> read'.got, need |-> read'.need]
    <3>1. read'.on = TRUE
      BY DEF ReadStart
    <3> QED
      BY <1>9, <3>1
  <2>3. read'.bios \subseteq Bios
    BY <1>5, <1>9 DEF CopiedUpTo
  <2> QED
    BY <1>2, <1>10, <2>1, <2>2, <2>3 DEF ReadOK
<1>12. PendingInv'
  BY <1>0, <1>1 DEF PendingInv, WritesOK, InOrder, MapExact, MaxBounds, Covered, OverLive, Live
<1>13. IosOK' /\ InsertedInOrder' /\ LandedInOrder'
  BY <1>1 DEF FreshInv, IosOK, InsertedInOrder, LandedInOrder
<1>14. DdevOK' /\ SeenOK'
  BY <1>0, <1>1 DEF DdevOK, SeenOK, Written, Holds
<1> QED
  BY <1>11, <1>12, <1>13, <1>14 DEF FreshInv

\* The data device reads a bio: what it has is new enough.
LEMMA ReadDdevFresh ==
  ASSUME FreshInv, NEW bio \in read.bios, ReadDdev(bio)
  PROVE  FreshInv'
<1>0. PendingInv /\ IosOK /\ DdevOK /\ SeenOK /\ ReadOK
  BY DEF FreshInv
<1>1. UNCHANGED <<biow, map, max, ddev, seen>>
  BY DEF ReadDdev
<1>2. /\ read' = [on |-> read.on, bios |-> read'.bios, got |-> read'.got, need |-> read.need]
      /\ read'.bios = read.bios \ {bio}
      /\ read'.got = [s \in DOMAIN read.got |->
                        IF s \in bio.pos .. bio.end - 1 THEN ddev[s] ELSE read.got[s]]
      /\ read'.need = read.need /\ read'.on = read.on
  BY <1>0 DEF ReadDdev, ReadOK
<1>3. DOMAIN read'.got = DOMAIN read.got
  BY <1>2
<1>4. ASSUME NEW s \in DOMAIN read.got
      PROVE  /\ read'.got[s] \in {0} \cup Lsids /\ read'.need[s] \in Nat
             /\ \A i \in Lsids : read'.got[s] = i => Written(i, s)'
             /\ IF Awaited(s)' THEN ddev'[s] >= read'.need[s] ELSE read'.got[s] >= read'.need[s]
  <2>1. s \in Sectors /\ ddev'[s] = ddev[s]
    BY <1>0, <1>1, <1>4 DEF ReadOK
  <2>2. /\ read.got[s] \in {0} \cup Lsids /\ read.need[s] \in Nat
        /\ \A i \in Lsids : read.got[s] = i => Written(i, s)
    BY <1>0, <1>4 DEF ReadOK
  <2>3. IF Awaited(s) THEN ddev[s] >= read.need[s] ELSE read.got[s] >= read.need[s]
    BY <1>0, <1>4 DEF ReadOK
  <2>4. \A i \in Lsids : Written(i, s)' <=> Written(i, s)
    BY <1>1 DEF Written, Holds, Covers, End
  <2>5. ddev[s] \in {0} \cup Lsids /\ \A i \in Lsids : ddev[s] = i => Written(i, s)
    BY <1>0, <2>1 DEF DdevOK, Written, Landed
  <2>6. read'.got[s] = IF s \in bio.pos .. bio.end - 1 THEN ddev[s] ELSE read.got[s]
    BY <1>2, <1>4
  <2>7. Awaited(s)' => Awaited(s)
    BY <1>2 DEF Awaited, In
  <2>8. Awaited(s) /\ ~Awaited(s)' => In(s, bio)
    BY <1>2 DEF Awaited, In
  <2>9. s \in Int /\ (s \in bio.pos .. bio.end - 1 => Awaited(s))
    <3>1. s \in Int
      BY <1>0, <2>1, Ranges DEF Sectors
    <3>2. bio.pos \in Nat /\ bio.end \in Nat
      BY <1>0 DEF ReadOK, Bios
    <3> QED
      BY <3>1, <3>2 DEF Awaited, In
  <2>10. In(s, bio) <=> s \in bio.pos .. bio.end - 1
    <3>1. bio.pos \in Nat /\ bio.end \in Nat
      BY <1>0 DEF ReadOK, Bios
    <3> QED
      BY <2>9, <3>1 DEF In
  <2>11. ddev[s] \in Nat /\ read.got[s] \in Nat
    <3>1. {0} \cup Lsids \subseteq Nat
      BY <1>0, Ranges
    <3> QED
      BY <2>2, <2>5, <3>1
  <2>12. IF Awaited(s)' THEN ddev'[s] >= read'.need[s] ELSE read'.got[s] >= read'.need[s]
    <3>1. read'.need[s] = read.need[s] /\ ddev'[s] = ddev[s] /\ read.need[s] \in Nat
      BY <1>2, <2>1, <2>2
    <3>2. CASE Awaited(s)'
      BY <2>3, <2>7, <3>1, <3>2
    <3>3. CASE ~Awaited(s)' /\ Awaited(s)
      <4>1. read'.got[s] = ddev[s]
        BY <2>6, <2>8, <2>10, <3>3
      <4> QED
        BY <2>3, <3>1, <3>3, <4>1
    <3>4. CASE ~Awaited(s)' /\ ~Awaited(s)
      <4>1. read'.got[s] = read.got[s]
        BY <2>6, <2>9, <3>4
      <4> QED
        BY <2>3, <3>1, <3>4, <4>1
    <3> QED
      BY <3>2, <3>3, <3>4
  <2>13. read'.got[s] \in {0} \cup Lsids /\ \A i \in Lsids : read'.got[s] = i => Written(i, s)
    BY <2>2, <2>5, <2>6
  <2> QED
    BY <1>2, <2>2, <2>4, <2>12, <2>13
<1>5. ReadOK'
  <2>1. read' = [on |-> read'.on, bios |-> read'.bios, got |-> read'.got, need |-> read'.need]
    BY <1>2
  <2>2. DOMAIN read.got \subseteq Sectors /\ read'.bios \subseteq Bios
    BY <1>0, <1>2 DEF ReadOK
  <2> QED
    BY <1>3, <1>4, <2>1, <2>2 DEF ReadOK
<1>12. PendingInv'
  BY <1>0, <1>1 DEF PendingInv, WritesOK, InOrder, MapExact, MaxBounds, Covered, OverLive, Live
<1>13. IosOK' /\ InsertedInOrder' /\ LandedInOrder'
  BY <1>1 DEF FreshInv, IosOK, InsertedInOrder, LandedInOrder
<1>14. DdevOK' /\ SeenOK'
  BY <1>0, <1>1 DEF DdevOK, SeenOK, Written, Holds
<1> QED
  BY <1>5, <1>12, <1>13, <1>14 DEF FreshInv

\* A read ends: what it returned was written.
LEMMA ReadEndFresh ==
  ASSUME FreshInv, ReadEnd
  PROVE  FreshInv'
<1>0. PendingInv /\ IosOK /\ DdevOK /\ SeenOK /\ ReadOK
  BY DEF FreshInv
<1>1. /\ UNCHANGED <<biow, map, max, ddev>> /\ read' = NoRead
      /\ seen' = [s \in Sectors |-> IF s \in DOMAIN read.got /\ read.got[s] \in Data
                                     THEN read.got[s] ELSE seen[s]]
  BY DEF ReadEnd
<1>2. \A i \in Lsids, s \in Sectors : Written(i, s)' <=> Written(i, s)
  BY <1>1 DEF Written, Holds, Covers, End
<1>3. SeenOK'
  <2>1. ASSUME NEW s \in Sectors
        PROVE  /\ seen'[s] \in {0} \cup Lsids
               /\ \A i \in Lsids : seen'[s] = i => Written(i, s)' /\ ~biow'[i].io.discard
    <3>1. CASE s \in DOMAIN read.got /\ read.got[s] \in Data
      <4>1. seen'[s] = read.got[s]
        BY <1>1, <3>1
      <4>2. /\ read.got[s] \in {0} \cup Lsids
            /\ \A i \in Lsids : read.got[s] = i => Written(i, s)
        BY <1>0, <3>1 DEF ReadOK
      <4>3. \A i \in Lsids : read.got[s] = i => ~biow[i].io.discard
        BY <3>1 DEF Data
      <4> QED
        BY <1>1, <1>2, <4>1, <4>2, <4>3
    <3>2. CASE ~(s \in DOMAIN read.got /\ read.got[s] \in Data)
      <4>1. seen'[s] = seen[s]
        BY <1>1, <3>2
      <4> QED
        BY <1>0, <1>1, <1>2, <4>1 DEF SeenOK
    <3> QED
      BY <3>1, <3>2
  <2>2. seen' = [s \in Sectors |-> seen'[s]]
    BY <1>1
  <2>3. seen' \in [Sectors -> {0} \cup Lsids]
    BY <2>1, <2>2
  <2> QED
    BY <2>1, <2>3 DEF SeenOK
<1>4. ReadOK'
  <2>1. read'.got = <<>> /\ read'.bios = {}
    BY <1>1 DEF NoRead
  <2>2. DOMAIN read'.got = {}
    BY <2>1
  <2>3. read' = [on |-> read'.on, bios |-> read'.bios, got |-> read'.got, need |-> read'.need]
    BY <1>1 DEF NoRead
  <2> QED
    BY <2>1, <2>2, <2>3 DEF ReadOK
<1>12. PendingInv'
  BY <1>0, <1>1 DEF PendingInv, WritesOK, InOrder, MapExact, MaxBounds, Covered, OverLive, Live
<1>13. IosOK' /\ InsertedInOrder' /\ LandedInOrder'
  BY <1>1 DEF FreshInv, IosOK, InsertedInOrder, LandedInOrder
<1>14. DdevOK'
  BY <1>0, <1>1 DEF DdevOK, Holds
<1> QED
  BY <1>3, <1>4, <1>12, <1>13, <1>14 DEF FreshInv

\* FreshInv holds at the start.
LEMMA InitFresh == Init => FreshInv
<1> SUFFICES ASSUME Init PROVE FreshInv
  OBVIOUS
<1>1. PendingInv
  BY InitPending
<1>2. /\ \A i \in Lsids : /\ biow[i].st = "none"
                           /\ biow[i].io = [pos |-> 0, len |-> 0, discard |-> FALSE]
      /\ ddev = [s \in Sectors |-> 0] /\ seen = [s \in Sectors |-> 0] /\ read = NoRead
  BY DEF Init, NoBiow
<1>3. IosOK /\ InsertedInOrder /\ LandedInOrder
  BY <1>2 DEF IosOK, InsertedInOrder, LandedInOrder, Landed
<1>4. 0 \notin Lsids
  BY DEF Lsids
<1>5. DdevOK
  BY <1>2, <1>4 DEF DdevOK, Landed
<1>6. SeenOK
  BY <1>2, <1>4 DEF SeenOK
<1>7. ReadOK
  <2>1. read.got = <<>> /\ read.bios = {}
    BY <1>2 DEF NoRead
  <2>2. DOMAIN read.got = {}
    BY <2>1
  <2>3. read = [on |-> read.on, bios |-> read.bios, got |-> read.got, need |-> read.need]
    BY <1>2 DEF NoRead
  <2> QED
    BY <2>1, <2>2, <2>3 DEF ReadOK
<1> QED
  BY <1>1, <1>3, <1>5, <1>6, <1>7 DEF FreshInv

\* FreshInv is kept by every step.
LEMMA NextKeepsFresh ==
  ASSUME NoneBeginsInside, FreshInv, [Next]_vars
  PROVE  FreshInv'
<1>0. PendingInv' /\ PendingInv /\ WritesOK
  BY NextKeepsPending DEF FreshInv, PendingInv
<1>1. ASSUME NEW i \in Lsids, NEW io \in WriteIos, Insert(i, io) PROVE FreshInv'
  BY <1>0, <1>1, InsertFresh
<1>2. ASSUME NEW i \in Lsids, Answer(i) \/ Notify(i) \/ Delete(i) PROVE FreshInv'
  <2>1. UNCHANGED <<ddev, read, seen>>
    BY <1>2 DEF Answer, Notify, Delete
  <2>2. PICK st \in {"answered", "notified", "done"} :
          /\ biow'[i].st = st /\ biow'[i].io = biow[i].io
          /\ \/ biow[i].st = "inserted" /\ st = "answered"
             \/ biow[i].st = "written" /\ st = "notified"
             \/ biow[i].st = "notified" /\ st = "done"
    <3>1. CASE Answer(i)
      BY <1>0, <3>1 DEF Answer, WritesOK
    <3>2. CASE Notify(i)
      BY <1>0, <3>2 DEF Notify, WritesOK
    <3>3. CASE Delete(i)
      BY <1>0, <3>3 DEF Delete, WritesOK
    <3> QED
      BY <1>2, <3>1, <3>2, <3>3
  <2>3. \A j \in Lsids \ {i} : biow'[j].st = biow[j].st /\ biow'[j].io = biow[j].io
    BY <1>0, <1>2 DEF Answer, Notify, Delete, WritesOK
  <2> QED
    BY <1>0, <2>1, <2>2, <2>3, MoveFresh
<1>3. ASSUME NEW i \in Lsids, DdevWrite(i) PROVE FreshInv'
  BY <1>0, <1>3, DdevWriteFresh
<1>4. ASSUME NEW io \in ReadIos, ReadStart(io) PROVE FreshInv'
  BY <1>4, ReadStartFresh
<1>5. ASSUME NEW bio \in read.bios, ReadDdev(bio) PROVE FreshInv'
  BY <1>5, ReadDdevFresh
<1>6. ASSUME ReadEnd PROVE FreshInv'
  BY <1>6, ReadEndFresh
<1>7. ASSUME UNCHANGED vars PROVE FreshInv'
  <2>1. UNCHANGED <<biow, map, max, ddev, read, seen>>
    BY <1>7 DEF vars
  <2> QED
    BY <1>0, <2>1 DEF FreshInv, IosOK, InsertedInOrder, LandedInOrder, DdevOK, SeenOK, ReadOK,
       Written, Holds, Awaited, IsOverlap, End, Covers
<1> QED
  BY <1>1, <1>2, <1>3, <1>4, <1>5, <1>6, <1>7, Zenon DEF Next

\* If no write begins inside another one, discards left aside, a read returns of each sector
\* a write at least as new as every one that was answered or read before it began.
THEOREM ReadFreshThm ==
  ASSUME NoneBeginsInside
  PROVE  Spec => []ReadFresh
<1>1. FreshInv => ReadFresh
  <2> SUFFICES ASSUME FreshInv, read.on, read.bios = {}, NEW s \in DOMAIN read.got
               PROVE  read.got[s] >= read.need[s]
    BY DEF ReadFresh
  <2>1. ~Awaited(s)
    BY DEF Awaited
  <2> QED
    BY <2>1 DEF FreshInv, ReadOK
<1>2. FreshInv /\ [Next]_vars => FreshInv'
  BY NextKeepsFresh
<1> QED
  BY <1>1, <1>2, InitFresh, PTL DEF Spec
=============================================================================
